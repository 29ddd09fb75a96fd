------------------------------- MODULE WebSocket -------------------------------
(***************************************************************************)
(* One WebSocket connection: accept, read_frame, read_message, send_frame  *)
(* and the send_ functions (net/websocket.hpp), used by one coroutine as   *)
(* in the echo server of test/websocket_server.cpp.  The socket underneath *)
(* delivers a stream in pieces of any size (module StreamTransfer).        *)
(*                                                                         *)
(* The format of a frame is kept with smaller numbers: a byte is a digit   *)
(* to the base Base, a length up to SmallMax (125) fits the second byte,   *)
(* one of two digits follows the code SmallMax + 1 (126), one of WideLen   *)
(* digits (8) the code SmallMax + 2 (127), and a masking key has MaskLen   *)
(* digits (4).  Exclusive or of two digits is their sum, which is its own  *)
(* inverse only if Base is 2.                                              *)
(***************************************************************************)
EXTENDS Integers, Sequences, SequencesExt, FiniteSetsExt

CONSTANTS
    Requests,       \* what clients ask: [parts, malformed, get, headers, origin, protocols]
    Options,        \* server_options: [check_origin, allowed_origins, subprotocols, max_request_size]
    ClientFrames,   \* frames a client sends: [fin, rsv, op, mask, key, payload]
    MaxFrames,      \* bound on the frames a client sends
    SmallMax, WideLen, MaskLen, MaxFrameSize,
    None

Base == 2
Control == {"close", "ping", "pong"}
Opcodes == Control \cup {"continuation", "text", "binary", "reserved"}
DefaultCode == 2        \* message::close_code, 1000 in the code

VARIABLES
    req, opts,      \* the request of this client and the options of accept
    client,         \* "open", "shut" (no more to come) or "reset"
    in, sent,       \* bytes on their way to the server; frames the client has sent
    out,            \* bytes the server has sent after its answer to the request
    place,          \* where the server's coroutine is
    total, result,  \* accept: total_bytes and the accept_result
    got, fr,        \* read_frame: bytes of the current item, the frame so far
    buffer, started, current_opcode,    \* read_message
    msg,            \* the frame being sent, or None
    after           \* what follows once it is sent

acceptVars == <<req, opts, total, result>>
clientVars == <<client, sent>>
messageVars == <<buffer, started, current_opcode>>
sendVars == <<out, msg, after>>
webSocketVars == <<acceptVars, clientVars, in, place, got, fr, messageVars, sendVars>>

-----------------------------------------------------------------------------
(* Names that are compared without regard to case: <<name, spelling>>.     *)

to_lower(s) == s[1]

(* The first protocol the client names that the server supports, in the     *)
(* server's spelling.                                                       *)
pick_subprotocol(client_protocols, server_protocols) ==
    LET Match(i) == { j \in DOMAIN server_protocols :
                        to_lower(client_protocols[i]) = to_lower(server_protocols[j]) }
        Hits == { i \in DOMAIN client_protocols : Match(i) # {} }
    IN  IF Hits = {} THEN None ELSE server_protocols[Min(Match(Min(Hits)))]

-----------------------------------------------------------------------------
(* The bytes of a frame, as send_frame makes them.                         *)

(* n without its last k digits.                                             *)
ShiftRight(n, k) ==
    LET shifted[i \in 0 .. k] == IF i = 0 THEN n ELSE shifted[i - 1] \div Base
    IN  shifted[k]

Digits(n, width) == [i \in 1 .. width |-> ShiftRight(n, width - i) % Base]

Number(digits) ==
    LET number[i \in 0 .. Len(digits)] ==
            IF i = 0 THEN 0 ELSE number[i - 1] * Base + digits[i]
    IN  number[Len(digits)]

Bytes(digits) == [i \in DOMAIN digits |-> [b |-> digits[i]]]
Value(bytes) == [i \in DOMAIN bytes |-> bytes[i].b]

(* payload[i] ^= mask_bytes[i % 4], with i from 0.                          *)
xor_mask(payload, key) ==
    [i \in DOMAIN payload |-> (payload[i] + key[((i - 1) % MaskLen) + 1]) % Base]

LengthCode(n) ==
    IF n <= SmallMax THEN n ELSE IF n < Base * Base THEN SmallMax + 1 ELSE SmallMax + 2

LengthBytes(n) ==
    IF n <= SmallMax THEN << >> ELSE Bytes(Digits(n, IF n < Base * Base THEN 2 ELSE WideLen))

Header(f) ==
    LET n == Len(f.payload)
    IN  <<[fin |-> f.fin, rsv |-> f.rsv, op |-> f.op], [mask |-> f.mask, len |-> LengthCode(n)]>>
        \o LengthBytes(n) \o (IF f.mask THEN Bytes(f.key) ELSE << >>)

Body(f) == Bytes(IF f.mask THEN xor_mask(f.payload, f.key) ELSE f.payload)

Wire(f) == Header(f) \o Body(f)

Frame(op, payload) ==
    [fin |-> TRUE, rsv |-> FALSE, op |-> op, mask |-> FALSE, key |-> << >>, payload |-> payload]

NoFrame == Frame("continuation", << >>)

Frames ==
    [fin : BOOLEAN, rsv : BOOLEAN, op : Opcodes, mask : BOOLEAN,
     key : Seq(0 .. Base - 1), payload : Seq(0 .. Base - 1)]

(* A length fits the digits it has in the frame, a masked frame has a key.  *)
ASSUME FrameAssumption ==
    /\ MaxFrames \in Nat /\ SmallMax \in Nat /\ MaxFrameSize \in Nat
    /\ WideLen \in Nat \ {0, 1, 2} /\ MaskLen \in Nat \ {0}
    /\ ClientFrames \subseteq Frames
    /\ \A f \in ClientFrames :
          ShiftRight(Len(f.payload), WideLen) = 0 /\ (f.mask => Len(f.key) = MaskLen)

ASSUME RequestAssumption ==
    /\ \A r \in Requests :
          /\ r.parts \in Nat /\ DOMAIN r.protocols \subseteq Nat
          /\ r.malformed \in BOOLEAN /\ r.get \in BOOLEAN
    /\ \A o \in Options :
          /\ o.max_request_size \in Nat /\ o.check_origin \in BOOLEAN
          /\ DOMAIN o.subprotocols \subseteq Nat

ASSUME NoneAssumption == None \notin Frames /\ None \notin {400, 403, 405}

-----------------------------------------------------------------------------

WebSocketInit ==
    /\ req \in Requests /\ opts \in Options
    /\ client = "open" /\ in = << >> /\ sent = << >> /\ out = << >>
    /\ place = "recv_request" /\ total = 0
    /\ result = [ok |-> FALSE, status_code |-> None, protocol |-> None]
    /\ got = << >> /\ fr = NoFrame
    /\ buffer = << >> /\ started = FALSE /\ current_opcode = "continuation"
    /\ msg = None /\ after = None

-----------------------------------------------------------------------------
(* The client: sends its request in parts, waits for the answer, then      *)
(* sends frames.  It may stop or break the connection at any time.         *)

ClientRequests ==
    /\ client = "open" /\ place = "recv_request" /\ in = << >> /\ total < req.parts
    /\ \E k \in 1 .. req.parts - total : in' = [i \in 1 .. k |-> [http |-> total + i]]
    /\ UNCHANGED <<acceptVars, clientVars, place, got, fr, messageVars, sendVars>>

ClientSends(f) ==
    /\ client = "open" /\ result.ok /\ Len(sent) < MaxFrames
    /\ in' = in \o Wire(f)
    /\ sent' = Append(sent, f)
    /\ UNCHANGED <<acceptVars, client, place, got, fr, messageVars, sendVars>>

ClientShuts ==
    /\ client = "open"
    /\ client' = "shut"
    /\ UNCHANGED <<acceptVars, in, sent, place, got, fr, messageVars, sendVars>>

ClientResets ==
    /\ client = "open"
    /\ client' = "reset" /\ in' = << >>
    /\ UNCHANGED <<acceptVars, sent, place, got, fr, messageVars, sendVars>>

-----------------------------------------------------------------------------
(* accept                                                                  *)

Reject(code) ==
    /\ result' = [result EXCEPT !.status_code = code]
    /\ place' = "return"

(* recv: an error gives 500, the end of the stream 0 and no answer.         *)
AcceptNoData ==
    /\ place = "recv_request" /\ in = << >> /\ client # "open"
    /\ Reject(IF client = "reset" THEN 500 ELSE 0)
    /\ UNCHANGED <<req, opts, clientVars, in, total, got, fr, messageVars, sendVars>>

(* The parser's callbacks have seen the end of the request.                 *)
message_complete(bytes) == bytes = req.parts

(* recv: the size is checked first, then the parser is run.                 *)
AcceptData ==
    /\ place = "recv_request" /\ in # << >>
    /\ total' = total + Len(in)
    /\ in' = << >>
    /\ IF total' > opts.max_request_size THEN Reject(431)
       ELSE IF req.malformed THEN Reject(400)
       ELSE place' = (IF message_complete(total') THEN "verdict" ELSE place) /\ UNCHANGED result
    /\ UNCHANGED <<req, opts, clientVars, got, fr, messageVars, sendVars>>

(* The headers that must be there with the right value; "connection" is a   *)
(* list that has to contain upgrade.                                        *)
Wanted == {"upgrade", "connection", "version", "key"}
HeadersValid == Wanted \subseteq req.headers

OriginAllowed ==
    \/ ~ opts.check_origin \/ opts.allowed_origins = {}
    \/ req.origin # None /\ \E o \in opts.allowed_origins : to_lower(req.origin) = to_lower(o)

(* The request is complete: the answer, in the order of the checks.         *)
AcceptRefuses ==
    /\ place = "verdict"
    /\ \/ ~ req.get /\ Reject(405)
       \/ req.get /\ ~ HeadersValid /\ Reject(400)
       \/ req.get /\ HeadersValid /\ ~ OriginAllowed /\ Reject(403)
    /\ UNCHANGED <<req, opts, clientVars, in, total, got, fr, messageVars, sendVars>>

AcceptSwitches ==
    /\ place = "verdict"
    /\ req.get /\ HeadersValid /\ OriginAllowed
    /\ \/ Reject(500)           \* compute_accept_key or send_all failed
       \/ /\ client # "reset"
          /\ result' = [ok |-> TRUE, status_code |-> 101,
                        protocol |-> pick_subprotocol(req.protocols, opts.subprotocols)]
          /\ place' = "head"
    /\ UNCHANGED <<req, opts, clientVars, in, total, got, fr, messageVars, sendVars>>

-----------------------------------------------------------------------------
(* read_frame: each item is received in a loop of its own.                 *)

Item(stage) ==
    CASE stage = "head" -> 2
      [] stage = "length16" -> 2
      [] stage = "length64" -> WideLen
      [] stage = "mask" -> MaskLen
      [] stage = "payload" -> fr.len

Reading == place \in {"head", "length16", "length64", "mask", "payload"}

RecvPiece ==
    /\ Reading /\ Len(got) < Item(place) /\ in # << >>
    /\ \E k \in 1 .. Min({Item(place) - Len(got), Len(in)}) :
          /\ got' = got \o SubSeq(in, 1, k)
          /\ in' = SubSeq(in, k + 1, Len(in))
    /\ UNCHANGED <<acceptVars, clientVars, place, fr, messageVars, sendVars>>

(* Variant with a fault: the end of the stream is taken for no data yet.    *)
RecvFailsOnError ==
    /\ Reading /\ Len(got) < Item(place) /\ in = << >> /\ client = "reset"
    /\ place' = "close"
    /\ UNCHANGED <<acceptVars, clientVars, in, got, fr, messageVars, sendVars>>

(* End of the stream or an error: the read fails.                           *)
RecvFails ==
    /\ Reading /\ Len(got) < Item(place) /\ in = << >> /\ client # "open"
    /\ place' = "close"
    /\ UNCHANGED <<acceptVars, clientVars, in, got, fr, messageVars, sendVars>>

(* What is read next once the length is known; the size is checked before   *)
(* the mask is asked for.                                                   *)
AfterLength(f) ==
    IF f.len > MaxFrameSize THEN "close"            \* -EMSGSIZE
    ELSE IF f.mask THEN "mask" ELSE "close"         \* -EPROTO: require_masked_client

HeadDone ==
    /\ place = "head" /\ Len(got) = 2
    /\ fr' = [fin |-> got[1].fin, op |-> got[1].op, mask |-> got[2].mask, len |-> got[2].len,
              key |-> << >>]
    /\ place' = IF got[1].rsv THEN "close"             \* -EPROTO
             ELSE IF fr'.len = SmallMax + 1 THEN "length16"
             ELSE IF fr'.len = SmallMax + 2 THEN "length64"
             ELSE AfterLength(fr')
    /\ got' = << >>
    /\ UNCHANGED <<acceptVars, clientVars, in, messageVars, sendVars>>

LengthDone ==
    /\ place \in {"length16", "length64"} /\ Len(got) = Item(place)
    /\ fr' = [fr EXCEPT !.len = Number(Value(got))]
    /\ place' = AfterLength(fr')
    /\ got' = << >>
    /\ UNCHANGED <<acceptVars, clientVars, in, messageVars, sendVars>>

MaskDone ==
    /\ place = "mask" /\ Len(got) = MaskLen
    /\ fr' = [fr EXCEPT !.key = Value(got)]
    /\ place' = "payload"
    /\ got' = << >>
    /\ UNCHANGED <<acceptVars, clientVars, in, messageVars, sendVars>>

-----------------------------------------------------------------------------
(* read_message takes the frame.                                           *)

(* auto_unmask                                                              *)
Payload == xor_mask(Value(got), fr.key)
FrameRead == place = "payload" /\ Len(got) = fr.len

Send(f, next) == msg' = f /\ after' = next /\ place' = "send_header"

(* A ping is answered, whatever message is being put together.              *)
OnPing ==
    /\ FrameRead /\ fr.op = "ping"
    /\ Send(Frame("pong", Payload), "head")
    /\ got' = << >>
    /\ UNCHANGED <<acceptVars, clientVars, in, fr, messageVars, out>>

(* Variant with a fault: a control frame in between starts over.            *)
OnPongForgets ==
    /\ FrameRead /\ fr.op = "pong"
    /\ place' = "head"
    /\ got' = << >> /\ started' = FALSE
    /\ UNCHANGED <<acceptVars, clientVars, in, fr, buffer, current_opcode, sendVars>>

OnPong ==
    /\ FrameRead /\ fr.op = "pong"
    /\ place' = "head"
    /\ got' = << >>
    /\ UNCHANGED <<acceptVars, clientVars, in, fr, messageVars, sendVars>>

(* A close ends read_message; the server answers with send_close, which     *)
(* puts the code into two bytes and the reason behind them.                 *)
OnClose ==
    /\ FrameRead /\ fr.op = "close"
    /\ LET close_code == IF Len(Payload) >= 2 THEN Number(SubSeq(Payload, 1, 2)) ELSE DefaultCode
           close_reason == SubSeq(Payload, 3, Len(Payload))
       IN  Send(Frame("close", Digits(close_code, 2) \o close_reason), "close")
    /\ got' = << >>
    /\ UNCHANGED <<acceptVars, clientVars, in, fr, messageVars, out>>

(* A frame that does not continue the message under way, or continues none. *)
OutOfSequence == (fr.op = "continuation") # started

OnBadSequence ==
    /\ FrameRead /\ fr.op \notin Control /\ OutOfSequence
    /\ place' = "close"                                \* -EPROTO
    /\ got' = << >>
    /\ UNCHANGED <<acceptVars, clientVars, in, fr, messageVars, sendVars>>

OnFragment ==
    /\ FrameRead /\ fr.op \notin Control /\ ~ OutOfSequence /\ ~ fr.fin
    /\ buffer' = (IF started THEN buffer ELSE << >>) \o Payload
    /\ current_opcode' = IF started THEN current_opcode ELSE fr.op
    /\ started' = TRUE
    /\ place' = "head" /\ got' = << >>
    /\ UNCHANGED <<acceptVars, clientVars, in, fr, sendVars>>

(* The message is complete; the server echoes it if it is text or binary    *)
(* and calls read_message again.                                            *)
OnMessage ==
    /\ FrameRead /\ fr.op \notin Control /\ ~ OutOfSequence /\ fr.fin
    /\ LET op == IF started THEN current_opcode ELSE fr.op
           payload == (IF started THEN buffer ELSE << >>) \o Payload
       IN  IF op \in {"text", "binary"}
             THEN Send(Frame(op, payload), "head")
             ELSE place' = "head" /\ UNCHANGED <<msg, after>>
    /\ buffer' = << >> /\ started' = FALSE /\ current_opcode' = "continuation"
    /\ got' = << >>
    /\ UNCHANGED <<acceptVars, clientVars, in, fr, out>>

-----------------------------------------------------------------------------
(* send_frame: the header and the payload are two calls of send_all.       *)

SendDone == place' = after /\ msg' = None /\ after' = None

SendHeader ==
    /\ place = "send_header"
    /\ \/ /\ client = "reset"                       \* sent < 0
          /\ SendDone /\ UNCHANGED out
       \/ /\ client # "reset"
          /\ out' = out \o Header(msg)
          /\ IF msg.payload = << >> THEN SendDone
             ELSE place' = "send_payload" /\ UNCHANGED <<msg, after>>
    /\ UNCHANGED <<acceptVars, clientVars, in, got, fr, messageVars>>

SendPayload ==
    /\ place = "send_payload"
    /\ out' = IF client = "reset" THEN out ELSE out \o Body(msg)
    /\ SendDone
    /\ UNCHANGED <<acceptVars, clientVars, in, got, fr, messageVars>>

(* The handler ends: accept or the handler closes the socket, or its        *)
(* destructor does.                                                         *)
Close ==
    /\ place \in {"return", "close"}
    /\ place' = "closed"
    /\ UNCHANGED <<acceptVars, clientVars, in, got, fr, messageVars, sendVars>>

-----------------------------------------------------------------------------

Accept == AcceptNoData \/ AcceptData \/ AcceptRefuses \/ AcceptSwitches
ReadFrame == RecvPiece \/ RecvFails \/ HeadDone \/ LengthDone \/ MaskDone
ReadMessage == OnPing \/ OnPong \/ OnClose \/ OnBadSequence \/ OnFragment \/ OnMessage
SendFrame == SendHeader \/ SendPayload

Server == Accept \/ ReadFrame \/ ReadMessage \/ SendFrame \/ Close
Client == ClientRequests \/ ClientShuts \/ ClientResets \/ \E f \in ClientFrames : ClientSends(f)

WebSocketNext == Server \/ Client

WebSocketSpec == WebSocketInit /\ [][WebSocketNext]_webSocketVars

(* The coroutine is resumed whenever it can go on (StreamTransfer,          *)
(* EndReleasesAll).  Nothing is asked of the client.                        *)
WebSocketFairSpec == WebSocketSpec /\ WF_webSocketVars(Server)

-----------------------------------------------------------------------------
(* Properties.                                                             *)

Places == {"recv_request", "verdict", "return", "head", "length16", "length64", "mask",
           "payload", "send_header", "send_payload", "close", "closed"}

(* The variables have their types; a frame is being sent exactly where      *)
(* send_frame is, and no item holds more than was asked for.                *)
WebSocketTypeOK ==
    /\ req \in Requests /\ opts \in Options /\ place \in Places
    /\ client \in {"open", "shut", "reset"}
    /\ sent \in Seq(ClientFrames) /\ Len(sent) <= MaxFrames
    /\ total \in 0 .. req.parts
    /\ result.status_code \in {None, 0, 101, 400, 403, 405, 431, 500}
    /\ started \in BOOLEAN /\ buffer \in Seq(0 .. Base - 1)
    /\ (msg = None) = (place \notin {"send_header", "send_payload"})
    /\ Reading => Len(got) <= Item(place)

(* What a list of frames calls for, read off the whole of it.               *)
DataFrames(frames) == { i \in DOMAIN frames : frames[i].op \notin Control }

FirstPart(frames, i) ==
    1 + Max({0} \cup { j \in DataFrames(frames) : j < i /\ frames[j].fin })

Parts(frames, i) == { j \in FirstPart(frames, i) .. i : j \in DataFrames(frames) }

Refused(frames, i) ==
    LET f == frames[i]
    IN  \/ f.rsv \/ ~ f.mask \/ Len(f.payload) > MaxFrameSize
        \/ i \in DataFrames(frames) /\ (f.op = "continuation") # (Parts(frames, i) # {i})

Handled(frames, i) ==
    \A j \in 1 .. i - 1 : ~ Refused(frames, j) /\ frames[j].op # "close"

Whole(frames, i) ==
    FlattenSeq([k \in 1 .. i |-> IF k \in Parts(frames, i) THEN frames[k].payload ELSE << >>])

Reply(frames, i) ==
    LET op == frames[i].op  payload == frames[i].payload
        type == frames[Min(Parts(frames, i))].op
    IN  IF ~ Handled(frames, i) \/ Refused(frames, i) THEN None
        ELSE IF op = "ping" THEN Frame("pong", payload)
        ELSE IF op = "close"
          THEN Frame("close", IF Len(payload) < 2 THEN Digits(DefaultCode, 2) ELSE payload)
        ELSE IF i \in DataFrames(frames) /\ frames[i].fin /\ type \in {"text", "binary"}
          THEN Frame(type, Whole(frames, i))
        ELSE None

ReplyBytes(frames, i) ==
    IF Reply(frames, i) = None THEN << >> ELSE Wire(Reply(frames, i))

Answer(frames) == FlattenSeq([i \in DOMAIN frames |-> ReplyBytes(frames, i)])

(* However the stream is cut into pieces, the server sends what the frames  *)
(* call for, in order: each message echoed once and whole, unmasked, with   *)
(* the type of its first fragment, each ping answered even in the middle of *)
(* a message, and nothing after a close or a bad frame.                     *)
EchoInOrder == IsPrefix(out, Answer(sent))

(* And it sends all of it before it closes, unless the client has broken    *)
(* the connection.                                                          *)
AllAnswered == place = "closed" /\ result.ok /\ client # "reset" => out = Answer(sent)

(* accept switches protocols for exactly the requests it should, whatever   *)
(* parts they come in, and picks the subprotocol the client likes best of   *)
(* those the server has.                                                    *)
HandshakeSound ==
    LET Origins == { o[1] : o \in opts.allowed_origins }
        Good == /\ ~ req.malformed /\ req.get /\ Wanted \subseteq req.headers
                /\ opts.check_origin /\ Origins # {} => req.origin # None /\ req.origin[1] \in Origins
        Common == { i \in DOMAIN req.protocols :
                      \E q \in Range(opts.subprotocols) : q[1] = req.protocols[i][1] }
    IN  /\ result.ok => Good /\ total = req.parts /\ total <= opts.max_request_size
        /\ result.status_code \in {400, 403, 405} => ~ Good
        /\ result.ok => IF Common = {} THEN result.protocol = None
                        ELSE /\ result.protocol \in Range(opts.subprotocols)
                             /\ result.protocol[1] = req.protocols[Min(Common)][1]

(* Types, no item longer than asked for; the echo in order, and complete    *)
(* when the connection is closed; and the handshake decided rightly.        *)
EchoInv == WebSocketTypeOK /\ EchoInOrder /\ AllAnswered /\ HandshakeSound

(* When the client is gone the handler ends and the socket is closed.       *)
ConnectionCloses == client # "open" ~> place = "closed"
=============================================================================
