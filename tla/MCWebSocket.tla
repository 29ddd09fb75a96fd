----------------------------- MODULE MCWebSocket -----------------------------
(* Requests that pass or fail each check; frames of every length format,     *)
(* fragments, control frames and each kind of bad frame.                     *)
EXTENDS WebSocket

CONSTANTS chat, log, site, other

Request(parts, malformed, get, headers, origin, protocols) ==
    [parts |-> parts, malformed |-> malformed, get |-> get, headers |-> headers,
     origin |-> origin, protocols |-> protocols]

MCRequests ==
    { Request(2, FALSE, TRUE, Wanted, <<site, "lower">>, <<<<other, "lower">>, <<log, "upper">>, <<chat, "lower">>>>),
      Request(1, FALSE, TRUE, Wanted, None, << >>),
      Request(1, TRUE, TRUE, Wanted, <<site, "upper">>, << >>),
      Request(1, FALSE, FALSE, Wanted, <<site, "upper">>, << >>),
      Request(1, FALSE, TRUE, Wanted \ {"version"}, <<site, "upper">>, << >>) }

MCOptions ==
    { [check_origin |-> TRUE, allowed_origins |-> {<<site, "upper">>},
       subprotocols |-> <<<<chat, "lower">>, <<log, "lower">>>>, max_request_size |-> 2],
      [check_origin |-> TRUE, allowed_origins |-> {<<other, "lower">>},
       subprotocols |-> << >>, max_request_size |-> 1] }

F(fin, op, key, payload) ==
    [fin |-> fin, rsv |-> FALSE, op |-> op, mask |-> TRUE, key |-> key, payload |-> payload]

MCFrames ==
    { F(FALSE, "text", <<0, 1>>, <<1, 0, 0>>),
      F(TRUE, "binary", <<1, 0>>, <<0, 1, 1, 0>>),
      F(TRUE, "continuation", <<1, 1>>, <<0>>),
      F(FALSE, "continuation", <<1, 0>>, << >>),
      F(TRUE, "ping", <<0, 1>>, <<1, 1>>),
      F(TRUE, "pong", <<0, 0>>, << >>),
      F(TRUE, "close", <<1, 0>>, <<1, 1, 0>>),
      F(TRUE, "close", <<1, 0>>, <<1>>),
      F(TRUE, "reserved", <<0, 1>>, <<1>>),
      F(TRUE, "text", <<0, 1>>, <<1, 0, 1, 0, 1>>),
      [F(TRUE, "text", << >>, <<1>>) EXCEPT !.mask = FALSE],
      [F(TRUE, "text", <<0, 1>>, <<1>>) EXCEPT !.rsv = TRUE] }
=============================================================================
