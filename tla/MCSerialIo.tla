----------------------------- MODULE MCSerialIo -----------------------------
(* Three operations of one direction of a socket or file on two workers.     *)
EXTENDS SerialIo
=============================================================================
