------------------------------ MODULE MCSession ------------------------------
(* A small instance of one session, in which the relay may send more frames  *)
(* than the channel of events holds while the supervisor hands over a REQ.   *)
EXTENDS Session

OneEvent == [c \in Calls |-> "e1"]
=============================================================================
