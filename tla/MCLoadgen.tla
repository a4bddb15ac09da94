----------------------------- MODULE MCLoadgen -----------------------------
(***************************************************************************)
(* Three topics, the last of them with a consumer, which is published      *)
(* seven messages.  Every channel has room for one frame, so that six      *)
(* messages fill the whole cycle.                                          *)
(***************************************************************************)
EXTENDS Loadgen

CONSTANTS t1, t2, t3, s1, p1

Demo    == <<t2, t3, t1>>
Worker  == [c \in Streams |-> s1]
Peer    == [c \in Streams |-> p1]
Opening == {[subscription |-> s1, acks |-> 0]}
Acking  == {[subscription |-> NoSubscription, acks |-> n] : n \in 1..MaxMessages}
=============================================================================
