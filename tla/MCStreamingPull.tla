-------------------------- MODULE MCStreamingPull --------------------------
(***************************************************************************)
(* One StreamingPull call: the streams share nothing but the sink.         *)
(***************************************************************************)
EXTENDS StreamingPull

CONSTANTS c1, s1, s2, p1

Peer == [c \in Streams |-> p1]

Named(s, n) == [subscription |-> s, acks |-> n]

\* A client names the subscription in its first frame only.
Naming == {Named(s1, 0), Named(s1, 1)}
Acking == {Named(NoSubscription, 0), Named(NoSubscription, 2)}
=============================================================================
