------------------------- MODULE MCConsumerPipeline -------------------------
(***************************************************************************)
(* Three streams over two subscriptions and a channel of two slots, so     *)
(* that some behaviours drop observations and others do not.               *)
(***************************************************************************)
EXTENDS ConsumerPipeline

CONSTANTS c1, c2, c3, s1, s2, p1

Peer == [c \in Streams |-> p1]

\* Streams and subscriptions are only ever compared.
Interchangeable == Permutations(Streams) \cup Permutations(Subscriptions)
=============================================================================
