------------------------------ MODULE Consumer ------------------------------
(***************************************************************************)
(* What a proxied StreamingPull call promises the observer, whatever its   *)
(* pumps, channels and peers do: it opens a consumer of one subscription   *)
(* at most once, counts movements on that subscription only while the      *)
(* consumer is open, and closes what it opened exactly once, last.         *)
(* StreamingPull implements this specification.                            *)
(***************************************************************************)
EXTENDS Naturals, Sequences

CONSTANTS
    Streams,            \* StreamingPull calls
    Subscriptions,
    NoSubscription,     \* the empty string
    PeerOf,             \* the client address of each stream
    Counts              \* message and ack counts of one frame

VARIABLES
    phase,      \* a stream's consumer: not yet open, open, or over
    attached,   \* the subscription it was opened on
    emitted     \* the stream's calls of sink.observe, in order

consumerVars == <<phase, attached, emitted>>

Connection(kind, c, subscription) ==
    [kind |-> kind, subscription |-> subscription, peer |-> PeerOf[c]]

Movement(kind, c, subscription, n) ==
    [kind |-> kind, subscription |-> subscription, peer |-> PeerOf[c],
     messages |-> n]

Emit(c, observation) ==
    emitted' = [emitted EXCEPT ![c] = Append(@, observation)]

Init ==
    /\ phase = [c \in Streams |-> "new"]
    /\ attached = [c \in Streams |-> NoSubscription]
    /\ emitted = [c \in Streams |-> <<>>]

Open(c) ==
    /\ phase[c] = "new"
    /\ phase' = [phase EXCEPT ![c] = "open"]
    /\ \E s \in Subscriptions :
         /\ attached' = [attached EXCEPT ![c] = s]
         /\ Emit(c, Connection("ConsumerOpen", c, s))

Move(c) ==
    /\ phase[c] = "open"
    /\ \E kind \in {"Ack", "Deliver"}, n \in Counts :
         Emit(c, Movement(kind, c, attached[c], n))
    /\ UNCHANGED <<phase, attached>>

\* Mutation of Close: the end of the call is not reported.
CloseUnreported(c) ==
    /\ phase[c] = "open"
    /\ phase' = [phase EXCEPT ![c] = "over"]
    /\ UNCHANGED <<attached, emitted>>

Close(c) ==
    /\ phase[c] = "open"
    /\ phase' = [phase EXCEPT ![c] = "over"]
    /\ Emit(c, Connection("ConsumerClose", c, attached[c]))
    /\ UNCHANGED attached

\* The call ends before any frame named a subscription.
Abandon(c) ==
    /\ phase[c] = "new"
    /\ phase' = [phase EXCEPT ![c] = "over"]
    /\ UNCHANGED <<attached, emitted>>

ConsumerStep(c) == Open(c) \/ Move(c) \/ Close(c) \/ Abandon(c)

Next == \E c \in Streams : ConsumerStep(c)

Spec == Init /\ [][Next]_consumerVars
=============================================================================
