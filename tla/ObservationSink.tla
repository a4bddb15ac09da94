-------------------------- MODULE ObservationSink --------------------------
(***************************************************************************)
(* The observations that proxy handlers and the admin poller emit, and the *)
(* non-blocking sink that carries them to the task owning the application  *)
(* state (src/src/observe/events.rs).                                      *)
(*                                                                         *)
(* Names of topics, subscriptions, peers and message bodies are only ever  *)
(* compared, so they are arbitrary values.  A captured message             *)
(* (PublishedMessage: body, attributes, original length, truncation flag)  *)
(* is copied as a whole and is one element of Messages.                    *)
(***************************************************************************)
EXTENDS Naturals, Sequences

CONSTANTS Topics,           \* fully-qualified topic names
          Subscriptions,    \* fully-qualified subscription names
          Peers,            \* client socket addresses
          NoPeer,           \* a request without a remote address (None)
          Messages,         \* captured messages
          ChannelCapacity   \* slots of the mpsc channel; 8192 in the code

ASSUME SinkAssumption ==
    /\ {NoPeer, "unknown"} \cap Peers = {}
    /\ ChannelCapacity \in Nat \ {0}

(***************************************************************************)
(* A map with keys from K and values from V: a function on a subset of K.  *)
(***************************************************************************)
MapOf(K, V) == UNION {[D -> V] : D \in SUBSET K}

Observation ==
    [kind : {"Publish"}, topic : Topics, peer : Peers \cup {NoPeer},
     messages : Seq(Messages)]
    \cup
    [kind : {"Deliver", "Ack"}, subscription : Subscriptions,
     peer : Peers \cup {NoPeer}, messages : Nat]
    \cup
    [kind : {"ConsumerOpen", "ConsumerClose"}, subscription : Subscriptions,
     peer : Peers \cup {NoPeer}]
    \cup
    [kind : {"AdminSnapshot"}, topics : SUBSET Topics,
     subscriptions : MapOf(Subscriptions, Topics)]

(***************************************************************************)
(* A peer's identity in the per-publisher maps.  "unknown" is no address.  *)
(***************************************************************************)
peer_key(peer) == IF peer = NoPeer THEN "unknown" ELSE peer

PeerKeys == Peers \cup {"unknown"}

-----------------------------------------------------------------------------
VARIABLES
    queue,      \* observations in the mpsc channel, oldest first
    receiving   \* whether the receiving half is still alive

sinkVars == <<queue, receiving>>

SinkTypeOK ==
    /\ queue \in Seq(Observation)
    /\ Len(queue) <= ChannelCapacity
    /\ receiving \in BOOLEAN

SinkInit ==
    /\ queue = <<>>
    /\ receiving = TRUE

\* try_send succeeds: the receiver is there and a slot is free.
Accepts == receiving /\ Len(queue) < ChannelCapacity

(***************************************************************************)
(* ObservationSink::observe.  It never blocks: an observation that finds   *)
(* the channel full, or the receiver gone, is dropped.                     *)
(***************************************************************************)
observe(observation) ==
    /\ queue' = IF Accepts THEN Append(queue, observation) ELSE queue
    /\ UNCHANGED receiving

(***************************************************************************)
(* The receiving side takes the oldest observation (recv and try_recv).    *)
(***************************************************************************)
take ==
    /\ receiving
    /\ queue # <<>>
    /\ queue' = Tail(queue)
    /\ UNCHANGED receiving

\* The receiver is dropped, and the observations still queued with it.
closeReceiver ==
    /\ receiving' = FALSE
    /\ queue' = <<>>
=============================================================================
