------------------------------- MODULE Loadgen -------------------------------
(***************************************************************************)
(* The load generator (src/src/loadgen.rs) in front of the proxied         *)
(* StreamingPull: it connects, creates its topics and subscriptions with   *)
(* retries, spawns a consumer per subscription, and publishes round after  *)
(* round.  A consumer acks what it is delivered through a bounded channel  *)
(* of its own, so acks, responses and back-pressure form a cycle through   *)
(* the generator, the proxy's two pumps and the server.                    *)
(*                                                                         *)
(* A stream is named by the topic whose subscription it consumes.  The     *)
(* payloads published are opaque; a publisher's slot among the connections *)
(* is left out.                                                            *)
(***************************************************************************)
EXTENDS StreamingPull

CONSTANTS
    TOPICS,         \* the demo topics, in order
    SubPath,        \* the subscription of each topic that has a consumer
    ATTEMPTS,       \* of connect and of with_retry
    PUBLISHERS,     \* publisher connections
    ConsumerBuffer, \* the consumer's request channel
    Window,         \* bound: frames in transit from it to the proxy
    MaxVaried,      \* bound: responses, the first ones, not of one message
    MaxRounds,      \* bound: rounds of publishing
    EndsWithin      \* bound: responses sent when the call or the run ends

ASSUME LoadgenAssumption ==
    /\ TOPICS \in Seq({TOPICS[i] : i \in DOMAIN TOPICS})
    /\ \A i, j \in DOMAIN TOPICS : TOPICS[i] = TOPICS[j] => i = j
    /\ Streams \subseteq {TOPICS[i] : i \in DOMAIN TOPICS}
    /\ SubPath \in [Streams -> Subscriptions]
    /\ \A c, d \in Streams : SubPath[c] = SubPath[d] => c = d
    /\ {TOPICS[i] : i \in DOMAIN TOPICS} \cap Subscriptions = {}
    /\ ATTEMPTS \in Nat \ {0} /\ PUBLISHERS \in Nat
    /\ ConsumerBuffer \in Nat \ {0} /\ Window \in Nat \ {0}
    /\ MaxVaried \in Nat /\ MaxRounds \in Nat /\ EndsWithin \in Nat
    /\ \A c \in Streams :
         /\ [subscription |-> SubPath[c], acks |-> 0] \in FirstFrames
         /\ \A n \in 1..MaxMessages :
              [subscription |-> NoSubscription, acks |-> n] \in LaterFrames

VARIABLES
    generator,  \* running, stopped (its duration is over), or failed
    position,   \* how much of Script is done
    attempt,    \* the attempt at the present step
    entities,   \* the topics and subscriptions the server has
    round,      \* the publishing round
    slot,       \* the topics already published to in it
    consumer,   \* where each stream's consumer is
    ack,        \* the ack it is about to send (at most one)
    outbox,     \* its request channel
    backlog,    \* messages the server has still to deliver on a stream
    published   \* messages published to its topic (history)

setupVars    == <<position, attempt, entities>>
publishVars  == <<round, slot, backlog, published>>
consumerVars == <<consumer, ack, outbox>>
loadVars     == <<pullVars, generator, setupVars, publishVars, consumerVars>>

LoadInit ==
    /\ PullInit
    /\ generator = "running"
    /\ position = 0 /\ attempt = 1 /\ entities = {}
    /\ round = 0 /\ slot = 0
    /\ consumer = [c \in Streams |-> "unspawned"]
    /\ ack = [c \in Streams |-> <<>>]
    /\ outbox = [c \in Streams |-> <<>>]
    /\ backlog = [c \in Streams |-> 0]
    /\ published = [c \in Streams |-> 0]

-----------------------------------------------------------------------------
(* run, up to the publishing: what has to succeed, in order.               *)

Connecting(n) == [i \in 1..n |-> [op |-> "connect"]]
Creating(x)   == [op |-> "create", of |-> x]
Consuming(t)  == [op |-> "consume", of |-> t]
PassOver      == [op |-> "continue"]

\* ensure_topology: a topic comes before its subscription, if it has one.
Topology ==
    [i \in 1..(2 * Len(TOPICS)) |->
        LET t == TOPICS[(i + 1) \div 2]
        IN  IF i % 2 = 1 THEN Creating(t)
            ELSE IF t \in Streams THEN Creating(SubPath[t]) ELSE PassOver]

Consumers ==
    [i \in 1..Len(TOPICS) |->
        IF TOPICS[i] \in Streams THEN Consuming(TOPICS[i]) ELSE PassOver]

\* Mutation of Script: consumers before the topology.
ConsumersFirst ==
    ((Connecting(2) \o Consumers) \o Topology) \o Connecting(PUBLISHERS)

Script ==
    ((Connecting(2) \o Topology) \o Consumers) \o Connecting(PUBLISHERS)

Publishing == position = Len(Script)
Step == Script[position + 1]

\* A topic can be created; a subscription needs its topic.
Creatable(x) == \A t \in Streams : x = SubPath[t] => t \in entities

\* Some other client, another generator perhaps, has created it.
OthersCreate(x) ==
    /\ Creatable(x)
    /\ x \notin entities
    /\ entities' = entities \cup {x}
    /\ UNCHANGED <<pullVars, generator, position, attempt, publishVars,
                   consumerVars>>

Advance == position' = position + 1 /\ attempt' = 1 /\ UNCHANGED generator

\* Unavailable: again, unless this was the last attempt.
Retry ==
    /\ IF attempt < ATTEMPTS
       THEN attempt' = attempt + 1 /\ UNCHANGED generator
       ELSE generator' = "failed" /\ UNCHANGED attempt
    /\ UNCHANGED position

AtStep(op) == generator = "running" /\ ~Publishing /\ Step.op = op

\* continue, for a topic in NO_CONSUMER.
Continue ==
    /\ AtStep("continue")
    /\ Advance
    /\ UNCHANGED <<pullVars, entities, publishVars, consumerVars>>

Connect ==
    /\ AtStep("connect")
    /\ Advance \/ Retry
    /\ UNCHANGED <<pullVars, entities, publishVars, consumerVars>>

\* connect, then spawn(consume): the first frame is in its channel at once.
Spawn ==
    /\ AtStep("consume")
    /\ \/ /\ Advance
          /\ consumer' = [consumer EXCEPT ![Step.of] = "calling"]
          /\ outbox' = [outbox EXCEPT ![Step.of] =
                <<[subscription |-> SubPath[Step.of], acks |-> 0]>>]
       \/ Retry /\ UNCHANGED <<consumer, outbox>>
    /\ UNCHANGED <<pullVars, entities, publishVars, ack>>

\* Mutation of Create: an entity that exists already is an error.
CreateOnce ==
    /\ AtStep("create")
    /\ \/ /\ Creatable(Step.of) /\ Step.of \notin entities
          /\ entities' = entities \cup {Step.of}
          /\ Advance \/ Retry
       \/ /\ ~Creatable(Step.of) \/ Step.of \in entities
          /\ generator' = "failed"
          /\ UNCHANGED setupVars
       \/ Retry /\ UNCHANGED entities
    /\ UNCHANGED <<pullVars, publishVars, consumerVars>>

(***************************************************************************)
(* with_retry(create): OK and AlreadyExists are both success.  Unavailable *)
(* may hide that the server did create it.  A missing topic is an error.   *)
(***************************************************************************)
Create ==
    /\ AtStep("create")
    /\ \/ /\ Creatable(Step.of)
          /\ entities' = entities \cup {Step.of}
          /\ Advance \/ Retry
       \/ /\ ~Creatable(Step.of)
          /\ generator' = "failed"
          /\ UNCHANGED setupVars
       \/ Retry /\ UNCHANGED entities
    /\ UNCHANGED <<pullVars, publishVars, consumerVars>>

-----------------------------------------------------------------------------
(* publish_loop.                                                           *)

\* Batches of one to four, by round and topic.
BatchSize == 1 + ((round + slot) % 4)

\* A failed publish is only logged; the server may have taken it or not.
Publish ==
    /\ generator = "running" /\ Publishing
    /\ round < MaxRounds
    /\ LET t == TOPICS[slot + 1]
       IN  \E n \in {0, BatchSize} :
             IF t \in Streams
             THEN /\ backlog' = [backlog EXCEPT ![t] = @ + n]
                  /\ published' = [published EXCEPT ![t] = @ + n]
             ELSE UNCHANGED <<backlog, published>>
    /\ slot' = (slot + 1) % Len(TOPICS)
    /\ round' = IF slot' = 0 THEN round + 1 ELSE round
    /\ UNCHANGED <<pullVars, generator, setupVars, consumerVars>>

\* timeout(duration): run returns, and the process with all its tasks ends.
DurationElapses ==
    /\ generator = "running" /\ Publishing
    /\ \A c \in Streams : Len(yielded[c]) <= EndsWithin
    /\ generator' = "stopped"
    /\ UNCHANGED <<pullVars, setupVars, publishVars, consumerVars>>

-----------------------------------------------------------------------------
(* consume.                                                                *)

Running(c, where) == generator = "running" /\ consumer[c] = where

\* Its connection carries the channel's frames to the proxy.
Carry(c) ==
    /\ consumer[c] \in {"calling", "reading", "acking"}
    /\ outbox[c] # <<>>
    /\ Len(inbound[c]) < Window
    /\ ClientSend(c) /\ Last(sent'[c]) = Head(outbox[c])
    /\ outbox' = [outbox EXCEPT ![c] = Tail(@)]
    /\ UNCHANGED <<generator, setupVars, publishVars, consumer, ack>>

\* The proxy answers the call at once; or the call fails.
Called(c) ==
    /\ Running(c, "calling")
    /\ \E next \in {"reading", "leaving"} :
         consumer' = [consumer EXCEPT ![c] = next]
    /\ UNCHANGED <<pullVars, generator, setupVars, publishVars, ack, outbox>>

\* Mutation of Consume: the list of ack ids is never cleared.
AckAllSoFar(c) ==
    /\ Running(c, "reading")
    /\ ClientReceive(c)
    /\ LET response == Head(responses[c])
           total == FoldLeft(LAMBDA sum, n : sum + n, 0,
                             SelectSeq(got'[c], LAMBDA n : n # Failure))
       IN  IF response \in {Failure, 0}
           THEN /\ consumer' = [consumer EXCEPT ![c] =
                                   IF response = 0 THEN @ ELSE "leaving"]
                /\ UNCHANGED ack
           ELSE /\ consumer' = [consumer EXCEPT ![c] = "acking"]
                /\ ack' = [ack EXCEPT ![c] =
                     <<[subscription |-> NoSubscription, acks |-> total]>>]
    /\ UNCHANGED <<generator, setupVars, publishVars, outbox>>

\* One ack frame for all the messages of a response; an error ends the loop.
Consume(c) ==
    /\ Running(c, "reading")
    /\ ClientReceive(c)
    /\ LET response == Head(responses[c])
       IN  IF response = Failure
           THEN /\ consumer' = [consumer EXCEPT ![c] = "leaving"]
                /\ UNCHANGED ack
           ELSE IF response = 0 THEN UNCHANGED <<consumer, ack>>
           ELSE /\ consumer' = [consumer EXCEPT ![c] = "acking"]
                /\ ack' = [ack EXCEPT ![c] =
                     <<[subscription |-> NoSubscription, acks |-> response]>>]
    /\ UNCHANGED <<generator, setupVars, publishVars, outbox>>

\* requests.send(ack) waits for a slot and meanwhile nothing is read; it
\* fails once the call is over and its receiver gone.
SendAck(c) ==
    /\ Running(c, "acking")
    /\ \/ /\ Len(outbox[c]) < ConsumerBuffer
          /\ outbox' = [outbox EXCEPT ![c] = @ \o ack[c]]
          /\ consumer' = [consumer EXCEPT ![c] = "reading"]
       \/ /\ task[c] = "done"
          /\ consumer' = [consumer EXCEPT ![c] = "leaving"]
          /\ UNCHANGED outbox
    /\ ack' = [ack EXCEPT ![c] = <<>>]
    /\ UNCHANGED <<pullVars, generator, setupVars, publishVars>>

\* The stream of responses is over.
EndOfResponses(c) ==
    /\ Running(c, "reading")
    /\ responses[c] = <<>> /\ task[c] = "done"
    /\ consumer' = [consumer EXCEPT ![c] = "leaving"]
    /\ UNCHANGED <<pullVars, generator, setupVars, publishVars, ack, outbox>>

\* consume returns, or the process ends: the stream is dropped.  Nothing
\* opens it again.
Leave(c) ==
    /\ consumer[c] = "leaving"
         \/ (generator # "running" /\ consumer[c] \notin {"unspawned", "ended"})
    /\ consumer' = [consumer EXCEPT ![c] = "ended"]
    /\ ack' = [ack EXCEPT ![c] = <<>>]
    /\ outbox' = [outbox EXCEPT ![c] = <<>>]
    /\ ClientReset(c)
    /\ UNCHANGED <<generator, setupVars, publishVars>>

ConsumerStep(c) ==
    \/ Called(c) \/ Consume(c) \/ SendAck(c) \/ EndOfResponses(c) \/ Leave(c)

-----------------------------------------------------------------------------
(* The server delivers what was published; otherwise it and the proxy      *)
(* behave as in StreamingPull.                                             *)

Deliver(c) ==
    /\ UpstreamYield(c)
    /\ LET n == Last(yielded'[c])
       IN  /\ n <= backlog[c]
           /\ n # 1 => Len(yielded'[c]) <= MaxVaried
           /\ backlog' = [backlog EXCEPT ![c] = @ - n]
    /\ UNCHANGED <<generator, setupVars, round, slot, published, consumerVars>>

Rest(c) ==
    /\ \/ UpstreamAccept(c) \/ UpstreamRefuse(c) \/ UpstreamTake(c)
       \/ Len(yielded[c]) <= EndsWithin /\ UpstreamEnd(c)
       \/ UpstreamDropsRequests(c)
       \/ Proxy(c)
    /\ UNCHANGED <<generator, setupVars, publishVars, consumerVars>>

LoadNext ==
    \/ \E x \in Subscriptions \cup {TOPICS[i] : i \in DOMAIN TOPICS} :
         OthersCreate(x)
    \/ Connect \/ Continue \/ Spawn \/ Create \/ Publish \/ DurationElapses
    \/ \E c \in Streams :
         /\ consumer[c] # "unspawned"
         /\ Carry(c) \/ ConsumerStep(c) \/ Deliver(c) \/ Rest(c)

LoadSpec == LoadInit /\ [][LoadNext]_loadVars

(***************************************************************************)
(* Fairness: both runtimes poll their tasks and the transport carries what *)
(* it has room for.  The server reads, answers once it has a frame, and    *)
(* delivers its backlog.                                                   *)
(***************************************************************************)
FairLoadSpec ==
    /\ LoadSpec
    /\ \A c \in Streams :
         /\ WF_loadVars(Carry(c)) /\ WF_loadVars(ConsumerStep(c))
         /\ WF_loadVars(backlog[c] > 0 /\ Deliver(c) /\ backlog'[c] < backlog[c])
         /\ WF_loadVars(Rest(c) /\ Inbound(c))
         /\ WF_loadVars(Rest(c) /\ Outbound(c))
         /\ WF_loadVars(Rest(c) /\ Finish(c))
         /\ WF_loadVars(Rest(c) /\ UpstreamTake(c))
         /\ WF_loadVars(received[c] # <<>> /\ Rest(c) /\ UpstreamAccept(c))

-----------------------------------------------------------------------------
(* "ignoring entities that already exist so the generator is re-runnable": *)
(* whoever else creates the same topology meanwhile, and although an       *)
(* attempt may have succeeded without its answer arriving, the generator   *)
(* gives up only after being turned away ATTEMPTS times in a row.          *)
Rerunnable == [][generator' = "failed" => attempt = ATTEMPTS]_generator

(* Whatever was retried, a consumer is opened only on a subscription that  *)
(* exists and a message published only to a topic that exists.             *)
TopologyFirst ==
    /\ \A c \in Streams : consumer[c] # "unspawned" => SubPath[c] \in entities
    /\ Publishing => {TOPICS[i] : i \in DOMAIN TOPICS} \subseteq entities

(* The display's consumed count never runs ahead of its delivered count:   *)
(* the acks the proxy reports for the generator's consumer are those of    *)
(* the first deliveries it reported, response by response, although the    *)
(* two are counted by different pumps.                                     *)
AcksFollowDeliveries ==
    \A c \in Streams : Follows(Reported(c, "Ack"), Reported(c, "Deliver"))

Acked(c) == FoldLeft(LAMBDA sum, frame : sum + frame.acks, 0, received[c])

(* Acks, responses and back-pressure do not block each other: a consumer   *)
(* that reads nothing while it waits to send an ack still gets every       *)
(* published message and has its ack reach the server, unless its stream   *)
(* or the generator ends.  It takes both pumps going on independently.     *)
EverythingIsAcked ==
    \A c \in Streams :
        []<>(Acked(c) = published[c] \/ task[c] = "done" \/ generator # "running")

(* However the generator ends - its duration over, or failing to connect a *)
(* publisher after the consumers were spawned - no consumer stays on       *)
(* display: each stream that was opened is reported closed.                *)
NoneLeftBehind ==
    \A c \in Streams :
        (generator # "running")
            ~> (opened[c] => Last(emitted[c]).kind = "ConsumerClose")
=============================================================================
