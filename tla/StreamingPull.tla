--------------------------- MODULE StreamingPull ---------------------------
(***************************************************************************)
(* The proxied StreamingPull call (src/src/proxy/subscriber.rs): one task  *)
(* per stream that runs two pumps, client to server and server to client,  *)
(* latches the subscription, counts acks and deliveries, and reports the   *)
(* consumer's connection as opened and closed.                             *)
(*                                                                         *)
(* Both pumps are polled by the one task, so control passes between them   *)
(* only at an await: receiving a frame, sending into a channel, or         *)
(* establishing the upstream call.  The client, the server and the HTTP/2  *)
(* transport are outside src/; they are modelled by what the task can see  *)
(* of them.                                                                *)
(*                                                                         *)
(* A frame is the subscription it names (or none) and its number of ack    *)
(* ids; a response is its number of messages, or Failure for an error      *)
(* status.                                                                 *)
(***************************************************************************)
EXTENDS Naturals, Sequences, FiniteSets, SequencesExt

CONSTANTS
    Streams,            \* StreamingPull calls
    Subscriptions,
    NoSubscription,     \* the empty string
    Failure,            \* an error status
    PeerOf,             \* the client address of each stream
    FirstFrames,        \* frames a client may send first
    LaterFrames,        \* frames it may send after that
    StreamBuffer,       \* STREAM_BUFFER, the capacity of both channels
    MaxFrames,          \* bound: frames a client sends on a stream
    MaxResponses,       \* bound: responses the server sends on a stream
    MaxMessages         \* bound: messages in one response

Frame == [subscription : Subscriptions \cup {NoSubscription}, acks : Nat]

Item == Nat \cup {Failure}

ASSUME StreamAssumption ==
    /\ NoSubscription \notin Subscriptions
    /\ Failure \notin Nat
    /\ FirstFrames \subseteq Frame
    /\ LaterFrames \subseteq Frame
    /\ StreamBuffer \in Nat \ {0}
    /\ MaxFrames \in Nat
    /\ MaxResponses \in Nat
    /\ MaxMessages \in Nat

VARIABLES
    client,     \* the client's side: open, half-closed, or gone
    sent,       \* frames the client sent (history)
    inbound,    \* frames on their way to the proxy
    inPc,       \* where the inbound pump is
    hand,       \* the frame it holds (at most one)
    requests,   \* the channel req_tx -> req_rx
    reqAlive,   \* whether req_rx is alive
    received,   \* frames the server received (history)
    upstream,   \* the server's side of the call
    yielded,    \* responses the server sent (history)
    arriving,   \* responses on their way to the proxy
    outPc,      \* where the outbound pump is
    item,       \* the response it holds (at most one)
    responses,  \* the channel resp_tx -> resp_rx
    got,        \* responses the client received (history)
    latched,    \* the latched subscription
    opened,     \* whether the consumer was reported open
    task,       \* the spawned task
    emitted     \* the stream's calls of sink.observe, in order

clientVars   == <<client, sent, got>>
inboundVars  == <<inPc, hand, latched, opened>>
outboundVars == <<outPc, item>>
serverVars   == <<upstream, received, yielded>>
channelVars  == <<inbound, requests, reqAlive, arriving, responses>>
pullVars     == <<client, sent, inbound, inPc, hand, requests, reqAlive,
                  received, upstream, yielded, arriving, outPc, item,
                  responses, got, latched, opened, task, emitted>>

AtMostOne(S) == {<<>>} \cup {<<x>> : x \in S}

\* What the stream tells the sink.
Connection(kind, c, subscription) ==
    [kind |-> kind, subscription |-> subscription, peer |-> PeerOf[c]]

Movement(kind, c, subscription, n) ==
    [kind |-> kind, subscription |-> subscription, peer |-> PeerOf[c],
     messages |-> n]

Report ==
    [kind : {"ConsumerOpen", "ConsumerClose"},
     subscription : Subscriptions \cup {NoSubscription},
     peer : {PeerOf[c] : c \in Streams}]
    \cup
    [kind : {"Ack", "Deliver"},
     subscription : Subscriptions \cup {NoSubscription},
     peer : {PeerOf[c] : c \in Streams}, messages : Nat]

PullTypeOK ==
    /\ client \in [Streams -> {"open", "ended", "reset"}]
    /\ sent \in [Streams -> Seq(Frame)]
    /\ inbound \in [Streams -> Seq(Frame)]
    /\ inPc \in [Streams -> {"next", "ack", "send", "done"}]
    /\ hand \in [Streams -> Seq(Frame)]
    /\ requests \in [Streams -> Seq(Frame)]
    /\ reqAlive \in [Streams -> BOOLEAN]
    /\ received \in [Streams -> Seq(Frame)]
    /\ upstream \in [Streams -> {"waiting", "streaming", "refused", "ended"}]
    /\ yielded \in [Streams -> Seq(Item)]
    /\ arriving \in [Streams -> Seq(Item)]
    /\ outPc \in [Streams -> {"establish", "next", "send", "sendErr", "done"}]
    /\ item \in [Streams -> Seq(Item)]
    /\ responses \in [Streams -> Seq(Item)]
    /\ got \in [Streams -> Seq(Item)]
    /\ latched \in [Streams -> Subscriptions \cup {NoSubscription}]
    /\ opened \in [Streams -> BOOLEAN]
    /\ task \in [Streams -> {"pumping", "done"}]
    /\ emitted \in [Streams -> Seq(Report)]
    /\ \A c \in Streams : /\ Len(hand[c]) <= 1 /\ Len(requests[c]) <= StreamBuffer
                          /\ Len(item[c]) <= 1 /\ Len(responses[c]) <= StreamBuffer

PullInit ==
    /\ client    = [c \in Streams |-> "open"]
    /\ sent      = [c \in Streams |-> <<>>]
    /\ inbound   = [c \in Streams |-> <<>>]
    /\ inPc      = [c \in Streams |-> "next"]
    /\ hand      = [c \in Streams |-> <<>>]
    /\ requests  = [c \in Streams |-> <<>>]
    /\ reqAlive  = [c \in Streams |-> TRUE]
    /\ received  = [c \in Streams |-> <<>>]
    /\ upstream  = [c \in Streams |-> "waiting"]
    /\ yielded   = [c \in Streams |-> <<>>]
    /\ arriving  = [c \in Streams |-> <<>>]
    /\ outPc     = [c \in Streams |-> "establish"]
    /\ item      = [c \in Streams |-> <<>>]
    /\ responses = [c \in Streams |-> <<>>]
    /\ got       = [c \in Streams |-> <<>>]
    /\ latched   = [c \in Streams |-> NoSubscription]
    /\ opened    = [c \in Streams |-> FALSE]
    /\ task      = [c \in Streams |-> "pumping"]
    /\ emitted   = [c \in Streams |-> <<>>]

-----------------------------------------------------------------------------
(* The client.                                                             *)

ClientSend(c) ==
    /\ client[c] = "open"
    /\ Len(sent[c]) < MaxFrames
    /\ \E f \in IF sent[c] = <<>> THEN FirstFrames ELSE LaterFrames :
         /\ sent' = [sent EXCEPT ![c] = Append(@, f)]
         /\ inbound' = [inbound EXCEPT ![c] = Append(@, f)]
    /\ UNCHANGED <<client, got, inboundVars, outboundVars, serverVars,
                   requests, reqAlive, arriving, responses, task, emitted>>

\* Half-close: the client sends no more but still reads.
ClientEnd(c) ==
    /\ client[c] = "open"
    /\ client' = [client EXCEPT ![c] = "ended"]
    /\ UNCHANGED <<sent, got, inboundVars, outboundVars, serverVars,
                   channelVars, task, emitted>>

(***************************************************************************)
(* The client cancels or its connection drops: frames not yet handed to    *)
(* the proxy may be lost, and the transport drops resp_rx.                 *)
(***************************************************************************)
ClientReset(c) ==
    /\ client[c] # "reset"
    /\ client' = [client EXCEPT ![c] = "reset"]
    /\ \E n \in 0..Len(inbound[c]) :
         inbound' = [inbound EXCEPT ![c] = SubSeq(@, 1, n)]
    /\ responses' = [responses EXCEPT ![c] = <<>>]
    /\ UNCHANGED <<sent, got, inboundVars, outboundVars, serverVars,
                   requests, reqAlive, arriving, task, emitted>>

ClientReceive(c) ==
    /\ client[c] # "reset"
    /\ responses[c] # <<>>
    /\ got' = [got EXCEPT ![c] = Append(@, Head(responses[c]))]
    /\ responses' = [responses EXCEPT ![c] = Tail(@)]
    /\ UNCHANGED <<client, sent, inboundVars, outboundVars, serverVars,
                   inbound, requests, reqAlive, arriving, task, emitted>>

-----------------------------------------------------------------------------
(* The server, and the transport between the proxy and it.                 *)

\* It may answer before reading anything, but only has to after a frame.
UpstreamAccept(c) ==
    /\ upstream[c] = "waiting"
    /\ task[c] = "pumping"
    /\ upstream' = [upstream EXCEPT ![c] = "streaming"]
    /\ UNCHANGED <<clientVars, inboundVars, outboundVars, received, yielded,
                   channelVars, task, emitted>>

\* The call fails with a status instead of a stream of responses.
UpstreamRefuse(c) ==
    /\ upstream[c] = "waiting"
    /\ upstream' = [upstream EXCEPT ![c] = "refused"]
    /\ yielded' = [yielded EXCEPT ![c] = <<Failure>>]
    /\ UNCHANGED <<clientVars, inboundVars, outboundVars, received,
                   channelVars, task, emitted>>

\* What is already in the channel is still sent after req_tx is gone.
UpstreamTake(c) ==
    /\ reqAlive[c]
    /\ requests[c] # <<>>
    /\ received' = [received EXCEPT ![c] = Append(@, Head(requests[c]))]
    /\ requests' = [requests EXCEPT ![c] = Tail(@)]
    /\ UNCHANGED <<clientVars, inboundVars, outboundVars, upstream, yielded,
                   inbound, reqAlive, arriving, responses, task, emitted>>

\* The server needs the first frame to know what to deliver.
UpstreamYield(c) ==
    /\ upstream[c] = "streaming"
    /\ received[c] # <<>>
    /\ Len(yielded[c]) < MaxResponses
    /\ \E n \in 0..MaxMessages :
         /\ yielded' = [yielded EXCEPT ![c] = Append(@, n)]
         /\ arriving' = [arriving EXCEPT ![c] = Append(@, n)]
    /\ UNCHANGED <<clientVars, inboundVars, outboundVars, upstream, received,
                   inbound, requests, reqAlive, responses, task, emitted>>

\* The call ends, with an OK status (nothing more) or an error.
UpstreamEnd(c) ==
    /\ upstream[c] = "streaming"
    /\ upstream' = [upstream EXCEPT ![c] = "ended"]
    /\ \E last \in {<<>>, <<Failure>>} :
         /\ yielded' = [yielded EXCEPT ![c] = @ \o last]
         /\ arriving' = [arriving EXCEPT ![c] = @ \o last]
    /\ UNCHANGED <<clientVars, inboundVars, outboundVars, received,
                   inbound, requests, reqAlive, responses, task, emitted>>

\* The transport drops req_rx once the call is over on either side.
UpstreamDropsRequests(c) ==
    /\ reqAlive[c]
    /\ upstream[c] \in {"refused", "ended"} \/ task[c] = "done"
    /\ reqAlive' = [reqAlive EXCEPT ![c] = FALSE]
    /\ requests' = [requests EXCEPT ![c] = <<>>]
    /\ UNCHANGED <<clientVars, inboundVars, outboundVars, serverVars,
                   inbound, arriving, responses, task, emitted>>

Server(c) ==
    \/ UpstreamAccept(c) \/ UpstreamRefuse(c) \/ UpstreamTake(c)
    \/ UpstreamYield(c) \/ UpstreamEnd(c) \/ UpstreamDropsRequests(c)

-----------------------------------------------------------------------------
(* The inbound pump: client to server.                                     *)

\* Neither pump has ended, so select! still polls both.
Pumping(c) == task[c] = "pumping" /\ inPc[c] # "done" /\ outPc[c] # "done"

Emit(c, observation) ==
    emitted' = [emitted EXCEPT ![c] = Append(@, observation)]

(***************************************************************************)
(* A frame arrives.  One that names a subscription latches it, every time; *)
(* the first such frame reports the consumer open.                         *)
(***************************************************************************)
InNext(c) ==
    /\ Pumping(c)
    /\ inPc[c] = "next"
    /\ inbound[c] # <<>>
    /\ LET frame == Head(inbound[c])
           names == frame.subscription # NoSubscription
       IN  /\ hand' = [hand EXCEPT ![c] = <<frame>>]
           /\ latched' = [latched EXCEPT
                            ![c] = IF names THEN frame.subscription ELSE @]
           /\ opened' = [opened EXCEPT ![c] = @ \/ names]
           /\ IF names /\ ~opened[c]
                 THEN Emit(c, Connection("ConsumerOpen", c, frame.subscription))
                 ELSE UNCHANGED emitted
    /\ inbound' = [inbound EXCEPT ![c] = Tail(@)]
    /\ inPc' = [inPc EXCEPT ![c] = "ack"]
    /\ UNCHANGED <<clientVars, outboundVars, serverVars,
                   requests, reqAlive, arriving, responses, task>>

\* Mutation of InNextEnds: only a half-close ends the pump.
ResetUnnoticed(c) ==
    /\ Pumping(c)
    /\ inPc[c] = "next"
    /\ inbound[c] = <<>>
    /\ client[c] = "ended"
    /\ inPc' = [inPc EXCEPT ![c] = "done"]
    /\ UNCHANGED <<clientVars, hand, latched, opened, outboundVars, serverVars,
                   channelVars, task, emitted>>

\* The client half-closed, or reset and the transport reports an error.
InNextEnds(c) ==
    /\ Pumping(c)
    /\ inPc[c] = "next"
    /\ inbound[c] = <<>>
    /\ client[c] # "open"
    /\ inPc' = [inPc EXCEPT ![c] = "done"]
    /\ UNCHANGED <<clientVars, hand, latched, opened, outboundVars, serverVars,
                   channelVars, task, emitted>>

\* Mutation of InAck: an off-by-one in the test for acks.
SingleAckMissed(c) ==
    /\ inPc[c] = "ack"
    /\ IF Head(hand[c]).acks > 1
          THEN Emit(c, Movement("Ack", c, latched[c], Head(hand[c]).acks))
          ELSE UNCHANGED emitted
    /\ inPc' = [inPc EXCEPT ![c] = "send"]
    /\ UNCHANGED <<clientVars, hand, latched, opened, outboundVars, serverVars,
                   channelVars, task>>

\* Acks are counted against the latched subscription before forwarding.
InAck(c) ==
    /\ inPc[c] = "ack"
    /\ IF Head(hand[c]).acks > 0
          THEN Emit(c, Movement("Ack", c, latched[c], Head(hand[c]).acks))
          ELSE UNCHANGED emitted
    /\ inPc' = [inPc EXCEPT ![c] = "send"]
    /\ UNCHANGED <<clientVars, hand, latched, opened, outboundVars, serverVars,
                   channelVars, task>>

\* Mutations of InSend: an unbounded request channel, requests that wait
\* until the call is established, and pumps that take turns.
SendUnbounded(c) ==
    /\ Pumping(c)
    /\ inPc[c] = "send"
    /\ reqAlive[c]
    /\ requests' = [requests EXCEPT ![c] = @ \o hand[c]]
    /\ inPc' = [inPc EXCEPT ![c] = "next"]
    /\ hand' = [hand EXCEPT ![c] = <<>>]
    /\ UNCHANGED <<clientVars, latched, opened, outboundVars, serverVars,
                   inbound, reqAlive, arriving, responses, task, emitted>>

SendOnceEstablished(c) == outPc[c] # "establish" /\ SendUnbounded(c)

SendBetweenResponses(c) ==
    /\ outPc[c] # "send"
    /\ Len(requests[c]) < StreamBuffer
    /\ SendUnbounded(c)

\* req_tx.send waits for a slot; it fails when req_rx is gone.
InSend(c) ==
    /\ Pumping(c)
    /\ inPc[c] = "send"
    /\ \/ /\ reqAlive[c]
          /\ Len(requests[c]) < StreamBuffer
          /\ requests' = [requests EXCEPT ![c] = @ \o hand[c]]
          /\ inPc' = [inPc EXCEPT ![c] = "next"]
       \/ /\ ~reqAlive[c]
          /\ inPc' = [inPc EXCEPT ![c] = "done"]
          /\ UNCHANGED requests
    /\ hand' = [hand EXCEPT ![c] = <<>>]
    /\ UNCHANGED <<clientVars, latched, opened, outboundVars, serverVars,
                   inbound, reqAlive, arriving, responses, task, emitted>>

Inbound(c) == InNext(c) \/ InNextEnds(c) \/ InAck(c) \/ InSend(c)

-----------------------------------------------------------------------------
(* The outbound pump: server to client.  It runs while the inbound pump is *)
(* suspended at an await.                                                  *)

OutPumping(c) == Pumping(c) /\ inPc[c] \in {"next", "send"}

OutEstablish(c) ==
    /\ OutPumping(c)
    /\ outPc[c] = "establish"
    /\ \/ /\ upstream[c] \in {"streaming", "ended"}
          /\ outPc' = [outPc EXCEPT ![c] = "next"]
          /\ UNCHANGED item
       \/ /\ upstream[c] = "refused"
          /\ item' = [item EXCEPT ![c] = <<Failure>>]
          /\ outPc' = [outPc EXCEPT ![c] = "sendErr"]
    /\ UNCHANGED <<clientVars, inboundVars, serverVars, channelVars, task,
                   emitted>>

\* A response arrives; its messages, if any, are counted before relaying.
OutNext(c) ==
    /\ OutPumping(c)
    /\ outPc[c] = "next"
    /\ arriving[c] # <<>>
    /\ LET response == Head(arriving[c])
       IN  /\ item' = [item EXCEPT ![c] = <<response>>]
           /\ outPc' = [outPc EXCEPT
                         ![c] = IF response = Failure THEN "sendErr" ELSE "send"]
           /\ IF response # Failure /\ response # 0
                 THEN Emit(c, Movement("Deliver", c, latched[c], response))
                 ELSE UNCHANGED emitted
    /\ arriving' = [arriving EXCEPT ![c] = Tail(@)]
    /\ UNCHANGED <<clientVars, inboundVars, serverVars,
                   inbound, requests, reqAlive, responses, task>>

OutNextEnds(c) ==
    /\ OutPumping(c)
    /\ outPc[c] = "next"
    /\ arriving[c] = <<>>
    /\ upstream[c] = "ended"
    /\ outPc' = [outPc EXCEPT ![c] = "done"]
    /\ UNCHANGED <<clientVars, inboundVars, item, serverVars, channelVars,
                   task, emitted>>

\* Mutations of OutSend: a response that finds the channel full is dropped,
\* and the pump goes on after relaying an error.
DropWhenFull(c) ==
    /\ OutPumping(c)
    /\ outPc[c] \in {"send", "sendErr"}
    /\ responses' = [responses EXCEPT
                       ![c] = IF Len(@) < StreamBuffer THEN @ \o item[c] ELSE @]
    /\ outPc' = [outPc EXCEPT ![c] = IF @ = "send" THEN "next" ELSE "done"]
    /\ item' = [item EXCEPT ![c] = <<>>]
    /\ UNCHANGED <<clientVars, inboundVars, serverVars,
                   inbound, requests, reqAlive, arriving, task, emitted>>

GoOnAfterError(c) ==
    /\ OutPumping(c)
    /\ outPc[c] \in {"send", "sendErr"}
    /\ Len(responses[c]) < StreamBuffer
    /\ responses' = [responses EXCEPT ![c] = @ \o item[c]]
    /\ outPc' = [outPc EXCEPT ![c] = "next"]
    /\ item' = [item EXCEPT ![c] = <<>>]
    /\ UNCHANGED <<clientVars, inboundVars, serverVars,
                   inbound, requests, reqAlive, arriving, task, emitted>>

\* resp_tx.send waits for a slot and fails when resp_rx is gone.  After an
\* error, or a failed send, the pump ends.
OutSend(c) ==
    /\ OutPumping(c)
    /\ outPc[c] \in {"send", "sendErr"}
    /\ \/ /\ client[c] # "reset"
          /\ Len(responses[c]) < StreamBuffer
          /\ responses' = [responses EXCEPT ![c] = @ \o item[c]]
          /\ outPc' = [outPc EXCEPT
                         ![c] = IF @ = "send" THEN "next" ELSE "done"]
       \/ /\ client[c] = "reset"
          /\ outPc' = [outPc EXCEPT ![c] = "done"]
          /\ UNCHANGED responses
    /\ item' = [item EXCEPT ![c] = <<>>]
    /\ UNCHANGED <<clientVars, inboundVars, serverVars,
                   inbound, requests, reqAlive, arriving, task, emitted>>

Outbound(c) == OutEstablish(c) \/ OutNext(c) \/ OutNextEnds(c) \/ OutSend(c)

-----------------------------------------------------------------------------

\* Mutation of Finish: the close is reported at the inbound pump's end only.
CloseOnInboundEnd(c) ==
    /\ task[c] = "pumping"
    /\ inPc[c] = "done" \/ outPc[c] = "done"
    /\ task' = [task EXCEPT ![c] = "done"]
    /\ hand' = [hand EXCEPT ![c] = <<>>]
    /\ item' = [item EXCEPT ![c] = <<>>]
    /\ IF opened[c] /\ inPc[c] = "done"
          THEN Emit(c, Connection("ConsumerClose", c, latched[c]))
          ELSE UNCHANGED emitted
    /\ UNCHANGED <<clientVars, inPc, outPc, latched, opened, serverVars,
                   channelVars>>

(***************************************************************************)
(* select! returns as soon as either pump has ended; the other is dropped  *)
(* with what it held.  An opened consumer is reported closed.              *)
(***************************************************************************)
Finish(c) ==
    /\ task[c] = "pumping"
    /\ inPc[c] = "done" \/ outPc[c] = "done"
    /\ task' = [task EXCEPT ![c] = "done"]
    /\ hand' = [hand EXCEPT ![c] = <<>>]
    /\ item' = [item EXCEPT ![c] = <<>>]
    /\ IF opened[c]
          THEN Emit(c, Connection("ConsumerClose", c, latched[c]))
          ELSE UNCHANGED emitted
    /\ UNCHANGED <<clientVars, inPc, outPc, latched, opened, serverVars,
                   channelVars>>

Client(c) == ClientSend(c) \/ ClientEnd(c) \/ ClientReset(c) \/ ClientReceive(c)

Proxy(c) == Inbound(c) \/ Outbound(c) \/ Finish(c)

PullNext == \E c \in Streams : Client(c) \/ Server(c) \/ Proxy(c)

PullSpec == PullInit /\ [][PullNext]_pullVars

(***************************************************************************)
(* Fairness.  The runtime polls the task, and select! polls both pumps.    *)
(***************************************************************************)
PumpFairness ==
    \A c \in Streams : /\ WF_pullVars(Inbound(c))
                       /\ WF_pullVars(Outbound(c))
                       /\ WF_pullVars(Finish(c))

\* A server that reads what it is sent, and answers once it has a frame.
ServerFairness ==
    \A c \in Streams :
        /\ WF_pullVars(UpstreamTake(c))
        /\ WF_pullVars(received[c] # <<>> /\ UpstreamAccept(c))

FairPullSpec == PullSpec /\ PumpFairness /\ ServerFairness

-----------------------------------------------------------------------------
(* A status the server answered with and the proxy has not picked up yet.  *)
Status(c) == IF upstream[c] = "refused" /\ outPc[c] = "establish"
               THEN <<Failure>> ELSE <<>>

(* Both directions are relayed in order: what one side received is always  *)
(* a prefix of what the other sent, however the stream ends; and while     *)
(* nothing has broken, every frame and response is accounted for exactly   *)
(* once among the transports, the two channels and the pumps' hands.       *)
RelayInOrder ==
    \A c \in Streams :
        /\ IsPrefix(received[c], sent[c])
        /\ IsPrefix(got[c], yielded[c])
        /\ (task[c] = "pumping" /\ client[c] # "reset") =>
             /\ reqAlive[c] => received[c] \o requests[c] \o hand[c]
                                  \o inbound[c] = sent[c]
             /\ got[c] \o responses[c] \o item[c] \o Status(c)
                  \o arriving[c] = yielded[c]

(* The amounts a stream reported under one kind, by their place among its  *)
(* reports; the acks of the first n frames the client sent, and the        *)
(* messages of the first n responses, by theirs.                           *)
Reported(c, kind) ==
    [i \in {j \in DOMAIN emitted[c] : emitted[c][j].kind = kind} |->
        emitted[c][i].messages]

AckedIn(c, n) ==
    [i \in {j \in 1..n : sent[c][j].acks > 0} |-> sent[c][i].acks]

DeliveredIn(c, n) ==
    [i \in {j \in 1..n : yielded[c][j] \notin {Failure, 0}} |-> yielded[c][i]]

(* Amounts at places are compared by rank: f follows g if its first amount *)
(* is g's first, its second g's second, and so on, and g has no fewer.     *)
Rank(S, i) == Cardinality({j \in S : j <= i})

Follows(f, g) ==
    /\ Cardinality(DOMAIN f) <= Cardinality(DOMAIN g)
    /\ \A i \in DOMAIN f, j \in DOMAIN g :
          Rank(DOMAIN f, i) = Rank(DOMAIN g, j) => f[i] = g[j]

SameAmounts(f, g) == Follows(f, g) /\ Follows(g, f)

(* The tap counts each frame's acks and each response's messages once, in  *)
(* order: whatever reached the other side has been counted, and nothing is *)
(* counted that was not sent.  (Counting precedes relaying, so a frame     *)
(* whose relay fails is counted all the same.)                             *)
TapIsExact ==
    \A c \in Streams :
        /\ \E n \in Len(received[c])..Len(sent[c]) :
             SameAmounts(Reported(c, "Ack"), AckedIn(c, n))
        /\ \E n \in Len(got[c])..Len(yielded[c]) :
             SameAmounts(Reported(c, "Deliver"), DeliveredIn(c, n))

(* The refinement mapping: the consumer is open from the first frame that  *)
(* names a subscription until the task's end.                              *)
Phase == [c \in Streams |-> IF task[c] = "done" THEN "over"
                            ELSE IF opened[c] THEN "open" ELSE "new"]

FrameCounts == ((1..MaxMessages) \cup {f.acks : f \in FirstFrames \cup LaterFrames})
               \ {0}

Abstract == INSTANCE Consumer WITH
              phase <- Phase, attached <- latched, Counts <- FrameCounts

(* For a client that names its subscription in its first frame, the task   *)
(* keeps Consumer's promise to the observer however the two pumps, the     *)
(* client and the server interleave: one open, first; counts in between,   *)
(* on the subscription opened; one close, last, in every way of ending.    *)
ImplementsConsumer == Abstract!Spec

-----------------------------------------------------------------------------
(* A client that goes away is noticed, and its consumer reported closed,   *)
(* although the stream is idle: the inbound pump is what notices.          *)
ResetDetected ==
    \A c \in Streams : (client[c] = "reset") ~> (task[c] = "done")

(* The server ending the call ends the stream, as long as the client keeps *)
(* making room for the responses that precede the end.                     *)
EndPropagates ==
    \A c \in Streams :
        ([]<>(Len(responses[c]) < StreamBuffer \/ client[c] = "reset"))
            => ((upstream[c] \in {"refused", "ended"}) ~> (task[c] = "done"))

(* The request channel feeds the server while the call is still being      *)
(* established: a server that answers only after reading the first frame   *)
(* does answer.  (The comment in streaming_pull: "fed by the request       *)
(* channel, concurrently, to avoid a bidi deadlock".)                      *)
NoEstablishDeadlock ==
    \A c \in Streams :
        (sent[c] # <<>>) ~> (upstream[c] # "waiting" \/ task[c] = "done")

(* architecture.md: "a client behaves exactly as if it had talked to the   *)
(* server directly".  A client that half-closes and keeps reading gets the *)
(* messages the server had sent it by then: the task does not end with a   *)
(* response that carries any on its way to the outbound pump or in its     *)
(* hand.                                                                   *)
HalfCloseKeepsResponses ==
    [][\A c \in Streams :
         (client[c] = "ended" /\ task[c] = "pumping" /\ task'[c] = "done")
           => Range(item[c] \o arriving[c]) \subseteq {0, Failure}]_pullVars
=============================================================================
