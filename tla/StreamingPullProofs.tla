------------------------ MODULE StreamingPullProofs ------------------------
(***************************************************************************)
(* Proofs about the proxied StreamingPull call, for every number of        *)
(* streams, every client and server, every capacity of the two channels    *)
(* and every length of the call; and about the load generator, whose       *)
(* consumers are clients of it, for every topology and number of attempts. *)
(***************************************************************************)
(* In this order: types; relaying (RelayInv); the consumer's promise       *)
(* (ConsumerInv); the taps (TapInv); the generator's script and set-up     *)
(* (SetupInv); its consumers (ConsumeInv).                                 *)
(***************************************************************************)
EXTENDS Loadgen, SequenceTheorems, FiniteSetTheorems, TLAPS

-----------------------------------------------------------------------------
(* Type correctness.                                                       *)

(* The calls start well typed.                                             *)
LEMMA PullTypeInitially == PullInit => PullTypeOK
BY EmptySeq, StreamAssumption DEF PullInit, PullTypeOK

(* An error status, alone.                                                 *)
LEMMA FailureItem == <<Failure>> \in Seq(Item) /\ Len(<<Failure>>) = 1
<1>1. Failure \in Item
  BY DEF Item
<1>2. QED
  BY <1>1

(* What a pump reports to the sink is a report.                            *)
LEMMA EmitType ==
    ASSUME PullTypeOK, NEW c \in Streams, NEW report \in Report,
           Emit(c, report)
    PROVE  emitted' \in [Streams -> Seq(Report)]
<1>1. Append(emitted[c], report) \in Seq(Report)
  BY AppendProperties DEF PullTypeOK
<1>2. QED
  BY <1>1 DEF PullTypeOK, Emit

(* The reports the pumps make.                                             *)
LEMMA ReportTypes ==
    ASSUME NEW c \in Streams,
           NEW subscription \in Subscriptions \cup {NoSubscription}
    PROVE  /\ \A kind \in {"ConsumerOpen", "ConsumerClose"} :
                Connection(kind, c, subscription) \in Report
           /\ \A kind \in {"Ack", "Deliver"}, n \in Nat :
                Movement(kind, c, subscription, n) \in Report
BY DEF Connection, Movement, Report

(* The head and the tail of a nonempty sequence.                           *)
LEMMA HeadTail ==
    ASSUME NEW S, NEW s \in Seq(S), s # <<>>
    PROVE  /\ Head(s) \in S
           /\ Tail(s) \in Seq(S)
           /\ Len(s) > 0
           /\ Len(Tail(s)) = Len(s) - 1
           /\ <<Head(s)>> \in Seq(S)
           /\ Len(<<Head(s)>>) = 1
BY HeadTailProperties, EmptySeq

(* A step of the client keeps the types.                                   *)
LEMMA ClientType ==
    ASSUME PullTypeOK, NEW c \in Streams, Client(c)
    PROVE  PullTypeOK'
<1> USE DEF inboundVars, outboundVars, serverVars, channelVars, clientVars
<1>1. CASE ClientSend(c)
  <2>1. PICK f \in FirstFrames \cup LaterFrames :
          /\ sent' = [sent EXCEPT ![c] = Append(@, f)]
          /\ inbound' = [inbound EXCEPT ![c] = Append(@, f)]
    BY <1>1 DEF ClientSend
  <2>2. f \in Frame
    BY StreamAssumption
  <2>3. Append(sent[c], f) \in Seq(Frame) /\ Append(inbound[c], f) \in Seq(Frame)
    BY <2>2, AppendProperties DEF PullTypeOK
  <2>4. QED
    BY <1>1, <2>1, <2>3 DEF PullTypeOK, ClientSend
<1>2. CASE ClientEnd(c)
  BY <1>2 DEF PullTypeOK, ClientEnd
<1>3. CASE ClientReset(c)
  <2>1. PICK n \in 0..Len(inbound[c]) :
          inbound' = [inbound EXCEPT ![c] = SubSeq(@, 1, n)]
    BY <1>3 DEF ClientReset
  <2>2. SubSeq(inbound[c], 1, n) \in Seq(Frame)
    BY SubSeqProperties DEF PullTypeOK
  <2>3. <<>> \in Seq(Item) /\ Len(<<>>) = 0
    BY EmptySeq, Zenon
  <2>4. inbound' \in [Streams -> Seq(Frame)]
    BY <2>1, <2>2 DEF PullTypeOK
  <2>5. responses' = [responses EXCEPT ![c] = <<>>]
    BY <1>3 DEF ClientReset
  <2>6. responses' \in [Streams -> Seq(Item)]
    BY <2>3, <2>5 DEF PullTypeOK
  <2>7. \A d \in Streams : Len(responses'[d]) <= StreamBuffer
    BY <2>3, <2>5, StreamAssumption DEF PullTypeOK
  <2>8. QED
    BY <1>3, <2>4, <2>6, <2>7 DEF PullTypeOK, ClientReset
<1>4. CASE ClientReceive(c)
  <2>1. /\ Head(responses[c]) \in Item
        /\ Tail(responses[c]) \in Seq(Item)
        /\ Len(Tail(responses[c])) = Len(responses[c]) - 1
    BY <1>4, HeadTail DEF ClientReceive, PullTypeOK
  <2>2. Append(got[c], Head(responses[c])) \in Seq(Item)
    BY <2>1, AppendProperties DEF PullTypeOK
  <2>3. QED
    BY <1>4, <2>1, <2>2, StreamAssumption, SMTT(60) DEF PullTypeOK, ClientReceive
<1>5. QED
  BY <1>1, <1>2, <1>3, <1>4 DEF Client

(* So does a step of the server.                                           *)
LEMMA ServerType ==
    ASSUME PullTypeOK, NEW c \in Streams, Server(c)
    PROVE  PullTypeOK'
<1> USE DEF inboundVars, outboundVars, serverVars, channelVars, clientVars
<1>1. CASE UpstreamAccept(c)
  BY <1>1 DEF PullTypeOK, UpstreamAccept
<1>2. CASE UpstreamRefuse(c)
  BY <1>2, FailureItem DEF PullTypeOK, UpstreamRefuse
<1>3. CASE UpstreamTake(c)
  <2>1. /\ Head(requests[c]) \in Frame
        /\ Tail(requests[c]) \in Seq(Frame)
        /\ Len(Tail(requests[c])) = Len(requests[c]) - 1
    BY <1>3, HeadTail DEF UpstreamTake, PullTypeOK
  <2>2. Append(received[c], Head(requests[c])) \in Seq(Frame)
    BY <2>1, AppendProperties DEF PullTypeOK
  <2>3. QED
    BY <1>3, <2>1, <2>2, StreamAssumption, SMTT(60) DEF PullTypeOK, UpstreamTake
<1>4. CASE UpstreamYield(c)
  <2>1. PICK n \in 0..MaxMessages :
          /\ yielded' = [yielded EXCEPT ![c] = Append(@, n)]
          /\ arriving' = [arriving EXCEPT ![c] = Append(@, n)]
    BY <1>4 DEF UpstreamYield
  <2>2. n \in Item
    BY StreamAssumption DEF Item
  <2>3. Append(yielded[c], n) \in Seq(Item) /\ Append(arriving[c], n) \in Seq(Item)
    BY <2>2, AppendProperties DEF PullTypeOK
  <2>4. QED
    BY <1>4, <2>1, <2>3 DEF PullTypeOK, UpstreamYield
<1>5. CASE UpstreamEnd(c)
  <2>1. PICK last \in {<<>>, <<Failure>>} :
          /\ yielded' = [yielded EXCEPT ![c] = @ \o last]
          /\ arriving' = [arriving EXCEPT ![c] = @ \o last]
    BY <1>5 DEF UpstreamEnd
  <2>2. last \in Seq(Item)
    BY EmptySeq, FailureItem
  <2>3. yielded[c] \o last \in Seq(Item) /\ arriving[c] \o last \in Seq(Item)
    BY <2>2, ConcatProperties DEF PullTypeOK
  <2>4. QED
    BY <1>5, <2>1, <2>3 DEF PullTypeOK, UpstreamEnd
<1>6. CASE UpstreamDropsRequests(c)
  <2>1. <<>> \in Seq(Frame) /\ Len(<<>>) = 0
    BY EmptySeq, Zenon
  <2>2. QED
    BY <1>6, <2>1, StreamAssumption, SMTT(60) DEF PullTypeOK, UpstreamDropsRequests
<1>7. QED
  BY <1>1, <1>2, <1>3, <1>4, <1>5, <1>6 DEF Server

(* So does a step of the inbound pump: it holds at most one frame, and     *)
(* waits for a slot before it sends.                                       *)
LEMMA InboundType ==
    ASSUME PullTypeOK, NEW c \in Streams, Inbound(c),
           inPc[c] = "ack" => hand[c] # <<>>
    PROVE  PullTypeOK'
<1> USE DEF outboundVars, serverVars, channelVars, clientVars
<1>0. <<>> \in Seq(Frame) /\ Len(<<>>) = 0
  BY EmptySeq, Zenon
<1>1. CASE InNext(c)
  <2> DEFINE frame == Head(inbound[c])
             names == frame.subscription # NoSubscription
  <2>1. /\ frame \in Frame /\ <<frame>> \in Seq(Frame) /\ Len(<<frame>>) = 1
        /\ Tail(inbound[c]) \in Seq(Frame)
    BY <1>1, HeadTail DEF InNext, PullTypeOK
  <2>2. frame.subscription \in Subscriptions \cup {NoSubscription}
    BY <2>1 DEF Frame
  <2>3. /\ hand' = [hand EXCEPT ![c] = <<frame>>]
        /\ latched' = [latched EXCEPT
                        ![c] = IF names THEN frame.subscription ELSE @]
        /\ opened' = [opened EXCEPT ![c] = @ \/ names]
        /\ IF names /\ ~opened[c]
             THEN Emit(c, Connection("ConsumerOpen", c, frame.subscription))
             ELSE UNCHANGED emitted
        /\ inbound' = [inbound EXCEPT ![c] = Tail(@)]
        /\ inPc' = [inPc EXCEPT ![c] = "ack"]
    BY <1>1 DEF InNext
  <2> HIDE DEF frame
  <2>4. emitted' \in [Streams -> Seq(Report)]
    BY <2>2, <2>3, EmitType, ReportTypes DEF PullTypeOK
  <2>5. /\ hand' \in [Streams -> Seq(Frame)]
        /\ \A d \in Streams : Len(hand'[d]) <= 1
    BY <2>1, <2>3 DEF PullTypeOK
  <2>6. /\ latched' \in [Streams -> Subscriptions \cup {NoSubscription}]
        /\ opened' \in [Streams -> BOOLEAN]
    BY <2>2, <2>3 DEF PullTypeOK
  <2>7. inbound' \in [Streams -> Seq(Frame)]
    BY <2>1, <2>3 DEF PullTypeOK
  <2>8. inPc' \in [Streams -> {"next", "ack", "send", "done"}]
    BY <2>3 DEF PullTypeOK
  <2>9. QED
    BY <1>1, <2>4, <2>5, <2>6, <2>7, <2>8 DEF PullTypeOK, InNext
<1>2. CASE InNextEnds(c)
  BY <1>2 DEF PullTypeOK, InNextEnds
<1>3. CASE InAck(c)
  <2>1. /\ IF Head(hand[c]).acks > 0
             THEN Emit(c, Movement("Ack", c, latched[c], Head(hand[c]).acks))
             ELSE UNCHANGED emitted
        /\ inPc' = [inPc EXCEPT ![c] = "send"]
    BY <1>3 DEF InAck
  <2>2. latched[c] \in Subscriptions \cup {NoSubscription}
    BY DEF PullTypeOK
  <2>3. Head(hand[c]) \in Frame
    BY <1>3, HeadTail DEF PullTypeOK, InAck
  <2>4. emitted' \in [Streams -> Seq(Report)]
    BY <2>1, <2>2, <2>3, EmitType, ReportTypes DEF PullTypeOK, Frame
  <2>5. inPc' \in [Streams -> {"next", "ack", "send", "done"}]
    BY <2>1 DEF PullTypeOK
  <2>6. QED
    BY <1>3, <2>4, <2>5 DEF PullTypeOK, InAck
<1>4. CASE InSend(c)
  <2>1. /\ hand' = [hand EXCEPT ![c] = <<>>]
        /\ inPc' \in [Streams -> {"next", "ack", "send", "done"}]
    BY <1>4, ZenonT(60) DEF PullTypeOK, InSend
  <2>2. /\ hand' \in [Streams -> Seq(Frame)]
        /\ \A d \in Streams : Len(hand'[d]) <= 1
    BY <1>0, <2>1 DEF PullTypeOK
  <2>3. /\ requests' \in [Streams -> Seq(Frame)]
        /\ \A d \in Streams : Len(requests'[d]) <= StreamBuffer
    <3>1. CASE UNCHANGED requests
      BY <3>1 DEF PullTypeOK
    <3>2. CASE /\ Len(requests[c]) < StreamBuffer
               /\ requests' = [requests EXCEPT ![c] = @ \o hand[c]]
      <4>1. /\ requests[c] \o hand[c] \in Seq(Frame)
            /\ Len(requests[c] \o hand[c]) = Len(requests[c]) + Len(hand[c])
        BY ConcatProperties DEF PullTypeOK
      <4>2. Len(requests[c] \o hand[c]) <= StreamBuffer
        BY <3>2, <4>1, LenProperties, StreamAssumption DEF PullTypeOK
      <4>3. QED
        BY <3>2, <4>1, <4>2, SMTT(60) DEF PullTypeOK
    <3>3. QED
      BY <1>4, <3>1, <3>2 DEF InSend
  <2>4. QED
    BY <1>4, <2>1, <2>2, <2>3 DEF PullTypeOK, InSend
<1>5. QED
  BY <1>1, <1>2, <1>3, <1>4 DEF Inbound

(* So does a step of the outbound pump.                                    *)
LEMMA OutboundType ==
    ASSUME PullTypeOK, NEW c \in Streams, Outbound(c)
    PROVE  PullTypeOK'
<1> USE DEF inboundVars, serverVars, channelVars, clientVars
<1>0. <<>> \in Seq(Item) /\ Len(<<>>) = 0
  BY EmptySeq, Zenon
<1>1. CASE OutEstablish(c)
  <2>1. /\ UNCHANGED item \/ item' = [item EXCEPT ![c] = <<Failure>>]
        /\ \/ outPc' = [outPc EXCEPT ![c] = "next"]
           \/ outPc' = [outPc EXCEPT ![c] = "sendErr"]
    BY <1>1 DEF OutEstablish
  <2>2. /\ item' \in [Streams -> Seq(Item)]
        /\ \A d \in Streams : Len(item'[d]) <= 1
    <3>1. CASE UNCHANGED item
      BY <3>1 DEF PullTypeOK
    <3>2. CASE item' = [item EXCEPT ![c] = <<Failure>>]
      BY <3>2, FailureItem DEF PullTypeOK
    <3>3. QED
      BY <2>1, <3>1, <3>2
  <2>3. outPc' \in [Streams -> {"establish", "next", "send", "sendErr", "done"}]
    BY <2>1, ZenonT(60) DEF PullTypeOK
  <2>4. QED
    BY <1>1, <2>2, <2>3 DEF PullTypeOK, OutEstablish
<1>2. CASE OutNext(c)
  <2> DEFINE response == Head(arriving[c])
  <2>1. /\ response \in Item /\ <<response>> \in Seq(Item)
        /\ Len(<<response>>) = 1 /\ Tail(arriving[c]) \in Seq(Item)
    BY <1>2, HeadTail DEF OutNext, PullTypeOK
  <2>2. /\ item' = [item EXCEPT ![c] = <<response>>]
        /\ outPc' = [outPc EXCEPT
                      ![c] = IF response = Failure THEN "sendErr" ELSE "send"]
        /\ IF response # Failure /\ response # 0
             THEN Emit(c, Movement("Deliver", c, latched[c], response))
             ELSE UNCHANGED emitted
        /\ arriving' = [arriving EXCEPT ![c] = Tail(@)]
    BY <1>2 DEF OutNext
  <2> HIDE DEF response
  <2>3. latched[c] \in Subscriptions \cup {NoSubscription}
    BY DEF PullTypeOK
  <2>4. emitted' \in [Streams -> Seq(Report)]
    BY <2>1, <2>2, <2>3, EmitType, ReportTypes DEF PullTypeOK, Item
  <2>5. /\ item' \in [Streams -> Seq(Item)]
        /\ \A d \in Streams : Len(item'[d]) <= 1
    BY <2>1, <2>2 DEF PullTypeOK
  <2>6. outPc' \in [Streams -> {"establish", "next", "send", "sendErr", "done"}]
    BY <2>2 DEF PullTypeOK
  <2>7. arriving' \in [Streams -> Seq(Item)]
    BY <2>1, <2>2 DEF PullTypeOK
  <2>8. QED
    BY <1>2, <2>4, <2>5, <2>6, <2>7 DEF PullTypeOK, OutNext
<1>3. CASE OutNextEnds(c)
  BY <1>3 DEF PullTypeOK, OutNextEnds
<1>4. CASE OutSend(c)
  <2>1. /\ item' = [item EXCEPT ![c] = <<>>]
        /\ outPc' \in [Streams -> {"establish", "next", "send", "sendErr", "done"}]
    BY <1>4 DEF PullTypeOK, OutSend
  <2>2. /\ item' \in [Streams -> Seq(Item)]
        /\ \A d \in Streams : Len(item'[d]) <= 1
    BY <1>0, <2>1 DEF PullTypeOK
  <2>3. /\ responses' \in [Streams -> Seq(Item)]
        /\ \A d \in Streams : Len(responses'[d]) <= StreamBuffer
    <3>1. CASE UNCHANGED responses
      BY <3>1 DEF PullTypeOK
    <3>2. CASE /\ Len(responses[c]) < StreamBuffer
               /\ responses' = [responses EXCEPT ![c] = @ \o item[c]]
      <4>1. /\ responses[c] \o item[c] \in Seq(Item)
            /\ Len(responses[c] \o item[c]) = Len(responses[c]) + Len(item[c])
        BY ConcatProperties DEF PullTypeOK
      <4>2. Len(responses[c] \o item[c]) <= StreamBuffer
        BY <3>2, <4>1, LenProperties, StreamAssumption DEF PullTypeOK
      <4>3. QED
        BY <3>2, <4>1, <4>2 DEF PullTypeOK
    <3>3. QED
      BY <1>4, <3>1, <3>2 DEF OutSend
  <2>4. QED
    BY <1>4, <2>1, <2>2, <2>3 DEF PullTypeOK, OutSend
<1>5. QED
  BY <1>1, <1>2, <1>3, <1>4 DEF Outbound

(* So does the end of the task.                                            *)
LEMMA FinishType ==
    ASSUME PullTypeOK, NEW c \in Streams, Finish(c)
    PROVE  PullTypeOK'
<1> USE DEF inboundVars, outboundVars, serverVars, channelVars, clientVars
<1>1. /\ <<>> \in Seq(Item) /\ <<>> \in Seq(Frame)
      /\ Len(<<>>) = 0
  BY EmptySeq, Zenon
<1>2. emitted' \in [Streams -> Seq(Report)]
  <2>1. latched[c] \in Subscriptions \cup {NoSubscription}
    BY DEF PullTypeOK
  <2>2. Connection("ConsumerClose", c, latched[c]) \in Report
    BY <2>1, ReportTypes
  <2>3. QED
    BY <2>2, EmitType DEF Finish, PullTypeOK
<1>3. /\ hand' \in [Streams -> Seq(Frame)]
      /\ item' \in [Streams -> Seq(Item)]
      /\ \A d \in Streams : Len(hand'[d]) <= 1 /\ Len(item'[d]) <= 1
  BY <1>1 DEF PullTypeOK, Finish
<1>4. task' \in [Streams -> {"pumping", "done"}]
  BY DEF PullTypeOK, Finish
<1>5. QED
  BY <1>2, <1>3, <1>4 DEF PullTypeOK, Finish
-----------------------------------------------------------------------------
(* Relaying.                                                               *)

(***************************************************************************)
(* All that was sent, in order: P has got past the transport, I is in it,  *)
(* and the transport may have lost what came after that.                   *)
(***************************************************************************)
Accounted(T, S, P, I, mayLose) ==
    \E rest \in Seq(T) : /\ S = (P \o I) \o rest
                         /\ ~mayLose => rest = <<>>

\* R has arrived, and Q will, whatever becomes of the rest.
StartsWith(T, S, R, Q) == \E rest \in Seq(T) : S = (R \o Q) \o rest

(* The head of a queue moves to the sequence before it.                    *)
LEMMA HeadMoves ==
    ASSUME NEW S, NEW s \in Seq(S), NEW q \in Seq(S), q # <<>>
    PROVE  /\ <<Head(q)>> \o Tail(q) = q
           /\ Append(s, Head(q)) \o Tail(q) = s \o q
<1>1. /\ Head(q) \in S /\ Tail(q) \in Seq(S) /\ <<Head(q)>> \in Seq(S)
  BY HeadTail
<1>2. <<Head(q)>> \o Tail(q) = q
  <2>1. /\ Len(<<Head(q)>> \o Tail(q)) = Len(q)
        /\ <<Head(q)>> \o Tail(q) \in Seq(S)
    BY <1>1, HeadTail, ConcatProperties, LenProperties
  <2>2. ASSUME NEW i \in 1..Len(q) PROVE (<<Head(q)>> \o Tail(q))[i] = q[i]
    <3>1. (<<Head(q)>> \o Tail(q))[i] = IF i <= 1 THEN <<Head(q)>>[i] ELSE Tail(q)[i - 1]
      BY <1>1, HeadTail, ConcatProperties, LenProperties
    <3>2. CASE i = 1
      BY <3>1, <3>2
    <3>3. CASE i # 1
      <4>1. i - 1 \in 1..Len(Tail(q)) /\ (i - 1) + 1 = i
        BY <3>3, HeadTail, LenProperties
      <4>2. Tail(q)[i - 1] = q[(i - 1) + 1]
        BY <4>1, HeadTailProperties
      <4>3. QED
        BY <3>1, <3>3, <4>1, <4>2
    <3>4. QED
      BY <3>2, <3>3
  <2>3. QED
    BY <2>1, <2>2, SeqEqual
<1>3. Append(s, Head(q)) = s \o <<Head(q)>>
  BY <1>1, AppendIsConcat
<1>4. (s \o <<Head(q)>>) \o Tail(q) = s \o (<<Head(q)>> \o Tail(q))
  BY <1>1, ConcatAssociative
<1>5. QED
  BY <1>2, <1>3, <1>4

(* A sequence that is extended stays behind what is before it.             *)
LEMMA AppendMoves ==
    ASSUME NEW S, NEW s \in Seq(S), NEW q \in Seq(S), NEW x \in S
    PROVE  s \o Append(q, x) = Append(s \o q, x)
<1>1. <<x>> \in Seq(S) /\ s \o q \in Seq(S)
  BY ConcatProperties
<1>2. Append(q, x) = q \o <<x>> /\ Append(s \o q, x) = (s \o q) \o <<x>>
  BY <1>1, AppendIsConcat
<1>3. (s \o q) \o <<x>> = s \o (q \o <<x>>)
  BY <1>1, ConcatAssociative
<1>4. QED
  BY <1>2, <1>3

(* What a sequence starts with is a prefix of it.                          *)
LEMMA ConcatPrefix ==
    ASSUME NEW S, NEW s \in Seq(S), NEW q \in Seq(S)
    PROVE  IsPrefix(s, s \o q)
<1>1. /\ s \o q \in Seq(S) /\ Len(s) \in Nat /\ Len(q) \in Nat
      /\ Len(s \o q) = Len(s) + Len(q)
  BY ConcatProperties, LenProperties
<1>2. SubSeq(s, 1, Len(s)) = SubSeq(s \o q, 1, Len(s))
  <2>1. \A i \in 1..Len(s) : s[i] \in S /\ (s \o q)[i] = s[i]
    BY <1>1, ConcatProperties, ElementOfSeq
  <2>2. /\ SubSeq(s, 1, Len(s)) \in Seq(S)
        /\ Len(SubSeq(s, 1, Len(s))) = IF 1 <= Len(s) THEN Len(s) - 1 + 1 ELSE 0
        /\ \A i \in 1..(Len(s) - 1 + 1) : SubSeq(s, 1, Len(s))[i] = s[1 + i - 1]
    BY <1>1, <2>1, SubSeqProperties
  <2>3. /\ SubSeq(s \o q, 1, Len(s)) \in Seq(S)
        /\ Len(SubSeq(s \o q, 1, Len(s))) = IF 1 <= Len(s) THEN Len(s) - 1 + 1 ELSE 0
        /\ \A i \in 1..(Len(s) - 1 + 1) : SubSeq(s \o q, 1, Len(s))[i] = (s \o q)[1 + i - 1]
    BY <1>1, <2>1, SubSeqProperties
  <2>4. \A i \in 1..Len(SubSeq(s, 1, Len(s))) :
          SubSeq(s, 1, Len(s))[i] = SubSeq(s \o q, 1, Len(s))[i]
    BY <1>1, <2>1, <2>2, <2>3
  <2>5. QED
    BY <2>2, <2>3, <2>4, SeqEqual
<1>3. QED
  BY <1>1, <1>2 DEF IsPrefix

(* More is sent than what has arrived so far.                              *)
LEMMA StartsExtend ==
    ASSUME NEW T, NEW S \in Seq(T), NEW R \in Seq(T), NEW Q \in Seq(T),
           NEW E \in Seq(T), StartsWith(T, S, R, Q)
    PROVE  StartsWith(T, S \o E, R, Q)
<1>1. PICK rest \in Seq(T) : S = (R \o Q) \o rest
  BY DEF StartsWith
<1> DEFINE P == R \o Q
<1>2. P \in Seq(T)
  BY ConcatProperties
<1>3. S = P \o rest
  BY <1>1
<1> HIDE DEF P
<1>4. (P \o rest) \o E = P \o (rest \o E)
  BY <1>2, ConcatAssociative, SMTT(60)
<1>4a. rest \o E \in Seq(T)
  BY ConcatProperties
<1>5. QED
  BY <1>3, <1>4, <1>4a DEF StartsWith, P

(* The head of the channel arrives.                                        *)
LEMMA StartsTake ==
    ASSUME NEW T, NEW S, NEW R \in Seq(T), NEW Q \in Seq(T), Q # <<>>,
           StartsWith(T, S, R, Q)
    PROVE  StartsWith(T, S, Append(R, Head(Q)), Tail(Q))
<1>1. Append(R, Head(Q)) \o Tail(Q) = R \o Q
  BY HeadMoves
<1>2. QED
  BY <1>1 DEF StartsWith

(* The channel is lost.                                                    *)
LEMMA StartsDrop ==
    ASSUME NEW T, NEW S, NEW R \in Seq(T), NEW Q \in Seq(T),
           StartsWith(T, S, R, Q)
    PROVE  StartsWith(T, S, R, <<>>)
<1>1. PICK rest \in Seq(T) : S = (R \o Q) \o rest
  BY DEF StartsWith
<1>2. (R \o Q) \o rest = R \o (Q \o rest) /\ Q \o rest \in Seq(T)
  BY ConcatAssociative, ConcatProperties, SMTT(60)
<1>3. R \o <<>> = R
  BY ConcatEmptySeq
<1>4. QED
  BY <1>1, <1>2, <1>3 DEF StartsWith

(* What has arrived is a prefix of what was sent.                          *)
LEMMA StartsPrefix ==
    ASSUME NEW T, NEW S, NEW R \in Seq(T), NEW Q \in Seq(T),
           StartsWith(T, S, R, Q)
    PROVE  IsPrefix(R, S)
<1>1. PICK rest \in Seq(T) : S = (R \o Q) \o rest
  BY DEF StartsWith
<1>2. (R \o Q) \o rest = R \o (Q \o rest) /\ Q \o rest \in Seq(T)
  BY ConcatAssociative, ConcatProperties
<1>3. QED
  BY <1>1, <1>2, ConcatPrefix

(* More is sent while nothing has been lost.                               *)
LEMMA AccountedExtend ==
    ASSUME NEW T, NEW S, NEW P \in Seq(T), NEW I \in Seq(T), NEW E \in Seq(T),
           NEW mayLose, Accounted(T, S, P, I, FALSE)
    PROVE  Accounted(T, S \o E, P, I \o E, mayLose)
<1>1. (P \o I) \o E = P \o (I \o E)
  BY ConcatAssociative, SMTT(60)
<1>2. P \o I \in Seq(T) /\ I \o E \in Seq(T)
  BY ConcatProperties
<1>3. S = P \o I
  BY <1>2, ConcatEmptySeq DEF Accounted
<1>4. P \o (I \o E) \in Seq(T)
  BY <1>2, ConcatProperties
<1>5. S \o E = (P \o (I \o E)) \o <<>> /\ <<>> \in Seq(T)
  BY <1>1, <1>3, <1>4, ConcatEmptySeq, EmptySeq
<1>6. QED
  BY <1>5 DEF Accounted

(* The next one comes out of the transport.                                *)
LEMMA AccountedNext ==
    ASSUME NEW T, NEW S, NEW P \in Seq(T), NEW I \in Seq(T), NEW mayLose,
           I # <<>>, Accounted(T, S, P, I, mayLose)
    PROVE  Accounted(T, S, P \o <<Head(I)>>, Tail(I), mayLose)
<1>1. PICK K \in Seq(T), J \in Seq(T) :
        K = <<Head(I)>> /\ J = Tail(I) /\ K \o J = I
  BY HeadTail, HeadMoves, ZenonT(60)
<1>2. (P \o K) \o J = P \o (K \o J)
  BY ConcatAssociative, SMTT(60)
<1>3. QED
  BY <1>1, <1>2 DEF Accounted

(* The end of what is in the transport is lost.                            *)
LEMMA AccountedLose ==
    ASSUME NEW T, NEW S, NEW P \in Seq(T), NEW A \in Seq(T), NEW B \in Seq(T),
           NEW mayLose, Accounted(T, S, P, A \o B, mayLose)
    PROVE  Accounted(T, S, P, A, TRUE)
<1>1. PICK rest \in Seq(T) : S = (P \o (A \o B)) \o rest
  BY DEF Accounted
<1>2. P \o (A \o B) = (P \o A) \o B
  BY ConcatAssociative, SMTT(60)
<1>3. PICK PA \in Seq(T) : PA = P \o A
  BY ConcatProperties
<1>4. (PA \o B) \o rest = PA \o (B \o rest)
  BY ConcatAssociative, SMTT(60)
<1>5. B \o rest \in Seq(T)
  BY ConcatProperties
<1>6. S = PA \o (B \o rest)
  BY <1>1, <1>2, <1>3, <1>4
<1>7. QED
  BY <1>3, <1>5, <1>6 DEF Accounted

(* What is accounted for starts with what has got past the transport.      *)
LEMMA AccountedStarts ==
    ASSUME NEW T, NEW S, NEW R \in Seq(T), NEW Q \in Seq(T), NEW I \in Seq(T),
           NEW mayLose, Accounted(T, S, R \o Q, I, mayLose)
    PROVE  StartsWith(T, S, R, Q)
<1>1. PICK rest \in Seq(T) : S = ((R \o Q) \o I) \o rest
  BY DEF Accounted
<1>2. PICK P \in Seq(T) : P = R \o Q
  BY ConcatProperties
<1>3. (P \o I) \o rest = P \o (I \o rest)
  BY ConcatAssociative, SMTT(60)
<1>4. I \o rest \in Seq(T)
  BY ConcatProperties
<1>5. QED
  BY <1>1, <1>2, <1>3, <1>4 DEF StartsWith

(* What the hand held is in the channel.                                   *)
LEMMA HandEmptied ==
    ASSUME NEW T, NEW R \in Seq(T), NEW Q \in Seq(T), NEW H \in Seq(T)
    PROVE  /\ R \o (Q \o H) = (R \o Q) \o H
           /\ (R \o (Q \o H)) \o <<>> = (R \o Q) \o H
<1>1. R \o (Q \o H) = (R \o Q) \o H
  BY ConcatAssociative, SMTT(60)
<1>2. PICK QH \in Seq(T) : QH = Q \o H
  BY ConcatProperties
<1>3. R \o QH \in Seq(T)
  BY ConcatProperties
<1>4. (R \o QH) \o <<>> = R \o QH
  BY <1>3, ConcatEmptySeq
<1>5. QED
  BY <1>1, <1>2, <1>4

(***************************************************************************)
(* What the pumps hold: a frame from its receipt until it is forwarded, a  *)
(* response from its receipt until it is relayed.  InAck follows InNext    *)
(* without an await, so nothing ends the task in between.                  *)
(***************************************************************************)
PumpsHold(c) ==
    /\ task[c] = "pumping" =>
         /\ inPc[c] \in {"ack", "send"} <=> hand[c] # <<>>
         /\ outPc[c] \in {"send", "sendErr"} <=> item[c] # <<>>
    /\ inPc[c] = "ack" => task[c] = "pumping" /\ outPc[c] # "done"

(***************************************************************************)
(* Frames: what the server has received and is about to receive is what    *)
(* the client sent first.  While the call is up the pump's hand and the    *)
(* transport follow, and only a reset can have lost the frames after that. *)
(***************************************************************************)
FramesInOrder(c) ==
    /\ StartsWith(Frame, sent[c], received[c], requests[c])
    /\ (task[c] = "pumping" /\ reqAlive[c]) =>
         Accounted(Frame, sent[c], (received[c] \o requests[c]) \o hand[c],
                   inbound[c], client[c] = "reset")
    /\ ~reqAlive[c] => requests[c] = <<>>

(***************************************************************************)
(* Responses: the same from the server to the client.  Until the call is   *)
(* established nothing has been answered.                                  *)
(***************************************************************************)
ResponsesInOrder(c) ==
    /\ StartsWith(Item, yielded[c], got[c], responses[c])
    /\ (task[c] = "pumping" /\ client[c] # "reset") =>
         Accounted(Item, yielded[c], (got[c] \o responses[c]) \o item[c],
                   Status(c) \o arriving[c], FALSE)
    /\ upstream[c] = "waiting" =>
         outPc[c] = "establish" /\ yielded[c] = <<>> /\ arriving[c] = <<>>

RelayInv ==
    /\ PullTypeOK
    /\ \A c \in Streams : PumpsHold(c) /\ FramesInOrder(c) /\ ResponsesInOrder(c)

(* A step of one stream leaves every other one as it is.                   *)
LEMMA OtherStreams ==
    ASSUME PullTypeOK, NEW c \in Streams, NEW d \in Streams, d # c,
           Client(c) \/ Server(c) \/ Proxy(c)
    PROVE  /\ client'[d] = client[d] /\ sent'[d] = sent[d]
           /\ inbound'[d] = inbound[d] /\ inPc'[d] = inPc[d]
           /\ hand'[d] = hand[d] /\ requests'[d] = requests[d]
           /\ reqAlive'[d] = reqAlive[d] /\ received'[d] = received[d]
           /\ upstream'[d] = upstream[d] /\ yielded'[d] = yielded[d]
           /\ arriving'[d] = arriving[d] /\ outPc'[d] = outPc[d]
           /\ item'[d] = item[d] /\ responses'[d] = responses[d]
           /\ got'[d] = got[d] /\ latched'[d] = latched[d]
           /\ opened'[d] = opened[d] /\ task'[d] = task[d]
<1> USE DEF inboundVars, outboundVars, serverVars, channelVars, clientVars
<1>1. CASE Client(c)
  <2>1. CASE ClientSend(c)
    BY <2>1 DEF PullTypeOK, ClientSend
  <2>2. CASE ClientEnd(c)
    BY <2>2 DEF PullTypeOK, ClientEnd
  <2>3. CASE ClientReset(c)
    BY <2>3 DEF PullTypeOK, ClientReset
  <2>4. CASE ClientReceive(c)
    BY <2>4 DEF PullTypeOK, ClientReceive
  <2>5. QED
    BY <1>1, <2>1, <2>2, <2>3, <2>4 DEF Client
<1>2. CASE Server(c)
  <2>1. CASE UpstreamAccept(c)
    BY <2>1 DEF PullTypeOK, UpstreamAccept
  <2>2. CASE UpstreamRefuse(c)
    BY <2>2 DEF PullTypeOK, UpstreamRefuse
  <2>3. CASE UpstreamTake(c)
    BY <2>3 DEF PullTypeOK, UpstreamTake
  <2>4. CASE UpstreamYield(c)
    BY <2>4 DEF PullTypeOK, UpstreamYield
  <2>5. CASE UpstreamEnd(c)
    BY <2>5 DEF PullTypeOK, UpstreamEnd
  <2>6. CASE UpstreamDropsRequests(c)
    BY <2>6 DEF PullTypeOK, UpstreamDropsRequests
  <2>7. QED
    BY <1>2, <2>1, <2>2, <2>3, <2>4, <2>5, <2>6 DEF Server
<1>3. CASE Inbound(c)
  <2>1. CASE InNext(c)
    BY <2>1 DEF PullTypeOK, InNext
  <2>2. CASE InNextEnds(c)
    BY <2>2 DEF PullTypeOK, InNextEnds
  <2>3. CASE InAck(c)
    BY <2>3 DEF PullTypeOK, InAck
  <2>4. CASE InSend(c)
    BY <2>4, ZenonT(60) DEF PullTypeOK, InSend
  <2>5. QED
    BY <1>3, <2>1, <2>2, <2>3, <2>4 DEF Inbound
<1>4. CASE Outbound(c)
  <2>1. CASE OutEstablish(c)
    BY <2>1, ZenonT(60) DEF PullTypeOK, OutEstablish
  <2>2. CASE OutNext(c)
    BY <2>2 DEF PullTypeOK, OutNext
  <2>3. CASE OutNextEnds(c)
    BY <2>3 DEF PullTypeOK, OutNextEnds
  <2>4. CASE OutSend(c)
    BY <2>4, ZenonT(60) DEF PullTypeOK, OutSend
  <2>5. QED
    BY <1>4, <2>1, <2>2, <2>3, <2>4 DEF Outbound
<1>5. CASE Finish(c)
  BY <1>5 DEF PullTypeOK, Finish
<1>6. QED
  BY <1>1, <1>2, <1>3, <1>4, <1>5 DEF Proxy
(* The pumps' own steps keep what their positions say of what they hold.   *)
LEMMA PumpsStep ==
    ASSUME PullTypeOK, NEW c \in Streams, PumpsHold(c),
           Client(c) \/ Server(c) \/ Proxy(c)
    PROVE  PumpsHold(c)'
<1> USE DEF inboundVars, outboundVars, serverVars, channelVars, clientVars
<1>1. CASE Client(c) \/ Server(c)
  <2>1. UNCHANGED <<task, inPc, hand, outPc, item>>
    BY <1>1 DEF Client, ClientSend, ClientEnd, ClientReset, ClientReceive,
                Server, UpstreamAccept, UpstreamRefuse, UpstreamTake,
                UpstreamYield, UpstreamEnd, UpstreamDropsRequests
  <2>2. QED
    BY <2>1 DEF PumpsHold
<1>2. CASE InNext(c)
  <2>1. /\ task' = task /\ outPc' = outPc /\ item' = item
        /\ inPc'[c] = "ack" /\ hand'[c] = <<Head(inbound[c])>>
    BY <1>2 DEF InNext, PullTypeOK
  <2>2. task[c] = "pumping" /\ outPc[c] # "done"
    BY <1>2 DEF InNext, Pumping
  <2>3. <<Head(inbound[c])>> # <<>>
    BY <1>2, HeadTail DEF InNext, PullTypeOK
  <2>4. QED
    BY <2>1, <2>2, <2>3 DEF PumpsHold
<1>3. CASE InNextEnds(c)
  BY <1>3 DEF PumpsHold, InNextEnds, PullTypeOK
<1>4. CASE InAck(c)
  BY <1>4 DEF PumpsHold, InAck, PullTypeOK
<1>5. CASE InSend(c)
  BY <1>5 DEF PumpsHold, InSend, PullTypeOK
<1>6. CASE OutEstablish(c)
  <2>1. task' = task /\ inPc' = inPc /\ hand' = hand
    BY <1>6 DEF OutEstablish
  <2>2. \/ outPc'[c] = "next" /\ item' = item
        \/ outPc'[c] = "sendErr" /\ item'[c] = <<Failure>>
    BY <1>6 DEF OutEstablish, PullTypeOK
  <2>3. task[c] = "pumping" /\ outPc[c] = "establish" /\ inPc[c] # "ack"
    BY <1>6 DEF OutEstablish, OutPumping, Pumping
  <2>4. <<Failure>> # <<>>
    BY FailureItem, EmptySeq
  <2>5. QED
    BY <2>1, <2>2, <2>3, <2>4 DEF PumpsHold
<1>7. CASE OutNext(c)
  <2>1. /\ task' = task /\ inPc' = inPc /\ hand' = hand
        /\ outPc'[c] \in {"send", "sendErr"}
        /\ item'[c] = <<Head(arriving[c])>>
    BY <1>7 DEF OutNext, PullTypeOK
  <2>2. <<Head(arriving[c])>> # <<>>
    BY <1>7, HeadTail DEF OutNext, PullTypeOK
  <2>3. QED
    BY <2>1, <2>2 DEF PumpsHold
<1>8. CASE OutNextEnds(c)
  BY <1>8 DEF PumpsHold, OutNextEnds, OutPumping, PullTypeOK
<1>9. CASE OutSend(c)
  BY <1>9 DEF PumpsHold, OutSend, OutPumping, PullTypeOK
<1>10. CASE Finish(c)
  BY <1>10 DEF PumpsHold, Finish, PullTypeOK
<1>11. QED
  BY <1>1, <1>2, <1>3, <1>4, <1>5, <1>6, <1>7, <1>8, <1>9, <1>10
  DEF Proxy, Inbound, Outbound
(* A reset loses the end of what was on its way to the proxy.              *)
LEMMA ResetLoses ==
    ASSUME PullTypeOK, NEW c \in Streams, ClientReset(c)
    PROVE  \E A \in Seq(Frame), B \in Seq(Frame) :
              inbound'[c] = A /\ inbound[c] = A \o B
<1>1. PICK n \in 0..Len(inbound[c]) : inbound'[c] = SubSeq(inbound[c], 1, n)
  BY DEF ClientReset, PullTypeOK
<1> DEFINE I == inbound[c]
<1>2. I \in Seq(Frame)
  BY DEF PullTypeOK
<1> HIDE DEF I
<1>3. n \in 0..Len(I) /\ Len(I) \in Nat /\ \A i \in 1..Len(I) : I[i] \in Frame
  BY <1>2, LenProperties, ElementOfSeq DEF I
<1>4. SubSeq(I, 1, n) \in Seq(Frame) /\ SubSeq(I, n + 1, Len(I)) \in Seq(Frame)
  BY <1>3, SubSeqProperties
<1>5. 1 \in 1..(Len(I) + 1) /\ n \in (1 - 1)..Len(I) /\ Len(I) \in n..Len(I)
  BY <1>3
<1>6. SubSeq(I, 1, n) \o SubSeq(I, n + 1, Len(I)) = SubSeq(I, 1, Len(I))
  BY <1>2, <1>5, ConcatAdjacentSubSeq
<1>7. SubSeq(I, 1, Len(I)) = I
  BY <1>2, SubSeqFull
<1>8. QED
  BY <1>1, <1>4, <1>6, <1>7 DEF I

(* Every step keeps the order of the frames.                               *)
LEMMA FramesStep ==
    ASSUME PullTypeOK, NEW c \in Streams, PumpsHold(c), FramesInOrder(c),
           Client(c) \/ Server(c) \/ Proxy(c)
    PROVE  FramesInOrder(c)'
<1> USE DEF inboundVars, outboundVars, serverVars, channelVars, clientVars
<1> DEFINE S == sent[c]      R == received[c]  Q == requests[c]
           H == hand[c]      I == inbound[c]
<1>0. /\ S \in Seq(Frame) /\ R \in Seq(Frame) /\ Q \in Seq(Frame)
      /\ H \in Seq(Frame) /\ I \in Seq(Frame)
  BY DEF PullTypeOK
<1> DEFINE P == (R \o Q) \o H
<1>1. /\ StartsWith(Frame, S, R, Q)
      /\ (task[c] = "pumping" /\ reqAlive[c]) =>
            Accounted(Frame, S, P, I, client[c] = "reset")
  BY DEF FramesInOrder
<1>1a. P \in Seq(Frame)
  <2>1. R \o Q \in Seq(Frame)
    BY <1>0, ConcatProperties
  <2>2. QED
    BY <1>0, <2>1, ConcatProperties
<1> HIDE DEF P
<1>2. CASE ClientSend(c)
  <2>1. PICK f \in FirstFrames \cup LaterFrames :
          sent'[c] = Append(S, f) /\ inbound'[c] = Append(I, f)
    BY <1>2, SMTT(60) DEF ClientSend, PullTypeOK
  <2>2. /\ client[c] = "open"
        /\ UNCHANGED <<received, requests, hand, reqAlive, task, client>>
    BY <1>2 DEF ClientSend
  <2> HIDE DEF S, R, Q, H, I
  <2>3. <<f>> \in Seq(Frame) /\ Append(S, f) = S \o <<f>> /\ Append(I, f) = I \o <<f>>
    <3>1. f \in Frame
      BY StreamAssumption
    <3>2. QED
      BY <1>0, <3>1, AppendIsConcat
  <2>4. StartsWith(Frame, S \o <<f>>, R, Q)
    BY <1>0, <1>1, <2>3, StartsExtend
  <2>5. (task[c] = "pumping" /\ reqAlive[c]) =>
            Accounted(Frame, S \o <<f>>, P, I \o <<f>>, FALSE)
    BY <1>0, <1>1, <1>1a, <2>2, <2>3, AccountedExtend
  <2>6. QED
    BY <2>1, <2>2, <2>3, <2>4, <2>5 DEF FramesInOrder, S, R, Q, H, I, P
<1>3. CASE ClientEnd(c)
  BY <1>3 DEF FramesInOrder, ClientEnd, PullTypeOK
<1>4. CASE ClientReset(c)
  <2>1. PICK A \in Seq(Frame), B \in Seq(Frame) : inbound'[c] = A /\ I = A \o B
    BY <1>4, ResetLoses
  <2>2. /\ client'[c] = "reset"
        /\ UNCHANGED <<sent, received, requests, hand, reqAlive, task>>
    BY <1>4 DEF ClientReset, PullTypeOK
  <2> HIDE DEF S, R, Q, H, I
  <2>3. (task[c] = "pumping" /\ reqAlive[c]) => Accounted(Frame, S, P, A, TRUE)
    BY <1>0, <1>1, <1>1a, <2>1, AccountedLose
  <2>4. QED
    BY <2>1, <2>2, <2>3 DEF FramesInOrder, S, R, Q, H, I, P
<1>5. CASE ClientReceive(c)
  BY <1>5 DEF FramesInOrder, ClientReceive
<1>6. CASE UpstreamAccept(c) \/ UpstreamRefuse(c) \/ UpstreamYield(c) \/ UpstreamEnd(c)
  BY <1>6 DEF FramesInOrder, UpstreamAccept, UpstreamRefuse, UpstreamYield, UpstreamEnd
<1>7. CASE UpstreamTake(c)
  <2>1. /\ received'[c] = Append(R, Head(Q)) /\ requests'[c] = Tail(Q)
        /\ UNCHANGED <<client, sent, inbound, hand, reqAlive, task>>
        /\ Q # <<>> /\ reqAlive[c]
    BY <1>7 DEF UpstreamTake, PullTypeOK
  <2> HIDE DEF S, R, Q, H, I
  <2>2. StartsWith(Frame, S, Append(R, Head(Q)), Tail(Q))
    BY <1>0, <1>1, <2>1, StartsTake
  <2>3. Append(R, Head(Q)) \o Tail(Q) = R \o Q
    BY <1>0, <2>1, HeadMoves, SMTT(60)
  <2>4. QED
    BY <1>1, <2>1, <2>2, <2>3 DEF FramesInOrder, S, R, Q, H, I, P
<1>8. CASE UpstreamDropsRequests(c)
  <2>1. /\ reqAlive'[c] = FALSE /\ requests'[c] = <<>>
        /\ UNCHANGED <<client, sent, inbound, hand, received, task>>
    BY <1>8 DEF UpstreamDropsRequests, PullTypeOK
  <2> HIDE DEF S, R, Q, H, I
  <2>2. StartsWith(Frame, S, R, <<>>)
    BY <1>0, <1>1, StartsDrop
  <2>3. QED
    BY <2>1, <2>2 DEF FramesInOrder, S, R, Q, H, I, P
<1>9. CASE InNext(c)
  <2>1. /\ hand'[c] = <<Head(I)>> /\ inbound'[c] = Tail(I) /\ I # <<>>
        /\ UNCHANGED <<client, sent, received, requests, reqAlive, task>>
    BY <1>9 DEF InNext, PullTypeOK
  <2>2. H = <<>>
    BY <1>9 DEF InNext, Pumping, PumpsHold
  <2> HIDE DEF S, R, Q, H, I
  <2>3. (task[c] = "pumping" /\ reqAlive[c]) =>
          Accounted(Frame, S, P \o <<Head(I)>>, Tail(I), client[c] = "reset")
    BY <1>0, <1>1, <1>1a, <2>1, AccountedNext
  <2>3a. P \o <<Head(I)>> = (R \o Q) \o <<Head(I)>>
    <3>1. R \o Q \in Seq(Frame)
      BY <1>0, ConcatProperties
    <3>2. QED
      BY <2>2, <3>1, ConcatEmptySeq DEF P
  <2>4. QED
    BY <1>1, <2>1, <2>3, <2>3a DEF FramesInOrder, S, R, Q, H, I, P
<1>10. CASE InNextEnds(c) \/ InAck(c)
  BY <1>10 DEF FramesInOrder, InNextEnds, InAck
<1>11. CASE InSend(c) /\ reqAlive[c]
  <2>1. /\ requests'[c] = Q \o H /\ hand'[c] = <<>> /\ task[c] = "pumping"
        /\ UNCHANGED <<client, sent, received, inbound, reqAlive, task>>
    BY <1>11, SMTT(60) DEF InSend, Pumping, PullTypeOK
  <2> HIDE DEF S, R, Q, H, I
  <2>2. /\ R \o (Q \o H) = P
        /\ (R \o (Q \o H)) \o <<>> = P
    <3>1. R \in Seq(Frame) /\ Q \in Seq(Frame) /\ H \in Seq(Frame)
      BY <1>0
    <3>2. (R \o (Q \o H)) = (R \o Q) \o H /\ (R \o (Q \o H)) \o <<>> = (R \o Q) \o H
      BY <3>1, HandEmptied, SMTT(60)
    <3>3. QED
      BY <3>2 DEF P
  <2>3. StartsWith(Frame, S, R, Q \o H)
    <3>1. Q \o H \in Seq(Frame)
      BY <1>0, ConcatProperties
    <3>2. Accounted(Frame, S, R \o (Q \o H), I, client[c] = "reset")
      BY <1>1, <1>11, <2>1, <2>2
    <3>3. QED
      BY <1>0, <3>1, <3>2, AccountedStarts
  <2>4. QED
    BY <1>1, <1>11, <2>1, <2>2, <2>3 DEF FramesInOrder, S, R, Q, H, I, P
<1>12. CASE InSend(c) /\ ~reqAlive[c]
  BY <1>12 DEF FramesInOrder, InSend
<1>13. CASE Outbound(c)
  BY <1>13 DEF FramesInOrder, Outbound, OutEstablish, OutNext, OutNextEnds, OutSend
<1>14. CASE Finish(c)
  BY <1>14 DEF FramesInOrder, Finish, PullTypeOK
<1>15. QED
  BY <1>2, <1>3, <1>4, <1>5, <1>6, <1>7, <1>8, <1>9, <1>10, <1>11, <1>12, <1>13, <1>14
  DEF Client, Server, Proxy, Inbound
(* Every step keeps the order of the responses.                            *)
LEMMA ResponsesStep ==
    ASSUME PullTypeOK, NEW c \in Streams, PumpsHold(c), ResponsesInOrder(c),
           Client(c) \/ Server(c) \/ Proxy(c)
    PROVE  ResponsesInOrder(c)'
<1> USE DEF inboundVars, outboundVars, serverVars, channelVars, clientVars
<1> DEFINE S == yielded[c]   R == got[c]       Q == responses[c]
           H == item[c]      A == arriving[c]  P == (R \o Q) \o H
<1>0. /\ S \in Seq(Item) /\ R \in Seq(Item) /\ Q \in Seq(Item)
      /\ H \in Seq(Item) /\ A \in Seq(Item)
  BY DEF PullTypeOK
<1>1. /\ StartsWith(Item, S, R, Q)
      /\ (task[c] = "pumping" /\ client[c] # "reset") =>
            Accounted(Item, S, P, Status(c) \o A, FALSE)
      /\ upstream[c] = "waiting" => outPc[c] = "establish" /\ S = <<>> /\ A = <<>>
  BY DEF ResponsesInOrder
<1> HIDE DEF P
<1>2. P \in Seq(Item)
  <2>1. R \o Q \in Seq(Item)
    BY <1>0, ConcatProperties
  <2>2. QED
    BY <1>0, <2>1, ConcatProperties DEF P
<1>3. \A s \in Seq(Item) : <<>> \o s = s
  BY ConcatEmptySeq
<1>4. CASE ClientSend(c) \/ ClientEnd(c) \/ UpstreamTake(c)
           \/ UpstreamDropsRequests(c) \/ Inbound(c)
  <2>1. /\ UNCHANGED <<yielded, got, responses, item, arriving, upstream, outPc, task>>
        /\ client'[c] # "reset" => client[c] # "reset"
    BY <1>4 DEF ClientSend, ClientEnd, UpstreamTake, UpstreamDropsRequests,
                Inbound, InNext, InNextEnds, InAck, InSend, PullTypeOK
  <2>2. QED
    BY <1>1, <2>1 DEF ResponsesInOrder, Status, P
<1>5. CASE ClientReset(c)
  <2>1. /\ client'[c] = "reset" /\ responses'[c] = <<>>
        /\ UNCHANGED <<yielded, got, arriving, upstream, outPc>>
    BY <1>5 DEF ClientReset, PullTypeOK
  <2>2. StartsWith(Item, S, R, <<>>)
    <3> HIDE DEF S, R, Q
    <3>1. QED
      BY <1>0, <1>1, StartsDrop
  <2>3. QED
    BY <1>1, <2>1, <2>2 DEF ResponsesInOrder
<1>6. CASE ClientReceive(c)
  <2>1. /\ got'[c] = Append(R, Head(Q)) /\ responses'[c] = Tail(Q) /\ Q # <<>>
        /\ UNCHANGED <<client, yielded, item, arriving, upstream, outPc, task>>
    BY <1>6 DEF ClientReceive, PullTypeOK
  <2> HIDE DEF S, R, Q, H, A
  <2>2. StartsWith(Item, S, Append(R, Head(Q)), Tail(Q))
    BY <1>0, <1>1, <2>1, StartsTake
  <2>3. Append(R, Head(Q)) \o Tail(Q) = R \o Q
    BY <1>0, <2>1, HeadMoves
  <2>4. QED
    BY <1>1, <2>1, <2>2, <2>3 DEF ResponsesInOrder, Status, S, R, Q, H, A, P
<1>7. CASE UpstreamAccept(c)
  <2>1. /\ UNCHANGED <<client, yielded, got, responses, item, arriving, outPc, task>>
        /\ upstream[c] = "waiting" /\ upstream'[c] = "streaming"
    BY <1>7 DEF UpstreamAccept, PullTypeOK
  <2>2. QED
    BY <1>1, <2>1 DEF ResponsesInOrder, Status, P
<1>8. CASE UpstreamRefuse(c)
  <2>1. /\ UNCHANGED <<client, got, responses, item, arriving, outPc, task>>
        /\ upstream[c] = "waiting" /\ upstream'[c] = "refused"
        /\ yielded'[c] = <<Failure>>
    BY <1>8 DEF UpstreamRefuse, PullTypeOK
  <2>2. /\ <<Failure>> \in Seq(Item) /\ <<>> \in Seq(Item)
        /\ <<>> \o <<Failure>> = <<Failure>>
        /\ <<Failure>> \o <<>> = <<Failure>> /\ <<>> \o <<>> = <<>>
    BY FailureItem, EmptySeq, ConcatEmptySeq
  <2>3. S = <<>> /\ A = <<>> /\ Status(c) = <<>> /\ Status(c)' = <<Failure>>
    BY <1>1, <2>1 DEF Status
  <2> HIDE DEF S, R, Q, H, A
  <2>4. StartsWith(Item, <<>> \o <<Failure>>, R, Q)
    BY <1>0, <1>1, <2>2, <2>3, StartsExtend
  <2>5. (task[c] = "pumping" /\ client[c] # "reset") =>
          Accounted(Item, <<>> \o <<Failure>>, P, <<>> \o <<Failure>>, FALSE)
    <3>1. (task[c] = "pumping" /\ client[c] # "reset") =>
            Accounted(Item, <<>>, P, <<>>, FALSE)
      BY <1>1, <2>2, <2>3
    <3>2. QED
      BY <1>2, <2>2, <3>1, AccountedExtend
  <2>6. QED
    BY <2>1, <2>2, <2>3, <2>4, <2>5 DEF ResponsesInOrder, R, Q, H, A, P
<1>9. CASE UpstreamYield(c) \/ UpstreamEnd(c)
  <2>1. PICK E \in Seq(Item) :
          yielded'[c] = S \o E /\ arriving'[c] = A \o E
    <3>1. CASE UpstreamYield(c)
      <4>1. PICK n \in Item :
              yielded'[c] = Append(S, n) /\ arriving'[c] = Append(A, n)
        <5>1. 0..MaxMessages \subseteq Item
          BY StreamAssumption DEF Item
        <5>2. QED
          BY <3>1, <5>1, ZenonT(60) DEF UpstreamYield, PullTypeOK
      <4> HIDE DEF S, A
      <4>3. Append(S, n) = S \o <<n>> /\ Append(A, n) = A \o <<n>> /\ <<n>> \in Seq(Item)
        BY <1>0, AppendIsConcat
      <4>4. QED
        BY <4>1, <4>3
    <3>2. CASE UpstreamEnd(c)
      <4>1. PICK last \in {<<>>, <<Failure>>} :
              yielded'[c] = S \o last /\ arriving'[c] = A \o last
        BY <3>2, ZenonT(60) DEF UpstreamEnd, PullTypeOK
      <4>2. last \in Seq(Item)
        BY EmptySeq, FailureItem
      <4>3. QED
        BY <4>1, <4>2
    <3>3. QED
      BY <1>9, <3>1, <3>2
  <2>2. /\ UNCHANGED <<client, got, responses, item, outPc, task>>
        /\ upstream[c] = "streaming" /\ upstream'[c] \in {"streaming", "ended"}
    BY <1>9 DEF UpstreamYield, UpstreamEnd, PullTypeOK
  <2>3. Status(c) = <<>> /\ Status(c)' = <<>>
    BY <2>2 DEF Status
  <2> HIDE DEF S, R, Q, H, A
  <2>4. StartsWith(Item, S \o E, R, Q)
    BY <1>0, <1>1, StartsExtend
  <2>5. (task[c] = "pumping" /\ client[c] # "reset") =>
          Accounted(Item, S \o E, P, A \o E, FALSE)
    BY <1>0, <1>1, <1>2, <1>3, <2>3, AccountedExtend, ZenonT(60)
  <2>6. <<>> \o (A \o E) = A \o E
    <3>1. A \o E \in Seq(Item)
      BY <1>0, ConcatProperties
    <3>2. QED
      BY <1>3, <3>1
  <2>7. QED
    BY <2>1, <2>2, <2>3, <2>4, <2>5, <2>6 DEF ResponsesInOrder, R, Q, H, P
<1>10. CASE OutEstablish(c)
  <2>1. /\ UNCHANGED <<client, yielded, got, responses, arriving, upstream, task>>
        /\ outPc[c] = "establish" /\ task[c] = "pumping"
    BY <1>10 DEF OutEstablish, OutPumping, Pumping
  <2>2. CASE upstream[c] \in {"streaming", "ended"} /\ UNCHANGED item
    BY <1>1, <2>1, <2>2 DEF ResponsesInOrder, Status, P
  <2>3. CASE /\ upstream[c] = "refused" /\ item'[c] = <<Failure>>
             /\ outPc'[c] = "sendErr"
    <3>1. Status(c) = <<Failure>> /\ Status(c)' = <<>>
      BY <2>1, <2>3 DEF Status
    <3>2. H = <<>>
      BY <2>1 DEF PumpsHold, PullTypeOK
    <3> HIDE DEF S, R, Q, H, A
    <3>3. P = R \o Q
      <4>1. R \o Q \in Seq(Item)
        BY <1>0, ConcatProperties
      <4>2. QED
        BY <3>2, <4>1, ConcatEmptySeq DEF P
    <3>4. client[c] # "reset" => Accounted(Item, S, P \o <<Failure>>, A, FALSE)
      <4>1. P \o (<<Failure>> \o A) = (P \o <<Failure>>) \o A
        <5>1. A \in Seq(Item) /\ P \in Seq(Item) /\ <<Failure>> \in Seq(Item)
          BY <1>0, <1>2, FailureItem
        <5>2. QED
          BY <5>1, ConcatAssociative, SMTT(60)
      <4>2. QED
        BY <1>1, <2>1, <3>1, <4>1 DEF Accounted
    <3>5. <<>> \o A = A
      BY <1>0, <1>3
    <3>6. QED
      BY <1>1, <2>1, <2>3, <3>1, <3>3, <3>4, <3>5 DEF ResponsesInOrder, S, R, Q, A
  <2>4. QED
    BY <1>10, <2>2, <2>3 DEF OutEstablish, PullTypeOK
<1>11. CASE OutNext(c)
  <2>1. /\ UNCHANGED <<client, yielded, got, responses, upstream, task>>
        /\ item'[c] = <<Head(A)>> /\ arriving'[c] = Tail(A) /\ A # <<>>
        /\ outPc[c] = "next" /\ outPc'[c] \in {"send", "sendErr"}
        /\ task[c] = "pumping"
    BY <1>11 DEF OutNext, OutPumping, Pumping, PullTypeOK
  <2>2. Status(c) = <<>> /\ Status(c)' = <<>> /\ H = <<>>
    BY <2>1 DEF Status, PumpsHold
  <2> HIDE DEF S, R, Q, H, A
  <2>3. client[c] # "reset" => Accounted(Item, S, P \o <<Head(A)>>, Tail(A), FALSE)
    <3>1. client[c] # "reset" => Accounted(Item, S, P, A, FALSE)
      BY <1>0, <1>1, <1>3, <2>1, <2>2
    <3>2. QED
      BY <1>0, <1>2, <2>1, <3>1, AccountedNext
  <2>4. P = R \o Q
    <3>1. R \o Q \in Seq(Item)
      BY <1>0, ConcatProperties
    <3>2. QED
      BY <2>2, <3>1, ConcatEmptySeq DEF P
  <2>5. <<>> \o Tail(A) = Tail(A)
    BY <1>0, <1>3, <2>1, HeadTail
  <2>6. QED
    BY <1>1, <2>1, <2>2, <2>3, <2>4, <2>5 DEF ResponsesInOrder, S, R, Q
<1>12. CASE OutNextEnds(c)
  <2>1. /\ UNCHANGED <<client, yielded, got, responses, item, arriving, upstream, task>>
        /\ outPc[c] = "next" /\ upstream[c] = "ended"
    BY <1>12 DEF OutNextEnds
  <2>2. QED
    BY <1>1, <2>1 DEF ResponsesInOrder, Status, P
<1>13. CASE OutSend(c)
  <2>1. /\ UNCHANGED <<client, yielded, got, arriving, upstream, task>>
        /\ item'[c] = <<>> /\ outPc[c] \in {"send", "sendErr"}
        /\ outPc'[c] # "establish" /\ task[c] = "pumping"
    BY <1>13 DEF OutSend, OutPumping, Pumping, PullTypeOK
  <2>2. CASE client[c] # "reset" /\ responses'[c] = Q \o H
    <3>1. Status(c)' = Status(c) /\ upstream[c] # "waiting"
      BY <1>1, <2>1 DEF Status
    <3> HIDE DEF S, R, Q, H, A
    <3>2. (R \o (Q \o H)) = P /\ (R \o (Q \o H)) \o <<>> = P
      <4>1. R \in Seq(Item) /\ Q \in Seq(Item) /\ H \in Seq(Item)
        BY <1>0
      <4>2. (R \o (Q \o H)) = (R \o Q) \o H /\ (R \o (Q \o H)) \o <<>> = (R \o Q) \o H
        BY <4>1, HandEmptied, SMTT(60)
      <4>3. QED
        BY <4>2 DEF P
    <3>3. StartsWith(Item, S, R, Q \o H)
      <4>1. Q \o H \in Seq(Item)
        BY <1>0, ConcatProperties
      <4>2. Status(c) \o A \in Seq(Item)
        <5>1. Status(c) \in Seq(Item)
          BY FailureItem, EmptySeq DEF Status
        <5>2. QED
          BY <1>0, <5>1, ConcatProperties
      <4>3. PICK I \in Seq(Item) : I = Status(c) \o A
        BY <4>2
      <4>4. Accounted(Item, S, R \o (Q \o H), I, FALSE)
        BY <1>1, <2>1, <2>2, <3>2, <4>3
      <4>5. QED
        BY <1>0, <4>1, <4>4, AccountedStarts
    <3>4. QED
      BY <1>1, <2>1, <2>2, <3>1, <3>2, <3>3 DEF ResponsesInOrder, S, R, Q, H, A
  <2>3. CASE client[c] = "reset" /\ UNCHANGED responses
    BY <1>1, <2>1, <2>3 DEF ResponsesInOrder
  <2>4. QED
    BY <1>13, <2>2, <2>3, ZenonT(30) DEF OutSend, PullTypeOK
<1>14. CASE Finish(c)
  <2>1. /\ UNCHANGED <<client, yielded, got, responses, arriving, upstream, outPc>>
        /\ task'[c] = "done"
    BY <1>14 DEF Finish, PullTypeOK
  <2>2. QED
    BY <1>1, <2>1 DEF ResponsesInOrder
<1>15. QED
  BY <1>4, <1>5, <1>6, <1>7, <1>8, <1>9, <1>10, <1>11, <1>12, <1>13, <1>14
  DEF Client, Server, Proxy, Outbound
(* The invariant holds at the start.                                       *)
LEMMA RelayInitially == PullInit => RelayInv
<1> SUFFICES ASSUME PullInit PROVE RelayInv
  OBVIOUS
<1>1. PullTypeOK
  BY PullTypeInitially
<1>2. /\ <<>> \in Seq(Frame) /\ <<>> \in Seq(Item)
      /\ <<>> \o <<>> = <<>>
  BY EmptySeq, ConcatEmptySeq
<1>3. ASSUME NEW c \in Streams
      PROVE  PumpsHold(c) /\ FramesInOrder(c) /\ ResponsesInOrder(c)
  <2>1. PumpsHold(c)
    BY DEF PullInit, PumpsHold
  <2>2. FramesInOrder(c)
    BY <1>2 DEF PullInit, FramesInOrder, StartsWith, Accounted
  <2>3. Status(c) = <<>>
    BY DEF PullInit, Status
  <2>4. ResponsesInOrder(c)
    BY <1>2, <2>3 DEF PullInit, ResponsesInOrder, StartsWith, Accounted
  <2>5. QED
    BY <2>1, <2>2, <2>4
<1>4. QED
  BY <1>1, <1>3 DEF RelayInv

(* Every step preserves it: the stream that moves by the lemmas above, the *)
(* others because nothing of theirs changes.                               *)
LEMMA RelayStep == RelayInv /\ [PullNext]_pullVars => RelayInv'
<1> SUFFICES ASSUME RelayInv, [PullNext]_pullVars PROVE RelayInv'
  OBVIOUS
<1>1. CASE UNCHANGED pullVars
  BY <1>1, ZenonT(60) DEF pullVars, RelayInv, PullTypeOK, PumpsHold, FramesInOrder,
              ResponsesInOrder, Status
<1>2. CASE PullNext
  <2>1. PICK c \in Streams : Client(c) \/ Server(c) \/ Proxy(c)
    BY <1>2 DEF PullNext
  <2>2. PullTypeOK /\ PumpsHold(c) /\ FramesInOrder(c) /\ ResponsesInOrder(c)
    BY DEF RelayInv
  <2>3. PullTypeOK'
    <3>1. inPc[c] = "ack" => hand[c] # <<>>
      BY <2>2 DEF PumpsHold
    <3>2. QED
      BY <2>1, <2>2, <3>1, ClientType, ServerType, InboundType, OutboundType,
         FinishType DEF Proxy
  <2>4. ASSUME NEW d \in Streams
        PROVE  (PumpsHold(d) /\ FramesInOrder(d) /\ ResponsesInOrder(d))'
    <3>1. CASE d = c
      BY <2>1, <2>2, <3>1, PumpsStep, FramesStep, ResponsesStep
    <3>2. CASE d # c
      <4>1. PumpsHold(d) /\ FramesInOrder(d) /\ ResponsesInOrder(d)
        BY DEF RelayInv
      <4>2. /\ client'[d] = client[d] /\ sent'[d] = sent[d]
            /\ inbound'[d] = inbound[d] /\ inPc'[d] = inPc[d]
            /\ hand'[d] = hand[d] /\ requests'[d] = requests[d]
            /\ reqAlive'[d] = reqAlive[d] /\ received'[d] = received[d]
            /\ upstream'[d] = upstream[d] /\ yielded'[d] = yielded[d]
            /\ arriving'[d] = arriving[d] /\ outPc'[d] = outPc[d]
            /\ item'[d] = item[d] /\ responses'[d] = responses[d]
            /\ got'[d] = got[d] /\ task'[d] = task[d]
        BY <2>1, <2>2, <3>2, OtherStreams
      <4>3. PumpsHold(d)'
        BY <4>1, <4>2 DEF PumpsHold
      <4>4. FramesInOrder(d)'
        BY <4>1, <4>2 DEF FramesInOrder
      <4>5. ResponsesInOrder(d)'
        BY <4>1, <4>2 DEF ResponsesInOrder, Status
      <4>6. QED
        BY <4>3, <4>4, <4>5
    <3>3. QED
      BY <3>1, <3>2
  <2>5. QED
    BY <2>3, <2>4 DEF RelayInv
<1>3. QED
  BY <1>1, <1>2

(* It implies the property.                                                *)
LEMMA RelayImplies == RelayInv => RelayInOrder
<1> SUFFICES ASSUME RelayInv, NEW c \in Streams
             PROVE  /\ IsPrefix(received[c], sent[c])
                    /\ IsPrefix(got[c], yielded[c])
                    /\ (task[c] = "pumping" /\ client[c] # "reset") =>
                         /\ reqAlive[c] => received[c] \o requests[c] \o hand[c]
                                              \o inbound[c] = sent[c]
                         /\ got[c] \o responses[c] \o item[c] \o Status(c)
                              \o arriving[c] = yielded[c]
  BY DEF RelayInOrder
<1>1. PullTypeOK /\ FramesInOrder(c) /\ ResponsesInOrder(c)
  BY DEF RelayInv
<1>2. IsPrefix(received[c], sent[c])
  <2>1. received[c] \in Seq(Frame) /\ requests[c] \in Seq(Frame)
    BY <1>1 DEF PullTypeOK
  <2>2. QED
    BY <1>1, <2>1, StartsPrefix DEF FramesInOrder
<1>3. IsPrefix(got[c], yielded[c])
  <2>1. got[c] \in Seq(Item) /\ responses[c] \in Seq(Item)
    BY <1>1 DEF PullTypeOK
  <2>2. QED
    BY <1>1, <2>1, StartsPrefix DEF ResponsesInOrder
<1>4. ASSUME task[c] = "pumping", client[c] # "reset", reqAlive[c]
      PROVE  ((received[c] \o requests[c]) \o hand[c]) \o inbound[c] = sent[c]
  <2>1. sent[c] = (((received[c] \o requests[c]) \o hand[c]) \o inbound[c]) \o <<>>
    BY <1>1, <1>4 DEF FramesInOrder, Accounted
  <2>2. ((received[c] \o requests[c]) \o hand[c]) \o inbound[c] \in Seq(Frame)
    <3>1. /\ received[c] \in Seq(Frame) /\ requests[c] \in Seq(Frame)
          /\ hand[c] \in Seq(Frame) /\ inbound[c] \in Seq(Frame)
      BY <1>1 DEF PullTypeOK
    <3>2. received[c] \o requests[c] \in Seq(Frame)
      BY <3>1, ConcatProperties
    <3>3. (received[c] \o requests[c]) \o hand[c] \in Seq(Frame)
      BY <3>1, <3>2, ConcatProperties, SMTT(60)
    <3>4. QED
      BY <3>1, <3>3, ConcatProperties
  <2>3. QED
    BY <2>1, <2>2, ConcatEmptySeq
<1>5. ASSUME task[c] = "pumping", client[c] # "reset"
      PROVE  (((got[c] \o responses[c]) \o item[c]) \o Status(c)) \o arriving[c]
                = yielded[c]
  <2>1. PICK P \in Seq(Item) : P = (got[c] \o responses[c]) \o item[c]
    <3>1. got[c] \in Seq(Item) /\ responses[c] \in Seq(Item) /\ item[c] \in Seq(Item)
      BY <1>1 DEF PullTypeOK
    <3>2. got[c] \o responses[c] \in Seq(Item)
      BY <3>1, ConcatProperties
    <3>3. QED
      BY <3>1, <3>2, ConcatProperties
  <2>2. PICK A \in Seq(Item), X \in Seq(Item) : A = arriving[c] /\ X = Status(c)
    BY <1>1, EmptySeq, FailureItem DEF PullTypeOK, Status
  <2>3. yielded[c] = (P \o (X \o A)) \o <<>>
    BY <1>1, <1>5, <2>1, <2>2 DEF ResponsesInOrder, Accounted
  <2>4. P \o (X \o A) = (P \o X) \o A
    BY ConcatAssociative, SMTT(60)
  <2>5. X \o A \in Seq(Item)
    BY ConcatProperties
  <2>6. P \o (X \o A) \in Seq(Item)
    BY <2>5, ConcatProperties
  <2>7. QED
    BY <2>1, <2>2, <2>3, <2>4, <2>6, ConcatEmptySeq
<1>6. QED
  BY <1>2, <1>3, <1>4, <1>5

(* The call's variables always have their types: neither channel ever      *)
(* holds more than STREAM_BUFFER, and neither pump more than what it has   *)
(* just taken, for every client and server (streaming_pull, src/src/proxy/ *)
(* subscriber.rs).                                                         *)
THEOREM PullTypeCorrect == PullSpec => []PullTypeOK
<1>1. RelayInv => PullTypeOK
  BY DEF RelayInv
<1>2. QED
  BY <1>1, RelayInitially, RelayStep, PTL DEF PullSpec

(* The two pumps relay frames and responses in the order in which they     *)
(* were sent, losing none and repeating none: for any number of streams,   *)
(* any frames and responses, any channel capacity, and every way in which  *)
(* the client, the server and the task can end the call.                   *)
THEOREM RelayIsInOrder == PullSpec => []RelayInOrder
BY RelayInitially, RelayStep, RelayImplies, PTL DEF PullSpec
-----------------------------------------------------------------------------
(* The refinement of module Consumer.                                      *)

(***************************************************************************)
(* A client that keeps to the protocol names its subscription in its first *)
(* frame and in no other.                                                  *)
(***************************************************************************)
NamesOnce ==
    /\ \A f \in FirstFrames : f.subscription # NoSubscription
    /\ \A f \in LaterFrames : f.subscription = NoSubscription

(***************************************************************************)
(* Until the consumer is open no frame has got past the pump, so nothing   *)
(* can be counted; once it is open the frames to come name no other        *)
(* subscription, so the one that was latched first is kept.                *)
(***************************************************************************)
NamesFirst(c) ==
    /\ ~opened[c] =>
         /\ received[c] = <<>> /\ requests[c] = <<>> /\ hand[c] = <<>>
         /\ latched[c] = NoSubscription
         /\ client[c] = "open" => inbound[c] = sent[c]
         /\ inbound[c] # <<>> =>
              /\ sent[c] # <<>>
              /\ Head(inbound[c]) \in FirstFrames
              /\ Tail(inbound[c]) \in Seq(LaterFrames)
         /\ arriving[c] \in Seq({Failure})
    /\ opened[c] =>
         /\ sent[c] # <<>>
         /\ latched[c] \in Subscriptions
         /\ inbound[c] \in Seq(LaterFrames)
         /\ hand[c] # <<>> => Head(hand[c]) \in FirstFrames \cup LaterFrames
         /\ arriving[c] \in Seq((0..MaxMessages) \cup {Failure})

ConsumerInv == RelayInv /\ \A c \in Streams : NamesFirst(c)

(* Every step keeps what has been named in the order of the protocol.      *)
LEMMA NamesStep ==
    ASSUME NamesOnce, PullTypeOK, NEW c \in Streams, PumpsHold(c), NamesFirst(c),
           Client(c) \/ Server(c) \/ Proxy(c)
    PROVE  NamesFirst(c)'
<1> USE DEF inboundVars, outboundVars, serverVars, channelVars, clientVars
<1>1. CASE ClientSend(c)
  <2>1. PICK f \in IF sent[c] = <<>> THEN FirstFrames ELSE LaterFrames :
          sent'[c] = Append(sent[c], f) /\ inbound'[c] = Append(inbound[c], f)
    BY <1>1, ZenonT(60) DEF ClientSend, PullTypeOK
  <2>2. /\ client[c] = "open"
        /\ UNCHANGED <<client, received, requests, hand, latched, opened, arriving>>
    BY <1>1 DEF ClientSend
  <2>3. f \in Frame /\ sent[c] \in Seq(Frame) /\ inbound[c] \in Seq(Frame)
    BY <2>1, StreamAssumption DEF PullTypeOK
  <2>4. Append(sent[c], f) # <<>>
    BY <2>3, AppendProperties
  <2>5. CASE opened[c]
    <3>1. f \in LaterFrames /\ inbound[c] \in Seq(LaterFrames)
      BY <2>1, <2>5 DEF NamesFirst
    <3>2. Append(inbound[c], f) \in Seq(LaterFrames)
      BY <3>1, AppendProperties
    <3>3. QED
      BY <2>1, <2>2, <2>4, <2>5, <3>2 DEF NamesFirst
  <2>6. CASE ~opened[c]
    <3>1. inbound[c] = sent[c]
      BY <2>2, <2>6 DEF NamesFirst
    <3>2. /\ Head(Append(inbound[c], f)) = IF inbound[c] = <<>> THEN f ELSE Head(inbound[c])
          /\ Tail(Append(inbound[c], f))
               = IF inbound[c] = <<>> THEN <<>> ELSE Append(Tail(inbound[c]), f)
      BY <2>3, HeadTailAppend
    <3>3. Head(inbound'[c]) \in FirstFrames /\ Tail(inbound'[c]) \in Seq(LaterFrames)
      <4>1. CASE inbound[c] = <<>>
        BY <2>1, <3>1, <3>2, <4>1, EmptySeq
      <4>2. CASE inbound[c] # <<>>
        <5>1. /\ Head(inbound[c]) \in FirstFrames
              /\ Tail(inbound[c]) \in Seq(LaterFrames) /\ f \in LaterFrames
          BY <2>1, <2>6, <3>1, <4>2 DEF NamesFirst
        <5>2. Append(Tail(inbound[c]), f) \in Seq(LaterFrames)
          BY <5>1, AppendProperties
        <5>3. QED
          BY <2>1, <3>2, <4>2, <5>1, <5>2
      <4>3. QED
        BY <4>1, <4>2
    <3>4. QED
      BY <2>1, <2>2, <2>4, <2>6, <3>1, <3>3 DEF NamesFirst
  <2>7. QED
    BY <2>5, <2>6
<1>2. CASE ClientEnd(c) \/ ClientReceive(c) \/ UpstreamAccept(c) \/ UpstreamRefuse(c)
           \/ InNextEnds(c) \/ InAck(c) \/ OutEstablish(c) \/ OutNextEnds(c)
           \/ OutSend(c)
  <2>1. /\ UNCHANGED <<sent, inbound, received, requests, hand, latched, opened,
                       arriving>>
        /\ client'[c] = "open" => client[c] = "open"
    BY <1>2 DEF ClientEnd, ClientReceive, UpstreamAccept, UpstreamRefuse,
                InNextEnds, InAck, OutEstablish, OutNextEnds, OutSend, PullTypeOK
  <2>2. QED
    BY <2>1 DEF NamesFirst
<1>3. CASE ClientReset(c)
  <2>1. PICK n \in 0..Len(inbound[c]) : inbound'[c] = SubSeq(inbound[c], 1, n)
    BY <1>3 DEF ClientReset, PullTypeOK
  <2>2. /\ client'[c] = "reset"
        /\ UNCHANGED <<sent, received, requests, hand, latched, opened, arriving>>
    BY <1>3 DEF ClientReset, PullTypeOK
  <2> DEFINE I == inbound[c]
  <2>3. I \in Seq(Frame)
    BY DEF PullTypeOK
  <2>4. inbound'[c] = SubSeq(I, 1, n) /\ n \in 0..Len(I)
    BY <2>1
  <2>5. opened[c] => I \in Seq(LaterFrames)
    BY DEF NamesFirst
  <2>6. ~opened[c] /\ I # <<>> => Head(I) \in FirstFrames /\ Tail(I) \in Seq(LaterFrames)
    BY DEF NamesFirst
  <2> HIDE DEF I
  <2>7. opened[c] => SubSeq(I, 1, n) \in Seq(LaterFrames)
    <3>1. ASSUME opened[c]
          PROVE  Len(I) \in Nat /\ \A i \in 1..n : I[i] \in LaterFrames
      BY <2>4, <2>5, <3>1, LenProperties, ElementOfSeq
    <3>2. ASSUME opened[c] PROVE SubSeq(I, 1, n) \in Seq(LaterFrames)
      BY <2>4, <3>1, <3>2, SubSeqProperties
    <3>3. QED
      BY <3>2
  <2>8. ASSUME ~opened[c], SubSeq(I, 1, n) # <<>>
        PROVE  /\ Head(SubSeq(I, 1, n)) \in FirstFrames
               /\ Tail(SubSeq(I, 1, n)) \in Seq(LaterFrames)
    <3>1. Len(I) \in Nat
      BY <2>3, LenProperties
    <3>2. n \in 1..Len(I)
      <4>1. n < 1 => SubSeq(I, 1, n) = <<>>
        BY <2>4, <3>1, SubSeqEmpty
      <4>2. QED
        BY <2>4, <2>8, <3>1, <4>1
    <3>3. 1 \in 1..Len(I) /\ n \in 1..Len(I)
      BY <3>1, <3>2
    <3>4. Head(SubSeq(I, 1, n)) = I[1] /\ Tail(SubSeq(I, 1, n)) = SubSeq(I, 2, n)
      BY <2>3, <3>3, HeadTailOfSubSeq
    <3>5. I # <<>>
      BY <2>3, <3>1, <3>2, EmptySeq
    <3>6. /\ Head(I) = I[1] /\ Len(Tail(I)) = Len(I) - 1
          /\ \A i \in 1..Len(Tail(I)) : Tail(I)[i] = I[i + 1]
      BY <2>3, <3>5, HeadTailProperties
    <3>7. \A i \in 2..n : I[i] \in LaterFrames
      <4>1. Tail(I) \in Seq(LaterFrames)
        BY <2>6, <2>8, <3>5
      <4>2. ASSUME NEW i \in 2..n PROVE I[i] \in LaterFrames
        <5>1. i - 1 \in 1..Len(Tail(I)) /\ (i - 1) + 1 = i
          BY <3>1, <3>2, <3>6
        <5>2. Tail(I)[i - 1] \in LaterFrames
          BY <4>1, <5>1, ElementOfSeq
        <5>3. QED
          BY <3>6, <5>1, <5>2
      <4>3. QED
        BY <4>2
    <3>8. SubSeq(I, 2, n) \in Seq(LaterFrames)
      BY <3>2, <3>7, SubSeqProperties
    <3>9. QED
      BY <2>6, <2>8, <3>4, <3>5, <3>6, <3>8
  <2>9. QED
    BY <2>2, <2>4, <2>7, <2>8 DEF NamesFirst
<1>4. CASE UpstreamTake(c) \/ UpstreamDropsRequests(c) \/ InSend(c) \/ Finish(c)
  <2>1. /\ UNCHANGED <<client, sent, inbound, latched, opened, arriving>>
        /\ hand'[c] = hand[c] \/ hand'[c] = <<>>
    BY <1>4 DEF UpstreamTake, UpstreamDropsRequests, InSend, Finish, PullTypeOK
  <2>2. ~opened[c] => /\ received'[c] = <<>> /\ requests'[c] = <<>>
                      /\ hand'[c] = <<>>
    <3>1. ASSUME ~opened[c]
          PROVE  /\ received[c] = <<>> /\ requests[c] = <<>> /\ hand[c] = <<>>
                 /\ ~UpstreamTake(c) /\ ~InSend(c)
      <4>1. received[c] = <<>> /\ requests[c] = <<>> /\ hand[c] = <<>>
        BY <3>1 DEF NamesFirst
      <4>2. ~UpstreamTake(c)
        BY <4>1 DEF UpstreamTake
      <4>3. ~InSend(c)
        BY <4>1 DEF InSend, Pumping, PumpsHold
      <4>4. QED
        BY <4>1, <4>2, <4>3
    <3>2. CASE UpstreamDropsRequests(c)
      BY <3>1, <3>2 DEF UpstreamDropsRequests, PullTypeOK
    <3>3. CASE Finish(c)
      BY <3>1, <3>3 DEF Finish, PullTypeOK
    <3>4. QED
      BY <1>4, <3>1, <3>2, <3>3
  <2>3. QED
    BY <2>1, <2>2 DEF NamesFirst
<1>5. CASE UpstreamYield(c)
  <2>1. PICK n \in (0..MaxMessages) \cup {Failure} :
          arriving' = [arriving EXCEPT ![c] = Append(@, n)]
    BY <1>5 DEF UpstreamYield
  <2>2. /\ UNCHANGED <<client, sent, inbound, received, requests, hand, latched, opened>>
        /\ received[c] # <<>>
    BY <1>5 DEF UpstreamYield
  <2>3. opened[c] /\ arriving[c] \in Seq((0..MaxMessages) \cup {Failure})
    BY <2>2 DEF NamesFirst
  <2>4. arriving'[c] \in Seq((0..MaxMessages) \cup {Failure})
    <3>1. Append(arriving[c], n) \in Seq((0..MaxMessages) \cup {Failure})
      BY <2>3, AppendProperties
    <3>2. QED
      BY <2>1, <3>1 DEF PullTypeOK
  <2>5. QED
    BY <2>2, <2>3, <2>4 DEF NamesFirst
<1>6. CASE UpstreamEnd(c)
  <2>1. PICK last \in {<<>>, <<Failure>>} :
          arriving' = [arriving EXCEPT ![c] = @ \o last]
    BY <1>6 DEF UpstreamEnd
  <2>2. UNCHANGED <<client, sent, inbound, received, requests, hand, latched, opened>>
    BY <1>6 DEF UpstreamEnd
  <2>3. ASSUME NEW K, Failure \in K, arriving[c] \in Seq(K)
        PROVE  arriving'[c] \in Seq(K)
    <3>1. last \in Seq(K)
      <4>1. <<>> \in Seq(K) /\ <<Failure>> \in Seq(K)
        BY <2>3
      <4>2. QED
        BY <4>1
    <3>2. arriving[c] \o last \in Seq(K)
      BY <2>3, <3>1, ConcatProperties
    <3>3. QED
      BY <2>1, <3>2 DEF PullTypeOK
  <2>4. /\ arriving[c] \in Seq({Failure}) => arriving'[c] \in Seq({Failure})
        /\ arriving[c] \in Seq((0..MaxMessages) \cup {Failure})
             => arriving'[c] \in Seq((0..MaxMessages) \cup {Failure})
    BY <2>3
  <2>5. QED
    BY <2>2, <2>4 DEF NamesFirst
<1>7. CASE InNext(c)
  <2> DEFINE frame == Head(inbound[c])
             names == frame.subscription # NoSubscription
  <2>1. /\ hand'[c] = <<frame>> /\ inbound'[c] = Tail(inbound[c])
        /\ latched'[c] = (IF names THEN frame.subscription ELSE latched[c])
        /\ opened'[c] = (opened[c] \/ names) /\ inbound[c] # <<>>
        /\ UNCHANGED <<client, sent, received, requests, arriving>>
    BY <1>7 DEF InNext, PullTypeOK
  <2>2. frame \in Frame
    BY <2>1, HeadTail DEF PullTypeOK
  <2>3. Head(<<frame>>) = frame
    OBVIOUS
  <2>4. CASE opened[c]
    <3>1. frame \in LaterFrames /\ Tail(inbound[c]) \in Seq(LaterFrames)
      <4>1. inbound[c] \in Seq(LaterFrames)
        BY <2>4 DEF NamesFirst
      <4>2. QED
        BY <2>1, <4>1, HeadTail
    <3>2. ~names
      BY <3>1 DEF NamesOnce
    <3>3. QED
      BY <2>1, <2>3, <2>4, <3>1, <3>2 DEF NamesFirst
  <2>5. CASE ~opened[c]
    <3>1. /\ frame \in FirstFrames /\ Tail(inbound[c]) \in Seq(LaterFrames)
          /\ sent[c] # <<>> /\ arriving[c] \in Seq({Failure})
      BY <2>1, <2>5 DEF NamesFirst
    <3>2. names /\ frame.subscription \in Subscriptions
      BY <2>2, <3>1 DEF NamesOnce, Frame
    <3>3. arriving[c] \in Seq((0..MaxMessages) \cup {Failure})
      BY <3>1, SeqMonotonic
    <3>4. QED
      BY <2>1, <2>3, <3>1, <3>2, <3>3 DEF NamesFirst
  <2>6. QED
    BY <2>4, <2>5
<1>8. CASE OutNext(c)
  <2>1. /\ arriving'[c] = Tail(arriving[c]) /\ arriving[c] # <<>>
        /\ UNCHANGED <<client, sent, inbound, received, requests, hand, latched, opened>>
    BY <1>8 DEF OutNext, PullTypeOK
  <2>2. ASSUME NEW K, arriving[c] \in Seq(K) PROVE arriving'[c] \in Seq(K)
    BY <2>1, <2>2, HeadTail
  <2>3. /\ arriving[c] \in Seq({Failure}) => arriving'[c] \in Seq({Failure})
        /\ arriving[c] \in Seq((0..MaxMessages) \cup {Failure})
             => arriving'[c] \in Seq((0..MaxMessages) \cup {Failure})
    BY <2>2
  <2>4. QED
    BY <2>1, <2>3 DEF NamesFirst
<1>9. QED
  BY <1>1, <1>2, <1>3, <1>4, <1>5, <1>6, <1>7, <1>8
  DEF Client, Server, Proxy, Inbound, Outbound
(* Before the first frame the call is a new consumer.                      *)
LEMMA ConsumerInitially == PullInit => ConsumerInv
<1> SUFFICES ASSUME PullInit PROVE ConsumerInv
  OBVIOUS
<1>1. <<>> \in Seq({Failure})
  OBVIOUS
<1>2. \A c \in Streams : NamesFirst(c)
  BY <1>1 DEF PullInit, NamesFirst
<1>3. QED
  BY <1>2, RelayInitially DEF ConsumerInv

(* Every step keeps the invariant of the consumer.                         *)
LEMMA ConsumerInvStep ==
    ASSUME NamesOnce, ConsumerInv, [PullNext]_pullVars
    PROVE  ConsumerInv'
<1>1. RelayInv'
  BY RelayStep DEF ConsumerInv
<1>2. ASSUME NEW d \in Streams PROVE NamesFirst(d)'
  <2>1. NamesFirst(d) /\ PullTypeOK /\ PumpsHold(d)
    BY DEF ConsumerInv, RelayInv
  <2>2. CASE UNCHANGED pullVars
    BY <2>1, <2>2 DEF pullVars, NamesFirst
  <2>3. CASE PullNext
    <3>1. PICK c \in Streams : Client(c) \/ Server(c) \/ Proxy(c)
      BY <2>3 DEF PullNext
    <3>2. CASE d = c
      BY <2>1, <3>1, <3>2, NamesStep
    <3>3. CASE d # c
      <4>1. /\ client'[d] = client[d] /\ sent'[d] = sent[d]
            /\ inbound'[d] = inbound[d] /\ hand'[d] = hand[d]
            /\ requests'[d] = requests[d] /\ received'[d] = received[d]
            /\ arriving'[d] = arriving[d] /\ latched'[d] = latched[d]
            /\ opened'[d] = opened[d]
        BY <2>1, <3>1, <3>3, OtherStreams
      <4>2. QED
        BY <2>1, <4>1 DEF NamesFirst
    <3>4. QED
      BY <3>2, <3>3
  <2>4. QED
    BY <2>2, <2>3
<1>3. QED
  BY <1>1, <1>2 DEF ConsumerInv

(* A step that reports nothing and changes neither the task, the latch nor *)
(* the flag is invisible to the observer.                                  *)
LEMMA Unobserved ==
    ASSUME UNCHANGED <<task, opened, latched, emitted>>
    PROVE  UNCHANGED Abstract!consumerVars
BY DEF Abstract!consumerVars, Phase

(* Every step of the call is a step of a consumer, or none.                *)
LEMMA ConsumerRefines ==
    ASSUME NamesOnce, ConsumerInv, [PullNext]_pullVars
    PROVE  [Abstract!Next]_(Abstract!consumerVars)
<1> USE DEF inboundVars, outboundVars, serverVars, channelVars, clientVars
<1>1. CASE UNCHANGED pullVars
  BY <1>1, Unobserved DEF pullVars
<1>2. CASE PullNext
  <2>1. PICK c \in Streams : Client(c) \/ Server(c) \/ Proxy(c)
    BY <1>2 DEF PullNext
  <2>2. PullTypeOK /\ PumpsHold(c) /\ NamesFirst(c)
    BY DEF ConsumerInv, RelayInv
  <2>3. ASSUME Abstract!ConsumerStep(c) PROVE [Abstract!Next]_(Abstract!consumerVars)
    BY <2>3 DEF Abstract!Next
  <2>4. CASE Client(c) \/ Server(c)
    <3>1. UNCHANGED <<task, opened, latched, emitted>>
      BY <2>4 DEF Client, Server, ClientSend, ClientEnd, ClientReset,
         ClientReceive, UpstreamAccept, UpstreamRefuse, UpstreamTake,
         UpstreamYield, UpstreamEnd, UpstreamDropsRequests
    <3>2. QED
      BY <3>1, Unobserved
  <2>5. CASE InNextEnds(c) \/ InSend(c) \/ OutEstablish(c) \/ OutNextEnds(c)
             \/ OutSend(c)
    <3>1. UNCHANGED <<task, opened, latched, emitted>>
      BY <2>5 DEF InNextEnds, InSend, OutEstablish, OutNextEnds, OutSend
    <3>2. QED
      BY <3>1, Unobserved
  <2>6. CASE InNext(c)
    <3> DEFINE frame == Head(inbound[c])
               names == frame.subscription # NoSubscription
    <3>1. /\ task[c] = "pumping" /\ task' = task /\ inbound[c] # <<>>
          /\ latched' = [latched EXCEPT ![c] = IF names THEN frame.subscription ELSE @]
          /\ opened' = [opened EXCEPT ![c] = @ \/ names]
          /\ IF names /\ ~opened[c]
                THEN Emit(c, Connection("ConsumerOpen", c, frame.subscription))
                ELSE UNCHANGED emitted
      BY <2>6 DEF InNext, Pumping
    <3>2. frame \in Frame
      BY <2>2, <3>1, HeadTail DEF PullTypeOK
    <3>3. CASE opened[c]
      <4>1. frame \in LaterFrames
        <5>1. inbound[c] \in Seq(LaterFrames)
          BY <2>2, <3>3 DEF NamesFirst
        <5>2. QED
          BY <3>1, <5>1, HeadTail
      <4>2. ~names
        BY <4>1 DEF NamesOnce
      <4>3. UNCHANGED <<task, opened, latched, emitted>>
        BY <2>2, <3>1, <3>3, <4>2, ZenonT(60) DEF PullTypeOK
      <4>4. QED
        BY <4>3, Unobserved
    <3>4. CASE ~opened[c]
      <4>1. frame \in FirstFrames
        BY <2>2, <3>1, <3>4 DEF NamesFirst
      <4>2. names /\ frame.subscription \in Subscriptions
        BY <3>2, <4>1 DEF NamesOnce, Frame
      <4>3. Phase[c] = "new"
        BY <3>1, <3>4 DEF Phase
      <4>4. Phase' = [Phase EXCEPT ![c] = "open"]
        BY <2>2, <3>1, <4>2 DEF Phase, PullTypeOK
      <4>5. /\ latched' = [latched EXCEPT ![c] = frame.subscription]
            /\ Abstract!Emit(c, Abstract!Connection("ConsumerOpen", c,
                                                    frame.subscription))
        BY <3>1, <3>4, <4>2 DEF Emit, Connection, Abstract!Emit, Abstract!Connection
      <4>6. Abstract!Open(c)
        BY <4>2, <4>3, <4>4, <4>5 DEF Abstract!Open
      <4>7. QED
        BY <2>3, <4>6 DEF Abstract!ConsumerStep
    <3>5. QED
      BY <3>3, <3>4
  <2>7. ASSUME NEW kind \in {"Ack", "Deliver"}, NEW n \in FrameCounts,
               opened[c], task[c] = "pumping",
               Emit(c, Movement(kind, c, latched[c], n)),
               UNCHANGED <<task, opened, latched>>
        PROVE  [Abstract!Next]_(Abstract!consumerVars)
    <3>1. Phase[c] = "open" /\ UNCHANGED <<Phase, latched>>
      BY <2>7 DEF Phase
    <3>2. Abstract!Emit(c, Abstract!Movement(kind, c, latched[c], n))
      BY <2>7 DEF Emit, Movement, Abstract!Emit, Abstract!Movement
    <3>3. Abstract!Move(c)
      BY <3>1, <3>2 DEF Abstract!Move
    <3>4. QED
      BY <2>3, <3>3 DEF Abstract!ConsumerStep
  <2>8. CASE InAck(c)
    <3> DEFINE n == Head(hand[c]).acks
    <3>1. /\ inPc[c] = "ack" /\ UNCHANGED <<task, opened, latched>>
          /\ IF n > 0 THEN Emit(c, Movement("Ack", c, latched[c], n))
                      ELSE UNCHANGED emitted
      BY <2>8 DEF InAck
    <3>2. task[c] = "pumping" /\ hand[c] # <<>> /\ hand[c] \in Seq(Frame)
      BY <2>2, <3>1 DEF PumpsHold, PullTypeOK
    <3>3. opened[c] /\ Head(hand[c]) \in FirstFrames \cup LaterFrames
      BY <2>2, <3>2 DEF NamesFirst
    <3>4. n \in Nat
      BY <3>3, StreamAssumption DEF Frame
    <3>5. CASE n > 0
      <4>1. n \in FrameCounts
        BY <3>3, <3>4, <3>5 DEF FrameCounts
      <4>2. QED
        BY <2>7, <3>1, <3>2, <3>3, <3>5, <4>1
    <3>6. CASE ~(n > 0)
      BY <3>1, <3>6, Unobserved
    <3>7. QED
      BY <3>5, <3>6
  <2>9. CASE OutNext(c)
    <3> DEFINE response == Head(arriving[c])
    <3>1. /\ task[c] = "pumping" /\ arriving[c] # <<>>
          /\ UNCHANGED <<task, opened, latched>>
          /\ IF response # Failure /\ response # 0
                THEN Emit(c, Movement("Deliver", c, latched[c], response))
                ELSE UNCHANGED emitted
      BY <2>9 DEF OutNext, OutPumping, Pumping
    <3>2. CASE response # Failure /\ response # 0
      <4>1. opened[c]
        <5>1. ASSUME ~opened[c] PROVE FALSE
          <6>1. arriving[c] \in Seq({Failure})
            BY <2>2, <5>1 DEF NamesFirst
          <6>2. QED
            BY <3>1, <3>2, <6>1, HeadTail
        <5>2. QED
          BY <5>1
      <4>2. response \in (0..MaxMessages) \cup {Failure}
        <5>1. arriving[c] \in Seq((0..MaxMessages) \cup {Failure})
          BY <2>2, <4>1 DEF NamesFirst
        <5>2. QED
          BY <3>1, <5>1, HeadTail
      <4>3. response \in FrameCounts
        BY <3>2, <4>2, StreamAssumption DEF FrameCounts
      <4>4. QED
        BY <2>7, <3>1, <3>2, <4>1, <4>3
    <3>3. CASE ~(response # Failure /\ response # 0)
      BY <3>1, <3>3, Unobserved
    <3>4. QED
      BY <3>2, <3>3
  <2>10. CASE Finish(c)
    <3>1. /\ task[c] = "pumping" /\ task' = [task EXCEPT ![c] = "done"]
          /\ UNCHANGED <<opened, latched>>
          /\ IF opened[c] THEN Emit(c, Connection("ConsumerClose", c, latched[c]))
                          ELSE UNCHANGED emitted
      BY <2>10 DEF Finish
    <3>2. Phase' = [Phase EXCEPT ![c] = "over"]
      BY <2>2, <3>1 DEF Phase, PullTypeOK
    <3>3. CASE opened[c]
      <4>1. Phase[c] = "open"
        BY <3>1, <3>3 DEF Phase
      <4>2. Abstract!Emit(c, Abstract!Connection("ConsumerClose", c, latched[c]))
        BY <3>1, <3>3 DEF Emit, Connection, Abstract!Emit, Abstract!Connection
      <4>3. Abstract!Close(c)
        BY <3>1, <3>2, <4>1, <4>2 DEF Abstract!Close
      <4>4. QED
        BY <2>3, <4>3 DEF Abstract!ConsumerStep
    <3>4. CASE ~opened[c]
      <4>1. Phase[c] = "new"
        BY <3>1, <3>4 DEF Phase
      <4>2. Abstract!Abandon(c)
        BY <3>1, <3>2, <3>4, <4>1 DEF Abstract!Abandon
      <4>3. QED
        BY <2>3, <4>2 DEF Abstract!ConsumerStep
    <3>5. QED
      BY <3>3, <3>4
  <2>11. QED
    BY <2>1, <2>4, <2>5, <2>6, <2>8, <2>9, <2>10 DEF Proxy, Inbound, Outbound
<1>3. QED
  BY <1>1, <1>2

(* For clients that name their subscription in the first frame and only    *)
(* there, the call keeps module Consumer's promise to the observer: one    *)
(* open, first; then counts, on the subscription opened; one close, last,  *)
(* in every way in which the call can end, and nothing at all when it ends *)
(* before a frame came (the pumps and the end of the task,                 *)
(* src/src/proxy/subscriber.rs).                                           *)
THEOREM KeepsConsumersPromise ==
    ASSUME NamesOnce
    PROVE  PullSpec => ImplementsConsumer
<1>1. PullInit => ConsumerInv /\ Abstract!Init
  <2>1. PullInit => Abstract!Init
    BY DEF PullInit, Abstract!Init, Phase
  <2>2. QED
    BY <2>1, ConsumerInitially
<1>2. ConsumerInv /\ [PullNext]_pullVars
        => ConsumerInv' /\ [Abstract!Next]_(Abstract!consumerVars)
  BY ConsumerInvStep, ConsumerRefines
<1>3. QED
  BY <1>1, <1>2, PTL DEF PullSpec, ImplementsConsumer, Abstract!Spec

-----------------------------------------------------------------------------
(* The taps: what the two pumps tell the sink, against what passes them.   *)

(* The rank of a place among finitely many, and what a last place adds.    *)
LEMMA RankFacts ==
    ASSUME NEW n \in Nat, NEW S \in SUBSET (1..n)
    PROVE  /\ IsFiniteSet(S) /\ Cardinality(S) \in Nat
           /\ \A i \in S : Rank(S, i) \in 1..Cardinality(S)
<1>1. IsFiniteSet(S)
  <2>1. 1 \in Int /\ n \in Int
    OBVIOUS
  <2>2. IsFiniteSet(1..n)
    BY <2>1, FS_Interval
  <2>3. QED
    BY <2>2, FS_Subset
<1>2. Cardinality(S) \in Nat
  BY <1>1, FS_CardinalityType
<1>3. ASSUME NEW i \in S PROVE Rank(S, i) \in 1..Cardinality(S)
  <2> DEFINE T == {j \in S : j <= i}
  <2>1. T \in SUBSET S /\ i \in T
    OBVIOUS
  <2>2. IsFiniteSet(T) /\ Cardinality(T) <= Cardinality(S)
    BY <1>1, <2>1, FS_Subset
  <2>3. Cardinality(T) \in Nat /\ Cardinality(T) # 0
    BY <2>1, <2>2, FS_CardinalityType, FS_EmptySet
  <2>4. QED
    BY <1>2, <2>2, <2>3 DEF Rank
<1>4. QED
  BY <1>1, <1>2, <1>3

LEMMA RankLast ==
    ASSUME NEW n \in Nat, NEW S \in SUBSET (1..n), NEW x \in Nat,
           \A i \in S : i < x
    PROVE  /\ Cardinality(S \cup {x}) = Cardinality(S) + 1
           /\ Rank(S \cup {x}, x) = Cardinality(S) + 1
           /\ \A i \in S : Rank(S \cup {x}, i) = Rank(S, i)
<1>1. x \notin S
  OBVIOUS
<1>2. Cardinality(S \cup {x}) = Cardinality(S) + 1
  BY <1>1, RankFacts, FS_AddElement
<1>3. {j \in S \cup {x} : j <= x} = S \cup {x}
  <2>1. \A j \in S \cup {x} : j <= x
    OBVIOUS
  <2>2. QED
    BY <2>1, Zenon
<1>4. \A i \in S : {j \in S \cup {x} : j <= i} = {j \in S : j <= i}
  OBVIOUS
<1>5. QED
  BY <1>2, <1>3, <1>4 DEF Rank

(* One amount more on either side.                                         *)
LEMMA SameAmountsExtend ==
    ASSUME NEW f, NEW g, NEW F, NEW G, NEW n \in Nat, NEW m \in Nat,
           NEW x \in Nat, NEW y \in Nat,
           DOMAIN f \in SUBSET (1..n), \A i \in DOMAIN f : i < x,
           DOMAIN g \in SUBSET (1..m), \A i \in DOMAIN g : i < y,
           DOMAIN F = DOMAIN f \cup {x}, \A i \in DOMAIN f : F[i] = f[i],
           DOMAIN G = DOMAIN g \cup {y}, \A i \in DOMAIN g : G[i] = g[i],
           SameAmounts(f, g), F[x] = G[y]
    PROVE  SameAmounts(F, G)
<1>1. PICK S \in SUBSET (1..n), T \in SUBSET (1..m), k \in Nat :
        /\ S = DOMAIN f /\ T = DOMAIN g
        /\ Cardinality(S) = k /\ Cardinality(T) = k
        /\ \A i \in S, j \in T : Rank(S, i) = Rank(T, j) => f[i] = g[j]
  <2>1. Cardinality(DOMAIN f) \in Nat /\ Cardinality(DOMAIN g) \in Nat
    BY RankFacts
  <2>2. QED
    BY <2>1 DEF SameAmounts, Follows
<1>2. /\ Cardinality(S \cup {x}) = k + 1 /\ Rank(S \cup {x}, x) = k + 1
      /\ \A i \in S : Rank(S \cup {x}, i) = Rank(S, i) /\ Rank(S, i) \in 1..k
  <2>1. \A i \in S : i < x
    BY <1>1
  <2>2. \A i \in S : Rank(S, i) \in 1..k
    BY <1>1, RankFacts
  <2>3. /\ Cardinality(S \cup {x}) = Cardinality(S) + 1
        /\ Rank(S \cup {x}, x) = Cardinality(S) + 1
        /\ \A i \in S : Rank(S \cup {x}, i) = Rank(S, i)
    BY <2>1, RankLast
  <2>4. QED
    BY <1>1, <2>2, <2>3
<1>3. /\ Cardinality(T \cup {y}) = k + 1 /\ Rank(T \cup {y}, y) = k + 1
      /\ \A i \in T : Rank(T \cup {y}, i) = Rank(T, i) /\ Rank(T, i) \in 1..k
  <2>1. \A i \in T : i < y
    BY <1>1
  <2>2. \A i \in T : Rank(T, i) \in 1..k
    BY <1>1, RankFacts
  <2>3. /\ Cardinality(T \cup {y}) = Cardinality(T) + 1
        /\ Rank(T \cup {y}, y) = Cardinality(T) + 1
        /\ \A i \in T : Rank(T \cup {y}, i) = Rank(T, i)
    BY <2>1, RankLast
  <2>4. QED
    BY <1>1, <2>2, <2>3
<1>4. ASSUME NEW i \in S \cup {x}, NEW j \in T \cup {y},
             Rank(S \cup {x}, i) = Rank(T \cup {y}, j)
      PROVE  F[i] = G[j]
  <2>1. CASE i \in S /\ j \in T
    <3>1. Rank(S, i) = Rank(T, j)
      BY <1>2, <1>3, <1>4, <2>1
    <3>2. QED
      BY <1>1, <2>1, <3>1
  <2>2. CASE i \in S /\ j = y
    <3>1. Rank(S, i) = k + 1 /\ Rank(S, i) \in 1..k
      BY <1>2, <1>3, <1>4, <2>2
    <3>2. QED
      BY <3>1
  <2>3. CASE i = x /\ j \in T
    <3>1. Rank(T, j) = k + 1 /\ Rank(T, j) \in 1..k
      BY <1>2, <1>3, <1>4, <2>3
    <3>2. QED
      BY <3>1
  <2>4. CASE i = x /\ j = y
    BY <2>4
  <2>5. QED
    BY <2>1, <2>2, <2>3, <2>4
<1>5. Follows(F, G)
  BY <1>1, <1>2, <1>3, <1>4 DEF Follows
<1>6. Follows(G, F)
  BY <1>1, <1>2, <1>3, <1>4, SMTT(60) DEF Follows
<1>7. QED
  BY <1>5, <1>6 DEF SameAmounts

(* The length of a sequence, closed to the provers where only lengths are  *)
(* compared.                                                               *)
Length(s) == Len(s)

InHand(c) == IF inPc[c] = "ack" THEN 1 ELSE 0

(***************************************************************************)
(* The tap of the inbound pump: the acks of the first n frames have been   *)
(* told, which include all that has got past the pump; the frames to come  *)
(* are those after them, and nothing is lost but by a reset.               *)
(***************************************************************************)
AcksTold(c, n) ==
    /\ SameAmounts(Reported(c, "Ack"), AckedIn(c, n))
    /\ Length(received[c]) + Length(requests[c]) + Length(hand[c]) <= n + InHand(c)
    /\ n + InHand(c) + Length(inbound[c]) <= Length(sent[c])
    /\ client[c] = "open" => n + InHand(c) + Length(inbound[c]) = Length(sent[c])
    /\ inPc[c] = "ack" => hand[c][1] = sent[c][n + 1]
    /\ \A k \in 1..Length(inbound[c]) : inbound[c][k] = sent[c][n + InHand(c) + k]

(***************************************************************************)
(* The tap of the outbound pump likewise; a refused call's status is       *)
(* picked up at once and not among the responses that arrive.              *)
(***************************************************************************)
Unpicked(c) ==
    IF upstream[c] = "refused" /\ outPc[c] = "establish" THEN 1 ELSE 0

DeliveriesTold(c, n) ==
    /\ SameAmounts(Reported(c, "Deliver"), DeliveredIn(c, n))
    /\ Length(got[c]) + Length(responses[c]) + Length(item[c]) <= n
    /\ n + Unpicked(c) + Length(arriving[c]) = Length(yielded[c])
    /\ \A k \in 1..Length(arriving[c]) : arriving[c][k] = yielded[c][n + k]
    /\ upstream[c] \in {"waiting", "refused"} => arriving[c] = <<>>
    /\ Unpicked(c) = 1 => yielded[c] = <<Failure>>

TapInv ==
    \A c \in Streams : /\ \E n \in 0..Length(sent[c]) : AcksTold(c, n)
                       /\ \E n \in 0..Length(yielded[c]) : DeliveriesTold(c, n)

(* A report of another kind is none of the kind asked for; one of that     *)
(* kind comes last.                                                        *)
LEMMA ReportedElse ==
    ASSUME NEW c \in Streams, NEW kind, NEW r \in Report, r.kind # kind,
           emitted[c] \in Seq(Report), emitted'[c] = Append(emitted[c], r)
    PROVE  Reported(c, kind)' = Reported(c, kind)
<1> DEFINE e == emitted[c]
           D == {j \in DOMAIN emitted[c] : emitted[c][j].kind = kind}
           D2 == {j \in DOMAIN emitted'[c] : emitted'[c][j].kind = kind}
<1>1. /\ Len(e) \in Nat /\ DOMAIN e = 1..Len(e)
      /\ DOMAIN emitted'[c] = 1..(Len(e) + 1)
      /\ \A j \in 1..Len(e) : emitted'[c][j] = e[j]
      /\ emitted'[c][Len(e) + 1] = r
  BY AppendProperties, LenProperties DEF Length
<1>2. D2 = D
  BY <1>1
<1>3. \A i \in D : emitted'[c][i] = emitted[c][i]
  BY <1>1
<1>4. [i \in D2 |-> emitted'[c][i].messages] = [i \in D |-> emitted[c][i].messages]
  BY <1>2, <1>3, SMTT(60)
<1>5. QED
  BY <1>4 DEF Reported

LEMMA ReportedNext ==
    ASSUME NEW c \in Streams, NEW kind, NEW r \in Report, r.kind = kind,
           emitted[c] \in Seq(Report), emitted'[c] = Append(emitted[c], r)
    PROVE  LET x == Len(emitted[c]) + 1
           IN  /\ DOMAIN Reported(c, kind) \in SUBSET (1..Len(emitted[c]))
               /\ DOMAIN Reported(c, kind)' = DOMAIN Reported(c, kind) \cup {x}
               /\ \A i \in DOMAIN Reported(c, kind) :
                     Reported(c, kind)'[i] = Reported(c, kind)[i]
               /\ Reported(c, kind)'[x] = r.messages
<1> DEFINE e == emitted[c]
           x == Len(e) + 1
           D == {j \in DOMAIN emitted[c] : emitted[c][j].kind = kind}
           D2 == {j \in DOMAIN emitted'[c] : emitted'[c][j].kind = kind}
<1>1. /\ Len(e) \in Nat /\ DOMAIN e = 1..Len(e)
      /\ DOMAIN emitted'[c] = 1..(Len(e) + 1)
      /\ \A j \in 1..Len(e) : emitted'[c][j] = e[j]
      /\ emitted'[c][x] = r
  BY AppendProperties, LenProperties DEF Length
<1>2. D2 = D \cup {x} /\ D \in SUBSET (1..Len(e))
  BY <1>1
<1>3. \A i \in D : i \in D2 /\ emitted'[c][i] = emitted[c][i]
  BY <1>1, <1>2
<1>4. /\ DOMAIN [i \in D2 |-> emitted'[c][i].messages] = D2
      /\ DOMAIN [i \in D |-> emitted[c][i].messages] = D
      /\ \A i \in D : [i_1 \in D2 |-> emitted'[c][i_1].messages][i]
                        = [i_1 \in D |-> emitted[c][i_1].messages][i]
      /\ [i \in D2 |-> emitted'[c][i].messages][x] = r.messages
  BY <1>1, <1>2, <1>3
<1>5. QED
  BY <1>2, <1>4 DEF Reported

(* Sending more changes nothing about what has been taken.                 *)
LEMMA AckedInKept ==
    ASSUME NEW c \in Streams, sent[c] \in Seq(Frame), NEW n \in 0..Length(sent[c]),
           \/ sent'[c] = sent[c]
           \/ \E f \in Frame : sent'[c] = Append(sent[c], f)
    PROVE  /\ Length(sent'[c]) >= Length(sent[c]) /\ Length(sent'[c]) \in Nat
           /\ \A j \in 1..Length(sent[c]) : sent'[c][j] = sent[c][j]
           /\ AckedIn(c, n)' = AckedIn(c, n)
<1>1. /\ Length(sent'[c]) >= Length(sent[c]) /\ Length(sent'[c]) \in Nat
      /\ \A j \in 1..Length(sent[c]) : sent'[c][j] = sent[c][j]
  BY AppendProperties, LenProperties, SMTT(60) DEF Length
<1>2. Length(sent[c]) \in Nat
  BY LenProperties DEF Length
<1>3. {j \in 1..n : sent'[c][j].acks > 0} = {j \in 1..n : sent[c][j].acks > 0}
  <2>1. \A j \in 1..n : j \in 1..Length(sent[c])
    BY <1>2
  <2>2. \A j \in 1..n : sent'[c][j] = sent[c][j]
    BY <1>1, <2>1
  <2>3. QED
    BY <2>2, Zenon
<1>4. AckedIn(c, n)' = AckedIn(c, n)
  BY <1>1, <1>2, <1>3, SMTT(60) DEF AckedIn
<1>5. QED
  BY <1>1, <1>4

(* Nothing is taken and nothing told.                                      *)
LEMMA AcksSame ==
    ASSUME NEW c \in Streams, NEW n \in 0..Length(sent[c]), PullTypeOK, PullTypeOK',
           AcksTold(c, n), Reported(c, "Ack")' = Reported(c, "Ack"),
           sent'[c] = sent[c], inbound'[c] = inbound[c],
           client'[c] = "open" => client[c] = "open",
           Length(received'[c]) + Length(requests'[c]) + Length(hand'[c])
              <= Length(received[c]) + Length(requests[c]) + Length(hand[c]),
           inPc'[c] = "ack" <=> inPc[c] = "ack",
           inPc'[c] = "ack" => hand'[c] = hand[c]
    PROVE  AcksTold(c, n)'
<1>1. AckedIn(c, n)' = AckedIn(c, n)
  BY AckedInKept DEF PullTypeOK
<1>2. SameAmounts(Reported(c, "Ack"), AckedIn(c, n))'
  BY <1>1 DEF AcksTold, SameAmounts, Follows, Rank
<1>3. InHand(c)' = InHand(c) /\ InHand(c) \in Nat
  BY DEF InHand
<1>4. Length(received'[c]) + Length(requests'[c]) + Length(hand'[c]) <= n + InHand(c)'
  <2>1. /\ Length(received'[c]) \in Nat /\ Length(requests'[c]) \in Nat
        /\ Length(hand'[c]) \in Nat /\ Length(received[c]) \in Nat
        /\ Length(requests[c]) \in Nat /\ Length(hand[c]) \in Nat /\ Length(sent[c]) \in Nat
    BY LenProperties DEF Length, PullTypeOK
  <2>2. QED
    BY <1>3, <2>1 DEF AcksTold
<1>5. /\ n + InHand(c)' + Length(inbound'[c]) <= Length(sent'[c])
      /\ client'[c] = "open" => n + InHand(c)' + Length(inbound'[c]) = Length(sent'[c])
  BY <1>3 DEF AcksTold
<1>6. inPc'[c] = "ack" => hand'[c][1] = sent'[c][n + 1]
  BY DEF AcksTold
<1>7. \A k \in 1..Length(inbound'[c]) : inbound'[c][k] = sent'[c][n + InHand(c)' + k]
  BY <1>3 DEF AcksTold
<1>8. QED
  BY <1>2, <1>4, <1>5, <1>6, <1>7, Zenon DEF AcksTold

(* Every step keeps what is known of the inbound tap.                      *)
LEMMA AcksStep ==
    ASSUME PullTypeOK, PullTypeOK', NEW c \in Streams, PumpsHold(c),
           NEW n \in 0..Length(sent[c]), AcksTold(c, n),
           Client(c) \/ Server(c) \/ Proxy(c)
    PROVE  \E m \in 0..Length(sent'[c]) : AcksTold(c, m)'
<1> USE DEF inboundVars, outboundVars, serverVars, channelVars, clientVars
<1>t. /\ sent[c] \in Seq(Frame) /\ inbound[c] \in Seq(Frame)
      /\ hand[c] \in Seq(Frame) /\ requests[c] \in Seq(Frame)
      /\ received[c] \in Seq(Frame) /\ emitted[c] \in Seq(Report)
      /\ latched[c] \in Subscriptions \cup {NoSubscription}
  BY DEF PullTypeOK
<1>l. /\ Length(sent[c]) \in Nat /\ Length(inbound[c]) \in Nat /\ Length(hand[c]) \in Nat
      /\ Length(requests[c]) \in Nat /\ Length(received[c]) \in Nat
  BY <1>t, LenProperties DEF Length
<1>r. emitted'[c] = emitted[c] => Reported(c, "Ack")' = Reported(c, "Ack")
  BY DEF Reported
<1>1. CASE ClientSend(c)
  <2>1. PICK f \in Frame : /\ sent'[c] = Append(sent[c], f)
                           /\ inbound'[c] = Append(inbound[c], f)
    <3>1. FirstFrames \subseteq Frame /\ LaterFrames \subseteq Frame
      BY StreamAssumption
    <3>2. PICK f \in IF sent[c] = <<>> THEN FirstFrames ELSE LaterFrames :
            /\ sent' = [sent EXCEPT ![c] = Append(@, f)]
            /\ inbound' = [inbound EXCEPT ![c] = Append(@, f)]
      BY <1>1 DEF ClientSend
    <3>3. f \in Frame
      BY <3>1
    <3>4. /\ sent'[c] = Append(sent[c], f)
          /\ inbound'[c] = Append(inbound[c], f)
      <4>1. sent \in [Streams -> Seq(Frame)] /\ inbound \in [Streams -> Seq(Frame)]
        BY DEF PullTypeOK
      <4>2. QED
        BY <3>2, <4>1
    <3>5. QED
      BY <3>3, <3>4
  <2>2. /\ client[c] = "open" /\ client'[c] = "open" /\ hand'[c] = hand[c]
        /\ inPc'[c] = inPc[c] /\ received'[c] = received[c]
        /\ requests'[c] = requests[c] /\ emitted'[c] = emitted[c]
    BY <1>1 DEF ClientSend
  <2>3. /\ AckedIn(c, n)' = AckedIn(c, n)
        /\ Length(sent'[c]) = Length(sent[c]) + 1
        /\ \A j \in 1..Length(sent[c]) : sent'[c][j] = sent[c][j]
        /\ sent'[c][Length(sent[c]) + 1] = f
    BY <1>t, <2>1, AckedInKept, AppendProperties, SMTT(60) DEF Length
  <2>4. /\ Length(inbound'[c]) = Length(inbound[c]) + 1
        /\ \A j \in 1..Length(inbound[c]) : inbound'[c][j] = inbound[c][j]
        /\ inbound'[c][Length(inbound[c]) + 1] = f
    BY <1>t, <2>1, AppendProperties DEF Length
  <2>5. SameAmounts(Reported(c, "Ack"), AckedIn(c, n))'
    BY <1>r, <2>2, <2>3 DEF AcksTold, SameAmounts, Follows, Rank
  <2>6. InHand(c)' = InHand(c) /\ InHand(c) \in 0..1
    BY <2>2 DEF InHand
  <2>7. n + InHand(c) + Length(inbound[c]) = Length(sent[c])
    BY <2>2 DEF AcksTold
  <2>8. /\ n + InHand(c)' + Length(inbound'[c]) = Length(sent'[c])
        /\ n \in 0..Length(sent'[c])
    BY <1>l, <2>3, <2>4, <2>6, <2>7
  <2>9. inPc'[c] = "ack" => hand'[c][1] = sent'[c][n + 1]
    <3>1. inPc[c] = "ack" => InHand(c) = 1
      BY DEF InHand
    <3>2. inPc[c] = "ack" => n + 1 \in 1..Length(sent[c])
      BY <1>l, <2>7, <3>1
    <3>3. inPc[c] = "ack" => hand[c][1] = sent[c][n + 1]
      BY DEF AcksTold
    <3>4. QED
      BY <2>2, <2>3, <3>2, <3>3
  <2>10. ASSUME NEW k \in 1..Length(inbound'[c])
         PROVE  inbound'[c][k] = sent'[c][n + InHand(c)' + k]
    <3>1. CASE k = Length(inbound[c]) + 1
      <4>1. n + InHand(c) + k = Length(sent[c]) + 1
        BY <1>l, <2>6, <2>7, <3>1
      <4>2. QED
        BY <2>3, <2>4, <2>6, <3>1, <4>1
    <3>2. CASE k # Length(inbound[c]) + 1
      <4>1. k \in 1..Length(inbound[c]) /\ n + InHand(c) + k \in 1..Length(sent[c])
        BY <1>l, <2>4, <2>6, <2>7, <3>2
      <4>2. QED
        BY <2>3, <2>4, <2>6, <4>1 DEF AcksTold
    <3>3. QED
      BY <3>1, <3>2
  <2>11. Length(received'[c]) + Length(requests'[c]) + Length(hand'[c]) <= n + InHand(c)'
    BY <2>2, <2>6 DEF AcksTold
  <2>12. n + InHand(c)' + Length(inbound'[c]) <= Length(sent'[c])
    BY <1>l, <2>3, <2>8
  <2>13. AcksTold(c, n)'
    BY <2>5, <2>8, <2>9, <2>10, <2>11, <2>12, Zenon DEF AcksTold
  <2>14. QED
    BY <2>8, <2>13
<1>2. CASE ClientReset(c)
  <2>1. PICK k \in 0..Length(inbound[c]) : inbound'[c] = SubSeq(inbound[c], 1, k)
    <3>1. PICK k \in 0..Len(inbound[c]) :
            inbound' = [inbound EXCEPT ![c] = SubSeq(@, 1, k)]
      BY <1>2 DEF ClientReset
    <3>2. QED
      BY <3>1 DEF Length, PullTypeOK
  <2>2. /\ Length(inbound'[c]) = k
        /\ \A j \in 1..k : inbound'[c][j] = inbound[c][j]
    <3>1. k \in Nat /\ k <= Len(inbound[c]) /\ Len(inbound[c]) \in Nat
      BY <1>l, <2>1 DEF Length
    <3>2. \A j \in 1..k : inbound[c][j] \in Frame
      BY <1>t, <3>1, ElementOfSeq
    <3>3. /\ Len(SubSeq(inbound[c], 1, k)) = k
          /\ \A j \in 1..k : SubSeq(inbound[c], 1, k)[j] = inbound[c][j]
      BY <3>1, <3>2, SubSeqProperties
    <3>4. QED
      BY <2>1, <3>3 DEF Length
  <2>3. /\ client'[c] = "reset" /\ sent'[c] = sent[c] /\ hand'[c] = hand[c]
        /\ inPc'[c] = inPc[c] /\ received'[c] = received[c]
        /\ requests'[c] = requests[c] /\ emitted'[c] = emitted[c]
    BY <1>2 DEF ClientReset, PullTypeOK
  <2>4. AckedIn(c, n)' = AckedIn(c, n)
    BY <2>3, <1>t, AckedInKept
  <2>5. SameAmounts(Reported(c, "Ack"), AckedIn(c, n))'
    BY <1>r, <2>3, <2>4 DEF AcksTold, SameAmounts, Follows, Rank
  <2>6. InHand(c)' = InHand(c) /\ InHand(c) \in 0..1
    BY <2>3 DEF InHand
  <2>7. Length(received'[c]) + Length(requests'[c]) + Length(hand'[c]) <= n + InHand(c)'
    BY <2>3, <2>6 DEF AcksTold
  <2>8. n + InHand(c)' + Length(inbound'[c]) <= Length(sent'[c])
    <3>1. n + InHand(c) + Length(inbound[c]) <= Length(sent[c])
      BY DEF AcksTold
    <3>2. QED
      BY <1>l, <2>2, <2>3, <2>6, <3>1
  <2>9. client'[c] # "open" /\ inPc'[c] = "ack" => hand'[c][1] = sent'[c][n + 1]
    BY <2>3 DEF AcksTold
  <2>10. \A j \in 1..Length(inbound'[c]) : inbound'[c][j] = sent'[c][n + InHand(c)' + j]
    <3>1. \A j \in 1..Length(inbound'[c]) : j \in 1..Length(inbound[c])
      BY <1>l, <2>2
    <3>2. QED
      BY <2>2, <2>3, <2>6, <3>1 DEF AcksTold
  <2>11. AcksTold(c, n)'
    BY <2>3, <2>5, <2>7, <2>8, <2>9, <2>10, Zenon DEF AcksTold
  <2>12. QED
    BY <2>3, <2>11
<1>3. CASE InNext(c)
  <2>1. /\ inbound[c] # <<>> /\ inPc[c] = "next" /\ task[c] = "pumping"
        /\ hand'[c] = <<Head(inbound[c])>> /\ inbound'[c] = Tail(inbound[c])
        /\ inPc'[c] = "ack" /\ client'[c] = client[c] /\ sent'[c] = sent[c]
        /\ received'[c] = received[c] /\ requests'[c] = requests[c]
    BY <1>3 DEF InNext, Pumping, PullTypeOK
  <2>2. Reported(c, "Ack")' = Reported(c, "Ack")
    <3>1. CASE emitted'[c] = emitted[c]
      BY <1>r, <3>1
    <3>2. CASE emitted'[c] # emitted[c]
      <4>1. PICK s \in Subscriptions \cup {NoSubscription} :
              emitted'[c] = Append(emitted[c], Connection("ConsumerOpen", c, s))
        <5>1. Head(inbound[c]) \in Frame
          BY <1>t, <2>1, HeadTail DEF Length
        <5>2. QED
          BY <1>3, <3>2, <5>1, SMTT(60) DEF InNext, Emit, PullTypeOK, Frame
      <4>2. /\ Connection("ConsumerOpen", c, s) \in Report
            /\ Connection("ConsumerOpen", c, s).kind # "Ack"
        BY ReportTypes DEF Connection
      <4>3. QED
        BY <1>t, <4>1, <4>2, ReportedElse
    <3>3. QED
      BY <3>1, <3>2
  <2>3. AckedIn(c, n)' = AckedIn(c, n)
    BY <2>1, <1>t, AckedInKept
  <2>4. SameAmounts(Reported(c, "Ack"), AckedIn(c, n))'
    BY <2>2, <2>3 DEF AcksTold, SameAmounts, Follows, Rank
  <2>5. hand[c] = <<>> /\ Length(hand[c]) = 0 /\ Length(hand'[c]) = 1
    BY <2>1, EmptySeq DEF Length, PumpsHold
  <2>6. InHand(c) = 0 /\ InHand(c)' = 1
    BY <2>1 DEF InHand
  <2>7. /\ Length(inbound'[c]) = Length(inbound[c]) - 1 /\ Length(inbound[c]) > 0
        /\ hand'[c][1] = inbound[c][1]
        /\ \A k \in 1..Length(inbound'[c]) : inbound'[c][k] = inbound[c][k + 1]
    BY <1>t, <2>1, HeadTail, HeadTailProperties DEF Length
  <2>8. hand'[c][1] = sent'[c][n + 1]
    <3>1. 1 \in 1..Length(inbound[c]) /\ n + 0 + 1 = n + 1
      BY <1>l, <2>7
    <3>2. inbound[c][1] = sent[c][n + 0 + 1]
      BY <2>6, <3>1 DEF AcksTold
    <3>3. QED
      BY <2>1, <2>7, <3>1, <3>2
  <2>9. ASSUME NEW k \in 1..Length(inbound'[c])
        PROVE  inbound'[c][k] = sent'[c][n + InHand(c)' + k]
    <3>1. k + 1 \in 1..Length(inbound[c]) /\ n + 0 + (k + 1) = n + 1 + k
      BY <1>l, <2>7
    <3>2. inbound[c][k + 1] = sent[c][n + 0 + (k + 1)]
      BY <2>6, <3>1 DEF AcksTold
    <3>3. QED
      BY <2>1, <2>6, <2>7, <3>1, <3>2
  <2>10. /\ Length(received[c]) + Length(requests[c]) + Length(hand[c]) <= n + 0
         /\ n + 0 + Length(inbound[c]) <= Length(sent[c])
         /\ client[c] = "open" => n + 0 + Length(inbound[c]) = Length(sent[c])
    BY <2>6 DEF AcksTold
  <2>11. /\ sent'[c] = sent[c] /\ client'[c] = client[c]
         /\ received'[c] = received[c] /\ requests'[c] = requests[c]
    BY <2>1
  <2>12. Length(received'[c]) + Length(requests'[c]) + Length(hand'[c]) <= n + InHand(c)'
    BY <1>l, <2>5, <2>6, <2>10, <2>11
  <2>13. /\ n + InHand(c)' + Length(inbound'[c]) <= Length(sent'[c])
         /\ client'[c] = "open" => n + InHand(c)' + Length(inbound'[c]) = Length(sent'[c])
    BY <1>l, <2>6, <2>7, <2>10, <2>11
  <2>14. AcksTold(c, n)'
    BY <2>4, <2>8, <2>9, <2>12, <2>13, Zenon DEF AcksTold
  <2>15. QED
    BY <2>11, <2>14
<1>4. CASE InAck(c)
  <2> DEFINE f == Head(hand[c])
  <2>1. /\ inPc[c] = "ack" /\ inPc'[c] = "send" /\ hand'[c] = hand[c]
        /\ inbound'[c] = inbound[c] /\ client'[c] = client[c]
        /\ sent'[c] = sent[c] /\ received'[c] = received[c]
        /\ requests'[c] = requests[c]
    BY <1>4 DEF InAck, PullTypeOK
  <2>2. Length(hand[c]) = 1 /\ f = hand[c][1] /\ f \in Frame
    <3>1. hand[c] # <<>> /\ Length(hand[c]) <= 1
      BY <2>1 DEF PumpsHold, PullTypeOK, Length
    <3>2. Length(hand[c]) > 0 /\ Head(hand[c]) \in Frame
      BY <1>t, <3>1, HeadTail DEF Length
    <3>3. Head(hand[c]) = hand[c][1]
      BY <1>t, <3>1, HeadTailProperties DEF Length
    <3>4. QED
      BY <1>l, <3>1, <3>2, <3>3
  <2>3. InHand(c) = 1 /\ InHand(c)' = 0
    BY <2>1 DEF InHand
  <2>4. /\ n + 1 <= Length(sent[c]) /\ n + 1 \in 0..Length(sent'[c])
        /\ f = sent[c][n + 1] /\ f.acks \in Nat
    BY <1>l, <2>1, <2>2, <2>3 DEF AcksTold, Frame
  <2>5. SameAmounts(Reported(c, "Ack"), AckedIn(c, n + 1))'
    <3> DEFINE T  == {j \in 1..n : sent[c][j].acks > 0}
               T2 == {j \in 1..(n + 1) : sent[c][j].acks > 0}
    <3>1. CASE f.acks > 0
      <4> DEFINE r == Movement("Ack", c, latched[c], f.acks)
                 x == Len(emitted[c]) + 1
      <4>1. emitted'[c] = Append(emitted[c], r)
        BY <1>4, <3>1 DEF InAck, Emit, PullTypeOK
      <4>2. r \in Report /\ r.kind = "Ack" /\ r.messages = f.acks
        BY <1>t, <2>4, ReportTypes DEF Movement
      <4>3. /\ DOMAIN Reported(c, "Ack") \in SUBSET (1..Len(emitted[c]))
            /\ DOMAIN Reported(c, "Ack")' = DOMAIN Reported(c, "Ack") \cup {x}
            /\ \A i \in DOMAIN Reported(c, "Ack") :
                  Reported(c, "Ack")'[i] = Reported(c, "Ack")[i]
            /\ Reported(c, "Ack")'[x] = f.acks
        BY <1>t, <4>1, <4>2, ReportedNext, ZenonT(60)
      <4>4. /\ T2 = T \cup {n + 1} /\ T \in SUBSET (1..n)
            /\ \A i \in T : i < n + 1
        BY <2>4, <3>1
      <4>5. /\ DOMAIN AckedIn(c, n) = T /\ DOMAIN AckedIn(c, n + 1)' = T \cup {n + 1}
            /\ \A i \in T : AckedIn(c, n + 1)'[i] = AckedIn(c, n)[i]
            /\ AckedIn(c, n + 1)'[n + 1] = f.acks
        BY <2>1, <2>4, <4>4 DEF AckedIn
      <4> DEFINE f0 == Reported(c, "Ack")
                 g0 == AckedIn(c, n)
                 F0 == Reported(c, "Ack")'
                 G0 == AckedIn(c, n + 1)'
      <4>6. /\ Len(emitted[c]) \in Nat /\ x \in Nat
            /\ \A i \in DOMAIN Reported(c, "Ack") : i < x
        BY <1>t, <4>3, LenProperties DEF Length
      <4>7. SameAmounts(Reported(c, "Ack"), AckedIn(c, n))
        BY DEF AcksTold
      <4>8. SameAmounts(Reported(c, "Ack")', AckedIn(c, n + 1)')
        <5>1. /\ DOMAIN g0 \in SUBSET (1..n) /\ \A i \in DOMAIN g0 : i < n + 1
              /\ DOMAIN G0 = DOMAIN g0 \cup {n + 1}
              /\ \A i \in DOMAIN g0 : G0[i] = g0[i]
          BY <4>4, <4>5
        <5>2. F0[x] = G0[n + 1] /\ n \in Nat /\ n + 1 \in Nat
          BY <1>l, <4>3, <4>5
        <5>3. /\ DOMAIN f0 \in SUBSET (1..Len(emitted[c]))
              /\ \A i \in DOMAIN f0 : i < x
              /\ DOMAIN F0 = DOMAIN f0 \cup {x}
              /\ \A i \in DOMAIN f0 : F0[i] = f0[i]
              /\ SameAmounts(f0, g0) /\ Len(emitted[c]) \in Nat /\ x \in Nat
          BY <4>3, <4>6, <4>7
        <5> HIDE DEF f0, g0, F0, G0, x
        <5>4. SameAmounts(F0, G0)
          BY <5>1, <5>2, <5>3, SameAmountsExtend, ZenonT(60)
        <5>5. QED
          BY <5>4 DEF F0, G0
      <4>9. QED
        BY <4>8
    <3>2. CASE ~(f.acks > 0)
      <4>1. emitted'[c] = emitted[c]
        BY <1>4, <3>2 DEF InAck
      <4>2. T2 = T
        BY <2>4, <3>2
      <4>3. AckedIn(c, n + 1)' = AckedIn(c, n)
        BY <2>1, <4>2 DEF AckedIn
      <4>4. QED
        BY <1>r, <4>1, <4>3 DEF AcksTold, SameAmounts, Follows, Rank
    <3>3. QED
      BY <3>1, <3>2
  <2>6. ASSUME NEW k \in 1..Length(inbound'[c])
        PROVE  inbound'[c][k] = sent'[c][n + 1 + InHand(c)' + k]
    <3>1. inbound[c][k] = sent[c][n + 1 + k]
      BY <2>1, <2>3 DEF AcksTold
    <3>2. n + 1 + 0 + k = n + 1 + k
      BY <1>l, <2>1
    <3>3. QED
      BY <2>1, <2>3, <3>1, <3>2
  <2>7. /\ Length(received[c]) + Length(requests[c]) + Length(hand[c]) <= n + 1
        /\ n + 1 + Length(inbound[c]) <= Length(sent[c])
        /\ client[c] = "open" => n + 1 + Length(inbound[c]) = Length(sent[c])
    BY <2>3 DEF AcksTold
  <2>8. /\ Length(received'[c]) + Length(requests'[c]) + Length(hand'[c]) <= n + 1 + InHand(c)'
        /\ n + 1 + InHand(c)' + Length(inbound'[c]) <= Length(sent'[c])
        /\ client'[c] = "open" => n + 1 + InHand(c)' + Length(inbound'[c]) = Length(sent'[c])
        /\ inPc'[c] # "ack"
    BY <1>l, <2>1, <2>3, <2>7
  <2>9. AcksTold(c, n + 1)'
    BY <2>5, <2>6, <2>8, Zenon DEF AcksTold
  <2>10. QED
    BY <2>4, <2>9
<1>5. CASE \/ ClientEnd(c) \/ ClientReceive(c) \/ Server(c)
           \/ InNextEnds(c) \/ InSend(c) \/ Outbound(c) \/ Finish(c)
  <2>1. /\ sent'[c] = sent[c] /\ inbound'[c] = inbound[c]
        /\ client'[c] = "open" => client[c] = "open"
    BY <1>5 DEF ClientEnd, ClientReceive, Server, UpstreamAccept,
                UpstreamRefuse, UpstreamTake, UpstreamYield, UpstreamEnd,
                UpstreamDropsRequests, InNextEnds, InSend, Outbound,
                OutEstablish, OutNext, OutNextEnds, OutSend, Finish, PullTypeOK
  <2>2. /\ inPc'[c] = "ack" <=> inPc[c] = "ack"
        /\ inPc'[c] = "ack" => hand'[c] = hand[c]
    <3>1. CASE ClientEnd(c) \/ ClientReceive(c) \/ Server(c) \/ Outbound(c)
      BY <3>1 DEF ClientEnd, ClientReceive, Server, UpstreamAccept,
                UpstreamRefuse, UpstreamTake, UpstreamYield, UpstreamEnd,
                UpstreamDropsRequests, Outbound,
                OutEstablish, OutNext, OutNextEnds, OutSend
    <3>2. CASE InNextEnds(c) \/ InSend(c)
      BY <3>2, SMTT(60) DEF InNextEnds, InSend, PullTypeOK
    <3>3. CASE Finish(c)
      BY <3>3 DEF Finish, PumpsHold
    <3>4. QED
      BY <1>5, <3>1, <3>2, <3>3
  <2>3. Length(received'[c]) + Length(requests'[c]) + Length(hand'[c])
           <= Length(received[c]) + Length(requests[c]) + Length(hand[c])
    <3>1. CASE UpstreamTake(c)
      <4>1. /\ requests[c] # <<>> /\ hand'[c] = hand[c]
            /\ received'[c] = Append(received[c], Head(requests[c]))
            /\ requests'[c] = Tail(requests[c])
        BY <3>1 DEF UpstreamTake, PullTypeOK
      <4>2. /\ Length(received'[c]) = Length(received[c]) + 1
            /\ Length(requests'[c]) = Length(requests[c]) - 1
        BY <1>t, <4>1, HeadTail, AppendProperties DEF Length
      <4>3. Length(hand'[c]) = Length(hand[c])
        BY <4>1
      <4>4. QED
        BY <1>l, <4>2, <4>3
    <3>2. CASE UpstreamDropsRequests(c)
      <4>1. /\ received'[c] = received[c] /\ hand'[c] = hand[c]
            /\ requests'[c] = <<>>
        BY <3>2 DEF UpstreamDropsRequests, PullTypeOK
      <4>2. /\ Length(received'[c]) = Length(received[c]) /\ Length(hand'[c]) = Length(hand[c])
            /\ Length(requests'[c]) = 0
        BY <4>1, EmptySeq DEF Length
      <4>3. QED
        BY <1>l, <4>2
    <3>3. CASE InSend(c)
      <4>1. /\ received'[c] = received[c] /\ hand'[c] = <<>>
            /\ \/ requests'[c] = requests[c] \o hand[c]
               \/ requests'[c] = requests[c]
        BY <3>3, SMTT(60) DEF InSend, PullTypeOK
      <4>2. Length(requests[c] \o hand[c]) = Length(requests[c]) + Length(hand[c])
        BY <1>t, ConcatProperties DEF Length
      <4>3. /\ Length(received'[c]) = Length(received[c]) /\ Length(hand'[c]) = 0
            /\ \/ Length(requests'[c]) = Length(requests[c]) + Length(hand[c])
               \/ Length(requests'[c]) = Length(requests[c])
        BY <4>1, <4>2, EmptySeq DEF Length
      <4>4. QED
        BY <1>l, <4>3
    <3>4. CASE Finish(c)
      <4>1. /\ received'[c] = received[c] /\ hand'[c] = <<>>
            /\ requests'[c] = requests[c]
        BY <3>4 DEF Finish, PullTypeOK
      <4>2. /\ Length(received'[c]) = Length(received[c]) /\ Length(hand'[c]) = 0
            /\ Length(requests'[c]) = Length(requests[c])
        BY <4>1, EmptySeq DEF Length
      <4>3. QED
        BY <1>l, <4>2
    <3>5. CASE \/ ClientEnd(c) \/ ClientReceive(c) \/ InNextEnds(c) \/ Outbound(c)
               \/ UpstreamAccept(c) \/ UpstreamRefuse(c) \/ UpstreamYield(c)
               \/ UpstreamEnd(c)
      <4>1. /\ received'[c] = received[c] /\ hand'[c] = hand[c]
            /\ requests'[c] = requests[c]
        BY <3>5 DEF ClientEnd, ClientReceive, UpstreamAccept, UpstreamRefuse,
                UpstreamYield, UpstreamEnd, InNextEnds, Outbound,
                OutEstablish, OutNext, OutNextEnds, OutSend
      <4>2. /\ Length(received'[c]) = Length(received[c])
            /\ Length(hand'[c]) = Length(hand[c])
            /\ Length(requests'[c]) = Length(requests[c])
        BY <4>1
      <4>3. QED
        BY <1>l, <4>2
    <3>6. QED
      BY <1>5, <3>1, <3>2, <3>3, <3>4, <3>5 DEF Server
  <2>4. Reported(c, "Ack")' = Reported(c, "Ack")
    <3>1. CASE OutNext(c)
      <4>1. CASE emitted'[c] = emitted[c]
        BY <1>r, <4>1
      <4>2. CASE emitted'[c] # emitted[c]
        <5>1. PICK k \in Nat :
                emitted'[c] = Append(emitted[c], Movement("Deliver", c, latched[c], k))
          <6>1. arriving[c] # <<>> /\ arriving[c] \in Seq(Item)
            BY <3>1 DEF OutNext, PullTypeOK
          <6>2. Head(arriving[c]) \in Item
            BY <6>1, HeadTail DEF Length
          <6>3. QED
            BY <3>1, <4>2, <6>2, SMTT(60) DEF OutNext, Emit, PullTypeOK, Item
        <5>2. /\ Movement("Deliver", c, latched[c], k) \in Report
              /\ Movement("Deliver", c, latched[c], k).kind # "Ack"
          BY <1>t, ReportTypes DEF Movement
        <5>3. QED
          BY <1>t, <5>1, <5>2, ReportedElse
      <4>3. QED
        BY <4>1, <4>2
    <3>2. CASE Finish(c)
      <4>1. CASE emitted'[c] = emitted[c]
        BY <1>r, <4>1
      <4>2. CASE emitted'[c] # emitted[c]
        <5>1. emitted'[c] = Append(emitted[c], Connection("ConsumerClose", c, latched[c]))
          BY <3>2, <4>2 DEF Finish, Emit, PullTypeOK
        <5>2. /\ Connection("ConsumerClose", c, latched[c]) \in Report
              /\ Connection("ConsumerClose", c, latched[c]).kind # "Ack"
          BY <1>t, ReportTypes DEF Connection
        <5>3. QED
          BY <1>t, <5>1, <5>2, ReportedElse
      <4>3. QED
        BY <4>1, <4>2
    <3>3. CASE ~OutNext(c) /\ ~Finish(c)
      <4>1. emitted' = emitted
        BY <1>5, <3>3 DEF ClientEnd, ClientReceive, Server, UpstreamAccept,
                UpstreamRefuse, UpstreamTake, UpstreamYield, UpstreamEnd,
                UpstreamDropsRequests, InNextEnds, InSend, Outbound,
                OutEstablish, OutNextEnds, OutSend
      <4>2. QED
        BY <1>r, <4>1
    <3>4. QED
      BY <3>1, <3>2, <3>3
  <2>5. AcksTold(c, n)'
    BY <2>1, <2>2, <2>3, <2>4, AcksSame
  <2>6. QED
    BY <2>1, <2>5, SMTT(60)
<1>6. QED
  BY <1>1, <1>2, <1>3, <1>4, <1>5 DEF Client, Proxy, Inbound

(* Answering more changes nothing about what has been taken.               *)
LEMMA DeliveredKept ==
    ASSUME NEW c \in Streams, yielded[c] \in Seq(Item),
           NEW n \in 0..Length(yielded[c]),
           \/ yielded'[c] = yielded[c]
           \/ \E x \in Item : yielded'[c] = Append(yielded[c], x)
    PROVE  /\ Length(yielded'[c]) >= Length(yielded[c])
           /\ Length(yielded'[c]) \in Nat
           /\ \A j \in 1..Length(yielded[c]) : yielded'[c][j] = yielded[c][j]
           /\ DeliveredIn(c, n)' = DeliveredIn(c, n)
<1>1. /\ Length(yielded'[c]) >= Length(yielded[c])
      /\ Length(yielded'[c]) \in Nat
      /\ \A j \in 1..Length(yielded[c]) : yielded'[c][j] = yielded[c][j]
  BY AppendProperties, LenProperties DEF Length
<1>2. Length(yielded[c]) \in Nat
  BY LenProperties DEF Length
<1>3. \A j \in 1..n : yielded'[c][j] = yielded[c][j]
  <2>1. \A j \in 1..n : j \in 1..Length(yielded[c])
    BY <1>2
  <2>2. QED
    BY <1>1, <2>1
<1>4. {j \in 1..n : yielded'[c][j] \notin {Failure, 0}}
        = {j \in 1..n : yielded[c][j] \notin {Failure, 0}}
  BY <1>3, Zenon
<1>5. DeliveredIn(c, n)' = DeliveredIn(c, n)
  BY <1>3, <1>4 DEF DeliveredIn
<1>6. QED
  BY <1>1, <1>5

(* The next response is told if it has messages.                           *)
TellsNext(c, n) ==
    /\ yielded[c][n] \in Item
    /\ IF yielded[c][n] \notin {Failure, 0}
         THEN emitted'[c] = Append(emitted[c],
                Movement("Deliver", c, latched[c], yielded[c][n]))
         ELSE emitted'[c] = emitted[c]

LEMMA DeliveredNext ==
    ASSUME NEW c \in Streams, PullTypeOK, NEW n \in Nat,
           yielded'[c] = yielded[c],
           SameAmounts(Reported(c, "Deliver"), DeliveredIn(c, n)),
           TellsNext(c, n + 1)
    PROVE  SameAmounts(Reported(c, "Deliver"), DeliveredIn(c, n + 1))'
<1>t. /\ emitted[c] \in Seq(Report)
      /\ latched[c] \in Subscriptions \cup {NoSubscription}
  BY DEF PullTypeOK
<1> DEFINE a  == yielded[c][n + 1]
           T  == {j \in 1..n : yielded[c][j] \notin {Failure, 0}}
           T2 == {j \in 1..(n + 1) : yielded[c][j] \notin {Failure, 0}}
<1>1. CASE a \notin {Failure, 0}
  <2> DEFINE r == Movement("Deliver", c, latched[c], a)
             x == Len(emitted[c]) + 1
             f0 == Reported(c, "Deliver")
             g0 == DeliveredIn(c, n)
             F0 == Reported(c, "Deliver")'
             G0 == DeliveredIn(c, n + 1)'
  <2>1. r \in Report /\ r.kind = "Deliver" /\ r.messages = a
    <3>1. a \in Nat
      BY <1>1 DEF Item, TellsNext
    <3>2. QED
      BY <1>t, <3>1, ReportTypes DEF Movement
  <2>2. emitted'[c] = Append(emitted[c], r)
    BY <1>1 DEF TellsNext
  <2>3. /\ DOMAIN f0 \in SUBSET (1..Len(emitted[c]))
        /\ DOMAIN F0 = DOMAIN f0 \cup {x}
        /\ \A i \in DOMAIN f0 : F0[i] = f0[i]
        /\ F0[x] = a
    BY <1>t, <2>1, <2>2, ReportedNext, ZenonT(60)
  <2>4. /\ T2 = T \cup {n + 1} /\ T \in SUBSET (1..n)
        /\ \A i \in T : i < n + 1
    BY <1>1
  <2>5. /\ DOMAIN g0 = T /\ DOMAIN G0 = T \cup {n + 1}
        /\ \A i \in T : G0[i] = g0[i]
        /\ G0[n + 1] = a
    BY <2>4 DEF DeliveredIn
  <2>6. /\ Len(emitted[c]) \in Nat /\ x \in Nat
        /\ \A i \in DOMAIN f0 : i < x
    BY <1>t, <2>3, LenProperties
  <2>7. PICK y \in Nat, m \in Nat : y = n + 1 /\ m = Len(emitted[c])
    <3>1. n + 1 \in Nat /\ Len(emitted[c]) \in Nat
      BY <2>6
    <3>2. QED
      BY <3>1, Zenon
  <2>8. /\ DOMAIN g0 \in SUBSET (1..n) /\ \A i \in DOMAIN g0 : i < y
        /\ DOMAIN G0 = DOMAIN g0 \cup {y}
        /\ \A i \in DOMAIN g0 : G0[i] = g0[i]
        /\ SameAmounts(f0, g0) /\ F0[x] = G0[y]
    BY <2>3, <2>4, <2>5, <2>7
  <2>9. /\ DOMAIN f0 \in SUBSET (1..m) /\ \A i \in DOMAIN f0 : i < x
        /\ DOMAIN F0 = DOMAIN f0 \cup {x}
        /\ \A i \in DOMAIN f0 : F0[i] = f0[i]
        /\ x \in Nat
    BY <2>3, <2>6, <2>7
  <2> HIDE DEF f0, g0, F0, G0, x
  <2>10. SameAmounts(F0, G0)
    BY <2>8, <2>9, SameAmountsExtend, SMTT(60)
  <2>11. SameAmounts(Reported(c, "Deliver")', DeliveredIn(c, n + 1)')
    BY <2>10 DEF F0, G0
  <2>12. QED
    BY <2>11
<1>2. CASE a \in {Failure, 0}
  <2>1. Reported(c, "Deliver")' = Reported(c, "Deliver")
    BY <1>2 DEF Reported, TellsNext
  <2>2. T2 = T
    <3>1. \A j \in 1..(n + 1) : j \in 1..n \/ j = n + 1
      OBVIOUS
    <3>2. \A j \in 1..n : j \in 1..(n + 1)
      OBVIOUS
    <3>3. QED
      BY <1>2, <3>1, <3>2, Zenon
  <2>3. DeliveredIn(c, n + 1)' = DeliveredIn(c, n)
    BY <2>2 DEF DeliveredIn
  <2>4. QED
    BY <2>1, <2>3
<1>3. QED
  BY <1>1, <1>2

(* Nothing is taken and nothing told.                                      *)
LEMMA DeliveriesSame ==
    ASSUME NEW c \in Streams, NEW n \in 0..Length(yielded[c]),
           PullTypeOK, PullTypeOK',
           DeliveriesTold(c, n),
           Reported(c, "Deliver")' = Reported(c, "Deliver"),
           yielded'[c] = yielded[c], arriving'[c] = arriving[c],
           Unpicked(c)' = Unpicked(c),
           upstream'[c] = upstream[c] \/ upstream'[c] \in {"streaming", "ended"},
           Length(got'[c]) + Length(responses'[c]) + Length(item'[c])
              <= Length(got[c]) + Length(responses[c]) + Length(item[c])
    PROVE  DeliveriesTold(c, n)'
<1>1. DeliveredIn(c, n)' = DeliveredIn(c, n)
  BY DeliveredKept DEF PullTypeOK
<1>2. SameAmounts(Reported(c, "Deliver"), DeliveredIn(c, n))'
  BY <1>1 DEF DeliveriesTold
<1>3. Length(got'[c]) + Length(responses'[c]) + Length(item'[c]) <= n
  <2>1. /\ Length(got'[c]) \in Nat /\ Length(responses'[c]) \in Nat
        /\ Length(item'[c]) \in Nat /\ Length(got[c]) \in Nat
        /\ Length(responses[c]) \in Nat /\ Length(item[c]) \in Nat
        /\ Length(yielded[c]) \in Nat
    BY LenProperties DEF Length, PullTypeOK
  <2>2. QED
    BY <2>1 DEF DeliveriesTold
<1>4. /\ n + Unpicked(c)' + Length(arriving'[c]) = Length(yielded'[c])
      /\ \A k \in 1..Length(arriving'[c]) : arriving'[c][k] = yielded'[c][n + k]
      /\ Unpicked(c)' = 1 => yielded'[c] = <<Failure>>
  BY DEF DeliveriesTold
<1>5. upstream'[c] \in {"waiting", "refused"} => arriving'[c] = <<>>
  BY DEF DeliveriesTold
<1>6. QED
  BY <1>2, <1>3, <1>4, <1>5, Zenon DEF DeliveriesTold

(* Every step keeps what is known of the outbound tap.                     *)
LEMMA DeliveriesStep ==
    ASSUME PullTypeOK, PullTypeOK', NEW c \in Streams, PumpsHold(c),
           ResponsesInOrder(c),
           NEW n \in 0..Length(yielded[c]), DeliveriesTold(c, n),
           Client(c) \/ Server(c) \/ Proxy(c)
    PROVE  \E m \in 0..Length(yielded'[c]) : DeliveriesTold(c, m)'
<1> USE DEF inboundVars, outboundVars, serverVars, channelVars, clientVars
<1>t. /\ yielded[c] \in Seq(Item) /\ arriving[c] \in Seq(Item)
      /\ item[c] \in Seq(Item) /\ responses[c] \in Seq(Item)
      /\ got[c] \in Seq(Item) /\ emitted[c] \in Seq(Report)
      /\ latched[c] \in Subscriptions \cup {NoSubscription}
  BY DEF PullTypeOK
<1>l. /\ Length(yielded[c]) \in Nat /\ Length(arriving[c]) \in Nat
      /\ Length(item[c]) \in Nat /\ Length(responses[c]) \in Nat
      /\ Length(got[c]) \in Nat
  BY <1>t, LenProperties DEF Length
<1>r. emitted'[c] = emitted[c] => Reported(c, "Deliver")' = Reported(c, "Deliver")
  BY DEF Reported
<1>d. /\ Length(got[c]) + Length(responses[c]) + Length(item[c]) <= n
      /\ n + Unpicked(c) + Length(arriving[c]) = Length(yielded[c])
      /\ \A k \in 1..Length(arriving[c]) : arriving[c][k] = yielded[c][n + k]
      /\ upstream[c] \in {"waiting", "refused"} => arriving[c] = <<>>
      /\ Unpicked(c) = 1 => yielded[c] = <<Failure>>
      /\ SameAmounts(Reported(c, "Deliver"), DeliveredIn(c, n))
  BY DEF DeliveriesTold
<1>w. upstream[c] = "waiting" =>
        outPc[c] = "establish" /\ yielded[c] = <<>> /\ arriving[c] = <<>>
  BY DEF ResponsesInOrder
<1>1. CASE UpstreamRefuse(c)
  <2>1. /\ upstream[c] = "waiting" /\ upstream'[c] = "refused"
        /\ yielded'[c] = <<Failure>> /\ arriving'[c] = <<>> /\ yielded[c] = <<>>
        /\ outPc'[c] = "establish" /\ emitted'[c] = emitted[c]
        /\ got'[c] = got[c] /\ responses'[c] = responses[c] /\ item'[c] = item[c]
    BY <1>1, <1>w DEF UpstreamRefuse, PullTypeOK
  <2>2. n = 0
    BY <2>1, EmptySeq DEF Length
  <2>3. DeliveredIn(c, 0)' = DeliveredIn(c, 0)
    <3>1. 1..0 = {}
      OBVIOUS
    <3>2. QED
      BY <3>1 DEF DeliveredIn
  <2>4. Unpicked(c)' = 1 /\ Length(yielded'[c]) = 1 /\ Length(arriving'[c]) = 0
    BY <2>1, EmptySeq DEF Unpicked, Length
  <2>5. SameAmounts(Reported(c, "Deliver"), DeliveredIn(c, 0))'
    BY <1>r, <1>d, <2>1, <2>2, <2>3
  <2>6. /\ Length(got'[c]) + Length(responses'[c]) + Length(item'[c]) <= 0
        /\ 0 + Unpicked(c)' + Length(arriving'[c]) = Length(yielded'[c])
        /\ \A k \in 1..Length(arriving'[c]) : arriving'[c][k] = yielded'[c][0 + k]
    BY <1>d, <2>1, <2>2, <2>4
  <2>7. DeliveriesTold(c, 0)'
    BY <2>1, <2>5, <2>6, Zenon DEF DeliveriesTold
  <2>8. QED
    BY <2>4, <2>7
<1>2. ASSUME NEW x \in Item,
             yielded'[c] = Append(yielded[c], x),
             arriving'[c] = Append(arriving[c], x),
             upstream[c] = "streaming", upstream'[c] \in {"streaming", "ended"},
             outPc'[c] = outPc[c], emitted'[c] = emitted[c], got'[c] = got[c],
             responses'[c] = responses[c], item'[c] = item[c]
      PROVE  \E m \in 0..Length(yielded'[c]) : DeliveriesTold(c, m)'
  <2>1. /\ DeliveredIn(c, n)' = DeliveredIn(c, n)
        /\ Length(yielded'[c]) = Length(yielded[c]) + 1
        /\ \A j \in 1..Length(yielded[c]) : yielded'[c][j] = yielded[c][j]
        /\ yielded'[c][Length(yielded[c]) + 1] = x
    <3>1. DeliveredIn(c, n)' = DeliveredIn(c, n)
      BY <1>t, <1>2, DeliveredKept
    <3>2. QED
      BY <1>t, <1>2, <3>1, AppendProperties DEF Length
  <2>2. /\ Length(arriving'[c]) = Length(arriving[c]) + 1
        /\ \A j \in 1..Length(arriving[c]) : arriving'[c][j] = arriving[c][j]
        /\ arriving'[c][Length(arriving[c]) + 1] = x
    BY <1>t, <1>2, AppendProperties DEF Length
  <2>3. SameAmounts(Reported(c, "Deliver"), DeliveredIn(c, n))'
    BY <1>r, <1>d, <1>2, <2>1
  <2>4. Unpicked(c) = 0 /\ Unpicked(c)' = 0
    BY <1>2 DEF Unpicked
  <2>5. n + Length(arriving[c]) = Length(yielded[c])
    BY <1>d, <1>l, <2>4
  <2>6. n + Unpicked(c)' + Length(arriving'[c]) = Length(yielded'[c])
    BY <1>l, <2>1, <2>2, <2>4, <2>5
  <2>7. ASSUME NEW k \in 1..Length(arriving'[c])
        PROVE  arriving'[c][k] = yielded'[c][n + k]
    <3>1. CASE k = Length(arriving[c]) + 1
      <4>1. n + k = Length(yielded[c]) + 1
        BY <1>l, <2>5, <3>1
      <4>2. QED
        BY <2>1, <2>2, <3>1, <4>1
    <3>2. CASE k # Length(arriving[c]) + 1
      <4>1. k \in 1..Length(arriving[c]) /\ n + k \in 1..Length(yielded[c])
        BY <1>l, <2>2, <2>5, <3>2
      <4>2. QED
        BY <1>d, <2>1, <2>2, <4>1
    <3>3. QED
      BY <3>1, <3>2
  <2>8. Length(got'[c]) + Length(responses'[c]) + Length(item'[c]) <= n
    BY <1>d, <1>2
  <2>9. /\ upstream'[c] \notin {"waiting", "refused"} /\ Unpicked(c)' # 1
        /\ n \in 0..Length(yielded'[c])
    BY <1>l, <1>2, <2>1, <2>4, SMTT(60)
  <2>10. DeliveriesTold(c, n)'
    BY <2>3, <2>6, <2>7, <2>8, <2>9, Zenon DEF DeliveriesTold
  <2>11. QED
    BY <2>9, <2>10
<1>3. CASE UpstreamYield(c)
  <2>1. PICK x \in 0..MaxMessages :
          /\ yielded' = [yielded EXCEPT ![c] = Append(@, x)]
          /\ arriving' = [arriving EXCEPT ![c] = Append(@, x)]
    BY <1>3 DEF UpstreamYield
  <2>2. x \in Item
    BY StreamAssumption DEF Item
  <2>3. yielded'[c] = Append(yielded[c], x) /\ arriving'[c] = Append(arriving[c], x)
    <3>1. yielded \in [Streams -> Seq(Item)] /\ arriving \in [Streams -> Seq(Item)]
      BY DEF PullTypeOK
    <3>2. QED
      BY <2>1, <3>1
  <2>4. /\ upstream[c] = "streaming" /\ upstream'[c] = "streaming"
        /\ outPc'[c] = outPc[c] /\ emitted'[c] = emitted[c] /\ got'[c] = got[c]
        /\ responses'[c] = responses[c] /\ item'[c] = item[c]
    BY <1>3 DEF UpstreamYield
  <2>5. QED
    BY <1>2, <2>2, <2>3, <2>4
<1>4. CASE UpstreamEnd(c)
  <2>1. PICK last \in {<<>>, <<Failure>>} :
          /\ yielded' = [yielded EXCEPT ![c] = @ \o last]
          /\ arriving' = [arriving EXCEPT ![c] = @ \o last]
    BY <1>4 DEF UpstreamEnd
  <2>2. /\ upstream[c] = "streaming" /\ upstream'[c] = "ended"
        /\ outPc'[c] = outPc[c] /\ emitted'[c] = emitted[c] /\ got'[c] = got[c]
        /\ responses'[c] = responses[c] /\ item'[c] = item[c]
    BY <1>4 DEF UpstreamEnd, PullTypeOK
  <2>3. yielded'[c] = yielded[c] \o last /\ arriving'[c] = arriving[c] \o last
    <3>1. yielded \in [Streams -> Seq(Item)] /\ arriving \in [Streams -> Seq(Item)]
      BY DEF PullTypeOK
    <3>2. QED
      BY <2>1, <3>1
  <2>4. CASE last = <<>>
    <3>1. yielded'[c] = yielded[c] /\ arriving'[c] = arriving[c]
      BY <1>t, <2>3, <2>4, ConcatEmptySeq
    <3>2. Unpicked(c)' = Unpicked(c)
      BY <2>2 DEF Unpicked
    <3>3. Length(got'[c]) + Length(responses'[c]) + Length(item'[c])
            <= Length(got[c]) + Length(responses[c]) + Length(item[c])
      BY <1>l, <2>2
    <3>4. DeliveriesTold(c, n)'
      BY <1>r, <2>2, <3>1, <3>2, <3>3, DeliveriesSame
    <3>5. QED
      BY <3>1, <3>4
  <2>5. CASE last = <<Failure>>
    <3>1. Failure \in Item
      BY DEF Item
    <3>2. /\ yielded'[c] = Append(yielded[c], Failure)
          /\ arriving'[c] = Append(arriving[c], Failure)
      BY <1>t, <2>3, <2>5, <3>1, AppendIsConcat
    <3>3. QED
      BY <1>2, <2>2, <3>1, <3>2
  <2>6. QED
    BY <2>1, <2>4, <2>5
<1>5. CASE OutEstablish(c) /\ upstream[c] = "refused"
  <2>1. /\ outPc[c] = "establish" /\ outPc'[c] = "sendErr"
        /\ item'[c] = <<Failure>> /\ upstream'[c] = "refused"
        /\ yielded'[c] = yielded[c] /\ arriving'[c] = arriving[c]
        /\ got'[c] = got[c] /\ responses'[c] = responses[c]
        /\ emitted'[c] = emitted[c]
    BY <1>5 DEF OutEstablish, PullTypeOK
  <2>2. Unpicked(c) = 1 /\ Unpicked(c)' = 0
    BY <1>5, <2>1 DEF Unpicked
  <2>3. /\ yielded[c] = <<Failure>> /\ arriving[c] = <<>>
        /\ Length(yielded[c]) = 1 /\ Length(arriving[c]) = 0
        /\ Length(item'[c]) = 1
    BY <1>5, <1>d, <2>1, <2>2, EmptySeq DEF Length
  <2>4. n = 0
    BY <1>d, <2>2, <2>3
  <2>5. SameAmounts(Reported(c, "Deliver"), DeliveredIn(c, 1))'
    <3>1. yielded[c][0 + 1] = Failure /\ Failure \in Item
      BY <2>3 DEF Item
    <3>2. TellsNext(c, 0 + 1)
      BY <2>1, <3>1 DEF TellsNext
    <3>3. SameAmounts(Reported(c, "Deliver"), DeliveredIn(c, 0 + 1))'
      BY <1>d, <2>1, <2>4, <3>2, DeliveredNext
    <3>4. QED
      BY <3>3
  <2>6. /\ Length(got'[c]) + Length(responses'[c]) + Length(item'[c]) <= 1
        /\ 1 + Unpicked(c)' + Length(arriving'[c]) = Length(yielded'[c])
        /\ \A k \in 1..Length(arriving'[c]) : arriving'[c][k] = yielded'[c][1 + k]
    BY <1>d, <1>l, <2>1, <2>2, <2>3, <2>4
  <2>7. arriving'[c] = <<>> /\ yielded'[c] = <<Failure>>
    BY <2>1, <2>3
  <2>8. DeliveriesTold(c, 1)'
    BY <2>5, <2>6, <2>7, Zenon DEF DeliveriesTold
  <2>9. QED
    BY <2>1, <2>3, <2>8
<1>6. CASE OutNext(c)
  <2> DEFINE a == Head(arriving[c])
  <2>1. /\ outPc[c] = "next" /\ task[c] = "pumping" /\ arriving[c] # <<>>
        /\ item'[c] = <<a>> /\ arriving'[c] = Tail(arriving[c])
        /\ outPc'[c] \in {"sendErr", "send"}
        /\ upstream'[c] = upstream[c] /\ yielded'[c] = yielded[c]
        /\ got'[c] = got[c] /\ responses'[c] = responses[c]
    BY <1>6 DEF OutNext, OutPumping, Pumping, PullTypeOK
  <2>2. Unpicked(c) = 0 /\ Unpicked(c)' = 0
    BY <2>1 DEF Unpicked
  <2>3. item[c] = <<>> /\ Length(item[c]) = 0 /\ Length(item'[c]) = 1
    BY <2>1, EmptySeq DEF PumpsHold, Length
  <2>4. /\ Length(arriving'[c]) = Length(arriving[c]) - 1 /\ Length(arriving[c]) > 0
        /\ a = arriving[c][1] /\ a \in Item
        /\ \A k \in 1..Length(arriving'[c]) : arriving'[c][k] = arriving[c][k + 1]
    BY <1>t, <2>1, HeadTail, HeadTailProperties DEF Length
  <2>5. /\ n + Length(arriving[c]) = Length(yielded[c])
        /\ n + 1 \in 0..Length(yielded'[c]) /\ n \in Nat
    BY <1>d, <1>l, <2>1, <2>2, <2>4
  <2>6. a = yielded[c][n + 1]
    <3>1. 1 \in 1..Length(arriving[c])
      BY <1>l, <2>4
    <3>2. QED
      BY <1>d, <2>4, <3>1
  <2>7. SameAmounts(Reported(c, "Deliver"), DeliveredIn(c, n + 1))'
    <3>1. IF a # Failure /\ a # 0
             THEN emitted'[c] = Append(emitted[c], Movement("Deliver", c, latched[c], a))
             ELSE emitted'[c] = emitted[c]
      <4>1. /\ emitted \in [Streams -> Seq(Report)]
            /\ IF a # Failure /\ a # 0
                  THEN emitted' = [emitted EXCEPT ![c] =
                         Append(@, Movement("Deliver", c, latched[c], a))]
                  ELSE emitted' = emitted
        BY <1>6 DEF OutNext, Emit, PullTypeOK
      <4>2. QED
        BY <4>1
    <3>2. yielded[c][n + 1] \in Item
      BY <2>4, <2>6
    <3>3. TellsNext(c, n + 1)
      BY <2>6, <3>1, <3>2 DEF TellsNext
    <3>4. QED
      BY <1>d, <2>1, <2>5, <3>3, DeliveredNext
  <2>8. ASSUME NEW k \in 1..Length(arriving'[c])
        PROVE  arriving'[c][k] = yielded'[c][n + 1 + k]
    <3>1. k + 1 \in 1..Length(arriving[c]) /\ n + (k + 1) = n + 1 + k
      BY <1>l, <2>4
    <3>2. arriving[c][k + 1] = yielded[c][n + (k + 1)]
      BY <1>d, <3>1
    <3>3. QED
      BY <2>1, <2>4, <3>1, <3>2
  <2>9. /\ Length(got'[c]) + Length(responses'[c]) + Length(item'[c]) <= n + 1
        /\ n + 1 + Unpicked(c)' + Length(arriving'[c]) = Length(yielded'[c])
        /\ Unpicked(c)' # 1
    <3>1. Length(got[c]) + Length(responses[c]) + 0 <= n
      BY <1>d, <2>3
    <3>2. /\ Length(got'[c]) = Length(got[c]) /\ Length(yielded'[c]) = Length(yielded[c])
          /\ Length(responses'[c]) = Length(responses[c])
      BY <2>1
    <3>3. Length(got'[c]) + Length(responses'[c]) + Length(item'[c]) <= n + 1
      BY <1>l, <2>3, <2>5, <3>1, <3>2
    <3>4. n + 1 + Unpicked(c)' + Length(arriving'[c]) = Length(yielded'[c])
      BY <1>l, <2>2, <2>4, <2>5, <3>2
    <3>5. QED
      BY <2>2, <3>3, <3>4
  <2>10. upstream'[c] \notin {"waiting", "refused"}
    BY <1>d, <2>1
  <2>11. DeliveriesTold(c, n + 1)'
    BY <2>7, <2>8, <2>9, <2>10, Zenon DEF DeliveriesTold
  <2>12. QED
    BY <2>5, <2>11
<1>7. CASE \/ Client(c) \/ Inbound(c) \/ OutNextEnds(c) \/ OutSend(c) \/ Finish(c)
           \/ UpstreamAccept(c) \/ UpstreamTake(c) \/ UpstreamDropsRequests(c)
           \/ (OutEstablish(c) /\ upstream[c] # "refused")
  <2>1. yielded'[c] = yielded[c] /\ arriving'[c] = arriving[c]
    BY <1>7 DEF Client, ClientSend, ClientEnd, ClientReset, ClientReceive,
                Inbound, InNext, InNextEnds, InAck, InSend, OutNextEnds, OutSend,
                Finish, UpstreamAccept, UpstreamTake, UpstreamDropsRequests,
                OutEstablish
  <2>2. upstream'[c] = upstream[c] \/ upstream'[c] = "streaming"
    <3>1. CASE UpstreamAccept(c)
      BY <3>1 DEF UpstreamAccept, PullTypeOK
    <3>2. CASE ~UpstreamAccept(c)
      BY <1>7, <3>2 DEF Client, ClientSend, ClientEnd, ClientReset, ClientReceive,
                Inbound, InNext, InNextEnds, InAck, InSend, OutNextEnds, OutSend,
                Finish, UpstreamTake, UpstreamDropsRequests, OutEstablish
    <3>3. QED
      BY <3>1, <3>2
  <2>3. Unpicked(c)' = Unpicked(c)
    <3>1. CASE UpstreamAccept(c)
      BY <3>1 DEF UpstreamAccept, Unpicked, PullTypeOK
    <3>2. CASE OutEstablish(c) /\ upstream[c] # "refused"
      BY <3>2 DEF OutEstablish, Unpicked
    <3>3. CASE OutNextEnds(c) \/ OutSend(c)
      BY <3>3, SMTT(60) DEF OutNextEnds, OutSend, Unpicked, PullTypeOK
    <3>4. CASE \/ Client(c) \/ Inbound(c) \/ Finish(c)
               \/ UpstreamTake(c) \/ UpstreamDropsRequests(c)
      BY <3>4 DEF Client, ClientSend, ClientEnd, ClientReset, ClientReceive,
                Inbound, InNext, InNextEnds, InAck, InSend,
                Finish, UpstreamTake, UpstreamDropsRequests, Unpicked
    <3>5. QED
      BY <1>7, <3>1, <3>2, <3>3, <3>4
  <2>4. Length(got'[c]) + Length(responses'[c]) + Length(item'[c])
           <= Length(got[c]) + Length(responses[c]) + Length(item[c])
    <3>1. CASE ClientReceive(c)
      <4>1. /\ responses[c] # <<>> /\ item'[c] = item[c]
            /\ got'[c] = Append(got[c], Head(responses[c]))
            /\ responses'[c] = Tail(responses[c])
        BY <3>1 DEF ClientReceive, PullTypeOK
      <4>2. /\ Length(got'[c]) = Length(got[c]) + 1
            /\ Length(responses'[c]) = Length(responses[c]) - 1
        BY <1>t, <4>1, HeadTail, AppendProperties DEF Length
      <4>3. Length(item'[c]) = Length(item[c])
        BY <4>1
      <4>4. QED
        BY <1>l, <4>2, <4>3
    <3>2. CASE ClientReset(c) \/ Finish(c)
      <4>1. /\ got'[c] = got[c]
            /\ item'[c] = item[c] \/ item'[c] = <<>>
            /\ responses'[c] = responses[c] \/ responses'[c] = <<>>
        BY <3>2, SMTT(60) DEF ClientReset, Finish, PullTypeOK
      <4>2. /\ Length(got'[c]) = Length(got[c])
            /\ Length(item'[c]) = Length(item[c]) \/ Length(item'[c]) = 0
            /\ Length(responses'[c]) = Length(responses[c]) \/ Length(responses'[c]) = 0
        BY <4>1, EmptySeq DEF Length
      <4>3. QED
        BY <1>l, <4>2
    <3>3. CASE OutSend(c)
      <4>1. /\ got'[c] = got[c] /\ item'[c] = <<>>
            /\ \/ responses'[c] = responses[c] \o item[c]
               \/ responses'[c] = responses[c]
        BY <3>3, SMTT(60) DEF OutSend, PullTypeOK
      <4>2. Length(responses[c] \o item[c]) = Length(responses[c]) + Length(item[c])
        BY <1>t, ConcatProperties DEF Length
      <4>3. /\ Length(got'[c]) = Length(got[c]) /\ Length(item'[c]) = 0
            /\ \/ Length(responses'[c]) = Length(responses[c]) + Length(item[c])
               \/ Length(responses'[c]) = Length(responses[c])
        BY <4>1, <4>2, EmptySeq DEF Length
      <4>4. QED
        BY <1>l, <4>3
    <3>4. CASE \/ ClientSend(c) \/ ClientEnd(c) \/ Inbound(c) \/ OutNextEnds(c)
               \/ UpstreamAccept(c) \/ UpstreamTake(c) \/ UpstreamDropsRequests(c)
               \/ (OutEstablish(c) /\ upstream[c] # "refused")
      <4>1. got'[c] = got[c] /\ item'[c] = item[c] /\ responses'[c] = responses[c]
        BY <3>4 DEF ClientSend, ClientEnd, Inbound, InNext, InNextEnds, InAck,
                InSend, OutNextEnds, UpstreamAccept, UpstreamTake,
                UpstreamDropsRequests, OutEstablish
      <4>2. /\ Length(got'[c]) = Length(got[c]) /\ Length(item'[c]) = Length(item[c])
            /\ Length(responses'[c]) = Length(responses[c])
        BY <4>1
      <4>3. QED
        BY <1>l, <4>2
    <3>5. QED
      BY <1>7, <3>1, <3>2, <3>3, <3>4 DEF Client
  <2>5. Reported(c, "Deliver")' = Reported(c, "Deliver")
    <3>1. CASE emitted'[c] = emitted[c]
      BY <1>r, <3>1
    <3>2. CASE emitted'[c] # emitted[c]
      <4>1. PICK s \in Subscriptions \cup {NoSubscription}, k \in Nat :
              emitted'[c] \in
                {Append(emitted[c], Connection("ConsumerOpen", c, s)),
                 Append(emitted[c], Connection("ConsumerClose", c, s)),
                 Append(emitted[c], Movement("Ack", c, s, k))}
        <5>1. emitted \in [Streams -> Seq(Report)]
          BY DEF PullTypeOK
        <5>2. CASE InNext(c)
          <6>1. Head(inbound[c]).subscription \in Subscriptions \cup {NoSubscription}
            <7>1. Head(inbound[c]) \in Frame
              BY <5>2, HeadTail DEF InNext, PullTypeOK
            <7>2. QED
              BY <7>1 DEF Frame
          <6>2. emitted'[c] = Append(emitted[c],
                  Connection("ConsumerOpen", c, Head(inbound[c]).subscription))
            BY <3>2, <5>1, <5>2 DEF InNext, Emit
          <6>3. 0 \in Nat
            OBVIOUS
          <6>4. QED
            BY <6>1, <6>2, <6>3, Zenon
        <5>3. CASE InAck(c)
          <6>1. Head(hand[c]).acks \in Nat
            <7>1. Head(hand[c]) \in Frame
              BY <5>3, HeadTail DEF InAck, PumpsHold, PullTypeOK
            <7>2. QED
              BY <7>1 DEF Frame
          <6>2. emitted'[c] = Append(emitted[c],
                  Movement("Ack", c, latched[c], Head(hand[c]).acks))
            BY <3>2, <5>1, <5>3 DEF InAck, Emit
          <6>3. QED
            BY <1>t, <6>1, <6>2, Zenon
        <5>4. CASE Finish(c)
          <6>1. emitted'[c] = Append(emitted[c],
                  Connection("ConsumerClose", c, latched[c]))
            BY <3>2, <5>1, <5>4 DEF Finish, Emit
          <6>2. 0 \in Nat
            OBVIOUS
          <6>3. QED
            BY <1>t, <6>1, <6>2, Zenon
        <5>5. CASE ~InNext(c) /\ ~InAck(c) /\ ~Finish(c)
          <6>1. emitted' = emitted
            BY <1>7, <5>5 DEF Client, ClientSend, ClientEnd, ClientReset,
               ClientReceive, Inbound, InNextEnds, InSend, OutNextEnds, OutSend,
               UpstreamAccept, UpstreamTake, UpstreamDropsRequests, OutEstablish
          <6>2. QED
            BY <3>2, <6>1, SMTT(60)
        <5>6. QED
          BY <5>2, <5>3, <5>4, <5>5
      <4>2. PICK report \in Report :
              report.kind # "Deliver" /\ emitted'[c] = Append(emitted[c], report)
        <5>1. /\ Connection("ConsumerOpen", c, s) \in Report
              /\ Connection("ConsumerClose", c, s) \in Report
              /\ Movement("Ack", c, s, k) \in Report
          BY ReportTypes
        <5>2. /\ Connection("ConsumerOpen", c, s).kind # "Deliver"
              /\ Connection("ConsumerClose", c, s).kind # "Deliver"
              /\ Movement("Ack", c, s, k).kind # "Deliver"
          BY DEF Connection, Movement
        <5>3. QED
          BY <4>1, <5>1, <5>2, Zenon
      <4>3. QED
        BY <1>t, <4>2, ReportedElse
    <3>3. QED
      BY <3>1, <3>2
  <2>6. DeliveriesTold(c, n)'
    BY <2>1, <2>2, <2>3, <2>4, <2>5, DeliveriesSame
  <2>7. QED
    BY <2>1, <2>6, SMTT(60)
<1>8. QED
  BY <1>1, <1>3, <1>4, <1>5, <1>6, <1>7 DEF Client, Server, Proxy, Outbound

-----------------------------------------------------------------------------
(* A step of one stream reports nothing for another.                       *)
LEMMA OtherReports ==
    ASSUME PullTypeOK, NEW c \in Streams, NEW d \in Streams, d # c,
           Client(c) \/ Server(c) \/ Proxy(c)
    PROVE  emitted'[d] = emitted[d]
<1>1. emitted' = emitted \/ \E report : Emit(c, report)
  BY Zenon DEF Client, ClientSend, ClientEnd, ClientReset, ClientReceive, Server,
     UpstreamAccept, UpstreamRefuse, UpstreamTake, UpstreamYield, UpstreamEnd,
     UpstreamDropsRequests, Proxy, Inbound, InNext, InNextEnds, InAck, InSend,
     Outbound, OutEstablish, OutNext, OutNextEnds, OutSend, Finish
<1>2. emitted \in [Streams -> Seq(Report)]
  BY DEF PullTypeOK
<1>3. QED
  BY <1>1, <1>2 DEF Emit

(* Nothing has been told of nothing.                                       *)
LEMMA TapInitially == PullInit => TapInv
<1> SUFFICES ASSUME PullInit, NEW c \in Streams
             PROVE  /\ \E n \in 0..Length(sent[c]) : AcksTold(c, n)
                    /\ \E n \in 0..Length(yielded[c]) : DeliveriesTold(c, n)
  BY DEF TapInv
<1>1. /\ client[c] = "open" /\ sent[c] = <<>> /\ inbound[c] = <<>>
      /\ inPc[c] = "next" /\ hand[c] = <<>> /\ requests[c] = <<>>
      /\ received[c] = <<>> /\ upstream[c] = "waiting" /\ yielded[c] = <<>>
      /\ arriving[c] = <<>> /\ item[c] = <<>> /\ responses[c] = <<>>
      /\ got[c] = <<>> /\ emitted[c] = <<>>
  BY DEF PullInit
<1>2. Length(<<>>) = 0 /\ 1..0 = {} /\ DOMAIN <<>> = {}
  BY EmptySeq DEF Length
<1>3. InHand(c) = 0 /\ Unpicked(c) = 0
  BY <1>1 DEF InHand, Unpicked
<1>4. ASSUME NEW f, NEW g, DOMAIN f = {}, DOMAIN g = {}
      PROVE  SameAmounts(f, g)
  BY <1>4, FS_EmptySet DEF SameAmounts, Follows
<1>5. SameAmounts(Reported(c, "Ack"), AckedIn(c, 0))
  <2>1. DOMAIN Reported(c, "Ack") = {} /\ DOMAIN AckedIn(c, 0) = {}
    BY <1>1, <1>2 DEF Reported, AckedIn
  <2>2. QED
    BY <1>4, <2>1
<1>6. SameAmounts(Reported(c, "Deliver"), DeliveredIn(c, 0))
  <2>1. DOMAIN Reported(c, "Deliver") = {} /\ DOMAIN DeliveredIn(c, 0) = {}
    BY <1>1, <1>2 DEF Reported, DeliveredIn
  <2>2. QED
    BY <1>4, <2>1
<1>7. AcksTold(c, 0)
  BY <1>1, <1>2, <1>3, <1>5 DEF AcksTold
<1>8. DeliveriesTold(c, 0)
  BY <1>1, <1>2, <1>3, <1>6 DEF DeliveriesTold
<1>9. QED
  BY <1>1, <1>2, <1>7, <1>8

(* Every step keeps the invariant of the taps.                             *)
LEMMA TapStep == RelayInv /\ TapInv /\ [PullNext]_pullVars => TapInv'
<1> SUFFICES ASSUME RelayInv, TapInv, [PullNext]_pullVars, NEW d \in Streams
             PROVE  /\ \E n \in 0..Length(sent'[d]) : AcksTold(d, n)'
                    /\ \E n \in 0..Length(yielded'[d]) : DeliveriesTold(d, n)'
  BY DEF TapInv
<1>1. PICK n \in 0..Length(sent[d]) : AcksTold(d, n)
  BY DEF TapInv
<1>2. PICK m \in 0..Length(yielded[d]) : DeliveriesTold(d, m)
  BY DEF TapInv
<1>3. PullTypeOK /\ PullTypeOK' /\ PumpsHold(d) /\ ResponsesInOrder(d)
  BY RelayStep DEF RelayInv
<1>4. ASSUME client'[d] = client[d], sent'[d] = sent[d],
             inbound'[d] = inbound[d], inPc'[d] = inPc[d],
             hand'[d] = hand[d], requests'[d] = requests[d],
             received'[d] = received[d], upstream'[d] = upstream[d],
             yielded'[d] = yielded[d], arriving'[d] = arriving[d],
             outPc'[d] = outPc[d], item'[d] = item[d],
             responses'[d] = responses[d], got'[d] = got[d],
             emitted'[d] = emitted[d]
      PROVE  /\ \E k \in 0..Length(sent'[d]) : AcksTold(d, k)'
             /\ \E k \in 0..Length(yielded'[d]) : DeliveriesTold(d, k)'
  <2>1. /\ Reported(d, "Ack")' = Reported(d, "Ack")
        /\ Reported(d, "Deliver")' = Reported(d, "Deliver")
    BY <1>4 DEF Reported
  <2>2. AckedIn(d, n)' = AckedIn(d, n) /\ DeliveredIn(d, m)' = DeliveredIn(d, m)
    BY <1>4 DEF AckedIn, DeliveredIn
  <2>3. InHand(d)' = InHand(d) /\ Unpicked(d)' = Unpicked(d)
    BY <1>4 DEF InHand, Unpicked
  <2>4. AcksTold(d, n)'
    BY <1>1, <1>4, <2>1, <2>2, <2>3 DEF AcksTold
  <2>5. DeliveriesTold(d, m)'
    BY <1>2, <1>4, <2>1, <2>2, <2>3 DEF DeliveriesTold
  <2>6. QED
    BY <1>4, <2>4, <2>5
<1>5. CASE UNCHANGED pullVars
  BY <1>4, <1>5 DEF pullVars
<1>6. CASE PullNext
  <2>1. PICK c \in Streams : Client(c) \/ Server(c) \/ Proxy(c)
    BY <1>6 DEF PullNext
  <2>2. CASE d = c
    BY <1>1, <1>2, <1>3, <2>1, <2>2, AcksStep, DeliveriesStep
  <2>3. CASE d # c
    BY <1>3, <1>4, <2>1, <2>3, OtherStreams, OtherReports
  <2>4. QED
    BY <2>2, <2>3
<1>7. QED
  BY <1>5, <1>6

(* It implies the property: what reached the other side has been told.     *)
LEMMA TapImplies == RelayInv /\ TapInv => TapIsExact
<1> SUFFICES ASSUME RelayInv, TapInv, NEW c \in Streams
             PROVE  /\ \E n \in Len(received[c])..Len(sent[c]) :
                          SameAmounts(Reported(c, "Ack"), AckedIn(c, n))
                    /\ \E n \in Len(got[c])..Len(yielded[c]) :
                          SameAmounts(Reported(c, "Deliver"), DeliveredIn(c, n))
  BY DEF TapIsExact
<1>1. /\ Length(received[c]) \in Nat /\ Length(requests[c]) \in Nat
      /\ Length(hand[c]) \in Nat /\ Length(sent[c]) \in Nat
      /\ Length(got[c]) \in Nat /\ Length(responses[c]) \in Nat
      /\ Length(item[c]) \in Nat /\ Length(yielded[c]) \in Nat
  BY LenProperties DEF RelayInv, PullTypeOK, Length
<1>2. PICK n \in 0..Length(sent[c]) : AcksTold(c, n)
  BY DEF TapInv
<1>3. PICK m \in 0..Length(yielded[c]) : DeliveriesTold(c, m)
  BY DEF TapInv
<1>4. n \in Length(received[c])..Length(sent[c])
  <2>1. Length(received[c]) + Length(requests[c]) + Length(hand[c]) <= n + InHand(c)
    BY <1>2 DEF AcksTold
  <2>2. CASE inPc[c] = "ack"
    <3>1. hand[c] # <<>> /\ hand[c] \in Seq(Frame)
      BY <2>2 DEF RelayInv, PullTypeOK, PumpsHold
    <3>2. Length(hand[c]) > 0
      BY <3>1, HeadTail DEF Length
    <3>3. QED
      BY <1>1, <2>1, <2>2, <3>2 DEF InHand
  <2>3. CASE inPc[c] # "ack"
    BY <1>1, <2>1, <2>3 DEF InHand
  <2>4. QED
    BY <2>2, <2>3
<1>5. m \in Length(got[c])..Length(yielded[c])
  <2>1. Length(got[c]) + Length(responses[c]) + Length(item[c]) <= m
    BY <1>3 DEF DeliveriesTold
  <2>2. QED
    BY <1>1, <2>1
<1>6. QED
  BY <1>2, <1>3, <1>4, <1>5 DEF AcksTold, DeliveriesTold, Length

(* The proxy's tap counts the acks of each frame and the messages of each  *)
(* response once and in order, and none that were not sent: what the sink  *)
(* is told of a stream is what the first so many frames and responses      *)
(* carried, among them all that reached the other side, for any number of  *)
(* streams, any frames and responses and every way in which the call ends  *)
(* (the pumps of streaming_pull, src/src/proxy/subscriber.rs).             *)
THEOREM TapsAreExact == PullSpec => []TapIsExact
<1>1. PullInit => RelayInv /\ TapInv
  BY RelayInitially, TapInitially
<1>2. (RelayInv /\ TapInv) /\ [PullNext]_pullVars => (RelayInv /\ TapInv)'
  BY RelayStep, TapStep
<1>3. QED
  BY <1>1, <1>2, TapImplies, PTL DEF PullSpec

-----------------------------------------------------------------------------
(***************************************************************************)
(* The script of run, step by step.                                        *)
(***************************************************************************)
Topics == {TOPICS[i] : i \in DOMAIN TOPICS}

Steps == [op : {"connect", "continue"}]
         \cup [op : {"create"}, of : Subscriptions \cup Topics]
         \cup [op : {"consume"}, of : Streams]

(* How many topics there are.                                              *)
LEMMA TopicsFact ==
    /\ Len(TOPICS) \in Nat /\ DOMAIN TOPICS = 1..Len(TOPICS)
    /\ \A i \in 1..Len(TOPICS) : TOPICS[i] \in Topics
    /\ \A t \in Topics : \E i \in 1..Len(TOPICS) : t = TOPICS[i]
    /\ \A c \in Streams : c \in Topics /\ SubPath[c] \in Subscriptions
<1>1. TOPICS \in Seq(Topics)
  BY LoadgenAssumption DEF Topics
<1>2. Len(TOPICS) \in Nat /\ DOMAIN TOPICS = 1..Len(TOPICS)
  BY <1>1, LenProperties
<1>3. Streams \subseteq Topics /\ SubPath \in [Streams -> Subscriptions]
  BY LoadgenAssumption DEF Topics
<1>4. QED
  BY <1>2, <1>3 DEF Topics

(* A function on the first numbers is a sequence.                          *)
LEMMA FunctionIsSeq ==
    ASSUME NEW S, NEW n \in Nat, NEW f \in [1..n -> S]
    PROVE  f \in Seq(S) /\ Len(f) = n
<1>1. f \in Seq(S)
  BY SeqDef
<1>2. DOMAIN f = 1..n /\ DOMAIN f = 1..Len(f) /\ Len(f) \in Nat
  BY <1>1, LenProperties
<1>3. QED
  BY <1>1, <1>2

(* The four parts of the script.                                           *)
LEMMA ScriptParts ==
    /\ \A n \in Nat : /\ Connecting(n) \in Seq(Steps) /\ Len(Connecting(n)) = n
                      /\ \A i \in 1..n : Connecting(n)[i] = [op |-> "connect"]
    /\ Topology \in Seq(Steps) /\ Len(Topology) = 2 * Len(TOPICS)
    /\ Consumers \in Seq(Steps) /\ Len(Consumers) = Len(TOPICS)
<1>1. ASSUME NEW n \in Nat
      PROVE  /\ Connecting(n) \in Seq(Steps) /\ Len(Connecting(n)) = n
             /\ \A i \in 1..n : Connecting(n)[i] = [op |-> "connect"]
  <2>1. [op |-> "connect"] \in Steps
    BY DEF Steps
  <2>2. Connecting(n) \in [1..n -> Steps]
    BY <2>1 DEF Connecting
  <2>3. QED
    BY <2>2, FunctionIsSeq DEF Connecting
<1>2. /\ PassOver \in Steps
      /\ \A x \in Subscriptions \cup Topics : Creating(x) \in Steps
      /\ \A c \in Streams : Consuming(c) \in Steps
  BY DEF Steps, PassOver, Creating, Consuming
<1>3. Topology \in Seq(Steps) /\ Len(Topology) = 2 * Len(TOPICS)
  <2>1. \A i \in 1..(2 * Len(TOPICS)) : (i + 1) \div 2 \in 1..Len(TOPICS)
    BY TopicsFact
  <2>2. \A i \in 1..(2 * Len(TOPICS)) : TOPICS[(i + 1) \div 2] \in Topics
    BY <2>1, TopicsFact
  <2>3. Topology \in [1..(2 * Len(TOPICS)) -> Steps]
    BY <1>2, <2>2, TopicsFact DEF Topology
  <2>4. 2 * Len(TOPICS) \in Nat
    BY TopicsFact
  <2>5. QED
    BY <2>3, <2>4, FunctionIsSeq
<1>4. Consumers \in Seq(Steps) /\ Len(Consumers) = Len(TOPICS)
  <2>1. Consumers \in [1..Len(TOPICS) -> Steps]
    BY <1>2, TopicsFact DEF Consumers
  <2>2. QED
    BY <2>1, TopicsFact, FunctionIsSeq
<1>5. QED
  BY <1>1, <1>3, <1>4

(* Where each step of the script comes from.                               *)
LEMMA ScriptAt ==
    \A L, n \in Nat : (L = Len(TOPICS) /\ n = PUBLISHERS) =>
        /\ Script \in Seq(Steps) /\ Len(Script) = 2 + 3 * L + n
        /\ \A q \in 1..(2 + 3 * L + n) :
             Script[q] = IF q <= 2 THEN [op |-> "connect"]
                         ELSE IF q <= 2 + 2 * L THEN Topology[q - 2]
                         ELSE IF q <= 2 + 3 * L THEN Consumers[q - (2 + 2 * L)]
                         ELSE [op |-> "connect"]
<1>0. SUFFICES ASSUME NEW L \in Nat, NEW n \in Nat, L = Len(TOPICS), n = PUBLISHERS
               PROVE  /\ Script \in Seq(Steps) /\ Len(Script) = 2 + 3 * L + n
                      /\ \A q \in 1..(2 + 3 * L + n) :
                           Script[q] = IF q <= 2 THEN [op |-> "connect"]
                                       ELSE IF q <= 2 + 2 * L THEN Topology[q - 2]
                                       ELSE IF q <= 2 + 3 * L
                                              THEN Consumers[q - (2 + 2 * L)]
                                       ELSE [op |-> "connect"]
  OBVIOUS
<1>1. PICK A \in Seq(Steps), D \in Seq(Steps) :
        /\ A = Connecting(2) /\ D = Connecting(PUBLISHERS)
        /\ Len(A) = 2 /\ Len(D) = n
        /\ \A i \in 1..2 : A[i] = [op |-> "connect"]
        /\ \A i \in 1..n : D[i] = [op |-> "connect"]
  <2>1. 2 \in Nat /\ PUBLISHERS \in Nat /\ PUBLISHERS = n
    BY <1>0
  <2>2. QED
    BY <2>1, ScriptParts
<1>2. PICK B \in Seq(Steps), C \in Seq(Steps) :
        B = Topology /\ C = Consumers /\ Len(B) = 2 * L /\ Len(C) = L
  BY <1>0, ScriptParts
<1>3. PICK E \in Seq(Steps) :
        /\ E = A \o B /\ Len(E) = 2 + 2 * L
        /\ \A i \in 1..(2 + 2 * L) : E[i] = IF i <= 2 THEN A[i] ELSE B[i - 2]
  <2>1. PICK u \in Nat, v \in Nat : u = 2 /\ v = 2 * L
    OBVIOUS
  <2>2. Len(A) = u /\ Len(B) = v
    BY <1>1, <1>2, <2>1
  <2>3. /\ A \o B \in Seq(Steps) /\ Len(A \o B) = u + v
        /\ \A i \in 1..(u + v) : (A \o B)[i] = IF i <= u THEN A[i] ELSE B[i - u]
    BY <2>2, ConcatProperties
  <2>4. QED
    BY <2>1, <2>3
<1>4. PICK m \in Nat : m = 2 + 2 * L
  OBVIOUS
<1>5. PICK G \in Seq(Steps) :
        /\ G = E \o C /\ Len(G) = m + L
        /\ \A i \in 1..(m + L) : G[i] = IF i <= m THEN E[i] ELSE C[i - m]
  <2>1. Len(E) = m /\ Len(C) = L
    BY <1>2, <1>3, <1>4
  <2>2. /\ E \o C \in Seq(Steps) /\ Len(E \o C) = m + L
        /\ \A i \in 1..(m + L) : (E \o C)[i] = IF i <= m THEN E[i] ELSE C[i - m]
    BY <2>1, ConcatProperties, ZenonT(60)
  <2>3. QED
    BY <2>2
<1>6. PICK k \in Nat : k = m + L
  OBVIOUS
<1>7. /\ G \o D \in Seq(Steps) /\ Len(G \o D) = k + n
      /\ \A i \in 1..(k + n) : (G \o D)[i] = IF i <= k THEN G[i] ELSE D[i - k]
  <2>1. Len(G) = k /\ Len(D) = n
    BY <1>1, <1>5, <1>6
  <2>2. /\ G \o D \in Seq(Steps) /\ Len(G \o D) = k + n
        /\ \A i \in 1..(k + n) : (G \o D)[i] = IF i <= k THEN G[i] ELSE D[i - k]
    BY <2>1, ConcatProperties
  <2>3. QED
    BY <2>2
<1>8. Script = G \o D
  BY <1>1, <1>2, <1>3, <1>5 DEF Script
<1>9. ASSUME NEW q \in 1..(k + n)
      PROVE  (G \o D)[q] = IF q <= 2 THEN [op |-> "connect"]
                           ELSE IF q <= m THEN B[q - 2]
                           ELSE IF q <= k THEN C[q - m]
                           ELSE [op |-> "connect"]
  <2>1. CASE q <= 2
    <3>1. q \in 1..2 /\ q \in 1..(2 + 2 * L) /\ q \in 1..(m + L) /\ q <= m /\ q <= k
      BY <1>4, <1>6, <2>1
    <3>2. QED
      BY <1>1, <1>3, <1>5, <1>7, <2>1, <3>1, SMTT(60)
  <2>2. CASE ~(q <= 2) /\ q <= m
    <3>1. q \in 1..(2 + 2 * L) /\ q \in 1..(m + L) /\ q <= k
      BY <1>4, <1>6, <2>2
    <3>2. QED
      BY <1>3, <1>5, <1>7, <2>2, <3>1
  <2>3. CASE ~(q <= 2) /\ ~(q <= m) /\ q <= k
    <3>1. q \in 1..(m + L)
      BY <1>4, <1>6, <2>3
    <3>2. QED
      BY <1>5, <1>7, <2>3, <3>1
  <2>4. CASE ~(q <= 2) /\ ~(q <= m) /\ ~(q <= k)
    <3>1. q - k \in 1..n
      BY <1>4, <1>6, <2>4
    <3>2. QED
      BY <1>1, <1>7, <2>4, <3>1
  <2>5. QED
    BY <2>1, <2>2, <2>3, <2>4, Zenon
<1>10. k + n = 2 + 3 * L + n /\ k = 2 + 3 * L
  BY <1>4, <1>6
<1>11. QED
  BY <1>2, <1>4, <1>7, <1>8, <1>9, <1>10

(* A topic is created for each topic; before its subscription, if it has   *)
(* one; and that before its consumer.                                      *)
LEMMA ScriptOrder ==
    /\ \A t \in Topics : \E p \in 1..Len(Script) : Script[p] = Creating(t)
    /\ \A c \in Streams, q \in 1..Len(Script) :
         Script[q] = Creating(SubPath[c]) =>
            \E p \in 1..(q - 1) : Script[p] = Creating(c)
    /\ \A c \in Streams, q \in 1..Len(Script) :
         Script[q] = Consuming(c) =>
            \E p \in 1..(q - 1) : Script[p] = Creating(SubPath[c])
<1>1. PICK L \in Nat : L = Len(TOPICS)
  BY TopicsFact
<1>2. PICK n \in Nat : n = PUBLISHERS
  BY LoadgenAssumption
<1>3. /\ Len(Script) = 2 + 3 * L + n
      /\ \A q \in 1..(2 + 3 * L + n) :
           Script[q] = IF q <= 2 THEN [op |-> "connect"]
                       ELSE IF q <= 2 + 2 * L THEN Topology[q - 2]
                       ELSE IF q <= 2 + 3 * L THEN Consumers[q - (2 + 2 * L)]
                       ELSE [op |-> "connect"]
  BY <1>1, <1>2, ScriptAt
<1>4. \A i \in 1..L : /\ Topology[2 * i - 1] = Creating(TOPICS[i])
                      /\ TOPICS[i] \in Streams =>
                           Topology[2 * i] = Creating(SubPath[TOPICS[i]])
  <2>1. ASSUME NEW i \in 1..L
        PROVE  /\ 2 * i - 1 \in 1..(2 * L) /\ 2 * i \in 1..(2 * L)
               /\ (2 * i - 1 + 1) \div 2 = i /\ (2 * i + 1) \div 2 = i
               /\ (2 * i - 1) % 2 = 1 /\ (2 * i) % 2 # 1
    OBVIOUS
  <2>2. QED
    BY <1>1, <2>1 DEF Topology
<1>5. \A i \in 1..L : /\ Script[2 * i + 1] = Creating(TOPICS[i])
                      /\ TOPICS[i] \in Streams =>
                           Script[2 * i + 2] = Creating(SubPath[TOPICS[i]])
  <2>1. ASSUME NEW i \in 1..L
        PROVE  /\ 2 * i + 1 \in 1..(2 + 3 * L + n) /\ 2 * i + 2 \in 1..(2 + 3 * L + n)
               /\ ~(2 * i + 1 <= 2) /\ ~(2 * i + 2 <= 2)
               /\ 2 * i + 1 <= 2 + 2 * L /\ 2 * i + 2 <= 2 + 2 * L
               /\ (2 * i + 1) - 2 = 2 * i - 1 /\ (2 * i + 2) - 2 = 2 * i
    OBVIOUS
  <2>2. QED
    BY <1>3, <1>4, <2>1
<1>6. ASSUME NEW t \in Topics
      PROVE  \E p \in 1..Len(Script) : Script[p] = Creating(t)
  <2>1. PICK i \in 1..L : t = TOPICS[i]
    BY <1>1, TopicsFact
  <2>2. 2 * i + 1 \in 1..Len(Script)
    BY <1>3
  <2>3. QED
    BY <1>5, <2>1, <2>2
<1>7. ASSUME NEW c \in Streams, NEW q \in 1..Len(Script),
             Script[q] = Creating(SubPath[c])
      PROVE  \E p \in 1..(q - 1) : Script[p] = Creating(c)
  <2>1. q \in 1..(2 + 3 * L + n) /\ q \in Nat
    BY <1>3
  <2>2. Script[q].op = "create" /\ Script[q].of = SubPath[c]
    BY <1>7 DEF Creating
  <2>3. ~(q <= 2) /\ q <= 2 + 2 * L
    <3>1. [op |-> "connect"].op # "create"
      OBVIOUS
    <3>2. \A i \in 1..L : Consumers[i].op # "create"
      BY <1>1 DEF Consumers, Consuming, PassOver
    <3>3. q > 2 + 2 * L /\ q <= 2 + 3 * L => q - (2 + 2 * L) \in 1..L
      BY <2>1
    <3>4. q <= 2 \/ q > 2 + 3 * L => Script[q] = [op |-> "connect"]
      BY <1>3, <2>1
    <3>5. q > 2 + 2 * L /\ q <= 2 + 3 * L => Script[q] = Consumers[q - (2 + 2 * L)]
      BY <1>3, <2>1
    <3>6. QED
      BY <2>1, <2>2, <3>1, <3>2, <3>3, <3>4, <3>5
  <2>4. Script[q] = Topology[q - 2] /\ q - 2 \in 1..(2 * L)
    BY <1>3, <2>1, <2>3
  <2>5. PICK i \in 1..L : i = ((q - 2) + 1) \div 2
    BY <2>1, <2>3
  <2>6. SubPath[c] \notin Topics /\ TOPICS[i] \in Topics
    BY <1>1, TopicsFact, LoadgenAssumption DEF Topics
  <2>7. /\ (q - 2) % 2 # 1 /\ TOPICS[i] \in Streams
        /\ SubPath[TOPICS[i]] = SubPath[c]
    BY <1>1, <2>2, <2>4, <2>5, <2>6 DEF Topology, Creating, PassOver
  <2>8. TOPICS[i] = c
    BY <2>7, LoadgenAssumption
  <2>9. q = 2 * i + 2
    BY <2>1, <2>5, <2>7
  <2>10. Script[2 * i + 1] = Creating(c) /\ 2 * i + 1 \in 1..(q - 1)
    BY <1>5, <2>8, <2>9
  <2>11. QED
    BY <2>10
<1>8. ASSUME NEW c \in Streams, NEW q \in 1..Len(Script), Script[q] = Consuming(c)
      PROVE  \E p \in 1..(q - 1) : Script[p] = Creating(SubPath[c])
  <2>1. q \in 1..(2 + 3 * L + n) /\ q \in Nat
    BY <1>3
  <2>2. Script[q].op = "consume" /\ Script[q].of = c
    BY <1>8 DEF Consuming
  <2>3. q > 2 + 2 * L
    <3>1. [op |-> "connect"].op # "consume"
      OBVIOUS
    <3>2. \A i \in 1..(2 * L) : Topology[i].op # "consume"
      BY <1>1 DEF Topology, Creating, PassOver
    <3>3. q > 2 /\ q <= 2 + 2 * L => q - 2 \in 1..(2 * L)
      BY <2>1
    <3>4. q <= 2 => Script[q] = [op |-> "connect"]
      BY <1>3, <2>1
    <3>5. q > 2 /\ q <= 2 + 2 * L => Script[q] = Topology[q - 2]
      BY <1>3, <2>1
    <3>6. QED
      BY <2>1, <2>2, <3>1, <3>2, <3>3, <3>4, <3>5, SMTT(60)
  <2>4. PICK i \in 1..L : c = TOPICS[i]
    BY <1>1, TopicsFact
  <2>5. Script[2 * i + 2] = Creating(SubPath[c])
    BY <1>5, <2>4
  <2>6. 2 * i + 2 \in 1..(q - 1)
    BY <2>1, <2>3
  <2>7. QED
    BY <2>5, <2>6
<1>9. QED
  BY <1>6, <1>7, <1>8

-----------------------------------------------------------------------------
(* The set-up.                                                             *)

(***************************************************************************)
(* What the steps done so far have created exists, and a consumer has been *)
(* spawned by a step that was done.                                        *)
(***************************************************************************)
SetupInv ==
    /\ generator \in {"running", "stopped", "failed"}
    /\ position \in 0..Len(Script) /\ attempt \in 1..ATTEMPTS
    /\ \A q \in 1..position :
         Script[q].op = "create" => Script[q].of \in entities
    /\ \A c \in Streams : consumer[c] # "unspawned" =>
         \E q \in 1..position : Script[q] = Consuming(c)
    /\ DOMAIN consumer = Streams

(* The step that is due is one of the script's.                            *)
LEMMA DueStep ==
    ASSUME SetupInv, NEW op, AtStep(op)
    PROVE  /\ position + 1 \in 1..Len(Script) /\ position \in Nat
           /\ Step = Script[position + 1] /\ Step.op = op
           /\ op = "consume" => Step.of \in Streams /\ Step = Consuming(Step.of)
           /\ op = "create" => /\ Step.of \in Subscriptions \cup Topics
                               /\ Step = Creating(Step.of)
<1>1. PICK l \in Nat : l = Len(Script)
  <2>1. PICK L \in Nat, n \in Nat : L = Len(TOPICS) /\ n = PUBLISHERS
    BY TopicsFact, LoadgenAssumption
  <2>2. Script \in Seq(Steps)
    BY <2>1, ScriptAt
  <2>3. QED
    BY <2>2, LenProperties
<1>2. position \in 0..l /\ position # l
  BY <1>1 DEF SetupInv, AtStep, Publishing
<1>3. position \in Nat /\ position + 1 \in 1..l
  BY <1>2
<1>4. Step \in Steps /\ Step.op = op
  <2>1. PICK L \in Nat, n \in Nat : L = Len(TOPICS) /\ n = PUBLISHERS
    BY TopicsFact, LoadgenAssumption
  <2>2. Script \in Seq(Steps)
    BY <2>1, ScriptAt
  <2>3. QED
    BY <1>1, <1>3, <2>2, ElementOfSeq, SMTT(60) DEF Step, AtStep
<1>5. op = "consume" => Step.of \in Streams /\ Step = Consuming(Step.of)
  BY <1>4 DEF Steps, Consuming
<1>6. op = "create" => /\ Step.of \in Subscriptions \cup Topics
                       /\ Step = Creating(Step.of)
  BY <1>4 DEF Steps, Creating
<1>7. QED
  BY <1>1, <1>3, <1>4, <1>5, <1>6 DEF Step

(* A subscription's topic is there when the subscription is due.           *)
LEMMA AlwaysCreatable ==
    ASSUME SetupInv, AtStep("create")
    PROVE  Creatable(Step.of)
<1>1. /\ position + 1 \in 1..Len(Script) /\ position \in Nat
      /\ Step = Script[position + 1] /\ Step = Creating(Step.of)
  BY DueStep
<1>2. ASSUME NEW t \in Streams, Step.of = SubPath[t] PROVE t \in entities
  <2>1. Script[position + 1] = Creating(SubPath[t])
    BY <1>1, <1>2
  <2>2. PICK p \in 1..((position + 1) - 1) : Script[p] = Creating(t)
    BY <1>1, <2>1, ScriptOrder
  <2>3. p \in 1..position /\ Script[p].op = "create" /\ Script[p].of = t
    BY <1>1, <2>2 DEF Creating
  <2>4. QED
    BY <2>3 DEF SetupInv
<1>3. QED
  BY <1>2 DEF Creatable

(* Nothing is done at the start.                                           *)
LEMMA SetupInitially == LoadInit => SetupInv
<1> SUFFICES ASSUME LoadInit PROVE SetupInv
  OBVIOUS
<1>1. PICK l \in Nat : l = Len(Script)
  <2>1. PICK L \in Nat, n \in Nat : L = Len(TOPICS) /\ n = PUBLISHERS
    BY TopicsFact, LoadgenAssumption
  <2>2. Script \in Seq(Steps)
    BY <2>1, ScriptAt
  <2>3. QED
    BY <2>2, LenProperties, SMTT(60)
<1>2. 0 \in 0..l /\ 1 \in 1..ATTEMPTS /\ 1..0 = {}
  BY LoadgenAssumption
<1>3. QED
  BY <1>1, <1>2 DEF LoadInit, SetupInv

(* A step done: the next one is due.                                       *)
LEMMA AdvanceKeeps ==
    ASSUME SetupInv, NEW op, AtStep(op), Advance,
           entities \subseteq entities', DOMAIN consumer' = Streams,
           op = "create" => Step.of \in entities',
           \A c \in Streams : consumer'[c] # "unspawned" =>
                consumer[c] # "unspawned" \/ Step = Consuming(c)
    PROVE  SetupInv'
<1>1. PICK p \in Nat : p = position
  BY DueStep
<1>2. /\ p + 1 \in 1..Len(Script) /\ Step = Script[p + 1] /\ Step.op = op
      /\ op = "consume" => Step = Consuming(Step.of)
  BY <1>1, DueStep
<1>3. position' = p + 1 /\ position' \in 0..Len(Script)
  <2>1. p + 1 \in 0..Len(Script)
    BY <1>2
  <2>2. QED
    BY <1>1, <2>1 DEF Advance
<1>4. ASSUME NEW q \in 1..(p + 1), Script[q].op = "create"
      PROVE  Script[q].of \in entities'
  <2>1. CASE q = p + 1
    BY <1>2, <1>4, <2>1
  <2>2. CASE q \in 1..p
    BY <1>1, <1>4, <2>2 DEF SetupInv
  <2>3. QED
    BY <2>1, <2>2
<1>5. ASSUME NEW c \in Streams, consumer'[c] # "unspawned"
      PROVE  \E q \in 1..(p + 1) : Script[q] = Consuming(c)
  <2>1. CASE consumer[c] # "unspawned"
    <3>1. PICK q \in 1..p : Script[q] = Consuming(c)
      BY <1>1, <2>1 DEF SetupInv
    <3>2. q \in 1..(p + 1)
      OBVIOUS
    <3>3. QED
      BY <3>1, <3>2
  <2>2. CASE Step = Consuming(c)
    <3>1. p + 1 \in 1..(p + 1)
      OBVIOUS
    <3>2. QED
      BY <1>2, <2>2, <3>1
  <2>3. QED
    BY <1>5, <2>1, <2>2
<1>6. generator' \in {"running", "stopped", "failed"} /\ attempt' \in 1..ATTEMPTS
  BY LoadgenAssumption DEF Advance, SetupInv
<1>7. QED
  BY <1>3, <1>4, <1>5, <1>6 DEF SetupInv

(* No step done.                                                           *)
LEMMA NoAdvanceKeeps ==
    ASSUME SetupInv, position' = position, attempt' \in 1..ATTEMPTS,
           generator' \in {"running", "stopped", "failed"},
           entities \subseteq entities', DOMAIN consumer' = Streams,
           \A c \in Streams : consumer'[c] # "unspawned" =>
                consumer[c] # "unspawned"
    PROVE  SetupInv'
BY DEF SetupInv

(* Being turned away costs an attempt, and after the last one the run.     *)
LEMMA RetryKeeps ==
    ASSUME SetupInv, AtStep("connect") \/ AtStep("consume") \/ AtStep("create"), Retry
    PROVE  /\ position' = position /\ attempt' \in 1..ATTEMPTS
           /\ generator' \in {"running", "stopped", "failed"}
           /\ generator' = "failed" => attempt = ATTEMPTS
<1>1. attempt \in 1..ATTEMPTS /\ ATTEMPTS \in Nat /\ generator = "running"
  BY LoadgenAssumption DEF SetupInv, AtStep
<1>2. position' = position
  BY DEF Retry
<1>3. CASE attempt < ATTEMPTS
  BY <1>1, <1>2, <1>3 DEF Retry
<1>4. CASE ~(attempt < ATTEMPTS)
  BY <1>1, <1>2, <1>4 DEF Retry
<1>5. QED
  BY <1>3, <1>4

(* Every step keeps the invariant of the set-up, and the generator fails   *)
(* only when it has been turned away so often.                             *)
LEMMA SetupStep ==
    SetupInv /\ [LoadNext]_loadVars
      => SetupInv' /\ (generator' # generator /\ generator' = "failed" => attempt = ATTEMPTS)
<1> SUFFICES ASSUME SetupInv, [LoadNext]_loadVars
             PROVE  /\ SetupInv'
                    /\ generator' # generator /\ generator' = "failed"
                          => attempt = ATTEMPTS
  OBVIOUS
<1> USE DEF setupVars, publishVars, consumerVars
<1>d. DOMAIN consumer = Streams
  BY DEF SetupInv
<1>a. position' = position /\ attempt' = attempt /\ generator' = generator =>
        /\ position' = position /\ attempt' \in 1..ATTEMPTS
        /\ generator' \in {"running", "stopped", "failed"}
  BY DEF SetupInv
<1>1. CASE UNCHANGED loadVars
  BY <1>1, <1>a, <1>d, NoAdvanceKeeps DEF loadVars
<1>2. ASSUME NEW x, OthersCreate(x) PROVE SetupInv' /\ generator' = generator
  BY <1>2, <1>a, <1>d, NoAdvanceKeeps DEF OthersCreate
<1>3. CASE Connect
  <2>1. AtStep("connect") /\ entities' = entities /\ consumer' = consumer
    BY <1>3 DEF Connect
  <2>2. CASE Advance
    <3>1. SetupInv'
      BY <1>d, <2>1, <2>2, AdvanceKeeps
    <3>2. QED
      BY <2>2, <3>1 DEF Advance
  <2>3. CASE Retry
    BY <1>d, <2>1, <2>3, RetryKeeps, NoAdvanceKeeps
  <2>4. QED
    BY <1>3, <2>2, <2>3 DEF Connect
<1>4. CASE Continue
  <2>1. AtStep("continue") /\ entities' = entities /\ consumer' = consumer /\ Advance
    BY <1>4 DEF Continue
  <2>2. SetupInv'
    BY <1>d, <2>1, AdvanceKeeps
  <2>3. QED
    BY <2>1, <2>2 DEF Advance
<1>5. CASE Spawn
  <2>1. AtStep("consume") /\ entities' = entities
    BY <1>5 DEF Spawn
  <2>2. CASE Advance /\ consumer' = [consumer EXCEPT ![Step.of] = "calling"]
    <3>1. Step.of \in Streams /\ Step = Consuming(Step.of)
      BY <2>1, DueStep
    <3>2. /\ DOMAIN consumer' = Streams
          /\ \A c \in Streams : consumer'[c] # "unspawned" =>
                consumer[c] # "unspawned" \/ Step = Consuming(c)
      BY <1>d, <2>2, <3>1
    <3>3. SetupInv'
      BY <2>1, <2>2, <3>2, AdvanceKeeps
    <3>4. QED
      BY <2>2, <3>3 DEF Advance
  <2>3. CASE Retry /\ consumer' = consumer
    BY <1>d, <2>1, <2>3, RetryKeeps, NoAdvanceKeeps
  <2>4. QED
    BY <1>5, <2>2, <2>3 DEF Spawn
<1>6. CASE Create
  <2>1. /\ AtStep("create") /\ consumer' = consumer /\ Creatable(Step.of)
    BY <1>6, AlwaysCreatable DEF Create
  <2>2. CASE Advance /\ entities' = entities \cup {Step.of}
    <3>1. SetupInv'
      BY <1>d, <2>1, <2>2, AdvanceKeeps
    <3>2. QED
      BY <2>2, <3>1 DEF Advance
  <2>3. CASE Retry /\ entities \subseteq entities'
    BY <1>d, <2>1, <2>3, RetryKeeps, NoAdvanceKeeps
  <2>4. QED
    BY <1>6, <2>1, <2>2, <2>3 DEF Create
<1>7. CASE Publish
  BY <1>7, <1>a, <1>d, NoAdvanceKeeps DEF Publish
<1>8. CASE DurationElapses
  BY <1>8, <1>d, NoAdvanceKeeps DEF DurationElapses, SetupInv
<1>9. ASSUME NEW c \in Streams, consumer[c] # "unspawned",
             Carry(c) \/ ConsumerStep(c) \/ Deliver(c) \/ Rest(c)
      PROVE  SetupInv' /\ generator' = generator
  <2>1. /\ position' = position /\ attempt' = attempt /\ entities' = entities
        /\ generator' = generator
    BY <1>9 DEF Carry, ConsumerStep, Deliver, Rest, Called, Consume, SendAck,
                EndOfResponses, Leave
  <2>2. /\ DOMAIN consumer' = Streams
        /\ \A d \in Streams : consumer'[d] # "unspawned" => consumer[d] # "unspawned"
    <3>1. consumer' = consumer
            \/ \E next : consumer' = [consumer EXCEPT ![c] = next]
      BY <1>9 DEF Carry, ConsumerStep, Deliver, Rest, Called, Consume, SendAck,
                  EndOfResponses, Leave
    <3>2. QED
      BY <1>d, <1>9, <3>1
  <2>3. QED
    BY <1>a, <2>1, <2>2, NoAdvanceKeeps
<1>10. QED
  BY <1>1, <1>2, <1>3, <1>4, <1>5, <1>6, <1>7, <1>8, <1>9 DEF LoadNext

(* Nothing is used before it has been created, however often an attempt is *)
(* repeated and whoever else creates the same entities: for any demo       *)
(* topics, in any order, any of them with a consumer, and any number of    *)
(* attempts and publishers (run and ensure_topology, src/src/loadgen.rs).  *)
THEOREM TopologyComesFirst == LoadSpec => []TopologyFirst
<1>1. SetupInv => TopologyFirst
  <2> SUFFICES ASSUME SetupInv PROVE TopologyFirst
    OBVIOUS
  <2>1. PICK p \in Nat : p = position /\ p \in 0..Len(Script)
    BY DEF SetupInv
  <2>2. ASSUME NEW c \in Streams, consumer[c] # "unspawned"
        PROVE  SubPath[c] \in entities
    <3>1. PICK q \in 1..p : Script[q] = Consuming(c)
      BY <2>1, <2>2 DEF SetupInv
    <3>2. q \in 1..Len(Script)
      BY <2>1
    <3>3. PICK r \in 1..(q - 1) : Script[r] = Creating(SubPath[c])
      BY <3>1, <3>2, ScriptOrder
    <3>4. r \in 1..p /\ Script[r].op = "create" /\ Script[r].of = SubPath[c]
      BY <3>3 DEF Creating
    <3>5. QED
      BY <2>1, <3>4 DEF SetupInv
  <2>3. ASSUME Publishing, NEW t \in Topics PROVE t \in entities
    <3>1. PICK r \in 1..Len(Script) : Script[r] = Creating(t)
      BY ScriptOrder
    <3>2. r \in 1..position /\ Script[r].op = "create" /\ Script[r].of = t
      BY <2>3, <3>1 DEF Creating, Publishing
    <3>3. QED
      BY <3>2 DEF SetupInv
  <2>4. QED
    BY <2>2, <2>3 DEF TopologyFirst, Topics
<1>2. QED
  BY <1>1, SetupInitially, SetupStep, PTL DEF LoadSpec

(* The generator can be run again, by itself or by others meanwhile: for   *)
(* any topology it gives up only after ATTEMPTS refusals in a row (connect *)
(* and with_retry, src/src/loadgen.rs).                                    *)
THEOREM CanBeRerun == LoadSpec => Rerunnable
<1>1. SetupInv /\ [LoadNext]_loadVars
        => [generator' = "failed" => attempt = ATTEMPTS]_generator
  BY SetupStep
<1>2. QED
  BY <1>1, SetupInitially, SetupStep, PTL DEF LoadSpec, Rerunnable

-----------------------------------------------------------------------------
(* The consumers.                                                          *)

(* The acks a consumer owes or has sent, in order.                         *)
Owed(c) == (sent[c] \o outbox[c]) \o ack[c]

(* Where among the responses there are messages to ack.                    *)
Amounts(g) == {j \in 1..Len(g) : g[j] \notin {Failure, 0}}

(* After the first frame, which acks nothing, each answers the response    *)
(* with messages that is as many places from the first.                    *)
Answers(F, g) ==
    \A q \in 1..Length(F) :
        IF q = 1 THEN F[q].acks = 0
        ELSE \E j \in Amounts(g) :
               Rank(Amounts(g), j) = q - 1 /\ F[q].acks = g[j]

(***************************************************************************)
(* A consumer has answered, or is about to answer, every response it got   *)
(* with messages while it goes on, and the first so many of them when it   *)
(* has stopped.                                                            *)
(***************************************************************************)
ConsumerHolds(c) ==
    /\ Answers(Owed(c), got[c])
    /\ Length(Owed(c)) <= 1 + Cardinality(Amounts(got[c]))
    /\ consumer[c] \in {"calling", "reading", "acking"} =>
         Length(Owed(c)) = 1 + Cardinality(Amounts(got[c]))
    /\ consumer[c] # "acking" => ack[c] = <<>>
    /\ consumer[c] = "unspawned" =>
         sent[c] = <<>> /\ got[c] = <<>> /\ outbox[c] = <<>>

ConsumeTypeOK ==
    /\ consumer \in [Streams -> {"unspawned", "calling", "reading", "acking",
                                 "leaving", "ended"}]
    /\ outbox \in [Streams -> Seq(Frame)]
    /\ ack \in [Streams -> Seq(Frame)]

ConsumeInv == ConsumeTypeOK /\ \A c \in Streams : ConsumerHolds(c)

(* A stream has one consumer.                                              *)
LEMMA ScriptOnce ==
    \A c \in Streams, p, q \in 1..Len(Script) :
        Script[p] = Consuming(c) /\ Script[q] = Consuming(c) => p = q
<1>1. PICK L \in Nat, n \in Nat : L = Len(TOPICS) /\ n = PUBLISHERS
  BY TopicsFact, LoadgenAssumption
<1>2. /\ Len(Script) = 2 + 3 * L + n
      /\ \A q \in 1..(2 + 3 * L + n) :
           Script[q] = IF q <= 2 THEN [op |-> "connect"]
                       ELSE IF q <= 2 + 2 * L THEN Topology[q - 2]
                       ELSE IF q <= 2 + 3 * L THEN Consumers[q - (2 + 2 * L)]
                       ELSE [op |-> "connect"]
  BY <1>1, ScriptAt
<1>3. ASSUME NEW c \in Streams, NEW q \in 1..(2 + 3 * L + n), Script[q] = Consuming(c)
      PROVE  \E i \in 1..L : q = 2 + 2 * L + i /\ TOPICS[i] = c
  <2>1. Script[q].op = "consume" /\ Script[q].of = c
    BY <1>3 DEF Consuming
  <2>2. ~(q <= 2) /\ ~(q <= 2 + 2 * L) /\ q <= 2 + 3 * L
    <3>1. [op |-> "connect"].op # "consume"
      OBVIOUS
    <3>2. \A i \in 1..(2 * L) : Topology[i].op # "consume"
      BY <1>1 DEF Topology, Creating, PassOver
    <3>3. ~(q <= 2) /\ q <= 2 + 2 * L => q - 2 \in 1..(2 * L)
      OBVIOUS
    <3>4. q <= 2 => Script[q] = [op |-> "connect"]
      BY <1>2
    <3>5. ~(q <= 2) /\ q <= 2 + 2 * L => Script[q] = Topology[q - 2]
      BY <1>2
    <3>6. ~(q <= 2) /\ ~(q <= 2 + 2 * L) /\ ~(q <= 2 + 3 * L)
            => Script[q] = [op |-> "connect"]
      BY <1>2
    <3>7. QED
      BY <2>1, <3>1, <3>2, <3>3, <3>4, <3>5, <3>6
  <2>3. Script[q] = Consumers[q - (2 + 2 * L)]
    BY <1>2, <2>2
  <2>4. PICK i \in 1..L : i = q - (2 + 2 * L)
    BY <2>2
  <2>5. Consumers[i].op = "consume" /\ Consumers[i].of = c
    BY <2>1, <2>3, <2>4
  <2>6. TOPICS[i] = c
    BY <1>1, <2>5 DEF Consumers, Consuming, PassOver
  <2>7. QED
    BY <2>4, <2>6
<1>4. ASSUME NEW c \in Streams, NEW p \in 1..(2 + 3 * L + n),
             NEW q \in 1..(2 + 3 * L + n),
             Script[p] = Consuming(c), Script[q] = Consuming(c)
      PROVE  p = q
  <2>1. PICK i \in 1..L : p = 2 + 2 * L + i /\ TOPICS[i] = c
    BY <1>3, <1>4
  <2>2. PICK j \in 1..L : q = 2 + 2 * L + j /\ TOPICS[j] = c
    BY <1>3, <1>4
  <2>3. i = j
    BY <1>1, <2>1, <2>2, TopicsFact, LoadgenAssumption
  <2>4. QED
    BY <2>1, <2>2, <2>3
<1>5. 1..Len(Script) = 1..(2 + 3 * L + n)
  BY <1>2
<1>6. QED
  BY <1>4, <1>5, ZenonT(60)

(* What one response more adds to the amounts to ack.                      *)
LEMMA AmountsNext ==
    ASSUME NEW g \in Seq(Item), NEW r \in Item
    PROVE  /\ Amounts(g) \in SUBSET (1..Length(g)) /\ Length(g) \in Nat
           /\ Cardinality(Amounts(g)) \in Nat
           /\ \A j \in Amounts(g) : Append(g, r)[j] = g[j]
           /\ r \in {Failure, 0} => Amounts(Append(g, r)) = Amounts(g)
           /\ r \notin {Failure, 0} =>
                /\ Amounts(Append(g, r)) = Amounts(g) \cup {Length(g) + 1}
                /\ Append(g, r)[Length(g) + 1] = r
<1> DEFINE h == Append(g, r)
<1>1. PICK l \in Nat : l = Len(g)
  BY LenProperties
<1>2. /\ Len(h) = l + 1 /\ \A j \in 1..l : h[j] = g[j]
      /\ h[l + 1] = r
  BY <1>1, AppendProperties
<1> HIDE DEF h
<1>3. Amounts(g) = {j \in 1..l : g[j] \notin {Failure, 0}}
  BY <1>1 DEF Amounts
<1>4. Amounts(h) = {j \in 1..(l + 1) : h[j] \notin {Failure, 0}}
  BY <1>2 DEF Amounts
<1>5. Amounts(g) \in SUBSET (1..l)
  BY <1>3
<1>6. Cardinality(Amounts(g)) \in Nat
  BY <1>1, <1>5, RankFacts
<1>7. \A j \in Amounts(g) : h[j] = g[j]
  BY <1>2, <1>5
<1>8. r \in {Failure, 0} => Amounts(h) = Amounts(g)
  BY <1>2, <1>3, <1>4
<1>9. r \notin {Failure, 0} => Amounts(h) = Amounts(g) \cup {l + 1}
  BY <1>2, <1>3, <1>4
<1>10. QED
  BY <1>1, <1>2, <1>5, <1>6, <1>7, <1>8, <1>9 DEF Length, h

(* A response without messages changes nothing about the answers.          *)
LEMMA AnswersQuiet ==
    ASSUME NEW F, NEW g \in Seq(Item), NEW r \in Item, r \in {Failure, 0},
           Answers(F, g)
    PROVE  /\ Answers(F, Append(g, r))
           /\ Amounts(Append(g, r)) = Amounts(g)
<1>1. /\ Amounts(Append(g, r)) = Amounts(g)
      /\ \A j \in Amounts(g) : Append(g, r)[j] = g[j]
  BY AmountsNext
<1>2. ASSUME NEW q \in 1..Length(F)
      PROVE  IF q = 1 THEN F[q].acks = 0
             ELSE \E j \in Amounts(Append(g, r)) :
                    /\ Rank(Amounts(Append(g, r)), j) = q - 1
                    /\ F[q].acks = Append(g, r)[j]
  <2>1. CASE q = 1
    BY <2>1 DEF Answers
  <2>2. CASE q # 1
    <3>1. PICK j \in Amounts(g) : Rank(Amounts(g), j) = q - 1 /\ F[q].acks = g[j]
      BY <2>2 DEF Answers
    <3>2. QED
      BY <1>1, <2>2, <3>1
  <2>3. QED
    BY <2>1, <2>2
<1>3. Answers(F, Append(g, r))
  BY <1>2, Zenon DEF Answers
<1>4. QED
  BY <1>1, <1>3

(* One with messages and its answer.                                       *)
LEMMA AnswersMore ==
    ASSUME NEW F \in Seq(Frame), NEW g \in Seq(Item), NEW r \in Item,
           NEW f \in Frame, r \notin {Failure, 0}, f.acks = r, Answers(F, g),
           Length(F) = 1 + Cardinality(Amounts(g))
    PROVE  /\ Answers(Append(F, f), Append(g, r))
           /\ Length(Append(F, f)) = 1 + Cardinality(Amounts(Append(g, r)))
<1> DEFINE G == Append(F, f)
           h == Append(g, r)
<1>0. PICK l \in Nat : l = Length(g)
  BY AmountsNext
<1>a. PICK A, B : A = Amounts(g) /\ B = Amounts(h)
  OBVIOUS
<1>b. Cardinality(A) \in Nat /\ A \in SUBSET (1..l)
  BY <1>0, <1>a, AmountsNext
<1>c. /\ B = A \cup {l + 1} /\ \A j \in A : h[j] = g[j]
      /\ h[l + 1] = r
  BY <1>0, <1>a, AmountsNext
<1>1. PICK k \in Nat :
        /\ k = Cardinality(A) /\ A = Amounts(g) /\ A \in SUBSET (1..l)
        /\ B = Amounts(h) /\ B = A \cup {l + 1}
        /\ \A j \in A : h[j] = g[j]
        /\ h[l + 1] = r
  BY <1>a, <1>b, <1>c
<1>2. /\ Cardinality(B) = k + 1 /\ Rank(B, l + 1) = k + 1
      /\ \A j \in A : Rank(B, j) = Rank(A, j)
  <2>1. l + 1 \in Nat /\ A \in SUBSET (1..l) /\ \A j \in A : j < l + 1
    BY <1>1
  <2>2. /\ Cardinality(A \cup {l + 1}) = Cardinality(A) + 1
        /\ Rank(A \cup {l + 1}, l + 1) = Cardinality(A) + 1
        /\ \A j \in A : Rank(A \cup {l + 1}, j) = Rank(A, j)
    BY <2>1, RankLast
  <2>3. QED
    BY <1>1, <2>2
<1>3. /\ Length(F) = k + 1 /\ Length(G) = k + 2
      /\ \A q \in 1..(k + 1) : G[q] = F[q]
      /\ G[k + 2] = f
  <2>1. Len(F) = k + 1
    BY <1>1 DEF Length
  <2>2. Len(G) = (k + 1) + 1 /\ G[(k + 1) + 1] = f /\ \A q \in 1..(k + 1) : G[q] = F[q]
    BY <2>1, AppendProperties
  <2>3. QED
    BY <2>1, <2>2 DEF Length
<1> HIDE DEF G, h
<1>4. ASSUME NEW q \in 1..(k + 2)
      PROVE  IF q = 1 THEN G[q].acks = 0
             ELSE \E j \in B : Rank(B, j) = q - 1 /\ G[q].acks = h[j]
  <2>1. CASE q = k + 2
    <3>1. l + 1 \in B /\ Rank(B, l + 1) = q - 1 /\ G[q].acks = h[l + 1] /\ q # 1
      BY <1>1, <1>2, <1>3, <2>1
    <3>2. QED
      BY <3>1
  <2>2. CASE q = 1
    <3>1. q \in 1..(k + 1)
      BY <2>2
    <3>2. F[1].acks = 0
      BY <1>3, <2>2, <3>1 DEF Answers
    <3>3. QED
      BY <1>3, <2>2, <3>1, <3>2
  <2>3. CASE q # 1 /\ q # k + 2
    <3>1. q \in 1..(k + 1)
      BY <2>3
    <3>2. PICK j \in A : Rank(A, j) = q - 1 /\ F[q].acks = g[j]
      BY <1>1, <1>3, <2>3, <3>1, SMTT(60) DEF Answers
    <3>3. j \in B /\ Rank(B, j) = q - 1 /\ G[q].acks = h[j]
      BY <1>1, <1>2, <1>3, <3>1, <3>2
    <3>4. QED
      BY <2>3, <3>3
  <2>4. QED
    BY <2>1, <2>2, <2>3
<1>5. Answers(G, h)
  <2>1. 1..Length(G) = 1..(k + 2) /\ Amounts(h) = B
    BY <1>1, <1>3
  <2>2. QED
    BY <1>4, <2>1, Zenon DEF Answers
<1>6. Length(G) = 1 + Cardinality(Amounts(h))
  BY <1>1, <1>2, <1>3
<1>7. QED
  BY <1>5, <1>6 DEF G, h

(* Answers that are dropped leave those before them.                       *)
LEMMA AnswersDrop ==
    ASSUME NEW F \in Seq(Frame), NEW E \in Seq(Frame), NEW g, Answers(F \o E, g)
    PROVE  Answers(F, g) /\ Length(F) <= Length(F \o E) /\ Length(F) \in Nat
<1>1. PICK l \in Nat, k \in Nat : l = Len(F) /\ k = Len(E)
  BY LenProperties
<1>2. Len(F \o E) = l + k /\ \A q \in 1..l : (F \o E)[q] = F[q]
  BY <1>1, ConcatProperties
<1>3. Length(F) = l /\ Length(F \o E) = l + k
  BY <1>1, <1>2 DEF Length
<1>4. ASSUME NEW q \in 1..l
      PROVE  IF q = 1 THEN F[q].acks = 0
             ELSE \E j \in Amounts(g) :
                    Rank(Amounts(g), j) = q - 1 /\ F[q].acks = g[j]
  <2>1. q \in 1..Length(F \o E) /\ (F \o E)[q] = F[q]
    BY <1>2, <1>3
  <2>2. QED
    BY <2>1, Zenon DEF Answers
<1>5. Answers(F, g)
  BY <1>3, <1>4, Zenon DEF Answers
<1>6. QED
  BY <1>3, <1>5

(* The parts of what is owed.                                              *)
LEMMA OwedParts ==
    ASSUME PullTypeOK, ConsumeTypeOK, NEW c \in Streams
    PROVE  /\ sent[c] \in Seq(Frame) /\ outbox[c] \in Seq(Frame)
           /\ ack[c] \in Seq(Frame) /\ got[c] \in Seq(Item)
           /\ sent[c] \o outbox[c] \in Seq(Frame)
           /\ Owed(c) = (sent[c] \o outbox[c]) \o ack[c]
           /\ consumer[c] \in {"unspawned", "calling", "reading", "acking",
                               "leaving", "ended"}
<1>1. /\ sent[c] \in Seq(Frame) /\ outbox[c] \in Seq(Frame)
      /\ ack[c] \in Seq(Frame) /\ got[c] \in Seq(Item)
  BY DEF PullTypeOK, ConsumeTypeOK
<1>2. sent[c] \o outbox[c] \in Seq(Frame)
  BY <1>1, ConcatProperties
<1>3. QED
  BY <1>1, <1>2 DEF Owed, ConsumeTypeOK

(* Nothing owed is added or dropped, and nothing got.                      *)
LEMMA ConsumerSame ==
    ASSUME NEW c \in Streams, ConsumerHolds(c), Owed(c)' = Owed(c),
           got'[c] = got[c], consumer'[c] # "unspawned",
           consumer'[c] # "acking" => ack'[c] = <<>>,
           consumer'[c] \in {"calling", "reading", "acking"} =>
                consumer[c] \in {"calling", "reading", "acking"}
    PROVE  ConsumerHolds(c)'
<1>1. Answers(Owed(c)', got'[c])
  BY DEF ConsumerHolds
<1>2. /\ Length(Owed(c)') <= 1 + Cardinality(Amounts(got'[c]))
      /\ consumer'[c] \in {"calling", "reading", "acking"} =>
            Length(Owed(c)') = 1 + Cardinality(Amounts(got'[c]))
  BY DEF ConsumerHolds
<1>3. QED
  BY <1>1, <1>2 DEF ConsumerHolds

(* A consumer that stops drops what it has not sent.                       *)
LEMMA ConsumerDrops ==
    ASSUME NEW c \in Streams, ConsumerHolds(c), NEW F \in Seq(Frame),
           NEW E \in Seq(Frame), Owed(c) = F \o E, Owed(c)' = F,
           NEW g \in Seq(Item), g = got[c], got'[c] = got[c],
           consumer'[c] \in {"leaving", "ended"}, ack'[c] = <<>>
    PROVE  ConsumerHolds(c)'
<1>1. Answers(F, g) /\ Length(F) <= Length(F \o E) /\ Length(F) \in Nat
  <2>1. Answers(F \o E, g)
    BY DEF ConsumerHolds
  <2>2. QED
    BY <2>1, AnswersDrop
<1>2. PICK k \in Nat, l \in Nat : k = 1 + Cardinality(Amounts(g)) /\ l = Length(F \o E)
  <2>1. Cardinality(Amounts(g)) \in Nat
    <3>1. 0 \in Item
      BY DEF Item
    <3>2. QED
      BY <3>1, AmountsNext
  <2>2. Length(F \o E) \in Nat
    BY ConcatProperties, LenProperties DEF Length
  <2>3. QED
    BY <2>1, <2>2
<1>3. l <= k
  BY <1>2 DEF ConsumerHolds
<1>4. Length(F) <= k
  BY <1>1, <1>2, <1>3
<1>5. Answers(Owed(c)', got'[c]) /\ Length(Owed(c)') <= 1 + Cardinality(Amounts(got'[c]))
  BY <1>1, <1>2, <1>4
<1>6. QED
  BY <1>5 DEF ConsumerHolds

(* A consumer's connection carries a frame.                                *)
LEMMA CarryHolds ==
    ASSUME PullTypeOK, ConsumeTypeOK, NEW c \in Streams, ConsumerHolds(c), Carry(c)
    PROVE  ConsumeTypeOK' /\ ConsumerHolds(c)'
<1>1. /\ sent[c] \in Seq(Frame) /\ outbox[c] \in Seq(Frame)
      /\ outbox[c] # <<>> /\ Owed(c) = (sent[c] \o outbox[c]) \o ack[c]
  BY OwedParts DEF Carry
<1>2. /\ outbox' = [outbox EXCEPT ![c] = Tail(@)] /\ ack' = ack
      /\ consumer' = consumer /\ got' = got
  BY DEF Carry, ClientSend, clientVars, consumerVars
<1>3. outbox'[c] = Tail(outbox[c]) /\ Tail(outbox[c]) \in Seq(Frame)
  BY <1>1, <1>2, HeadTail DEF ConsumeTypeOK
<1>4. sent'[c] = Append(sent[c], Head(outbox[c]))
  <2>1. PICK f \in Frame : sent' = [sent EXCEPT ![c] = Append(@, f)]
    <3>1. FirstFrames \subseteq Frame /\ LaterFrames \subseteq Frame
      BY StreamAssumption
    <3>2. QED
      BY <3>1 DEF Carry, ClientSend
  <2>2. sent'[c] = Append(sent[c], f)
    BY <2>1 DEF PullTypeOK
  <2>3. Last(sent'[c]) = f
    <3>1. Last(sent'[c]) = sent'[c][Len(sent'[c])]
      BY DEF Last
    <3>2. QED
      BY <1>1, <2>2, <3>1, AppendProperties
  <2>4. QED
    BY <2>2, <2>3 DEF Carry
<1>5. Append(sent[c], Head(outbox[c])) \o Tail(outbox[c]) = sent[c] \o outbox[c]
  BY <1>1, HeadMoves
<1>6. Owed(c)' = Owed(c)
  BY <1>1, <1>2, <1>3, <1>4, <1>5 DEF Owed
<1>7. ConsumeTypeOK'
  <2>1. outbox' \in [Streams -> Seq(Frame)]
    BY <1>2, <1>3 DEF ConsumeTypeOK
  <2>2. QED
    BY <1>2, <2>1 DEF ConsumeTypeOK
<1>8. ConsumerHolds(c)'
  <2>1. consumer[c] \in {"calling", "reading", "acking"}
    BY DEF Carry
  <2>2. QED
    BY <1>2, <1>6, <2>1, ConsumerSame DEF ConsumerHolds
<1>9. QED
  BY <1>7, <1>8

(* A response is consumed.                                                 *)
LEMMA ConsumeHolds ==
    ASSUME PullTypeOK, ConsumeTypeOK, NEW c \in Streams, ConsumerHolds(c), Consume(c)
    PROVE  ConsumeTypeOK' /\ ConsumerHolds(c)'
<1>1. /\ sent[c] \in Seq(Frame) /\ outbox[c] \in Seq(Frame)
      /\ got[c] \in Seq(Item) /\ sent[c] \o outbox[c] \in Seq(Frame)
      /\ Owed(c) = (sent[c] \o outbox[c]) \o ack[c]
  BY OwedParts
<1>2. /\ consumer[c] = "reading" /\ ack[c] = <<>> /\ responses[c] # <<>>
      /\ sent' = sent /\ outbox' = outbox
  BY DEF Consume, Running, ClientReceive, ConsumerHolds
<1>3. PICK F \in Seq(Frame), g \in Seq(Item), r \in Item :
        /\ F = sent[c] \o outbox[c] /\ g = got[c] /\ r = Head(responses[c])
        /\ got'[c] = Append(g, r) /\ Owed(c) = F
  <2>1. Head(responses[c]) \in Item
    <3>1. responses[c] \in Seq(Item)
      BY DEF PullTypeOK
    <3>2. QED
      BY <1>2, <3>1, HeadTail
  <2>2. got'[c] = Append(got[c], Head(responses[c]))
    BY DEF Consume, ClientReceive, PullTypeOK
  <2>3. (sent[c] \o outbox[c]) \o <<>> = sent[c] \o outbox[c]
    BY <1>1, ConcatEmptySeq
  <2>4. QED
    BY <1>1, <1>2, <2>1, <2>2, <2>3
<1>4. Answers(F, g) /\ Length(F) = 1 + Cardinality(Amounts(g))
  BY <1>2, <1>3 DEF ConsumerHolds
<1>5. CASE r \in {Failure, 0}
  <2>1. /\ ack' = ack /\ consumer' \in [Streams -> {"unspawned", "calling", "reading",
                                                "acking", "leaving", "ended"}]
        /\ consumer'[c] \in {"reading", "leaving"}
    <3>1. consumer' = consumer \/ consumer' = [consumer EXCEPT ![c] = "leaving"]
      BY <1>3, <1>5 DEF Consume
    <3>2. ack' = ack
      BY <1>3, <1>5 DEF Consume
    <3>3. QED
      BY <1>2, <3>1, <3>2 DEF ConsumeTypeOK
  <2>2. ConsumeTypeOK'
    BY <1>2, <2>1 DEF ConsumeTypeOK
  <2>3. Owed(c)' = F
    BY <1>2, <1>3, <2>1 DEF Owed
  <2>4. Answers(F, Append(g, r)) /\ Amounts(Append(g, r)) = Amounts(g)
    BY <1>4, <1>5, AnswersQuiet
  <2>5. /\ Answers(Owed(c)', got'[c])
        /\ Length(Owed(c)') = 1 + Cardinality(Amounts(got'[c]))
    BY <1>3, <1>4, <2>3, <2>4
  <2>6. Length(Owed(c)') <= 1 + Cardinality(Amounts(got'[c]))
    <3>1. PICK k \in Nat : k = Cardinality(Amounts(g))
      BY <1>3, AmountsNext
    <3>2. QED
      BY <1>3, <1>4, <2>3, <2>4, <3>1
  <2>7. ConsumerHolds(c)'
    BY <1>2, <2>1, <2>5, <2>6 DEF ConsumerHolds
  <2>8. QED
    BY <2>2, <2>7
<1>6. CASE r \notin {Failure, 0}
  <2>1. PICK f \in Frame : f.acks = r /\ ack'[c] = <<f>> /\ ack' = [ack EXCEPT ![c] = <<f>>]
    <3>1. ack' = [ack EXCEPT ![c] = <<[subscription |-> NoSubscription, acks |-> r]>>]
      BY <1>3, <1>6 DEF Consume
    <3>2. [subscription |-> NoSubscription, acks |-> r] \in Frame
      BY <1>6 DEF Frame, Item
    <3>3. QED
      BY <3>1, <3>2 DEF ConsumeTypeOK
  <2>2. consumer' = [consumer EXCEPT ![c] = "acking"]
    BY <1>3, <1>6 DEF Consume
  <2>3. consumer'[c] = "acking" /\ ConsumeTypeOK'
    <3>1. <<f>> \in Seq(Frame)
      OBVIOUS
    <3>2. ack' \in [Streams -> Seq(Frame)]
      BY <2>1, <3>1 DEF ConsumeTypeOK
    <3>3. QED
      BY <1>2, <2>2, <3>2 DEF ConsumeTypeOK
  <2>4. Owed(c)' = Append(F, f)
    <3>1. F \o <<f>> = Append(F, f)
      BY AppendIsConcat
    <3>2. QED
      BY <1>2, <1>3, <2>1, <3>1 DEF Owed
  <2>5. /\ Answers(Append(F, f), Append(g, r))
        /\ Length(Append(F, f)) = 1 + Cardinality(Amounts(Append(g, r)))
    BY <1>4, <1>6, <2>1, AnswersMore
  <2>6. PICK k \in Nat : k = Cardinality(Amounts(Append(g, r)))
    <3>1. Append(g, r) \in Seq(Item)
      BY AppendProperties
    <3>2. QED
      BY <3>1, AmountsNext
  <2>7. /\ Answers(Owed(c)', got'[c])
        /\ Length(Owed(c)') = 1 + k /\ k = Cardinality(Amounts(got'[c]))
        /\ Length(Owed(c)') <= 1 + k
    BY <1>3, <2>4, <2>5, <2>6
  <2>8. ConsumerHolds(c)'
    BY <2>3, <2>7 DEF ConsumerHolds
  <2>9. QED
    BY <2>3, <2>8
<1>7. QED
  BY <1>5, <1>6

(* An ack is sent, or found to have nobody to go to.                       *)
LEMMA SendAckHolds ==
    ASSUME PullTypeOK, ConsumeTypeOK, NEW c \in Streams, ConsumerHolds(c), SendAck(c)
    PROVE  ConsumeTypeOK' /\ ConsumerHolds(c)'
<1>1. PICK s \in Seq(Frame), o \in Seq(Frame), a \in Seq(Frame) :
        /\ s = sent[c] /\ o = outbox[c] /\ a = ack[c]
        /\ Owed(c) = (s \o o) \o a /\ s \o o \in Seq(Frame)
  BY OwedParts
<1>2. /\ consumer[c] = "acking" /\ sent' = sent /\ got' = got
      /\ ack' = [ack EXCEPT ![c] = <<>>]
  BY DEF SendAck, Running, pullVars
<1>3. ack'[c] = <<>> /\ ack' \in [Streams -> Seq(Frame)]
  BY <1>2, EmptySeq DEF ConsumeTypeOK
<1>4. (s \o o) \o <<>> = s \o o
  BY <1>1, ConcatEmptySeq
<1>5. CASE /\ outbox' = [outbox EXCEPT ![c] = @ \o ack[c]]
           /\ consumer' = [consumer EXCEPT ![c] = "reading"]
  <2>1. outbox'[c] = o \o a /\ o \o a \in Seq(Frame) /\ consumer'[c] = "reading"
    BY <1>1, <1>5, ConcatProperties DEF ConsumeTypeOK
  <2>2. ConsumeTypeOK'
    <3>1. outbox' \in [Streams -> Seq(Frame)]
      BY <1>1, <1>5, <2>1 DEF ConsumeTypeOK
    <3>2. QED
      BY <1>3, <1>5, <3>1 DEF ConsumeTypeOK
  <2>3. Owed(c)' = Owed(c)
    <3>a. s \o (o \o a) = (s \o o) \o a
      BY ConcatAssociative, SMTT(60)
    <3>b. (s \o o) \o a \in Seq(Frame)
      <4>1. s \o o \in Seq(Frame)
        BY <1>1
      <4>2. QED
        BY <4>1, ConcatProperties
    <3>1. s \o (o \o a) = (s \o o) \o a /\ (s \o o) \o a \in Seq(Frame)
      BY <3>a, <3>b
    <3>2. Owed(c)' = (s \o (o \o a)) \o <<>>
      BY <1>1, <1>2, <1>3, <2>1 DEF Owed
    <3>3. (s \o (o \o a)) \o <<>> = s \o (o \o a)
      BY <3>1, ConcatEmptySeq
    <3>4. QED
      BY <1>1, <3>1, <3>2, <3>3
  <2>4. ConsumerHolds(c)'
    BY <1>2, <1>3, <2>1, <2>3, ConsumerSame
  <2>5. QED
    BY <2>2, <2>4
<1>6. CASE consumer' = [consumer EXCEPT ![c] = "leaving"] /\ outbox' = outbox
  <2>1. consumer'[c] = "leaving" /\ ConsumeTypeOK'
    BY <1>3, <1>6 DEF ConsumeTypeOK
  <2>2. Owed(c)' = s \o o
    BY <1>1, <1>2, <1>3, <1>4, <1>6 DEF Owed
  <2>3. ConsumerHolds(c)'
    BY <1>1, <1>2, <1>3, <2>1, <2>2, OwedParts, ConsumerDrops
  <2>4. QED
    BY <2>1, <2>3
<1>7. QED
  BY <1>5, <1>6 DEF SendAck

(* A consumer is gone.                                                     *)
LEMMA LeaveHolds ==
    ASSUME PullTypeOK, ConsumeTypeOK, NEW c \in Streams, ConsumerHolds(c), Leave(c)
    PROVE  ConsumeTypeOK' /\ ConsumerHolds(c)'
<1>1. PICK s \in Seq(Frame), o \in Seq(Frame), a \in Seq(Frame) :
        /\ s = sent[c] /\ o = outbox[c] /\ a = ack[c]
        /\ Owed(c) = (s \o o) \o a
  BY OwedParts
<1>2. /\ sent' = sent /\ got' = got /\ ack' = [ack EXCEPT ![c] = <<>>]
      /\ outbox' = [outbox EXCEPT ![c] = <<>>]
      /\ consumer' = [consumer EXCEPT ![c] = "ended"]
  BY DEF Leave, ClientReset
<1>3. /\ ack'[c] = <<>> /\ ack' \in [Streams -> Seq(Frame)]
      /\ outbox'[c] = <<>> /\ outbox' \in [Streams -> Seq(Frame)]
  BY <1>2, EmptySeq DEF ConsumeTypeOK
<1>4. consumer'[c] = "ended" /\ ConsumeTypeOK'
  BY <1>2, <1>3 DEF ConsumeTypeOK
<1>5. Owed(c)' = s
  <2>1. s \o <<>> = s
    BY ConcatEmptySeq
  <2>2. QED
    BY <1>1, <1>2, <1>3, <2>1 DEF Owed
<1>6. Owed(c) = s \o (o \o a) /\ o \o a \in Seq(Frame)
  <2>1. s \o (o \o a) = (s \o o) \o a
    BY ConcatAssociative
  <2>2. o \o a \in Seq(Frame)
    BY ConcatProperties
  <2>3. QED
    BY <1>1, <2>1, <2>2
<1>7. ConsumerHolds(c)'
  BY <1>1, <1>2, <1>3, <1>4, <1>5, <1>6, OwedParts, ConsumerDrops
<1>8. QED
  BY <1>4, <1>7

(* What a consumer does, and its stream does around it.                    *)
LEMMA StreamHolds ==
    ASSUME PullTypeOK, ConsumeTypeOK, NEW c \in Streams, ConsumerHolds(c),
           consumer[c] # "unspawned",
           Carry(c) \/ ConsumerStep(c) \/ Deliver(c) \/ Rest(c)
    PROVE  ConsumeTypeOK' /\ ConsumerHolds(c)'
<1> USE DEF setupVars, publishVars, consumerVars
<1>1. ASSUME UNCHANGED <<ack, outbox>>, sent' = sent, got' = got,
             \/ consumer' = consumer
             \/ \E next \in {"reading", "leaving"} :
                  consumer' = [consumer EXCEPT ![c] = next],
             consumer'[c] = "reading" =>
                  consumer[c] \in {"calling", "reading", "acking"},
             consumer'[c] # "acking" => ack[c] = <<>>
      PROVE  ConsumeTypeOK' /\ ConsumerHolds(c)'
  <2>1. ConsumeTypeOK'
    BY <1>1 DEF ConsumeTypeOK
  <2>2. Owed(c)' = Owed(c)
    BY <1>1 DEF Owed
  <2>3. /\ consumer'[c] # "unspawned"
        /\ consumer'[c] \in {"calling", "reading", "acking"} =>
                consumer[c] \in {"calling", "reading", "acking"}
    BY <1>1 DEF ConsumeTypeOK
  <2>4. ConsumerHolds(c)'
    BY <1>1, <2>2, <2>3, ConsumerSame
  <2>5. QED
    BY <2>1, <2>4
<1>2. CASE Called(c)
  <2>1. PICK next \in {"reading", "leaving"} : consumer' = [consumer EXCEPT ![c] = next]
    BY <1>2 DEF Called
  <2>2. consumer[c] = "calling" /\ UNCHANGED <<pullVars, ack, outbox>>
    BY <1>2 DEF Called, Running
  <2>3. ack[c] = <<>>
    BY <2>2 DEF ConsumerHolds
  <2>4. QED
    BY <1>1, <2>1, <2>2, <2>3 DEF pullVars
<1>3. CASE EndOfResponses(c)
  <2>1. /\ consumer[c] = "reading" /\ UNCHANGED <<pullVars, ack, outbox>>
        /\ consumer' = [consumer EXCEPT ![c] = "leaving"]
    BY <1>3 DEF EndOfResponses, Running
  <2>2. ack[c] = <<>>
    BY <2>1 DEF ConsumerHolds
  <2>3. QED
    BY <1>1, <2>1, <2>2 DEF pullVars
<1>4. CASE Deliver(c) \/ Rest(c)
  <2>1. UNCHANGED consumerVars
    BY <1>4, SMTT(60) DEF Deliver, Rest
  <2>2. sent' = sent /\ got' = got
    BY <1>4 DEF Deliver, Rest, Proxy, Inbound, Outbound, UpstreamAccept,
                UpstreamRefuse, UpstreamTake, UpstreamYield, UpstreamEnd,
                UpstreamDropsRequests, InNext, InNextEnds, InAck, InSend,
                OutEstablish, OutNext, OutNextEnds, OutSend, Finish, clientVars
  <2>3. consumer'[c] # "acking" => ack[c] = <<>>
    BY <2>1 DEF ConsumerHolds
  <2>4. consumer'[c] = "reading" => consumer[c] \in {"calling", "reading", "acking"}
    BY <2>1
  <2>5. QED
    BY <1>1, <2>1, <2>2, <2>3, <2>4
<1>5. QED
  BY <1>2, <1>3, <1>4, CarryHolds, ConsumeHolds, SendAckHolds, LeaveHolds
     DEF ConsumerStep

(* A consumer is spawned, once for each stream.                            *)
LEMMA SpawnHolds ==
    ASSUME PullTypeOK, ConsumeInv, SetupInv, Spawn
    PROVE  ConsumeInv'
<1> USE DEF setupVars, publishVars, consumerVars
<1>1. /\ AtStep("consume") /\ sent' = sent /\ got' = got /\ ack' = ack
  BY DEF Spawn, pullVars
<1>2. ASSUME NEW d \in Streams, consumer'[d] = consumer[d], outbox'[d] = outbox[d]
      PROVE  ConsumerHolds(d)'
  <2>1. ConsumerHolds(d)
    BY DEF ConsumeInv
  <2>2. Owed(d)' = Owed(d)
    BY <1>1, <1>2 DEF Owed
  <2>3. /\ Answers(Owed(d)', got'[d])
        /\ Length(Owed(d)') <= 1 + Cardinality(Amounts(got'[d]))
        /\ consumer'[d] \in {"calling", "reading", "acking"} =>
              Length(Owed(d)') = 1 + Cardinality(Amounts(got'[d]))
    BY <1>1, <1>2, <2>1, <2>2 DEF ConsumerHolds
  <2>4. QED
    BY <1>1, <1>2, <2>1, <2>3 DEF ConsumerHolds
<1>3. CASE consumer' = consumer /\ outbox' = outbox
  BY <1>1, <1>2, <1>3 DEF ConsumeInv, ConsumeTypeOK
<1>4. CASE /\ consumer' = [consumer EXCEPT ![Step.of] = "calling"]
           /\ outbox' = [outbox EXCEPT ![Step.of] =
                <<[subscription |-> SubPath[Step.of], acks |-> 0]>>]
  <2>1. PICK c \in Streams : c = Step.of /\ Script[position + 1] = Consuming(c)
    BY <1>1, DueStep
  <2>2. consumer[c] = "unspawned"
    <3>1. SUFFICES ASSUME consumer[c] # "unspawned" PROVE FALSE
      OBVIOUS
    <3>2. PICK p \in Nat : p = position /\ p + 1 \in 1..Len(Script)
      BY <1>1, DueStep
    <3>3. PICK q \in 1..p : Script[q] = Consuming(c)
      BY <3>1, <3>2 DEF SetupInv
    <3>4. q \in 1..Len(Script) /\ q # p + 1
      <4>1. PICK l \in Nat : l = Len(Script)
        <5>1. PICK L \in Nat, n \in Nat : L = Len(TOPICS) /\ n = PUBLISHERS
          BY TopicsFact, LoadgenAssumption
        <5>2. Script \in Seq(Steps)
          BY <5>1, ScriptAt
        <5>3. QED
          BY <5>2, LenProperties, SMTT(60)
      <4>2. q \in 1..l
        BY <3>2, <4>1
      <4>3. QED
        BY <4>1, <4>2
    <3>5. QED
      BY <2>1, <3>2, <3>3, <3>4, ScriptOnce
  <2>3. PICK f \in Frame : f = [subscription |-> SubPath[c], acks |-> 0]
    <3>1. [subscription |-> SubPath[c], acks |-> 0] \in FirstFrames
      BY LoadgenAssumption
    <3>2. QED
      BY <3>1, StreamAssumption
  <2>4. /\ sent[c] = <<>> /\ got[c] = <<>> /\ outbox[c] = <<>> /\ ack[c] = <<>>
    BY <2>2 DEF ConsumeInv, ConsumerHolds
  <2>5. outbox' = [outbox EXCEPT ![c] = <<f>>] /\ consumer' = [consumer EXCEPT ![c] = "calling"]
    BY <1>4, <2>1, <2>3
  <2>6. ConsumeTypeOK' /\ outbox'[c] = <<f>> /\ consumer'[c] = "calling"
    <3>1. <<f>> \in Seq(Frame)
      OBVIOUS
    <3>2. outbox' \in [Streams -> Seq(Frame)] /\ outbox'[c] = <<f>>
      BY <2>5, <3>1 DEF ConsumeInv, ConsumeTypeOK
    <3>3. QED
      BY <1>1, <2>5, <3>2 DEF ConsumeInv, ConsumeTypeOK
  <2>7. Owed(c)' = <<f>>
    <3>1. (<<>> \o <<f>>) \o <<>> = <<f>>
      <4>1. <<f>> \in Seq(Frame)
        OBVIOUS
      <4>2. <<>> \o <<f>> = <<f>> /\ <<f>> \o <<>> = <<f>>
        BY <4>1, ConcatEmptySeq
      <4>3. QED
        BY <4>2
    <3>2. QED
      BY <1>1, <2>4, <2>6, <3>1 DEF Owed
  <2>8. Length(<<f>>) = 1 /\ Cardinality(Amounts(<<>>)) = 0
    <3>1. Len(<<>>) = 0 /\ 1..0 = {}
      BY EmptySeq
    <3>2. Amounts(<<>>) = {}
      BY <3>1 DEF Amounts
    <3>3. QED
      BY <3>2, FS_EmptySet DEF Length
  <2>9. Answers(<<f>>, <<>>)
    BY <2>3, <2>8 DEF Answers
  <2>10. ConsumerHolds(c)'
    BY <1>1, <2>4, <2>6, <2>7, <2>8, <2>9 DEF ConsumerHolds
  <2>11. ASSUME NEW d \in Streams, d # c PROVE ConsumerHolds(d)'
    <3>1. consumer'[d] = consumer[d] /\ outbox'[d] = outbox[d]
      BY <2>5, <2>11 DEF ConsumeInv, ConsumeTypeOK
    <3>2. QED
      BY <1>2, <3>1
  <2>12. QED
    BY <2>6, <2>10, <2>11 DEF ConsumeInv
<1>5. QED
  BY <1>3, <1>4 DEF Spawn

(* No consumer is there at the start.                                      *)
LEMMA ConsumeInitially == LoadInit => ConsumeInv
<1> SUFFICES ASSUME LoadInit PROVE ConsumeInv
  OBVIOUS
<1>1. ConsumeTypeOK
  BY EmptySeq DEF LoadInit, ConsumeTypeOK
<1>2. ASSUME NEW c \in Streams PROVE ConsumerHolds(c)
  <2>1. /\ sent[c] = <<>> /\ got[c] = <<>> /\ outbox[c] = <<>> /\ ack[c] = <<>>
        /\ consumer[c] = "unspawned"
    BY DEF LoadInit, PullInit
  <2>2. Owed(c) = <<>>
    <3>1. <<>> \o <<>> = <<>>
      BY EmptySeq, ConcatEmptySeq
    <3>2. QED
      BY <2>1, <3>1 DEF Owed
  <2>3. Length(<<>>) = 0 /\ 1..0 = {} /\ Cardinality(Amounts(<<>>)) = 0
    <3>1. Len(<<>>) = 0 /\ 1..0 = {}
      BY EmptySeq
    <3>2. Amounts(<<>>) = {}
      BY <3>1 DEF Amounts
    <3>3. QED
      BY <3>1, <3>2, FS_EmptySet DEF Length
  <2>4. QED
    BY <2>1, <2>2, <2>3 DEF ConsumerHolds, Answers
<1>3. QED
  BY <1>1, <1>2 DEF ConsumeInv

(* Every step keeps the invariant of the consumers.                        *)
LEMMA ConsumeStep ==
    PullTypeOK /\ SetupInv /\ ConsumeInv /\ [LoadNext]_loadVars => ConsumeInv'
<1> SUFFICES ASSUME PullTypeOK, SetupInv, ConsumeInv, [LoadNext]_loadVars
             PROVE  ConsumeInv'
  OBVIOUS
<1>1. ASSUME NEW d \in Streams, consumer'[d] = consumer[d], outbox'[d] = outbox[d],
             ack'[d] = ack[d], sent'[d] = sent[d], got'[d] = got[d]
      PROVE  ConsumerHolds(d)'
  <2>1. ConsumerHolds(d)
    BY DEF ConsumeInv
  <2>2. Owed(d)' = Owed(d)
    BY <1>1 DEF Owed
  <2>3. /\ Answers(Owed(d)', got'[d])
        /\ Length(Owed(d)') <= 1 + Cardinality(Amounts(got'[d]))
        /\ consumer'[d] \in {"calling", "reading", "acking"} =>
              Length(Owed(d)') = 1 + Cardinality(Amounts(got'[d]))
    BY <1>1, <2>1, <2>2 DEF ConsumerHolds
  <2>4. QED
    BY <1>1, <2>1, <2>3 DEF ConsumerHolds
<1>2. CASE UNCHANGED <<pullVars, consumerVars>>
  BY <1>1, <1>2 DEF ConsumeInv, ConsumeTypeOK, pullVars, consumerVars
<1>3. CASE UNCHANGED loadVars
  BY <1>2, <1>3 DEF loadVars
<1>4. ASSUME NEW x, OthersCreate(x) PROVE ConsumeInv'
  BY <1>2, <1>4 DEF OthersCreate
<1>5. CASE Connect \/ Continue \/ Create \/ Publish \/ DurationElapses
  BY <1>2, <1>5 DEF Connect, Continue, Create, Publish, DurationElapses
<1>6. CASE Spawn
  BY <1>6, SpawnHolds
<1>7. ASSUME NEW c \in Streams, consumer[c] # "unspawned",
             Carry(c) \/ ConsumerStep(c) \/ Deliver(c) \/ Rest(c)
      PROVE  ConsumeInv'
  <2>1. ConsumeTypeOK' /\ ConsumerHolds(c)'
    BY <1>7, StreamHolds DEF ConsumeInv
  <2>2. ASSUME NEW d \in Streams, d # c PROVE ConsumerHolds(d)'
    <3>1. consumer'[d] = consumer[d] /\ outbox'[d] = outbox[d] /\ ack'[d] = ack[d]
      <4>1. /\ consumer' = consumer \/ \E v : consumer' = [consumer EXCEPT ![c] = v]
            /\ outbox' = outbox \/ \E v : outbox' = [outbox EXCEPT ![c] = v]
            /\ ack' = ack \/ \E v : ack' = [ack EXCEPT ![c] = v]
        BY <1>7 DEF Carry, ConsumerStep, Deliver, Rest, Called, Consume, SendAck,
                    EndOfResponses, Leave, consumerVars
      <4>2. QED
        BY <2>2, <4>1 DEF ConsumeInv, ConsumeTypeOK
    <3>2. sent'[d] = sent[d] /\ got'[d] = got[d]
      <4>1. /\ sent' = sent \/ \E v : sent' = [sent EXCEPT ![c] = v]
            /\ got' = got \/ \E v : got' = [got EXCEPT ![c] = v]
        <5>1. CASE Carry(c)
          BY <5>1 DEF Carry, ClientSend
        <5>2. CASE ConsumerStep(c)
          BY <5>2 DEF ConsumerStep, Called, Consume, SendAck, EndOfResponses, Leave,
                      ClientReceive, ClientReset, pullVars
        <5>3. CASE Deliver(c) \/ Rest(c)
          BY <5>3 DEF Deliver, Rest, Proxy, Inbound, Outbound, UpstreamAccept,
                UpstreamRefuse, UpstreamTake, UpstreamYield, UpstreamEnd,
                UpstreamDropsRequests, InNext, InNextEnds, InAck, InSend,
                OutEstablish, OutNext, OutNextEnds, OutSend, Finish, clientVars
        <5>4. QED
          BY <1>7, <5>1, <5>2, <5>3
      <4>2. QED
        BY <2>2, <4>1, ZenonT(60) DEF PullTypeOK
    <3>3. QED
      BY <1>1, <3>1, <3>2
  <2>3. QED
    BY <2>1, <2>2 DEF ConsumeInv
<1>8. QED
  BY <1>3, <1>4, <1>5, <1>6, <1>7 DEF LoadNext

(* The generator's streams are streams of the proxy.                       *)
LEMMA LoadIsPull == [LoadNext]_loadVars => [PullNext]_pullVars
<1> SUFFICES ASSUME [LoadNext]_loadVars PROVE [PullNext]_pullVars
  OBVIOUS
<1>1. CASE UNCHANGED loadVars
  BY <1>1 DEF loadVars
<1>2. CASE \/ \E x \in Subscriptions \cup {TOPICS[i] : i \in DOMAIN TOPICS} :
                OthersCreate(x)
           \/ Connect \/ Continue \/ Spawn \/ Create \/ Publish \/ DurationElapses
  BY <1>2 DEF OthersCreate, Connect, Continue, Spawn, Create, Publish, DurationElapses
<1>3. ASSUME NEW c \in Streams, Carry(c) \/ ConsumerStep(c) \/ Deliver(c) \/ Rest(c)
      PROVE  [PullNext]_pullVars
  <2>1. CASE UNCHANGED pullVars
    BY <2>1
  <2>2. CASE Client(c) \/ Server(c) \/ Proxy(c)
    BY <2>2 DEF PullNext
  <2>3. Carry(c) => Client(c)
    BY DEF Carry, Client
  <2>4. ConsumerStep(c) => Client(c) \/ UNCHANGED pullVars
    BY DEF ConsumerStep, Called, Consume, SendAck, EndOfResponses, Leave, Client
  <2>5. Deliver(c) \/ Rest(c) => Server(c) \/ Proxy(c)
    BY DEF Deliver, Rest, Server
  <2>6. QED
    BY <1>3, <2>1, <2>2, <2>3, <2>4, <2>5
<1>4. QED
  BY <1>1, <1>2, <1>3 DEF LoadNext

(* What a prefix consists of.                                              *)
LEMMA PrefixAt ==
    ASSUME NEW S, NEW s \in Seq(S), NEW t \in Seq(S), IsPrefix(s, t)
    PROVE  /\ Length(s) \in Nat /\ Length(s) <= Length(t)
           /\ \A i \in 1..Length(s) : s[i] = t[i]
<1>1. PICK n \in Nat, m \in Nat : n = Len(s) /\ m = Len(t)
  BY LenProperties
<1>2. n <= m /\ SubSeq(s, 1, n) = SubSeq(t, 1, n)
  BY <1>1 DEF IsPrefix
<1>3. ASSUME NEW u \in Seq(S), NEW k \in Nat, k = Len(u), n <= k
      PROVE  \A i \in 1..n : SubSeq(u, 1, n)[i] = u[i]
  <2>1. \A i \in 1..n : u[i] \in S
    BY <1>3, ElementOfSeq
  <2>2. \A i \in 1..(n - 1 + 1) : SubSeq(u, 1, n)[i] = u[1 + i - 1]
    BY <2>1, SubSeqProperties
  <2>3. QED
    BY <2>2
<1>4. \A i \in 1..n : SubSeq(s, 1, n)[i] = s[i]
  BY <1>1, <1>3
<1>5. \A i \in 1..n : SubSeq(t, 1, n)[i] = t[i]
  BY <1>1, <1>2, <1>3
<1>6. QED
  BY <1>1, <1>2, <1>4, <1>5 DEF Length

(* The ranks of the frames after the first.                                *)
LEMMA RankFromTwo ==
    ASSUME NEW n \in Nat
    PROVE  /\ \A q \in 2..n : Rank(2..n, q) = q - 1
           /\ Cardinality(2..n) = IF n < 2 THEN 0 ELSE n - 1
<1>1. ASSUME NEW q \in 2..n PROVE Rank(2..n, q) = q - 1
  <2>1. {j \in 2..n : j <= q} = 2..q
    OBVIOUS
  <2>2. 2 \in Int /\ q \in Int /\ ~(2 > q)
    OBVIOUS
  <2>3. Cardinality(2..q) = q - 1
    BY <2>2, FS_Interval
  <2>4. QED
    BY <2>1, <2>3 DEF Rank
<1>2. Cardinality(2..n) = IF n < 2 THEN 0 ELSE n - 1
  <2>1. 2 \in Int /\ n \in Int
    OBVIOUS
  <2>2. Cardinality(2..n) = IF 2 > n THEN 0 ELSE n - 2 + 1
    BY <2>1, FS_Interval
  <2>3. QED
    BY <2>2
<1>3. QED
  BY <1>1, <1>2

(* A consumer's sent frames: the first acks nothing, and each of the       *)
(* others what the response of its rank delivered.                         *)
LEMMA SentAnswers ==
    ASSUME PullTypeOK, ConsumeInv, NEW c \in Streams
    PROVE  /\ Answers(sent[c], got[c])
           /\ Length(sent[c]) <= 1 + Cardinality(Amounts(got[c]))
<1>1. PICK s \in Seq(Frame), o \in Seq(Frame), a \in Seq(Frame), g \in Seq(Item) :
        /\ s = sent[c] /\ o = outbox[c] /\ a = ack[c] /\ g = got[c]
        /\ Owed(c) = (s \o o) \o a
  BY OwedParts DEF ConsumeInv
<1>2. (s \o o) \o a = s \o (o \o a)
  BY ConcatAssociative, SMTT(60)
<1>3. PICK e \in Seq(Frame) : e = o \o a
  BY ConcatProperties
<1>4. Answers(s \o e, g) /\ Length(s \o e) <= 1 + Cardinality(Amounts(g))
  BY <1>1, <1>2, <1>3 DEF ConsumeInv, ConsumerHolds
<1>5. Answers(s, g) /\ Length(s) <= Length(s \o e) /\ Length(s) \in Nat
  BY <1>4, AnswersDrop
<1>6. Length(s \o e) \in Nat
  BY ConcatProperties, LenProperties DEF Length
<1>7. Cardinality(Amounts(g)) \in Nat
  <2>1. 0 \in Item
    BY DEF Item
  <2>2. QED
    BY <2>1, AmountsNext
<1>8. PICK k \in Nat : k = Cardinality(Amounts(g))
  BY <1>7
<1>9. Length(s) <= 1 + k
  BY <1>4, <1>5, <1>6, <1>8
<1>10. QED
  BY <1>1, <1>5, <1>8, <1>9

(* The frames among the first n whose acks are reported.                   *)
LEMMA AckedPlaces ==
    ASSUME PullTypeOK, ConsumeInv, NEW c \in Streams, NEW n \in 0..Length(sent[c])
    PROVE  /\ DOMAIN AckedIn(c, n) = 2..n
           /\ \A q \in 2..n : /\ AckedIn(c, n)[q] = sent[c][q].acks
                              /\ q \in 1..Length(sent[c]) /\ q # 1
<1>1. PICK l \in Nat : l = Length(sent[c])
  BY OwedParts, LenProperties DEF Length, ConsumeInv
<1>2. n \in 0..l
  BY <1>1
<1>3. \A q \in 1..n : q \in 1..l
  BY <1>2
<1>4. \A q \in 2..n : q \in 1..n /\ q # 1
  BY <1>2
<1>5. Answers(sent[c], got[c]) /\ got[c] \in Seq(Item)
  BY SentAnswers DEF PullTypeOK
<1>6. \A j \in Amounts(got[c]) : got[c][j] \in Nat /\ got[c][j] # 0
  <2>1. \A j \in 1..Len(got[c]) : got[c][j] \in Item
    BY <1>5, ElementOfSeq
  <2>2. QED
    BY <2>1 DEF Amounts, Item
<1>7. ASSUME NEW q \in 1..n PROVE sent[c][q].acks > 0 <=> q \in 2..n
  <2>1. q \in 1..Length(sent[c])
    BY <1>1, <1>3
  <2>2. CASE q = 1
    <3>1. sent[c][q].acks = 0
      BY <1>5, <2>1, <2>2 DEF Answers
    <3>2. QED
      BY <2>2, <3>1
  <2>3. CASE q # 1
    <3>1. PICK j \in Amounts(got[c]) : sent[c][q].acks = got[c][j]
      BY <1>5, <2>1, <2>3 DEF Answers
    <3>2. QED
      BY <1>2, <1>6, <2>3, <3>1
  <2>4. QED
    BY <2>2, <2>3
<1>8. {j \in 1..n : sent[c][j].acks > 0} = 2..n
  BY <1>4, <1>7
<1>9. QED
  BY <1>1, <1>3, <1>4, <1>8 DEF AckedIn

(* The responses got are delivered ones, of the same rank.                 *)
LEMMA GotPlaces ==
    ASSUME PullTypeOK, NEW c \in Streams, IsPrefix(got[c], yielded[c]),
           NEW m \in Nat, Length(got[c]) <= m
    PROVE  LET D == DOMAIN DeliveredIn(c, m)
               P == Amounts(got[c])
           IN  /\ D \in SUBSET (1..m) /\ Cardinality(P) <= Cardinality(D)
               /\ Cardinality(P) \in Nat /\ Cardinality(D) \in Nat
               /\ \A l \in P : /\ l \in D /\ Rank(D, l) = Rank(P, l)
                              /\ DeliveredIn(c, m)[l] = got[c][l]
<1>1. got[c] \in Seq(Item) /\ yielded[c] \in Seq(Item)
  BY DEF PullTypeOK
<1>2. PICK k \in Nat : /\ k = Length(got[c]) /\ k <= m
                      /\ \A i \in 1..k : got[c][i] = yielded[c][i]
  BY <1>1, PrefixAt
<1>3. PICK P, D : /\ P = Amounts(got[c]) /\ D = DOMAIN DeliveredIn(c, m)
                  /\ P = {j \in 1..k : got[c][j] \notin {Failure, 0}}
                  /\ D = {j \in 1..m : yielded[c][j] \notin {Failure, 0}}
  BY <1>2 DEF Amounts, DeliveredIn, Length
<1>4. /\ \A l \in P : l \in D /\ l \in 1..k
      /\ \A l \in D : l <= k => l \in P
      /\ D \in SUBSET (1..m) /\ P \in SUBSET D
  <2>1. \A l \in 1..k : l \in 1..m
    BY <1>2
  <2>2. \A l \in 1..m : l <= k => l \in 1..k
    BY <1>2
  <2>3. QED
    BY <1>2, <1>3, <2>1, <2>2
<1>5. IsFiniteSet(D) /\ Cardinality(D) \in Nat
  BY <1>4, RankFacts
<1>6. Cardinality(P) <= Cardinality(D) /\ Cardinality(P) \in Nat
  BY <1>4, <1>5, FS_Subset, FS_CardinalityType
<1>7. ASSUME NEW l \in P PROVE Rank(D, l) = Rank(P, l)
  <2>1. {j \in D : j <= l} = {j \in P : j <= l}
    <3>1. l \in 1..k
      BY <1>4
    <3>2. \A j \in D : j <= l => j <= k
      BY <1>4, <3>1
    <3>3. QED
      BY <1>4, <3>2
  <2>2. QED
    BY <2>1 DEF Rank
<1>8. ASSUME NEW l \in P PROVE DeliveredIn(c, m)[l] = got[c][l]
  <2>1. l \in D /\ l \in 1..k
    BY <1>4
  <2>2. DeliveredIn(c, m)[l] = yielded[c][l]
    BY <1>3, <2>1 DEF DeliveredIn
  <2>3. QED
    BY <1>2, <2>1, <2>2
<1>9. QED
  BY <1>3, <1>4, <1>5, <1>6, <1>7, <1>8

(* The acks reported follow the deliveries reported.                       *)
LEMMA ConsumersImply ==
    RelayInv /\ TapInv /\ ConsumeInv => AcksFollowDeliveries
<1> SUFFICES ASSUME RelayInv, TapInv, ConsumeInv, NEW c \in Streams
             PROVE  Follows(Reported(c, "Ack"), Reported(c, "Deliver"))
  BY DEF AcksFollowDeliveries
<1>1. PullTypeOK /\ emitted[c] \in Seq(Report) /\ got[c] \in Seq(Item)
  BY DEF RelayInv, PullTypeOK
<1>2. PICK n \in 0..Length(sent[c]) : AcksTold(c, n)
  BY DEF TapInv
<1>3. PICK m \in 0..Length(yielded[c]) : DeliveriesTold(c, m)
  BY DEF TapInv
<1>4. n \in Nat /\ m \in Nat /\ n <= Length(sent[c]) /\ Length(sent[c]) \in Nat
  BY <1>1, LenProperties DEF PullTypeOK, Length
<1>5. Length(got[c]) <= m
  <2>1. /\ Length(got[c]) \in Nat /\ Length(responses[c]) \in Nat
        /\ Length(item[c]) \in Nat
    BY <1>1, LenProperties DEF PullTypeOK, Length
  <2>2. Length(got[c]) + Length(responses[c]) + Length(item[c]) <= m
    BY <1>3 DEF DeliveriesTold
  <2>3. QED
    BY <1>4, <2>1, <2>2
<1>6. IsPrefix(got[c], yielded[c])
  BY RelayImplies DEF RelayInOrder
<1>7. PICK f, g, a, d, P :
        /\ f = Reported(c, "Ack") /\ g = Reported(c, "Deliver")
        /\ a = AckedIn(c, n) /\ d = DeliveredIn(c, m) /\ P = Amounts(got[c])
  OBVIOUS
<1>8. Follows(f, a) /\ Follows(a, f) /\ Follows(d, g) /\ Follows(g, d)
  BY <1>2, <1>3, <1>7 DEF AcksTold, DeliveriesTold, SameAmounts
<1>9. /\ Cardinality(DOMAIN f) \in Nat /\ Cardinality(DOMAIN g) \in Nat
      /\ \A i \in DOMAIN f : Rank(DOMAIN f, i) \in 1..Cardinality(DOMAIN f)
  <2>1. PICK k \in Nat : DOMAIN emitted[c] = 1..k
    BY <1>1, LenProperties
  <2>2. DOMAIN f \in SUBSET (1..k) /\ DOMAIN g \in SUBSET (1..k)
    BY <1>7, <2>1 DEF Reported
  <2>3. QED
    BY <2>2, RankFacts
<1>10. /\ DOMAIN a = 2..n
       /\ \A q \in 2..n : /\ a[q] = sent[c][q].acks
                          /\ q \in 1..Length(sent[c]) /\ q # 1
  BY <1>1, <1>7, AckedPlaces
<1>11. /\ \A q \in 2..n : Rank(2..n, q) = q - 1
       /\ Cardinality(2..n) = IF n < 2 THEN 0 ELSE n - 1
  BY <1>4, RankFromTwo
<1>12. PICK x \in Nat, y \in Nat, u \in Nat, w \in Nat, v \in Nat :
         /\ x = Cardinality(DOMAIN f) /\ y = Cardinality(DOMAIN g)
         /\ u = Cardinality(P) /\ w = Cardinality(DOMAIN d) /\ v = Length(sent[c])
         /\ u <= w
  BY <1>1, <1>4, <1>5, <1>6, <1>7, <1>9, GotPlaces
<1>13. \A l \in P : /\ l \in DOMAIN d /\ Rank(DOMAIN d, l) = Rank(P, l)
                    /\ d[l] = got[c][l]
  BY <1>1, <1>4, <1>5, <1>6, <1>7, GotPlaces
<1>14. Answers(sent[c], got[c]) /\ v <= 1 + u
  BY <1>1, <1>7, <1>12, SentAnswers
<1>15. x = (IF n < 2 THEN 0 ELSE n - 1) /\ w = y
  <2>1. Cardinality(DOMAIN f) <= Cardinality(2..n) /\ Cardinality(2..n) <= Cardinality(DOMAIN f)
    BY <1>8, <1>10 DEF Follows
  <2>2. w <= y /\ y <= w
    BY <1>8, <1>12 DEF Follows
  <2>3. QED
    BY <1>4, <1>11, <1>12, <2>1, <2>2
<1>16. x <= y
  BY <1>4, <1>12, <1>14, <1>15
<1>17. ASSUME NEW i \in DOMAIN f, NEW j \in DOMAIN g,
              Rank(DOMAIN f, i) = Rank(DOMAIN g, j)
       PROVE  f[i] = g[j]
  <2>1. PICK r \in 1..x : r = Rank(DOMAIN f, i)
    BY <1>9, <1>12
  <2>2. PICK q \in 2..n : q = r + 1
    BY <1>4, <1>15, <2>1
  <2>3. Rank(DOMAIN a, q) = r /\ q \in DOMAIN a
    BY <1>10, <1>11, <2>2
  <2>4. f[i] = a[q]
    BY <1>8, <2>1, <2>3 DEF Follows
  <2>5. q \in 1..Length(sent[c]) /\ q # 1 /\ a[q] = sent[c][q].acks
    BY <1>10
  <2>6. PICK l \in P : Rank(P, l) = q - 1 /\ sent[c][q].acks = got[c][l]
    BY <1>7, <1>14, <2>5 DEF Answers
  <2>7. l \in DOMAIN d /\ Rank(DOMAIN d, l) = r /\ d[l] = got[c][l]
    BY <1>13, <2>2, <2>6
  <2>8. d[l] = g[j]
    BY <1>8, <1>17, <2>1, <2>7 DEF Follows
  <2>9. QED
    BY <2>4, <2>5, <2>6, <2>7, <2>8
<1>18. QED
  BY <1>7, <1>12, <1>16, <1>17 DEF Follows

(* The count of consumed messages never runs ahead of that of delivered    *)
(* ones: the acks reported of a generator's consumer are those of the      *)
(* first responses reported as delivered to it, for any number of streams, *)
(* any capacity of the channels and however the consumer, the two pumps    *)
(* and the server interleave (consume, src/src/loadgen.rs, through         *)
(* streaming_pull, src/src/proxy/subscriber.rs).                           *)
THEOREM AcksFollowTheirDeliveries == LoadSpec => []AcksFollowDeliveries
<1> DEFINE Inv == RelayInv /\ TapInv /\ SetupInv /\ ConsumeInv
<1>1. LoadInit => Inv
  BY RelayInitially, TapInitially, SetupInitially, ConsumeInitially DEF LoadInit
<1>2. Inv /\ [LoadNext]_loadVars => Inv'
  <2>1. RelayInv => PullTypeOK
    BY DEF RelayInv
  <2>2. QED
    BY <2>1, LoadIsPull, RelayStep, TapStep, SetupStep, ConsumeStep
<1>3. Inv => AcksFollowDeliveries
  BY ConsumersImply
<1>4. QED
  BY <1>1, <1>2, <1>3, PTL DEF LoadSpec
=============================================================================
