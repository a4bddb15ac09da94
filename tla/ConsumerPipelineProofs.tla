---------------------- MODULE ConsumerPipelineProofs ----------------------
(***************************************************************************)
(* Proofs about ConsumerPipeline: how far the displayed number of live     *)
(* consumers can be from the truth, for every number of streams and        *)
(* subscriptions, every capacity of the sink and every length of a call.   *)
(***************************************************************************)
EXTENDS ConsumerPipeline, SequenceTheorems, FiniteSetTheorems, TLAPS

Facts == INSTANCE AppStateProofs

-----------------------------------------------------------------------------
(* The inductive invariant.                                                *)

\* What streams report.
Emission ==
    [kind : {"ConsumerOpen", "ConsumerClose"}, subscription : Subscriptions,
     peer : {PeerOf[c] : c \in Streams}]
    \cup
    [kind : {"Ack", "Deliver"}, subscription : Subscriptions,
     peer : {PeerOf[c] : c \in Streams}, messages : Counts]

\* A state whose figures of live consumers are numbers.
CountsConsumers(st) ==
    /\ "subscriptions" \in DOMAIN st
    /\ \A s \in DOMAIN st.subscriptions :
         /\ "live_consumers" \in DOMAIN st.subscriptions[s]
         /\ st.subscriptions[s].live_consumers \in Nat

Live(st, s) == Obs!subscription_mut(st, s).live_consumers

\* An open stream has a subscription, and the task never stops.
PipelineTypes ==
    /\ phase \in [Streams -> {"new", "open", "over"}]
    /\ attached \in [Streams -> Subscriptions \cup {NoSubscription}]
    /\ \A c \in Streams : phase[c] = "open" => attached[c] \in Subscriptions
    /\ emitted \in [Streams -> Seq(Emission)]
    /\ queue \in Seq(Emission)
    /\ readers /\ senders
    /\ pc \in {"recv", "drain", "publish"}
    /\ CountsConsumers(state) /\ CountsConsumers(snapshot)
    /\ lost \in Nat

\* Between bursts the snapshot is the task's own state.
Published ==
    pc = "recv" => \A s \in Subscriptions : Live(snapshot, s) = Live(state, s)

(***************************************************************************)
(* What folding one report in does to the figure of a subscription.        *)
(***************************************************************************)
After(n, o, s) ==
    IF o.subscription # s THEN n
    ELSE CASE o.kind = "ConsumerOpen"  -> n + 1
           [] o.kind = "ConsumerClose" -> IF n = 0 THEN 0 ELSE n - 1
           [] OTHER                    -> n

(***************************************************************************)
(* The figures that the state will show, one queued report at a time.      *)
(***************************************************************************)
Forecast(w, s) ==
    /\ w[0] = Live(state, s)
    /\ \A i \in 1..Len(queue) : w[i] = After(w[i - 1], queue[i], s)

Near(n, s) ==
    /\ n <= Cardinality(Connected(s)) + lost
    /\ Cardinality(Connected(s)) <= n + lost

\* Once all that is queued is folded in, the drops are all that is missing.
EndsNear ==
    \A s \in Subscriptions :
        \E w \in [0..Len(queue) -> Nat] :
            Forecast(w, s) /\ Near(w[Len(queue)], s)

PipelineInv == PipelineTypes /\ Published /\ EndsNear
-----------------------------------------------------------------------------
(* Folding in a report.                                                    *)

(* Setting a subscription's entry changes that subscription's figure only. *)
LEMMA SetLive ==
    ASSUME NEW st, CountsConsumers(st), NEW name, NEW sub,
           "live_consumers" \in DOMAIN sub, sub.live_consumers \in Nat
    PROVE  LET after == Obs!SetSubscription(st, name, sub)
           IN  /\ CountsConsumers(after)
               /\ Live(after, name) = sub.live_consumers
               /\ \A s : s # name => Live(after, s) = Live(st, s)
<1> DEFINE after == Obs!SetSubscription(st, name, sub)
           subs == Obs!Put(st.subscriptions, name, sub)
<1>1. after.subscriptions = subs /\ "subscriptions" \in DOMAIN after
  BY DEF CountsConsumers, Obs!SetSubscription
<1>2. /\ DOMAIN subs = DOMAIN st.subscriptions \cup {name}
      /\ \A s \in DOMAIN subs :
           subs[s] = IF s = name THEN sub ELSE st.subscriptions[s]
  BY DEF Obs!Put
<1> HIDE DEF after, subs
<1>3. CountsConsumers(after)
  BY <1>1, <1>2 DEF CountsConsumers
<1>4. Live(after, name) = sub.live_consumers
  BY <1>1, <1>2 DEF Live, Obs!subscription_mut, Obs!EntryOr
<1>5. \A s : s # name => Live(after, s) = Live(st, s)
  BY <1>1, <1>2 DEF Live, Obs!subscription_mut, Obs!EntryOr
<1>6. QED
  BY <1>3, <1>4, <1>5 DEF after

(* The entry handed out for a subscription, known or not.                  *)
LEMMA LiveType ==
    ASSUME NEW st, CountsConsumers(st), NEW s
    PROVE  /\ "live_consumers" \in DOMAIN Obs!subscription_mut(st, s)
           /\ Live(st, s) \in Nat
BY DEF CountsConsumers, Live, Obs!subscription_mut, Obs!EntryOr,
       Obs!DefaultSubscription

(* The kinds of report, each of a known subscription.                      *)
LEMMA EmissionKinds ==
    ASSUME NEW o \in Emission
    PROVE  /\ o.kind \in {"ConsumerOpen", "ConsumerClose", "Ack", "Deliver"}
           /\ o.subscription \in Subscriptions
BY DEF Emission

(* Folding a report in moves the figures as After says.                    *)
LEMMA ApplyLive ==
    ASSUME NEW st, CountsConsumers(st), NEW o \in Emission, NEW n
    PROVE  LET after == Obs!apply(st, o, n)
           IN  /\ CountsConsumers(after)
               /\ \A s : Live(after, s) = After(Live(st, s), o, s)
<1> DEFINE sub == Obs!subscription_mut(st, o.subscription)
           after == Obs!apply(st, o, n)
<1>1. "live_consumers" \in DOMAIN sub /\ sub.live_consumers \in Nat
  BY LiveType DEF Live
<1>2. sub.live_consumers = Live(st, o.subscription)
  BY DEF Live
<1> HIDE DEF sub
<1>3. CASE o.kind = "ConsumerOpen"
  <2> DEFINE new == [sub EXCEPT !.live_consumers = @ + 1]
  <2>1. after = Obs!SetSubscription(st, o.subscription, new)
    BY <1>3 DEF Obs!apply, Obs!ApplyConsumerOpen, sub
  <2>2. /\ "live_consumers" \in DOMAIN new
        /\ new.live_consumers = sub.live_consumers + 1
        /\ new.live_consumers \in Nat
    BY <1>1
  <2> HIDE DEF new, after
  <2>3. /\ CountsConsumers(after)
        /\ Live(after, o.subscription) = new.live_consumers
        /\ \A s : s # o.subscription => Live(after, s) = Live(st, s)
    BY <2>1, <2>2, SetLive
  <2>4. QED
    BY <1>2, <1>3, <2>2, <2>3 DEF After, after
<1>4. CASE o.kind = "ConsumerClose"
  <2> DEFINE new == [sub EXCEPT !.live_consumers = IF @ = 0 THEN 0 ELSE @ - 1]
  <2>1. after = Obs!SetSubscription(st, o.subscription, new)
    BY <1>4 DEF Obs!apply, Obs!ApplyConsumerClose, sub
  <2>2. /\ "live_consumers" \in DOMAIN new
        /\ new.live_consumers = IF sub.live_consumers = 0 THEN 0
                                ELSE sub.live_consumers - 1
        /\ new.live_consumers \in Nat
    BY <1>1
  <2> HIDE DEF new, after
  <2>3. /\ CountsConsumers(after)
        /\ Live(after, o.subscription) = new.live_consumers
        /\ \A s : s # o.subscription => Live(after, s) = Live(st, s)
    BY <2>1, <2>2, SetLive
  <2>4. QED
    BY <1>2, <1>4, <2>2, <2>3 DEF After, after
<1>5. CASE o.kind \in {"Ack", "Deliver"}
  <2>1. PICK new :
          /\ after = Obs!SetSubscription(st, o.subscription, new)
          /\ DOMAIN new = DOMAIN sub
          /\ new.live_consumers = sub.live_consumers
    <3>1. CASE o.kind = "Deliver"
      <4> DEFINE new == [sub EXCEPT !.delivered = @ + o.messages]
      <4>1. after = Obs!SetSubscription(st, o.subscription, new)
        BY <3>1 DEF Obs!apply, Obs!ApplyDeliver, sub
      <4>2. DOMAIN new = DOMAIN sub /\ new.live_consumers = sub.live_consumers
        BY <1>1
      <4>3. QED
        BY <4>1, <4>2
    <3>2. CASE o.kind = "Ack"
      <4> DEFINE new == [sub EXCEPT !.acked = @ + o.messages]
      <4>1. after = Obs!SetSubscription(st, o.subscription, new)
        BY <3>2 DEF Obs!apply, Obs!ApplyAck, sub
      <4>2. DOMAIN new = DOMAIN sub /\ new.live_consumers = sub.live_consumers
        BY <1>1
      <4>3. QED
        BY <4>1, <4>2
    <3>3. QED
      BY <1>5, <3>1, <3>2
  <2> HIDE DEF after
  <2>2. /\ CountsConsumers(after)
        /\ Live(after, o.subscription) = new.live_consumers
        /\ \A s : s # o.subscription => Live(after, s) = Live(st, s)
    BY <1>1, <2>1, SetLive
  <2>3. QED
    BY <1>2, <1>5, <2>1, <2>2 DEF After, after
<1>6. QED
  BY <1>3, <1>4, <1>5, EmissionKinds

(* A figure stays a natural number.                                        *)
LEMMA AfterType ==
    ASSUME NEW n \in Nat, NEW o, NEW s
    PROVE  After(n, o, s) \in Nat
BY DEF After

(* Trimming the recent messages leaves the figures alone.                  *)
LEMMA TrimLive ==
    ASSUME NEW st, CountsConsumers(st), NEW cap
    PROVE  LET after == Obs!trim_recent(st, cap)
           IN  /\ CountsConsumers(after)
               /\ \A s : Live(after, s) = Live(st, s)
<1>1. /\ Obs!trim_recent(st, cap).subscriptions = st.subscriptions
      /\ DOMAIN Obs!trim_recent(st, cap) = DOMAIN st
  BY DEF CountsConsumers, Obs!trim_recent
<1>2. QED
  BY <1>1 DEF CountsConsumers, Live, Obs!subscription_mut
-----------------------------------------------------------------------------
(* The state-owning task.                                                  *)

(* The head and the tail of the queue.                                     *)
LEMMA QueueHead ==
    ASSUME PipelineTypes, queue # <<>>
    PROVE  /\ Head(queue) \in Emission /\ Head(queue) = queue[1]
           /\ Tail(queue) \in Seq(Emission)
           /\ Len(queue) \in Nat /\ Len(queue) >= 1
           /\ Len(Tail(queue)) = Len(queue) - 1
           /\ \A i \in 1..Len(Tail(queue)) : Tail(queue)[i] = queue[i + 1]
<1>1. queue \in Seq(Emission)
  BY DEF PipelineTypes
<1>2. /\ Head(queue) \in Emission /\ Tail(queue) \in Seq(Emission)
      /\ Len(Tail(queue)) = Len(queue) - 1
      /\ \A i \in 1..Len(Tail(queue)) : Tail(queue)[i] = queue[i + 1]
  BY <1>1, HeadTailProperties
<1>3. Len(queue) \in Nat \ {0} /\ Head(queue) = queue[1]
  BY <1>1, EmptySeq
<1>4. QED
  BY <1>2, <1>3

(* Folding the oldest report in brings the first forecast figure about.    *)
LEMMA FoldingKeeps ==
    ASSUME PipelineInv, queue # <<>>, queue' = Tail(queue),
           NEW n, state' = Obs!apply(state, Head(queue), n),
           UNCHANGED <<consumerVars, lost>>
    PROVE  EndsNear'
<1> DEFINE L == Len(queue)
           o == Head(queue)
<1>1. /\ o \in Emission /\ o = queue[1]
      /\ L \in Nat /\ L >= 1
      /\ Len(queue') = L - 1
      /\ \A i \in 1..Len(queue') : queue'[i] = queue[i + 1]
  BY QueueHead DEF PipelineInv
<1>2. \A s : Live(state', s) = After(Live(state, s), o, s)
  BY <1>1, ApplyLive DEF PipelineInv, PipelineTypes
<1> HIDE DEF L, o
<1>3. ASSUME NEW s \in Subscriptions
      PROVE  \E w \in [0..Len(queue') -> Nat] :
                /\ w[0] = Live(state', s)
                /\ \A i \in 1..Len(queue') : w[i] = After(w[i - 1], queue'[i], s)
                /\ w[Len(queue')] <= Cardinality(Connected(s)') + lost'
                /\ Cardinality(Connected(s)') <= w[Len(queue')] + lost'
  <2>1. PICK w \in [0..L -> Nat] :
          /\ w[0] = Live(state, s)
          /\ \A i \in 1..L : w[i] = After(w[i - 1], queue[i], s)
          /\ Near(w[L], s)
    BY DEF PipelineInv, EndsNear, Forecast, L
  <2> DEFINE v == [i \in 0..(L - 1) |-> w[i + 1]]
  <2>2. v \in [0..(L - 1) -> Nat]
    <3>1. \A i \in 0..(L - 1) : i + 1 \in 0..L
      BY <1>1
    <3>2. QED
      BY <2>1, <3>1
  <2>3. v[0] = Live(state', s)
    <3>1. 1 \in 1..L /\ 0 \in 0..(L - 1)
      BY <1>1
    <3>2. w[1] = After(w[0], queue[1], s)
      BY <2>1, <3>1
    <3>3. v[0] = w[1]
      BY <3>1
    <3>4. QED
      BY <1>1, <1>2, <2>1, <3>2, <3>3
  <2>4. ASSUME NEW i \in 1..(L - 1)
        PROVE  v[i] = After(v[i - 1], queue'[i], s)
    <3>1. /\ i \in 0..(L - 1) /\ i - 1 \in 0..(L - 1)
          /\ i + 1 \in 1..L /\ (i - 1) + 1 = i /\ (i + 1) - 1 = i
          /\ i \in 1..Len(queue')
      BY <1>1
    <3>2. v[i] = w[i + 1] /\ v[i - 1] = w[i]
      BY <3>1
    <3>3. w[i + 1] = After(w[(i + 1) - 1], queue[i + 1], s)
      BY <2>1, <3>1
    <3>4. queue'[i] = queue[i + 1]
      BY <1>1, <3>1
    <3>5. QED
      BY <3>1, <3>2, <3>3, <3>4
  <2>5. /\ v[L - 1] <= Cardinality(Connected(s)') + lost'
        /\ Cardinality(Connected(s)') <= v[L - 1] + lost'
    <3>1. v[L - 1] = w[L]
      BY <1>1
    <3>2. Connected(s)' = Connected(s) /\ lost' = lost
      BY DEF consumerVars, Connected
    <3> HIDE DEF v
    <3>3. QED
      BY <2>1, <3>1, <3>2 DEF Near
  <2> HIDE DEF v
  <2>6. QED
    BY <1>1, <2>2, <2>3, <2>4, <2>5
<1>4. QED
  BY <1>3 DEF EndsNear, Forecast, Near, Live

(* Every step of run keeps the invariant.                                  *)
LEMMA RunKeeps ==
    ASSUME PipelineInv, ObserverStep
    PROVE  PipelineInv'
<1>1. UNCHANGED <<consumerVars, lost>>
  BY DEF ObserverStep
<1>2. UNCHANGED <<phase, attached, emitted, lost>>
  BY <1>1 DEF consumerVars
<1>3. Obs!Recv \/ Obs!RecvNone \/ Obs!TryRecv \/ Obs!TryRecvEmpty \/ Obs!Publish
  BY DEF ObserverStep, Obs!Run
<1>4. CASE Obs!Recv \/ Obs!TryRecv
  <2>1. /\ queue # <<>> /\ queue' = Tail(queue)
        /\ pc' = "drain" /\ UNCHANGED <<snapshot, readers, senders>>
    BY <1>4 DEF Obs!Recv, Obs!TryRecv, Obs!take
  <2>2. PICK n : state' = Obs!apply(state, Head(queue), n)
    BY <1>4 DEF Obs!Recv, Obs!TryRecv
  <2>3. EndsNear'
    BY <1>1, <2>1, <2>2, FoldingKeeps
  <2>4. CountsConsumers(state')
    BY <2>1, <2>2, QueueHead, ApplyLive DEF PipelineInv, PipelineTypes
  <2>5. queue' \in Seq(Emission)
    BY <2>1, QueueHead DEF PipelineInv
  <2>6. PipelineTypes'
    BY <1>2, <2>1, <2>4, <2>5 DEF PipelineInv, PipelineTypes, CountsConsumers
  <2>7. Published'
    BY <2>1 DEF Published
  <2>8. QED
    BY <2>3, <2>6, <2>7 DEF PipelineInv
<1>5. CASE Obs!RecvNone
  BY <1>5 DEF Obs!RecvNone, PipelineInv, PipelineTypes
<1>6. CASE Obs!TryRecvEmpty
  <2>1. pc' = "publish" /\ UNCHANGED <<queue, state, snapshot, readers, senders>>
    BY <1>6 DEF Obs!TryRecvEmpty, Obs!sinkVars
  <2>2. PipelineTypes'
    BY <1>2, <2>1 DEF PipelineInv, PipelineTypes, CountsConsumers
  <2>3. Published'
    BY <2>1 DEF Published
  <2>4. EndsNear'
    BY <1>2, <2>1 DEF PipelineInv, EndsNear, Forecast, Near, Live, Connected
  <2>5. QED
    BY <2>2, <2>3, <2>4 DEF PipelineInv
<1>7. CASE Obs!Publish
  <2>1. /\ state' = Obs!trim_recent(state, RecentBuffer)
        /\ snapshot' = state' /\ pc' = "recv"
        /\ UNCHANGED <<queue, readers, senders>>
    BY <1>7 DEF Obs!Publish, Obs!sinkVars, PipelineInv, PipelineTypes
  <2>2. /\ CountsConsumers(state')
        /\ \A s : Live(state', s) = Live(state, s)
    BY <2>1, TrimLive DEF PipelineInv, PipelineTypes
  <2>3. PipelineTypes'
    BY <1>2, <2>1, <2>2 DEF PipelineInv, PipelineTypes, CountsConsumers
  <2>4. Published'
    BY <2>1 DEF Published, Live
  <2>5. EndsNear'
    <3>1. \A s : Live(state, s)' = Live(state, s)
      BY <2>2 DEF Live
    <3>2. \A n, s : Near(n, s)' = Near(n, s)
      BY <1>2 DEF Near, Connected
    <3>3. QED
      BY <2>1, <3>1, <3>2 DEF PipelineInv, EndsNear, Forecast, Near
  <2>6. QED
    BY <2>3, <2>4, <2>5 DEF PipelineInv
<1>8. QED
  BY <1>3, <1>4, <1>5, <1>6, <1>7
-----------------------------------------------------------------------------
(* The streams.                                                            *)

\* Two figures k apart stay so when both count a report, whatever the
\* saturation does, and are k + 1 apart when only one of them does.
LEMMA AfterStaysNear ==
    ASSUME NEW x \in Nat, NEW n \in Nat, NEW k \in Nat,
           NEW o \in Emission, NEW s, x <= n + k, n <= x + k,
           (o.kind = "ConsumerClose" /\ o.subscription = s) => n >= 1
    PROVE  /\ After(x, o, s) <= After(n, o, s) + k
           /\ After(n, o, s) <= After(x, o, s) + k
           /\ x <= After(n, o, s) + (k + 1)
           /\ After(n, o, s) <= x + (k + 1)
<1>1. CASE o.subscription # s
  BY <1>1 DEF After
<1>2. CASE o.subscription = s
  <2>1. CASE o.kind = "ConsumerOpen"
    BY <1>2, <2>1 DEF After
  <2>2. CASE o.kind = "ConsumerClose"
    <3>1. /\ After(x, o, s) = IF x = 0 THEN 0 ELSE x - 1
          /\ After(n, o, s) = n - 1
          /\ n >= 1
      BY <1>2, <2>2 DEF After
    <3>2. QED
      BY <3>1
  <2>3. CASE o.kind \in {"Ack", "Deliver"}
    BY <1>2, <2>3 DEF After
  <2>4. QED
    BY <2>1, <2>2, <2>3, EmissionKinds
<1>3. QED
  BY <1>1, <1>2

\* A stream's report reaches the sink, or the sink drops it: either way the
\* figure to come moves with the number of open streams, or stays behind by
\* one more.
LEMMA ReportKeeps ==
    ASSUME PipelineInv, NEW o \in Emission, Obs!Observe(o),
           lost' = IF Obs!Accepts THEN lost ELSE lost + 1,
           \A s \in Subscriptions :
             /\ Cardinality(Connected(s)) \in Nat
             /\ Cardinality(Connected(s)')
                  = After(Cardinality(Connected(s)), o, s)
             /\ (o.kind = "ConsumerClose" /\ o.subscription = s)
                  => Cardinality(Connected(s)) >= 1
    PROVE  EndsNear'
<1> DEFINE L == Len(queue)
<1>1. /\ queue \in Seq(Emission) /\ L \in Nat
      /\ lost \in Nat /\ state' = state
  BY LenProperties DEF PipelineInv, PipelineTypes, Obs!Observe, Obs!taskVars
<1>2. ASSUME NEW s \in Subscriptions
      PROVE  \E w \in [0..Len(queue') -> Nat] :
                /\ w[0] = Live(state', s)
                /\ \A i \in 1..Len(queue') : w[i] = After(w[i - 1], queue'[i], s)
                /\ w[Len(queue')] <= Cardinality(Connected(s)') + lost'
                /\ Cardinality(Connected(s)') <= w[Len(queue')] + lost'
  <2> DEFINE n == Cardinality(Connected(s))
             m == Cardinality(Connected(s)')
  <2>1. PICK w \in [0..L -> Nat] :
          /\ w[0] = Live(state, s)
          /\ \A i \in 1..L : w[i] = After(w[i - 1], queue[i], s)
          /\ w[L] <= n + lost
          /\ n <= w[L] + lost
    BY DEF PipelineInv, EndsNear, Forecast, Near
  <2>2. w[L] \in Nat /\ n \in Nat /\ m = After(n, o, s)
    BY <1>1, <2>1, SMTT(30)
  <2>3. (o.kind = "ConsumerClose" /\ o.subscription = s) => n >= 1
    OBVIOUS
  <2> HIDE DEF n, m
  <2>4. CASE Obs!Accepts
    <3>1. queue' = Append(queue, o) /\ lost' = lost
      BY <2>4 DEF Obs!Observe, Obs!observe
    <3>2. /\ Len(queue') = L + 1
          /\ \A i \in 1..L : queue'[i] = queue[i]
          /\ queue'[L + 1] = o
      BY <1>1, <3>1, AppendProperties
    <3> DEFINE x == After(w[L], o, s)
               v == [i \in 0..(L + 1) |-> IF i <= L THEN w[i] ELSE x]
    <3> HIDE DEF L, x
    <3>3. x \in Nat
      BY <2>2, AfterType DEF x
    <3>4. v \in [0..(L + 1) -> Nat]
      <4>1. \A i \in 0..(L + 1) : i <= L => i \in 0..L
        BY <1>1
      <4>2. QED
        BY <2>1, <3>3, <4>1
    <3>5. v[0] = Live(state', s)
      BY <1>1, <2>1
    <3>6. ASSUME NEW i \in 1..(L + 1)
          PROVE  v[i] = After(v[i - 1], queue'[i], s)
      <4>1. CASE i = L + 1
        <5>1. v[i] = x /\ v[i - 1] = w[L] /\ queue'[i] = o
          BY <1>1, <3>2, <4>1
        <5>2. QED
          BY <5>1 DEF x
      <4>2. CASE i # L + 1
        <5>1. i \in 1..L /\ i \in 0..(L + 1) /\ i - 1 \in 0..(L + 1) /\ i - 1 <= L
          BY <1>1, <4>2
        <5>2. v[i] = w[i] /\ v[i - 1] = w[i - 1] /\ queue'[i] = queue[i]
          BY <1>1, <3>2, <5>1
        <5>3. QED
          BY <2>1, <5>1, <5>2
      <4>3. QED
        BY <4>1, <4>2
    <3>7. v[L + 1] <= m + lost' /\ m <= v[L + 1] + lost'
      <4>1. v[L + 1] = x
        BY <1>1
      <4> HIDE DEF v
      <4>2. x <= m + lost /\ m <= x + lost
        BY <1>1, <2>1, <2>2, <2>3, AfterStaysNear DEF x
      <4>3. QED
        BY <3>1, <4>1, <4>2
    <3> HIDE DEF v
    <3>8. QED
      BY <3>2, <3>4, <3>5, <3>6, <3>7 DEF m
  <2>5. CASE ~Obs!Accepts
    <3>1. queue' = queue /\ lost' = lost + 1
      BY <2>5 DEF Obs!Observe, Obs!observe
    <3>2. w[L] <= m + lost' /\ m <= w[L] + lost'
      BY <1>1, <2>1, <2>2, <2>3, <3>1, AfterStaysNear
    <3>3. QED
      BY <1>1, <2>1, <3>1, <3>2 DEF m
  <2>6. QED
    BY <2>4, <2>5
<1>3. QED
  BY <1>2 DEF EndsNear, Forecast, Near, Live

\* The sets of connected streams are finite when the streams are.
LEMMA ConnectedFinite ==
    ASSUME IsFiniteSet(Streams), NEW s
    PROVE  /\ IsFiniteSet(Connected(s))
           /\ Cardinality(Connected(s)) \in Nat
<1>1. Connected(s) \in SUBSET Streams
  BY DEF Connected
<1>2. IsFiniteSet(Connected(s))
  BY <1>1, FS_Subset
<1>3. QED
  BY <1>2, FS_CardinalityType

\* A step that reports something, and what else it keeps.
LEMMA ReportingKeeps ==
    ASSUME PipelineInv, NEW c \in Streams, NEW o \in Emission, Report(c),
           Emit(c, o),
           phase' \in [Streams -> {"new", "open", "over"}],
           attached' \in [Streams -> Subscriptions \cup {NoSubscription}],
           \A d \in Streams : phase'[d] = "open" => attached'[d] \in Subscriptions,
           \A s \in Subscriptions :
             /\ Cardinality(Connected(s)) \in Nat
             /\ Cardinality(Connected(s)')
                  = After(Cardinality(Connected(s)), o, s)
             /\ (o.kind = "ConsumerClose" /\ o.subscription = s)
                  => Cardinality(Connected(s)) >= 1
    PROVE  PipelineInv'
<1>1. emitted[c] \in Seq(Emission)
  BY DEF PipelineInv, PipelineTypes
<1> DEFINE e == Append(emitted[c], o)
<1>2. /\ e \in Seq(Emission)
      /\ Len(e) = Len(emitted[c]) + 1 /\ Len(emitted[c]) \in Nat
      /\ e[Len(emitted[c]) + 1] = o
  BY <1>1, AppendProperties, LenProperties
<1> HIDE DEF e
<1>3. emitted'[c] = e /\ emitted' \in [Streams -> Seq(Emission)]
  BY <1>2 DEF Emit, e, PipelineInv, PipelineTypes
<1>4. emitted'[c] # emitted[c] /\ Last(emitted'[c]) = o
  BY <1>2, <1>3 DEF Last
<1>5. Obs!Observe(o) /\ lost' = IF Obs!Accepts THEN lost ELSE lost + 1
  BY <1>4 DEF Report
<1>6. EndsNear'
  BY <1>5, ReportKeeps
<1>7. UNCHANGED <<pc, state, snapshot, readers, senders>>
  BY <1>5 DEF Obs!Observe, Obs!taskVars
<1>8. queue' \in Seq(Emission) /\ lost' \in Nat
  <2>1. queue \in Seq(Emission) /\ lost \in Nat
    BY DEF PipelineInv, PipelineTypes
  <2>2. queue' = Append(queue, o) \/ queue' = queue
    BY <1>5 DEF Obs!Observe, Obs!observe
  <2>3. QED
    BY <1>5, <2>1, <2>2, AppendProperties
<1>9. PipelineTypes'
  BY <1>3, <1>7, <1>8 DEF PipelineInv, PipelineTypes, CountsConsumers
<1>10. Published'
  BY <1>7 DEF PipelineInv, Published, Live
<1>11. QED
  BY <1>6, <1>9, <1>10 DEF PipelineInv
(* Every step of a stream keeps the invariant.                             *)
LEMMA StreamKeeps ==
    ASSUME IsFiniteSet(Streams), PipelineInv, NEW c \in Streams, Report(c)
    PROVE  PipelineInv'
<1>1. /\ phase \in [Streams -> {"new", "open", "over"}]
      /\ attached \in [Streams -> Subscriptions \cup {NoSubscription}]
      /\ \A d \in Streams : phase[d] = "open" => attached[d] \in Subscriptions
  BY DEF PipelineInv, PipelineTypes
<1>2. \A s : /\ IsFiniteSet(Connected(s))
             /\ Cardinality(Connected(s)) \in Nat
  BY ConnectedFinite
<1>3. CASE Open(c)
  <2>1. PICK s \in Subscriptions :
          /\ phase[c] = "new"
          /\ phase' = [phase EXCEPT ![c] = "open"]
          /\ attached' = [attached EXCEPT ![c] = s]
          /\ Emit(c, Connection("ConsumerOpen", c, s))
    BY <1>3 DEF Open
  <2> DEFINE o == Connection("ConsumerOpen", c, s)
  <2>2. o \in Emission /\ o.kind = "ConsumerOpen" /\ o.subscription = s
    BY DEF Connection, Emission
  <2>3. /\ phase' \in [Streams -> {"new", "open", "over"}]
        /\ attached' \in [Streams -> Subscriptions \cup {NoSubscription}]
        /\ \A d \in Streams : phase'[d] = "open" => attached'[d] \in Subscriptions
    BY <1>1, <2>1
  <2>4. ASSUME NEW t \in Subscriptions
        PROVE  Cardinality(Connected(t)') = After(Cardinality(Connected(t)), o, t)
    <3>1. CASE t = s
      <4>1. Connected(t)' = Connected(t) \cup {c} /\ c \notin Connected(t)
        BY <1>1, <2>1, <3>1 DEF Connected
      <4>2. Cardinality(Connected(t)') = Cardinality(Connected(t)) + 1
        BY <1>2, <4>1, FS_AddElement
      <4>3. QED
        BY <2>2, <3>1, <4>2 DEF After
    <3>2. CASE t # s
      <4>1. Connected(t)' = Connected(t)
        BY <1>1, <2>1, <3>2 DEF Connected
      <4>2. QED
        BY <2>2, <3>2, <4>1 DEF After
    <3>3. QED
      BY <3>1, <3>2
  <2> HIDE DEF o
  <2>5. QED
    BY <1>2, <2>1, <2>2, <2>3, <2>4, ReportingKeeps DEF o
<1>4. CASE Move(c)
  <2>1. PICK kind \in {"Ack", "Deliver"}, n \in Counts :
          Emit(c, Movement(kind, c, attached[c], n))
    BY <1>4 DEF Move
  <2>2. phase[c] = "open" /\ UNCHANGED <<phase, attached>>
    BY <1>4 DEF Move
  <2>3. PICK a : a = attached[c]
    OBVIOUS
  <2> DEFINE o == Movement(kind, c, a, n)
  <2>4. a \in Subscriptions
    BY <1>1, <2>2, <2>3
  <2>5. o \in Emission /\ o.kind \in {"Ack", "Deliver"} /\ Emit(c, o)
    BY <2>1, <2>3, <2>4 DEF Movement, Emission
  <2>6. \A s : /\ Connected(s)' = Connected(s)
               /\ \A k : After(k, o, s) = k
    BY <2>2, <2>5 DEF Connected, After
  <2> HIDE DEF o
  <2>7. QED
    BY <1>1, <1>2, <2>2, <2>5, <2>6, ReportingKeeps
<1>5. CASE Close(c)
  <2>1. /\ phase[c] = "open"
        /\ phase' = [phase EXCEPT ![c] = "over"]
        /\ attached' = attached
        /\ Emit(c, Connection("ConsumerClose", c, attached[c]))
    BY <1>5 DEF Close
  <2>2. PICK a : a = attached[c]
    OBVIOUS
  <2> DEFINE o == Connection("ConsumerClose", c, a)
  <2>3. a \in Subscriptions
    BY <1>1, <2>1, <2>2
  <2>4. /\ o \in Emission /\ o.kind = "ConsumerClose" /\ o.subscription = a
        /\ Emit(c, o)
    BY <2>1, <2>2, <2>3 DEF Connection, Emission
  <2>5. /\ phase' \in [Streams -> {"new", "open", "over"}]
        /\ attached' \in [Streams -> Subscriptions \cup {NoSubscription}]
        /\ \A d \in Streams : phase'[d] = "open" => attached'[d] \in Subscriptions
    BY <1>1, <2>1
  <2>6. ASSUME NEW t \in Subscriptions
        PROVE  /\ Cardinality(Connected(t)')
                    = After(Cardinality(Connected(t)), o, t)
               /\ a = t => Cardinality(Connected(t)) >= 1
    <3>1. CASE t = a
      <4>1. Connected(t)' = Connected(t) \ {c} /\ c \in Connected(t)
        BY <1>1, <2>1, <2>2, <3>1 DEF Connected
      <4>2. Cardinality(Connected(t)') = Cardinality(Connected(t)) - 1
        BY <1>2, <4>1, FS_RemoveElement, ZenonT(60)
      <4>3. Cardinality(Connected(t)) # 0
        BY <1>2, <4>1, FS_EmptySet
      <4>4. QED
        BY <1>2, <2>4, <3>1, <4>2, <4>3 DEF After
    <3>2. CASE t # a
      <4>1. Connected(t)' = Connected(t)
        BY <1>1, <2>1, <2>2, <3>2 DEF Connected
      <4>2. QED
        BY <2>4, <3>2, <4>1 DEF After
    <3>3. QED
      BY <3>1, <3>2
  <2> HIDE DEF o
  <2>7. QED
    BY <1>2, <2>4, <2>5, <2>6, ReportingKeeps
<1>6. CASE Abandon(c)
  <2>1. /\ phase[c] = "new"
        /\ phase' = [phase EXCEPT ![c] = "over"]
        /\ UNCHANGED <<attached, emitted>>
    BY <1>6 DEF Abandon
  <2>2. UNCHANGED <<observerVars, lost>>
    BY <2>1 DEF Report
  <2>3. UNCHANGED <<queue, pc, state, snapshot, readers, senders, lost>>
    BY <2>2 DEF observerVars
  <2>4. PipelineTypes'
    BY <1>1, <2>1, <2>3 DEF PipelineInv, PipelineTypes, CountsConsumers
  <2>5. Published'
    BY <2>3 DEF PipelineInv, Published, Live
  <2>6. \A s : Connected(s)' = Connected(s)
    BY <1>1, <2>1 DEF Connected
  <2>7. EndsNear'
    <3>1. \A n, s : Near(n, s)' = Near(n, s)
      BY <2>3, <2>6 DEF Near
    <3>2. \A s : Live(state, s)' = Live(state, s)
      BY <2>3 DEF Live
    <3>3. QED
      BY <2>3, <3>1, <3>2 DEF PipelineInv, EndsNear, Forecast, Near
  <2>8. QED
    BY <2>4, <2>5, <2>7 DEF PipelineInv
<1>7. Open(c) \/ Move(c) \/ Close(c) \/ Abandon(c)
  BY DEF Report, ConsumerStep
<1>8. QED
  BY <1>3, <1>4, <1>5, <1>6, <1>7
-----------------------------------------------------------------------------
(* The invariant holds, and what it says of a settled display.             *)

(* Before any stream opens, all figures are zero.                          *)
LEMMA PipelineInitially == PipelineInit => PipelineInv
<1> SUFFICES ASSUME PipelineInit PROVE PipelineInv
  OBVIOUS
<1>1. /\ phase = [c \in Streams |-> "new"]
      /\ attached = [c \in Streams |-> NoSubscription]
      /\ emitted = [c \in Streams |-> <<>>]
      /\ queue = <<>> /\ readers = TRUE /\ senders = TRUE
      /\ pc = "recv" /\ lost = 0
      /\ snapshot = Obs!DefaultState
      /\ state = [Obs!DefaultState EXCEPT !.recent_buffer_capacity = RecentBuffer]
  BY DEF PipelineInit, Init, Obs!Init, Obs!SinkInit
<1>2. /\ "subscriptions" \in DOMAIN state /\ "subscriptions" \in DOMAIN snapshot
      /\ DOMAIN state.subscriptions = {} /\ DOMAIN snapshot.subscriptions = {}
  BY <1>1 DEF Obs!DefaultState, Obs!EmptyMap
<1>3. PipelineTypes
  <2>1. queue \in Seq(Emission) /\ <<>> \in Seq(Emission)
    BY <1>1, EmptySeq
  <2>2. emitted \in [Streams -> Seq(Emission)]
    BY <1>1, <2>1
  <2>3. CountsConsumers(state) /\ CountsConsumers(snapshot)
    BY <1>2 DEF CountsConsumers
  <2>4. /\ phase \in [Streams -> {"new", "open", "over"}]
        /\ attached \in [Streams -> Subscriptions \cup {NoSubscription}]
        /\ \A c \in Streams : phase[c] = "open" => attached[c] \in Subscriptions
    BY <1>1
  <2>5. QED
    BY <1>1, <2>1, <2>2, <2>3, <2>4 DEF PipelineTypes
<1>4. \A s : Live(state, s) = 0 /\ Live(snapshot, s) = 0
  BY <1>2 DEF Live, Obs!subscription_mut, Obs!EntryOr, Obs!DefaultSubscription
<1>5. Published
  BY <1>4 DEF Published
<1>6. EndsNear
  <2>1. Len(queue) = 0
    BY <1>1, EmptySeq
  <2> DEFINE w == [i \in 0..0 |-> 0]
  <2>2. w \in [0..0 -> Nat] /\ w[0] = 0
    OBVIOUS
  <2> HIDE DEF w
  <2>3. ASSUME NEW s \in Subscriptions
        PROVE  Forecast(w, s) /\ Near(w[0], s)
    <3>1. Connected(s) = {}
      BY <1>1 DEF Connected
    <3>2. Cardinality(Connected(s)) = 0
      BY <3>1, FS_EmptySet
    <3>3. Near(w[0], s)
      BY <1>1, <2>2, <3>2 DEF Near
    <3>4. Forecast(w, s)
      BY <1>4, <2>1, <2>2 DEF Forecast
    <3>5. QED
      BY <3>3, <3>4
  <2>4. QED
    BY <2>1, <2>2, <2>3 DEF EndsNear
<1>7. QED
  BY <1>3, <1>5, <1>6 DEF PipelineInv

(* Every step keeps the invariant.                                         *)
LEMMA PipelineStep ==
    ASSUME IsFiniteSet(Streams)
    PROVE  PipelineInv /\ [PipelineNext]_pipelineVars => PipelineInv'
<1> SUFFICES ASSUME PipelineInv, [PipelineNext]_pipelineVars
             PROVE  PipelineInv'
  OBVIOUS
<1>1. ASSUME NEW c \in Streams, Report(c) PROVE PipelineInv'
  BY <1>1, StreamKeeps
<1>2. CASE ObserverStep
  BY <1>2, RunKeeps
<1>3. CASE UNCHANGED pipelineVars
  <2>1. UNCHANGED <<phase, attached, emitted, queue, pc, state, snapshot,
                    readers, senders, lost>>
    BY <1>3 DEF pipelineVars, consumerVars, observerVars
  <2>2. PipelineTypes'
    BY <2>1 DEF PipelineInv, PipelineTypes, CountsConsumers
  <2>3. Published'
    BY <2>1 DEF PipelineInv, Published, Live
  <2>4. EndsNear'
    BY <2>1 DEF PipelineInv, EndsNear, Forecast, Near, Live, Connected
  <2>5. QED
    BY <2>2, <2>3, <2>4 DEF PipelineInv
<1>4. QED
  BY <1>1, <1>2, <1>3 DEF PipelineNext

(* The invariant always holds.                                             *)
LEMMA PipelineInvariant ==
    ASSUME IsFiniteSet(Streams)
    PROVE  PipelineSpec => []PipelineInv
<1>1. PipelineInit => PipelineInv
  BY PipelineInitially
<1>2. PipelineInv /\ [PipelineNext]_pipelineVars => PipelineInv'
  BY PipelineStep
<1>3. QED
  BY <1>1, <1>2, PTL DEF PipelineSpec

\* With nothing queued, the forecast is over: its one figure is displayed.
LEMMA SettledIsNear ==
    ASSUME PipelineInv, Settled, NEW s \in Subscriptions
    PROVE  Displayed(s) \in Nat /\ lost \in Nat /\ Near(Displayed(s), s)
<1>1. Len(queue) = 0 /\ pc = "recv"
  BY EmptySeq DEF Settled
<1>2. PICK w \in [0..Len(queue) -> Nat] : Forecast(w, s) /\ Near(w[Len(queue)], s)
  BY DEF PipelineInv, EndsNear
<1>3. w[0] = Live(state, s) /\ w[0] \in Nat /\ Near(w[0], s)
  BY <1>1, <1>2 DEF Forecast
<1>4. Displayed(s) = Live(state, s)
  BY <1>1 DEF PipelineInv, Published, Displayed, Live
<1>5. QED
  BY <1>3, <1>4 DEF PipelineInv, PipelineTypes

(***************************************************************************)
(* "Dropped observations only ever cost a little accuracy"                 *)
(* (src/src/observe/events.rs): whatever the interleaving, the saturating  *)
(* close and the drops put a figure out by at most one per drop.           *)
(***************************************************************************)
THEOREM DropsAreTheOnlyDrift ==
    ASSUME IsFiniteSet(Streams)
    PROVE  PipelineSpec => []DriftIsBounded
<1>1. PipelineInv => DriftIsBounded
  BY SettledIsNear DEF DriftIsBounded, Near
<1>2. QED
  BY <1>1, PipelineInvariant, PTL

-----------------------------------------------------------------------------
(* The panel's total.                                                      *)

\* A state knows finitely many subscriptions.
FewKnown(st) ==
    DOMAIN st.subscriptions \in SUBSET Subscriptions
    /\ IsFiniteSet(DOMAIN st.subscriptions)

KnownInv == FewKnown(state) /\ FewKnown(snapshot)

(* A report makes one more subscription known at most.                     *)
LEMMA ApplyKnown ==
    ASSUME NEW st, CountsConsumers(st), FewKnown(st), NEW o \in Emission, NEW n
    PROVE  FewKnown(Obs!apply(st, o, n))
<1> DEFINE after == Obs!apply(st, o, n)
<1>1. o.subscription \in Subscriptions
  BY EmissionKinds
<1>2. \E sub : after = Obs!SetSubscription(st, o.subscription, sub)
  BY EmissionKinds DEF Obs!apply, Obs!ApplyConsumerOpen, Obs!ApplyConsumerClose,
                       Obs!ApplyDeliver, Obs!ApplyAck
<1> HIDE DEF after
<1>3. DOMAIN after.subscriptions = DOMAIN st.subscriptions \cup {o.subscription}
  <2>1. PICK sub : after = Obs!SetSubscription(st, o.subscription, sub)
    BY <1>2
  <2>2. after.subscriptions = Obs!Put(st.subscriptions, o.subscription, sub)
    BY <2>1 DEF CountsConsumers, Obs!SetSubscription
  <2>3. QED
    BY <2>2 DEF Obs!Put
<1>4. QED
  BY <1>1, <1>3, FS_AddElement, SMTT(60) DEF FewKnown, after

(* Trimming the recent messages leaves the subscriptions alone.            *)
LEMMA TrimKnown ==
    ASSUME NEW st, CountsConsumers(st), FewKnown(st), NEW cap
    PROVE  FewKnown(Obs!trim_recent(st, cap))
<1>1. Obs!trim_recent(st, cap).subscriptions = st.subscriptions
  BY DEF CountsConsumers, Obs!trim_recent
<1>2. QED
  BY <1>1 DEF FewKnown

(* So they stay finite in number.                                          *)
LEMMA KnownStep ==
    ASSUME PipelineInv, KnownInv, [PipelineNext]_pipelineVars
    PROVE  KnownInv'
<1>1. /\ CountsConsumers(state) /\ CountsConsumers(snapshot)
      /\ FewKnown(state) /\ FewKnown(snapshot)
  BY DEF PipelineInv, PipelineTypes, KnownInv
<1>2. CASE Obs!Recv \/ Obs!TryRecv
  <2>1. queue # <<>> /\ UNCHANGED snapshot
    BY <1>2 DEF Obs!Recv, Obs!TryRecv, Obs!take
  <2>2. PICK n : state' = Obs!apply(state, Head(queue), n)
    BY <1>2 DEF Obs!Recv, Obs!TryRecv
  <2>3. FewKnown(state')
    BY <1>1, <2>1, <2>2, QueueHead, ApplyKnown DEF PipelineInv
  <2>4. QED
    BY <1>1, <2>1, <2>3 DEF KnownInv, FewKnown
<1>3. CASE Obs!Publish
  <2>1. \/ UNCHANGED <<state, snapshot>>
        \/ /\ state' = Obs!trim_recent(state, RecentBuffer)
           /\ snapshot' = state' \/ UNCHANGED snapshot
    BY <1>3 DEF Obs!Publish
  <2>2. FewKnown(state') /\ FewKnown(snapshot')
    BY <1>1, <2>1, TrimKnown
  <2>3. QED
    BY <2>2 DEF KnownInv, FewKnown
<1>4. CASE UNCHANGED <<state, snapshot>>
  BY <1>4 DEF KnownInv, FewKnown
<1>5. ASSUME NEW c \in Streams, Report(c) PROVE UNCHANGED <<state, snapshot>>
  BY <1>5 DEF Report, observerVars, Obs!Observe, Obs!taskVars
<1>6. ASSUME ObserverStep
      PROVE  \/ Obs!Recv \/ Obs!TryRecv \/ Obs!Publish
             \/ UNCHANGED <<state, snapshot>>
  BY <1>6 DEF ObserverStep, Obs!Run, Obs!RecvNone, Obs!TryRecvEmpty
<1>7. UNCHANGED pipelineVars => UNCHANGED <<state, snapshot>>
  BY DEF pipelineVars, observerVars
<1>8. QED
  BY <1>2, <1>3, <1>4, <1>5, <1>6, <1>7 DEF PipelineNext

(* At the start none is known.                                             *)
LEMMA KnownInvariant ==
    ASSUME IsFiniteSet(Streams)
    PROVE  PipelineSpec => [](PipelineInv /\ KnownInv)
<1>1. PipelineInit => KnownInv
  <2> SUFFICES ASSUME PipelineInit PROVE KnownInv
    OBVIOUS
  <2>1. /\ snapshot = Obs!DefaultState
        /\ state = [Obs!DefaultState EXCEPT !.recent_buffer_capacity = RecentBuffer]
    BY DEF PipelineInit, Obs!Init
  <2>2. DOMAIN state.subscriptions = {} /\ DOMAIN snapshot.subscriptions = {}
    BY <2>1 DEF Obs!DefaultState, Obs!EmptyMap
  <2>3. QED
    BY <2>2, FS_EmptySet DEF KnownInv, FewKnown
<1>2. PipelineInv /\ KnownInv /\ [PipelineNext]_pipelineVars => KnownInv'
  BY KnownStep
<1>3. QED
  BY <1>1, <1>2, PipelineInvariant, PTL DEF PipelineSpec

\* The same notion under two names.
LEMMA FactsFinite == \A S : Facts!IsFiniteSet(S) <=> IsFiniteSet(S)
BY DEF IsFiniteSet, Facts!IsFiniteSet

(* The panel's figure is the sum of the subscriptions' figures.            *)
LEMMA TotalIsSum ==
    ASSUME NEW st, NEW D, D = DOMAIN st.subscriptions, IsFiniteSet(D),
           NEW g, \A s \in D : g[s] = st.subscriptions[s].live_consumers
    PROVE  Stats!connected_consumers(st) = Facts!SumOf(g, D)
<1> DEFINE Rec(f) ==
      f = [u \in SUBSET D |->
             IF u = {} THEN 0
             ELSE st.subscriptions[CHOOSE x \in u : TRUE].live_consumers
                    + f[u \ {CHOOSE x \in u : TRUE}]]
<1>1. Stats!connected_consumers(st) = (CHOOSE f : Rec(f))[D]
  BY DEF Stats!connected_consumers, Stats!MapThenSumSet, Stats!MapThenFoldSet
<1>2. ASSUME NEW f PROVE Rec(f) <=> Facts!Sums(f, g, D)
  <2>1. \A u \in SUBSET D :
          u # {} => /\ (CHOOSE x \in u : TRUE) \in D
                    /\ Facts!Some(u) = CHOOSE x \in u : TRUE
    BY DEF Facts!Some
  <2>2. \A u \in SUBSET D :
          u # {} => g[Facts!Some(u)]
                      = st.subscriptions[CHOOSE x \in u : TRUE].live_consumers
    BY <2>1
  <2> DEFINE given(u) == IF u = {} THEN 0
               ELSE st.subscriptions[CHOOSE x \in u : TRUE].live_consumers
                      + f[u \ {CHOOSE x \in u : TRUE}]
             summed(u) == IF u = {} THEN 0
               ELSE g[Facts!Some(u)] + f[u \ {Facts!Some(u)}]
  <2>3. \A u \in SUBSET D : given(u) = summed(u)
    <3> SUFFICES ASSUME NEW u \in SUBSET D, u # {} PROVE given(u) = summed(u)
      OBVIOUS
    <3> DEFINE x == CHOOSE y \in u : TRUE
    <3>1. Facts!Some(u) = x /\ g[x] = st.subscriptions[x].live_consumers
      BY <2>1, <2>2
    <3>2. given(u) = st.subscriptions[x].live_consumers + f[u \ {x}]
      OBVIOUS
    <3>3. summed(u) = g[x] + f[u \ {x}]
      BY <3>1
    <3> HIDE DEF x, given, summed
    <3>4. QED
      BY <3>1, <3>2, <3>3
  <2>4. /\ Rec(f) <=> f = [u \in SUBSET D |-> given(u)]
        /\ Facts!Sums(f, g, D) <=> f = [u \in SUBSET D |-> summed(u)]
    BY DEF Facts!Sums
  <2> HIDE DEF given, summed, Rec
  <2>5. [u \in SUBSET D |-> given(u)] = [u \in SUBSET D |-> summed(u)]
    BY <2>3
  <2>6. QED
    BY <2>4, <2>5
<1> HIDE DEF Rec
<1>3. PICK f : Facts!Sums(f, g, D)
  BY FactsFinite, PipelineAssumption, Facts!SumsExist
<1> DEFINE e == CHOOSE h : Rec(h)
<1>4. Rec(e)
  BY <1>2, <1>3
<1>5. Facts!Sums(e, g, D)
  BY <1>2, <1>4
<1> HIDE DEF e
<1>6. Facts!SumOf(g, D) = e[D]
  BY <1>5, FactsFinite, PipelineAssumption, Facts!SumOfSubset
<1>7. QED
  BY <1>1, <1>6 DEF e

(* A stream is connected to one subscription, so that the numbers of them  *)
(* add up.                                                                 *)
LEMMA ConnectedAddUp ==
    ASSUME IsFiniteSet(Streams), NEW D, IsFiniteSet(D),
           NEW g, \A s \in D : g[s] = Cardinality(Connected(s))
    PROVE  Facts!SumOf(g, D) = Cardinality(UNION {Connected(s) : s \in D})
<1> DEFINE All(T) == UNION {Connected(s) : s \in T}
           Good == {T \in SUBSET D : Facts!SumOf(g, T) = Cardinality(All(T))}
<1>1. \A s \in D : g[s] \in Nat /\ IsFiniteSet(Connected(s))
  BY ConnectedFinite
<1>2. \A T : IsFiniteSet(All(T)) /\ Cardinality(All(T)) \in Nat
  <2> SUFFICES ASSUME NEW T
               PROVE IsFiniteSet(All(T)) /\ Cardinality(All(T)) \in Nat
    OBVIOUS
  <2>1. All(T) \in SUBSET Streams
    BY DEF Connected
  <2> HIDE DEF All
  <2>2. IsFiniteSet(All(T))
    BY <2>1, FS_Subset
  <2>3. QED
    BY <2>2, FS_CardinalityType
<1>3. {} \in Good
  <2>1. All({}) = {}
    OBVIOUS
  <2>2. Facts!SumOf(g, {}) = 0
    BY PipelineAssumption, Facts!SumOfNone
  <2>3. Cardinality({}) = 0
    BY FS_EmptySet
  <2>4. QED
    BY <2>1, <2>2, <2>3
<1>4. ASSUME NEW T \in SUBSET D, NEW s \in T, T \ {s} \in Good
      PROVE  T \in Good
  <2> DEFINE rest == T \ {s}
  <2>1. Facts!SumOf(g, rest) = Cardinality(All(rest))
    BY <1>4
  <2>2. All(T) = Connected(s) \cup All(rest) /\ Connected(s) \cap All(rest) = {}
    BY ZenonT(60) DEF Connected
  <2>3. Facts!SumOf(g, T) = g[s] + Facts!SumOf(g, rest)
    BY <1>1, FactsFinite, PipelineAssumption, Facts!SumOneMore
  <2> HIDE DEF rest, All
  <2>4. Cardinality(All(T)) = Cardinality(Connected(s)) + Cardinality(All(rest))
    <3>1. IsFiniteSet(Connected(s)) /\ IsFiniteSet(All(rest))
      BY <1>1, <1>2
    <3>2. Cardinality(Connected(s) \cap All(rest)) = 0
      BY <2>2, FS_EmptySet
    <3>3. Cardinality(Connected(s)) \in Nat /\ Cardinality(All(rest)) \in Nat
      BY <3>1, FS_CardinalityType
    <3>4. Cardinality(Connected(s) \cup All(rest))
            = Cardinality(Connected(s)) + Cardinality(All(rest))
                - Cardinality(Connected(s) \cap All(rest))
      BY <3>1, FS_Union
    <3>5. QED
      BY <2>2, <3>2, <3>3, <3>4
  <2>5. Facts!SumOf(g, T) = Cardinality(All(T))
    BY <2>1, <2>3, <2>4
  <2>6. QED
    BY <2>5 DEF All
<1>5. D \in Good
  <2> HIDE DEF Good
  <2>1. QED
    BY <1>3, <1>4, FactsFinite, PipelineAssumption, Facts!FiniteInduction
<1>6. QED
  BY <1>5

(***************************************************************************)
(* LiveIsConnected: without drops each subscription's live_consumers       *)
(* (apply, src/src/observe/state.rs) is the number of its open streams,    *)
(* and the panel's "Consumers (live)" (statistics, src/src/ui/widgets.rs)  *)
(* is the number of all open streams.                                      *)
(***************************************************************************)
THEOREM NoDropsNoDrift ==
    ASSUME IsFiniteSet(Streams)
    PROVE  PipelineSpec => []LiveIsConnected
<1>1. PipelineInv /\ KnownInv => LiveIsConnected
  <2> SUFFICES ASSUME PipelineInv, KnownInv, Settled, lost = 0
               PROVE  /\ \A s \in Subscriptions :
                           Displayed(s) = Cardinality(Connected(s))
                      /\ Stats!connected_consumers(snapshot)
                           = Cardinality(UNION {Connected(s) : s \in Subscriptions})
    BY DEF LiveIsConnected
  <2>1. ASSUME NEW s \in Subscriptions
        PROVE  Displayed(s) = Cardinality(Connected(s))
    <3>1. Cardinality(Connected(s)) \in Nat
      BY ConnectedFinite
    <3>2. QED
      BY <3>1, SettledIsNear DEF Near
  <2> DEFINE D == DOMAIN snapshot.subscriptions
             g == [s \in D |-> snapshot.subscriptions[s].live_consumers]
  <2>2. D \in SUBSET Subscriptions /\ IsFiniteSet(D)
    BY DEF KnownInv, FewKnown
  <2>3. \A s \in D : g[s] = snapshot.subscriptions[s].live_consumers
    OBVIOUS
  <2>4. \A s : Displayed(s) = IF s \in D THEN snapshot.subscriptions[s].live_consumers
                                         ELSE 0
    BY DEF Displayed, Obs!subscription_mut, Obs!EntryOr, Obs!DefaultSubscription
  <2>5. \A s \in D : g[s] = Cardinality(Connected(s))
    BY <2>1, <2>2, <2>4
  <2>6. \A s \in Subscriptions \ D : Connected(s) = {}
    <3> SUFFICES ASSUME NEW s \in Subscriptions \ D PROVE Connected(s) = {}
      OBVIOUS
    <3>1. Cardinality(Connected(s)) = 0
      BY <2>1, <2>4
    <3>2. QED
      BY <3>1, ConnectedFinite, FS_EmptySet
  <2>7. UNION {Connected(s) : s \in D} = UNION {Connected(s) : s \in Subscriptions}
    BY <2>2, <2>6
  <2>8. D = DOMAIN snapshot.subscriptions
    OBVIOUS
  <2> HIDE DEF D, g
  <2>9. Stats!connected_consumers(snapshot) = Facts!SumOf(g, D)
    BY <2>2, <2>3, <2>8, TotalIsSum
  <2>10. Facts!SumOf(g, D) = Cardinality(UNION {Connected(s) : s \in D})
    BY <2>2, <2>5, ConnectedAddUp
  <2>11. QED
    BY <2>1, <2>7, <2>9, <2>10
<1>2. QED
  BY <1>1, KnownInvariant, PTL
=============================================================================
