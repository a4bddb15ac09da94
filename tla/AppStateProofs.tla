--------------------------- MODULE AppStateProofs ---------------------------
(***************************************************************************)
(* Lemmas about AppState and the sink that the proofs of the components    *)
(* that use them share: what each arm of AppState::apply, trim_recent,     *)
(* observe and the receiver's operations do to the types; and about sums,  *)
(* of which the panel's figures are made.                                  *)
(***************************************************************************)
EXTENDS AppState, Folds, SequenceTheorems, FiniteSetTheorems,
        WellFoundedInduction, TLAPS

-----------------------------------------------------------------------------
(* Type correctness.                                                       *)

(* AppState::default() is a well-formed state.                             *)
LEMMA DefaultStateType == IsAppState(DefaultState)
BY DEF IsAppState, IsMap, DefaultState, EmptyMap

(* Setting an entry of a map keeps the map's type, for each kind of map.   *)
LEMMA PutPublisher ==
    ASSUME NEW map, IsMap(map, PeerKeys, IsPublisher),
           NEW key \in PeerKeys, NEW value, IsPublisher(value)
    PROVE  IsMap(Put(map, key, value), PeerKeys, IsPublisher)
BY DEF IsMap, Put

(* The same for the map of topics.                                         *)
LEMMA PutTopic ==
    ASSUME NEW map, IsMap(map, Topics, IsTopic),
           NEW key \in Topics, NEW value, IsTopic(value)
    PROVE  IsMap(Put(map, key, value), Topics, IsTopic)
BY DEF IsMap, Put

(* The same for the map of subscriptions.                                  *)
LEMMA PutSubscription ==
    ASSUME NEW map, IsMap(map, Subscriptions, IsSubscription),
           NEW key \in Subscriptions, NEW value, IsSubscription(value)
    PROVE  IsMap(Put(map, key, value), Subscriptions, IsSubscription)
BY DEF IsMap, Put

(* The entry that topic_mut or subscription_mut hands out.                 *)
LEMMA TopicMutType ==
    ASSUME NEW s, IsAppState(s), NEW name
    PROVE  IsTopic(topic_mut(s, name))
<1>1. IsTopic(DefaultTopic)
  BY DEF IsTopic, IsMap, DefaultTopic, EmptyMap
<1>2. name \in DOMAIN s.topics => IsTopic(s.topics[name])
  BY DEF IsAppState, IsMap
<1>3. QED
  BY <1>1, <1>2 DEF topic_mut, EntryOr

(* The same for subscription_mut.                                          *)
LEMMA SubscriptionMutType ==
    ASSUME NEW s, IsAppState(s), NEW name
    PROVE  subscription_mut(s, name) \in Subscription
<1>1. DefaultSubscription \in Subscription
  BY DEF Subscription, DefaultSubscription
<1>2. name \in DOMAIN s.subscriptions => s.subscriptions[name] \in Subscription
  BY DEF IsAppState, IsMap, IsSubscription
<1>3. QED
  BY <1>1, <1>2 DEF subscription_mut, EntryOr

(* Replacing one subscription keeps the state well formed.                 *)
LEMMA SetSubscriptionType ==
    ASSUME NEW s, IsAppState(s), NEW name \in Subscriptions,
           NEW sub \in Subscription
    PROVE  IsAppState(SetSubscription(s, name, sub))
<1> DEFINE subs == Put(s.subscriptions, name, sub)
<1>1. IsMap(subs, Subscriptions, IsSubscription)
  BY PutSubscription DEF IsAppState, IsSubscription
<1>2. SetSubscription(s, name, sub) =
        [topics |-> s.topics, subscriptions |-> subs,
         recent_messages |-> s.recent_messages,
         recent_buffer_capacity |-> s.recent_buffer_capacity,
         next_seq |-> s.next_seq]
  <2> HIDE DEF subs
  <2>1. SetSubscription(s, name, sub) = [s EXCEPT !.subscriptions = subs]
    BY DEF SetSubscription, subs
  <2>2. QED
    BY <2>1 DEF IsAppState
<1>3. QED
  <2> HIDE DEF subs
  <2> QED BY <1>1, <1>2 DEF IsAppState

(* Counting a Publish keeps a topic's entry well formed.                   *)
LEMMA CountPublishType ==
    ASSUME NEW entry, IsTopic(entry), NEW peer \in Peers \cup {NoPeer},
           NEW count \in Nat, NEW now_ \in Nat
    PROVE  IsTopic(CountPublish(entry, peer, count, now_))
<1> DEFINE key == peer_key(peer)
           before == EntryOr(entry.publishers, key,
                             [published |-> 0, last_seen |-> now_])
           publisher == [published |-> before.published + count,
                         last_seen |-> now_]
           publishers == Put(entry.publishers, key, publisher)
<1>1. key \in PeerKeys
  BY DEF peer_key, PeerKeys
<1>2. before \in Publisher
  BY DEF EntryOr, IsTopic, IsMap, IsPublisher, Publisher
<1>3. IsPublisher(publisher)
  BY <1>2 DEF Publisher, IsPublisher
<1>4. IsMap(publishers, PeerKeys, IsPublisher)
  <2> HIDE DEF key, publisher
  <2> QED BY <1>1, <1>3, PutPublisher DEF IsTopic
<1>5. CountPublish(entry, peer, count, now_) =
        [exists |-> entry.exists,
         publish_count |-> entry.publish_count + count,
         publishers |-> publishers]
  <2> DEFINE pubs == publishers
  <2>1. CountPublish(entry, peer, count, now_) =
          [entry EXCEPT !.publish_count = @ + count, !.publishers = pubs]
    BY DEF CountPublish
  <2> HIDE DEF pubs, publishers
  <2>2. pubs = publishers
    BY DEF pubs
  <2>3. QED
    BY <2>1, <2>2 DEF IsTopic
<1>6. QED
  <2> HIDE DEF publishers
  <2> QED BY <1>4, <1>5 DEF IsTopic

(* What push_recent leaves in the buffer: the old entries, then one per    *)
(* message, numbered from next_seq.                                        *)
LEMMA NewEntriesProperties ==
    ASSUME NEW s, IsAppState(s), NEW topic \in Topics,
           NEW messages \in Seq(Messages), NEW now_ \in Nat
    PROVE  LET new == NewEntries(s, topic, messages, now_)
           IN  /\ new \in Seq(RecentMessage)
               /\ Len(new) = Len(messages)
               /\ \A i \in 1..Len(messages) : new[i].seq = s.next_seq + i - 1
<1> DEFINE new == NewEntries(s, topic, messages, now_)
<1>1. \A i \in 1..Len(messages) : new[i] \in RecentMessage
  BY ElementOfSeq DEF NewEntries, IsAppState, RecentMessage
<1>2. new \in Seq(RecentMessage) /\ Len(new) = Len(messages)
  <2>1. Len(messages) \in Nat /\ new = [i \in 1..Len(messages) |-> new[i]]
    BY LenProperties DEF NewEntries
  <2> HIDE DEF new
  <2>2. QED
    BY <1>1, <2>1
<1>3. \A i \in 1..Len(messages) : new[i].seq = s.next_seq + i - 1
  BY DEF NewEntries
<1>4. QED
  BY <1>2, <1>3

(* push_recent keeps the state well formed.                                *)
LEMMA PushRecentType ==
    ASSUME NEW s, IsAppState(s), NEW topic \in Topics,
           NEW messages \in Seq(Messages), NEW now_ \in Nat
    PROVE  IsAppState(push_recent(s, topic, messages, now_))
<1> DEFINE new == NewEntries(s, topic, messages, now_)
           recent == s.recent_messages \o new
<1>1. recent \in Seq(RecentMessage)
  BY NewEntriesProperties, ConcatProperties DEF IsAppState
<1>2. Len(messages) \in Nat
  BY LenProperties
<1>3. push_recent(s, topic, messages, now_) =
        [topics |-> s.topics, subscriptions |-> s.subscriptions,
         recent_messages |-> recent,
         recent_buffer_capacity |-> s.recent_buffer_capacity,
         next_seq |-> s.next_seq + Len(messages)]
  <2>1. push_recent(s, topic, messages, now_) =
          [s EXCEPT !.recent_messages = recent, !.next_seq = @ + Len(messages)]
    BY DEF push_recent
  <2> HIDE DEF recent
  <2>2. QED
    BY <2>1 DEF IsAppState
<1>4. QED
  <2> HIDE DEF recent
  <2> QED BY <1>1, <1>2, <1>3 DEF IsAppState

(* The Publish arm of apply keeps the state well formed.                   *)
LEMMA ApplyPublishType ==
    ASSUME NEW s, IsAppState(s), NEW now_ \in Nat, NEW o,
           o.topic \in Topics, o.peer \in Peers \cup {NoPeer},
           o.messages \in Seq(Messages)
    PROVE  IsAppState(ApplyPublish(s, o, now_))
<1> DEFINE entry == CountPublish(topic_mut(s, o.topic), o.peer,
                                 Len(o.messages), now_)
           topics == Put(s.topics, o.topic, entry)
           counted == [s EXCEPT !.topics = topics]
<1>1. IsTopic(entry)
  BY TopicMutType, CountPublishType, LenProperties
<1>2. IsMap(topics, Topics, IsTopic)
  <2> HIDE DEF entry
  <2> QED BY <1>1, PutTopic DEF IsAppState
<1>3. IsAppState(counted)
  <2> HIDE DEF topics
  <2>1. counted = [topics |-> topics, subscriptions |-> s.subscriptions,
                   recent_messages |-> s.recent_messages,
                   recent_buffer_capacity |-> s.recent_buffer_capacity,
                   next_seq |-> s.next_seq]
    BY DEF IsAppState
  <2> HIDE DEF counted
  <2> QED BY <1>2, <2>1 DEF IsAppState
<1>4. ApplyPublish(s, o, now_) = push_recent(counted, o.topic, o.messages, now_)
  BY DEF ApplyPublish
<1>5. QED
  <2> HIDE DEF counted
  <2> QED BY <1>3, <1>4, PushRecentType

(* So do the Deliver and Ack arms.                                         *)
LEMMA ApplyMovementType ==
    ASSUME NEW s, IsAppState(s), NEW o,
           o.subscription \in Subscriptions, o.messages \in Nat
    PROVE  /\ IsAppState(ApplyDeliver(s, o))
           /\ IsAppState(ApplyAck(s, o))
<1> DEFINE sub == subscription_mut(s, o.subscription)
<1>1. sub \in Subscription
  BY SubscriptionMutType
<1>2. /\ [sub EXCEPT !.delivered = @ + o.messages] \in Subscription
      /\ [sub EXCEPT !.acked = @ + o.messages] \in Subscription
  <2> HIDE DEF sub
  <2> QED BY <1>1 DEF Subscription
<1>3. QED
  BY <1>2, SetSubscriptionType DEF ApplyDeliver, ApplyAck

(* So do the ConsumerOpen and ConsumerClose arms: the saturating           *)
(* subtraction stays in Nat.                                               *)
LEMMA ApplyConnectionType ==
    ASSUME NEW s, IsAppState(s), NEW o, o.subscription \in Subscriptions
    PROVE  /\ IsAppState(ApplyConsumerOpen(s, o))
           /\ IsAppState(ApplyConsumerClose(s, o))
<1> DEFINE sub == subscription_mut(s, o.subscription)
<1>1. sub \in Subscription
  BY SubscriptionMutType
<1>2. /\ [sub EXCEPT !.live_consumers = @ + 1] \in Subscription
      /\ [sub EXCEPT !.live_consumers = IF @ = 0 THEN 0 ELSE @ - 1]
            \in Subscription
  <2> HIDE DEF sub
  <2> QED BY <1>1 DEF Subscription
<1>3. QED
  BY <1>2, SetSubscriptionType DEF ApplyConsumerOpen, ApplyConsumerClose

(* So does apply_admin.                                                    *)
LEMMA ApplyAdminType ==
    ASSUME NEW s, IsAppState(s), NEW topics \in SUBSET Topics,
           NEW subscriptions \in MapOf(Subscriptions, Topics)
    PROVE  IsAppState(apply_admin(s, topics, subscriptions))
<1> DEFINE marked == [t \in DOMAIN s.topics \cup topics |->
                        [topic_mut(s, t) EXCEPT !.exists = t \in topics]]
           parented == [c \in DOMAIN s.subscriptions \cup DOMAIN subscriptions |->
                          [subscription_mut(s, c) EXCEPT
                              !.exists = c \in DOMAIN subscriptions,
                              !.topic = EntryOr(subscriptions, c, @)]]
<1>1. /\ DOMAIN subscriptions \subseteq Subscriptions
      /\ \A c \in DOMAIN subscriptions : subscriptions[c] \in Topics
  BY DEF MapOf
<1>2. IsMap(marked, Topics, IsTopic)
  <2>1. \A t \in DOMAIN marked : IsTopic(marked[t])
    <3> SUFFICES ASSUME NEW t \in DOMAIN marked PROVE IsTopic(marked[t])
      OBVIOUS
    <3> DEFINE entry == topic_mut(s, t)
    <3>1. IsTopic(entry)
      BY TopicMutType
    <3>2. marked[t] = [entry EXCEPT !.exists = t \in topics]
      OBVIOUS
    <3> HIDE DEF entry, marked
    <3>3. marked[t] = [exists |-> t \in topics,
                       publish_count |-> entry.publish_count,
                       publishers |-> entry.publishers]
      BY <3>1, <3>2 DEF IsTopic
    <3>4. QED
      BY <3>1, <3>3 DEF IsTopic
  <2>2. DOMAIN marked \subseteq Topics
    BY DEF IsAppState, IsMap
  <2>3. marked = [t \in DOMAIN marked |-> marked[t]]
    OBVIOUS
  <2> HIDE DEF marked
  <2> QED BY <2>1, <2>2, <2>3 DEF IsMap
<1>3. IsMap(parented, Subscriptions, IsSubscription)
  <2>1. \A c \in DOMAIN parented : IsSubscription(parented[c])
    <3> SUFFICES ASSUME NEW c \in DOMAIN parented PROVE IsSubscription(parented[c])
      OBVIOUS
    <3> DEFINE entry == subscription_mut(s, c)
               parent == EntryOr(subscriptions, c, entry.topic)
    <3>1. entry \in Subscription
      BY SubscriptionMutType
    <3>2. parent \in Topics \cup {NoTopic}
      <4> HIDE DEF entry
      <4> QED BY <1>1, <3>1 DEF EntryOr, Subscription
    <3>3. parented[c] = [entry EXCEPT !.exists = c \in DOMAIN subscriptions,
                                      !.topic = parent]
      OBVIOUS
    <3> HIDE DEF entry, parent, parented
    <3>4. parented[c] = [exists |-> c \in DOMAIN subscriptions,
                         topic |-> parent,
                         delivered |-> entry.delivered,
                         acked |-> entry.acked,
                         live_consumers |-> entry.live_consumers]
      BY <3>1, <3>3 DEF Subscription
    <3>5. (c \in DOMAIN subscriptions) \in BOOLEAN
      OBVIOUS
    <3>6. QED
      BY <3>1, <3>2, <3>4, <3>5 DEF IsSubscription, Subscription
  <2>2. DOMAIN parented \subseteq Subscriptions
    BY <1>1 DEF IsAppState, IsMap
  <2>3. parented = [c \in DOMAIN parented |-> parented[c]]
    OBVIOUS
  <2> HIDE DEF parented
  <2> QED BY <2>1, <2>2, <2>3 DEF IsMap
<1>4. apply_admin(s, topics, subscriptions) =
        [s EXCEPT !.topics = marked, !.subscriptions = parented]
  BY DEF apply_admin, IsAppState
<1>5. QED
  <2> HIDE DEF marked, parented
  <2>1. apply_admin(s, topics, subscriptions) =
          [topics |-> marked, subscriptions |-> parented,
           recent_messages |-> s.recent_messages,
           recent_buffer_capacity |-> s.recent_buffer_capacity,
           next_seq |-> s.next_seq]
    BY <1>4 DEF IsAppState
  <2>2. QED
    BY <1>2, <1>3, <2>1 DEF IsAppState

(* Hence apply keeps the state well formed, whatever was observed.         *)
LEMMA ApplyType ==
    ASSUME NEW s, IsAppState(s), NEW o \in Observation, NEW now_ \in Nat
    PROVE  IsAppState(apply(s, o, now_))
<1>1. CASE o.kind = "Publish"
  <2>1. /\ o.topic \in Topics /\ o.peer \in Peers \cup {NoPeer}
        /\ o.messages \in Seq(Messages)
    BY <1>1 DEF Observation
  <2>2. QED
    BY <1>1, <2>1, ApplyPublishType DEF apply
<1>2. CASE o.kind \in {"Deliver", "Ack"}
  <2>1. o.subscription \in Subscriptions /\ o.messages \in Nat
    BY <1>2 DEF Observation
  <2>2. QED
    BY <1>2, <2>1, ApplyMovementType DEF apply
<1>3. CASE o.kind \in {"ConsumerOpen", "ConsumerClose"}
  <2>1. o.subscription \in Subscriptions
    BY <1>3 DEF Observation
  <2>2. QED
    BY <1>3, <2>1, ApplyConnectionType DEF apply
<1>4. CASE o.kind = "AdminSnapshot"
  <2>1. /\ o.topics \in SUBSET Topics
        /\ o.subscriptions \in MapOf(Subscriptions, Topics)
    BY <1>4 DEF Observation
  <2>2. QED
    BY <1>4, <2>1, ApplyAdminType DEF apply
<1>5. QED
  BY <1>1, <1>2, <1>3, <1>4 DEF Observation


(* The last n entries of a sequence, as SubSeq takes them.                 *)
LEMMA LastEntries ==
    ASSUME NEW S, NEW q \in Seq(S), NEW k \in Nat, k < Len(q)
    PROVE  LET last == SubSeq(q, Len(q) - k + 1, Len(q))
           IN  /\ last \in Seq(S)
               /\ Len(last) = k
               /\ \A i \in 1..k : last[i] = q[Len(q) - k + i]
<1> DEFINE m == Len(q) - k + 1
           n == Len(q)
<1>1. n \in Nat
  BY LenProperties
<1>2. m \in Int /\ n \in Int /\ m \in 1..(n + 1) /\ n - m + 1 = k
  BY <1>1
<1>3. \A i \in m..n : q[i] \in S
  BY <1>1, <1>2, ElementOfSeq
<1>4. /\ SubSeq(q, m, n) \in Seq(S)
      /\ Len(SubSeq(q, m, n)) = IF m <= n THEN n - m + 1 ELSE 0
      /\ \A i \in 1..(n - m + 1) : SubSeq(q, m, n)[i] = q[m + i - 1]
  <2> HIDE DEF m, n
  <2> QED BY <1>2, <1>3, SubSeqProperties, SMTT(60)
<1>5. \A i \in 1..k : m + i - 1 = n - k + i
  BY <1>1
<1>6. QED
  BY <1>1, <1>2, <1>4, <1>5

(* Trimming keeps the last cap entries, in order, and nothing else changes *)
(* as far as the buffer is concerned.                                      *)
LEMMA TrimRecentProperties ==
    ASSUME NEW s, IsAppState(s), NEW cap \in Nat
    PROVE  LET t   == trim_recent(s, cap)
               old == s.recent_messages
               new == t.recent_messages
           IN  /\ IsAppState(t)
               /\ t.next_seq = s.next_seq
               /\ Len(new) = IF Len(old) > cap THEN cap ELSE Len(old)
               /\ \A i \in 1..Len(new) : new[i] = old[Len(old) - Len(new) + i]
<1> DEFINE old == s.recent_messages
           new == IF Len(old) > cap
                    THEN SubSeq(old, Len(old) - cap + 1, Len(old)) ELSE old
<1>1. old \in Seq(RecentMessage) /\ Len(old) \in Nat
  BY LenProperties DEF IsAppState
<1>2. /\ new \in Seq(RecentMessage)
      /\ Len(new) = IF Len(old) > cap THEN cap ELSE Len(old)
      /\ \A i \in 1..Len(new) : new[i] = old[Len(old) - Len(new) + i]
  <2>1. CASE Len(old) > cap
    <3>1. new = SubSeq(old, Len(old) - cap + 1, Len(old))
      BY <2>1
    <3> HIDE DEF old, new
    <3>2. /\ new \in Seq(RecentMessage)
          /\ Len(new) = cap
          /\ \A i \in 1..cap : new[i] = old[Len(old) - cap + i]
      BY <1>1, <2>1, <3>1, LastEntries, ZenonT(60)
    <3>3. QED
      BY <2>1, <3>2
  <2>2. CASE ~(Len(old) > cap)
    <3>1. new = old
      BY <2>2
    <3> HIDE DEF old, new
    <3>2. QED
      BY <1>1, <2>2, <3>1
  <2>3. QED
    BY <2>1, <2>2
<1>3. trim_recent(s, cap) = [s EXCEPT !.recent_messages = new]
  BY DEF trim_recent
<1>4. QED
  <2> HIDE DEF new
  <2>1. trim_recent(s, cap) =
          [topics |-> s.topics, subscriptions |-> s.subscriptions,
           recent_messages |-> new,
           recent_buffer_capacity |-> s.recent_buffer_capacity,
           next_seq |-> s.next_seq]
    BY <1>3 DEF IsAppState
  <2>2. QED
    BY <1>2, <2>1, SMTT(30) DEF IsAppState

(* observe keeps the channel well typed and within its capacity.           *)
LEMMA ObserveType ==
    ASSUME SinkTypeOK, NEW o \in Observation, observe(o)
    PROVE  SinkTypeOK'
<1>1. queue \in Seq(Observation) /\ Len(queue) \in Nat
  BY LenProperties DEF SinkTypeOK
<1>2. CASE Accepts
  <2>1. queue' = Append(queue, o)
    BY <1>2 DEF observe
  <2>2. queue' \in Seq(Observation) /\ Len(queue') = Len(queue) + 1
    BY <1>1, <2>1, AppendProperties
  <2>3. QED
    BY <1>1, <1>2, <2>2, SinkAssumption DEF SinkTypeOK, Accepts, observe
<1>3. CASE ~Accepts
  BY <1>3 DEF SinkTypeOK, observe
<1>4. QED
  BY <1>2, <1>3

(* So does taking from it, and what is taken is an observation.            *)
LEMMA TakeType ==
    ASSUME SinkTypeOK, take
    PROVE  SinkTypeOK' /\ Head(queue) \in Observation
<1>1. /\ queue \in Seq(Observation) /\ queue # <<>> /\ queue' = Tail(queue)
      /\ Len(queue) \in Nat
  BY LenProperties DEF SinkTypeOK, take
<1>2. /\ Head(queue) \in Observation
      /\ queue' \in Seq(Observation)
      /\ Len(queue') = Len(queue) - 1
  BY <1>1, HeadTailProperties
<1>3. QED
  BY <1>1, <1>2, SinkAssumption DEF SinkTypeOK, take

(* So does dropping its receiver.                                          *)
LEMMA CloseType ==
    ASSUME SinkTypeOK, closeReceiver
    PROVE  SinkTypeOK'
<1>1. <<>> \in Seq(Observation) /\ Len(<<>>) = 0
  BY EmptySeq, Zenon
<1>2. queue' \in Seq(Observation) /\ Len(queue') = 0
  BY <1>1 DEF closeReceiver
<1>3. 0 <= ChannelCapacity
  BY SinkAssumption
<1>4. Len(queue') <= ChannelCapacity
  BY <1>2, <1>3
<1>5. receiving' \in BOOLEAN
  BY DEF closeReceiver
<1>6. QED
  BY <1>2, <1>4, <1>5 DEF SinkTypeOK

-----------------------------------------------------------------------------
(***************************************************************************)
(* Sums over finite sets.  A sum is the value of a recursive function on   *)
(* the subsets.  That there is one, and what it adds up to, is shown by    *)
(* way of a least counterexample (LeastSubset).                            *)
(***************************************************************************)
SumOf(g, S) ==
    MapThenFoldSet(+, 0, LAMBDA x : g[x], LAMBDA s : CHOOSE x \in s : TRUE, S)

Some(s) == CHOOSE x \in s : TRUE

Sums(f, g, S) ==
    f = [s \in SUBSET S |-> IF s = {} THEN 0 ELSE g[Some(s)] + f[s \ {Some(s)}]]

(* The sum is where the recursion ends.                                    *)
LEMMA SumOfIs ==
    ASSUME NEW g, NEW S
    PROVE  SumOf(g, S) = (CHOOSE f : Sums(f, g, S))[S]
BY DEF SumOf, Sums, Some, MapThenFoldSet

(* The recursion has a solution: one for subsets of up to n elements gives *)
(* one for subsets of n + 1.                                               *)
LEMMA SumsExist ==
    ASSUME NEW S, IsFiniteSet(S), NEW g
    PROVE  \E f : Sums(f, g, S)
<1> DEFINE Upto(n) == {s \in SUBSET S : Cardinality(s) <= n}
           Solves(f, n) ==
             f = [s \in Upto(n) |-> IF s = {} THEN 0 ELSE g[Some(s)] + f[s \ {Some(s)}]]
           missing == {n \in Nat : ~ \E f : Solves(f, n)}
<1>1. \A s \in SUBSET S : /\ Cardinality(s) \in Nat
                          /\ Cardinality(s) <= Cardinality(S)
                          /\ s # {} => /\ Some(s) \in s
                                       /\ s \ {Some(s)} \in SUBSET S
                                       /\ Cardinality(s \ {Some(s)}) = Cardinality(s) - 1
  <2> SUFFICES ASSUME NEW s \in SUBSET S
               PROVE  /\ Cardinality(s) \in Nat
                      /\ Cardinality(s) <= Cardinality(S)
                      /\ s # {} => /\ Some(s) \in s
                                   /\ s \ {Some(s)} \in SUBSET S
                                   /\ Cardinality(s \ {Some(s)}) = Cardinality(s) - 1
    OBVIOUS
  <2>1. IsFiniteSet(s) /\ Cardinality(s) <= Cardinality(S)
    BY FS_Subset
  <2>2. Cardinality(s) \in Nat
    BY <2>1, FS_CardinalityType
  <2>3. s # {} => Some(s) \in s
    BY DEF Some
  <2>4. s # {} => Cardinality(s \ {Some(s)}) = Cardinality(s) - 1
    BY <2>1, <2>3, FS_RemoveElement
  <2>5. QED
    BY <2>1, <2>2, <2>3, <2>4
<1>2. missing = {}
  <2>0. SUFFICES ASSUME missing # {} PROVE FALSE
    OBVIOUS
  <2>1. PICK n \in Nat : /\ ~ \E f : Solves(f, n)
                         /\ \A m \in Nat : m < n => \E f : Solves(f, m)
    <3>1. missing \subseteq Nat
      OBVIOUS
    <3>2. PICK n \in missing : \A m \in missing : <<m, n>> \notin OpToRel(<, Nat)
      <4> HIDE DEF missing
      <4>1. QED
        BY <2>0, <3>1, WFMin, NatLessThanWellFounded, Zenon
    <3>3. \A m \in missing : ~ (m < n)
      BY <3>2 DEF OpToRel
    <3>4. QED
      BY <3>3
  <2>2. CASE n = 0
    <3> DEFINE f == [s \in Upto(0) |-> 0]
    <3>1. \A s \in Upto(0) : s = {}
      <4> SUFFICES ASSUME NEW s \in SUBSET S, Cardinality(s) <= 0 PROVE s = {}
        OBVIOUS
      <4>1. IsFiniteSet(s) /\ Cardinality(s) = 0
        BY <1>1, FS_Subset, FS_CardinalityType
      <4>2. QED
        BY <4>1, FS_EmptySet
    <3>2. Solves(f, 0)
      BY <3>1
    <3>3. QED
      BY <2>1, <2>2, <3>2
  <2>3. CASE n # 0
    <3>1. n - 1 \in Nat /\ n - 1 < n
      BY <2>3
    <3>2. PICK f : Solves(f, n - 1)
      BY <2>1, <3>1
    <3> DEFINE h == [s \in Upto(n) |-> IF s = {} THEN 0 ELSE g[Some(s)] + f[s \ {Some(s)}]]
    <3>3. \A s \in Upto(n - 1) : s \in Upto(n) /\ h[s] = f[s]
      <4>1. ASSUME NEW s \in SUBSET S, Cardinality(s) <= n - 1
            PROVE  Cardinality(s) <= n
        <5>1. Cardinality(s) \in Nat
          BY <1>1
        <5>2. QED
          BY <3>1, <4>1, <5>1
      <4>2. \A s \in Upto(n - 1) : f[s] = IF s = {} THEN 0 ELSE g[Some(s)] + f[s \ {Some(s)}]
        BY <3>2
      <4>3. QED
        BY <4>1, <4>2
    <3>4. \A s \in Upto(n) : s # {} => s \ {Some(s)} \in Upto(n - 1)
      BY <1>1, <3>1
    <3>5. h = [s \in Upto(n) |-> IF s = {} THEN 0 ELSE g[Some(s)] + h[s \ {Some(s)}]]
      <4> SUFFICES ASSUME NEW s \in Upto(n), s # {}
                   PROVE f[s \ {Some(s)}] = h[s \ {Some(s)}]
        OBVIOUS
      <4> HIDE DEF h
      <4>1. QED
        BY <3>3, <3>4
    <3>6. QED
      BY <2>1, <3>5
  <2>4. QED
    BY <2>2, <2>3
<1>3. PICK f : Solves(f, Cardinality(S))
  BY <1>1, <1>2, ZenonT(60)
<1>4. Upto(Cardinality(S)) = SUBSET S
  BY <1>1
<1>5. QED
  BY <1>3, <1>4 DEF Sums

(* A set of natural numbers that is not empty has a least element.         *)
LEMMA LeastNumber ==
    ASSUME NEW K, K \subseteq Nat, K # {}
    PROVE  \E k \in K : \A j \in K : k <= j
<1>1. PICK k \in K : \A j \in K : <<j, k>> \notin OpToRel(<, Nat)
  BY WFMin, NatLessThanWellFounded, Zenon
<1>2. \A j \in K : ~ (j < k)
  BY <1>1 DEF OpToRel
<1>3. QED
  BY <1>2

(* Of the subsets of a finite set that have some property, one is least.   *)
LEMMA LeastSubset ==
    ASSUME NEW S, IsFiniteSet(S), NEW bad, bad \subseteq SUBSET S, bad # {}
    PROVE  \E T \in bad : \A U \in bad : ~(U \subseteq T /\ U # T)
<1>1. IsWellFoundedOn(StrictSubsetOrdering(S), FiniteSubsetsOf(S))
  BY FS_StrictSubsetOrderingWellFounded
<1>2. bad \subseteq FiniteSubsetsOf(S)
  BY FS_FiniteSubsetsOfFinite, Zenon
<1>3. PICK T \in bad : \A U \in bad : <<U, T>> \notin StrictSubsetOrdering(S)
  BY <1>1, <1>2, WFMin, Zenon
<1>4. \A U \in bad : ~(U \subseteq T /\ U # T)
  BY <1>3 DEF StrictSubsetOrdering
<1>5. QED
  BY <1>4

(* A set of subsets that has the empty set, and with a set without one of  *)
(* its elements also the set itself, has the whole.                        *)
LEMMA FiniteInduction ==
    ASSUME NEW S, IsFiniteSet(S), NEW Good, {} \in Good,
           \A T \in SUBSET S : \A x \in T : T \ {x} \in Good => T \in Good
    PROVE  S \in Good
<1> DEFINE bad == (SUBSET S) \ Good
<1>1. SUFFICES ASSUME bad # {} PROVE FALSE
  OBVIOUS
<1>2. PICK T \in bad : \A U \in bad : ~(U \subseteq T /\ U # T)
  <2>1. bad \subseteq SUBSET S
    OBVIOUS
  <2> HIDE DEF bad
  <2>2. QED
    BY <1>1, <2>1, LeastSubset
<1>3. PICK x \in T : TRUE
  OBVIOUS
<1>4. T \ {x} \in Good
  BY <1>2, <1>3
<1>5. QED
  BY <1>3, <1>4

(* The recursion determines the sum.                                       *)
LEMMA SumsAgree ==
    ASSUME NEW S, IsFiniteSet(S), NEW T \in SUBSET S, NEW g, NEW h,
           \A x \in T : g[x] = h[x],
           NEW f, Sums(f, g, S), NEW e, Sums(e, h, T)
    PROVE  f[T] = e[T]
<1> DEFINE bad == {U \in SUBSET T : f[U] # e[U]}
<1>0. SUFFICES ASSUME bad # {} PROVE FALSE
  OBVIOUS
<1>1. PICK U \in SUBSET T : /\ f[U] # e[U]
                            /\ \A V \in SUBSET T : V \subseteq U /\ V # U => f[V] = e[V]
  <2>1. IsFiniteSet(T) /\ bad \subseteq SUBSET T
    BY FS_Subset
  <2>2. PICK U \in bad : \A V \in bad : ~(V \subseteq U /\ V # U)
    <3> HIDE DEF bad
    <3>1. QED
      BY <1>0, <2>1, LeastSubset
  <2>3. QED
    BY <2>2
<1>2. U \in SUBSET S
  OBVIOUS
<1>3. /\ f[U] = IF U = {} THEN 0 ELSE g[Some(U)] + f[U \ {Some(U)}]
      /\ e[U] = IF U = {} THEN 0 ELSE h[Some(U)] + e[U \ {Some(U)}]
  BY <1>2 DEF Sums
<1>4. CASE U = {}
  BY <1>1, <1>3, <1>4
<1>5. CASE U # {}
  <2>1. Some(U) \in U
    BY <1>5 DEF Some
  <2>2. f[U \ {Some(U)}] = e[U \ {Some(U)}] /\ g[Some(U)] = h[Some(U)]
    BY <1>1, <2>1
  <2>3. QED
    BY <1>1, <1>3, <1>5, <2>2
<1>6. QED
  BY <1>4, <1>5

(* A solution of the recursion for a set gives the sums of its subsets.    *)
LEMMA SumOfSubset ==
    ASSUME NEW S, IsFiniteSet(S), NEW T \in SUBSET S, NEW g, NEW h,
           \A x \in T : g[x] = h[x], NEW f, Sums(f, g, S)
    PROVE  SumOf(h, T) = f[T]
<1>1. IsFiniteSet(T)
  BY FS_Subset
<1>2. PICK e : Sums(e, h, T)
  BY <1>1, SumsExist
<1>3. Sums(CHOOSE d : Sums(d, h, T), h, T)
  BY <1>2
<1> DEFINE d == CHOOSE d : Sums(d, h, T)
<1>4. SumOf(h, T) = d[T] /\ Sums(d, h, T)
  BY <1>3, SumOfIs
<1> HIDE DEF d
<1>5. f[T] = d[T]
  BY <1>4, SumsAgree
<1>6. QED
  BY <1>4, <1>5

(* Equal summands have equal sums.                                         *)
LEMMA SumSame ==
    ASSUME NEW S, IsFiniteSet(S), NEW g, NEW h, \A x \in S : g[x] = h[x]
    PROVE  SumOf(g, S) = SumOf(h, S)
<1>1. PICK f : Sums(f, g, S)
  BY SumsExist
<1>2. SumOf(g, S) = f[S] /\ SumOf(h, S) = f[S]
  <2>1. S \in SUBSET S /\ \A x \in S : g[x] = g[x]
    OBVIOUS
  <2>2. QED
    BY <1>1, <2>1, SumOfSubset, ZenonT(60)
<1>3. QED
  BY <1>2

(* A sum over nothing, a sum's type, and taking one summand out.           *)
LEMMA SumProperties ==
    ASSUME NEW S, IsFiniteSet(S), NEW g, \A x \in S : g[x] \in Nat
    PROVE  /\ SumOf(g, {}) = 0
           /\ SumOf(g, S) \in Nat
           /\ \A x \in S : SumOf(g, S) = g[x] + SumOf(g, S \ {x})
<1>1. PICK f : Sums(f, g, S)
  BY SumsExist
<1>2. \A T \in SUBSET S : SumOf(g, T) = f[T]
  BY <1>1, SumOfSubset
<1>3. \A T \in SUBSET S : f[T] = IF T = {} THEN 0 ELSE g[Some(T)] + f[T \ {Some(T)}]
  BY <1>1 DEF Sums
<1> DEFINE Good(T) == /\ f[T] \in Nat
                      /\ \A x \in T : f[T] = g[x] + f[T \ {x}]
           bad == {T \in SUBSET S : ~Good(T)}
<1>4. bad = {}
  <2>0. SUFFICES ASSUME bad # {} PROVE FALSE
    OBVIOUS
  <2>1. PICK T \in SUBSET S : /\ ~Good(T)
                              /\ \A U \in SUBSET S : U \subseteq T /\ U # T => Good(U)
    <3>1. PICK T \in bad : \A U \in bad : ~(U \subseteq T /\ U # T)
      <4>1. bad \subseteq SUBSET S
        OBVIOUS
      <4> HIDE DEF bad
      <4>2. QED
        BY <2>0, <4>1, LeastSubset
    <3> HIDE DEF Good
    <3>2. QED
      BY <3>1
  <2>2. T # {}
    <3>1. f[{}] = 0
      BY <1>3
    <3>2. Good({})
      BY <3>1
    <3> HIDE DEF Good
    <3>3. QED
      BY <2>1, <3>2
  <2> DEFINE y == Some(T)
  <2>3. y \in T
    BY <2>2 DEF Some
  <2>4. f[T] = g[y] + f[T \ {y}]
    BY <1>3, <2>2
  <2> HIDE DEF y
  <2>5. \A x \in T : T \ {x} \in SUBSET S /\ T \ {x} # T /\ T \ {x} \subseteq T
    OBVIOUS
  <2>6. \A x \in T : Good(T \ {x})
    <3> HIDE DEF Good
    <3>1. QED
      BY <2>1, <2>5
  <2>7. f[T] \in Nat
    <3>1. f[T \ {y}] \in Nat /\ g[y] \in Nat
      BY <2>3, <2>6
    <3>2. QED
      BY <2>4, <3>1
  <2>8. ASSUME NEW x \in T, x # y
        PROVE  f[T] = g[x] + f[T \ {x}]
    <3> DEFINE rest == (T \ {x}) \ {y}
    <3>1. x \in T \ {y} /\ y \in T \ {x} /\ (T \ {y}) \ {x} = rest
      BY <2>3, <2>8
    <3>2. f[T \ {y}] = g[x] + f[rest]
      BY <2>3, <2>6, <3>1
    <3>3. f[T \ {x}] = g[y] + f[rest] /\ f[T \ {x}] \in Nat
      BY <2>6, <3>1
    <3>4. f[T \ {y}] \in Nat
      BY <2>3, <2>6
    <3>5. g[x] \in Nat /\ g[y] \in Nat
      BY <2>3
    <3>6. f[rest] \in Nat
      <4>1. rest \in SUBSET S /\ rest \subseteq T /\ rest # T
        BY <2>3
      <4>2. Good(rest)
        <5> HIDE DEF Good, rest
        <5>1. QED
          BY <2>1, <4>1
      <4>3. QED
        BY <4>2
    <3> HIDE DEF rest
    <3>7. QED
      BY <2>4, <3>2, <3>3, <3>5, <3>6
  <2>9. Good(T)
    BY <2>4, <2>7, <2>8
  <2>10. QED
    BY <2>1, <2>9
<1>5. Good(S)
  BY <1>4
<1>6. f[{}] = 0
  BY <1>3
<1>7. QED
  <2>1. \A x \in S : S \ {x} \in SUBSET S
    OBVIOUS
  <2>2. QED
    BY <1>2, <1>5, <1>6, <2>1

(* One more summand.                                                       *)
LEMMA SumOneMore ==
    ASSUME NEW S, IsFiniteSet(S), NEW g, \A x \in S : g[x] \in Nat,
           NEW T \in SUBSET S, NEW x \in T
    PROVE  /\ IsFiniteSet(T) /\ IsFiniteSet(T \ {x})
           /\ SumOf(g, T \ {x}) \in Nat
           /\ SumOf(g, T) = g[x] + SumOf(g, T \ {x})
<1>1. IsFiniteSet(T) /\ IsFiniteSet(T \ {x})
  BY FS_Subset
<1>2. \A z \in T : g[z] \in Nat
  OBVIOUS
<1>3. SumOf(g, T \ {x}) \in Nat
  BY <1>1, <1>2, SumProperties
<1>4. SumOf(g, T) = g[x] + SumOf(g, T \ {x})
  BY <1>1, <1>2, SumProperties
<1>5. QED
  BY <1>1, <1>3, <1>4

(* A sum over one element more.                                            *)
LEMMA SumGrows ==
    ASSUME NEW S, IsFiniteSet(S), NEW g, \A y \in S : g[y] \in Nat,
           NEW x, x \notin S, g[x] \in Nat
    PROVE  /\ SumOf(g, S) \in Nat
           /\ SumOf(g, S \cup {x}) = SumOf(g, S) + g[x]
<1> DEFINE T == S \cup {x}
<1>1. IsFiniteSet(T)
  BY FS_AddElement
<1>2. \A y \in T : g[y] \in Nat
  OBVIOUS
<1>3. T \in SUBSET T /\ x \in T /\ T \ {x} = S
  OBVIOUS
<1> HIDE DEF T
<1>4. /\ SumOf(g, T \ {x}) \in Nat
      /\ SumOf(g, T) = g[x] + SumOf(g, T \ {x})
  BY <1>1, <1>2, <1>3, SumOneMore
<1>5. QED
  BY <1>3, <1>4 DEF T

\* Of nothing.
LEMMA SumOfNone == ASSUME NEW g PROVE SumOf(g, {}) = 0
BY FS_EmptySet, SumProperties

(* The sum over two sets that have nothing in common.                      *)
LEMMA SumUnion ==
    ASSUME NEW A, IsFiniteSet(A), NEW B, IsFiniteSet(B), A \cap B = {},
           NEW g, \A x \in A \cup B : g[x] \in Nat
    PROVE  SumOf(g, A \cup B) = SumOf(g, A) + SumOf(g, B)
<1> DEFINE Good == {T \in SUBSET B : SumOf(g, A \cup T) = SumOf(g, A) + SumOf(g, T)}
<1>1. IsFiniteSet(A \cup B) /\ SumOf(g, A) \in Nat
  BY FS_Union, SumProperties
<1>2. {} \in Good
  <2>1. A \cup {} = A
    OBVIOUS
  <2>2. QED
    BY <1>1, <2>1, SumOfNone
<1>3. ASSUME NEW T \in SUBSET B, NEW x \in T, T \ {x} \in Good
      PROVE  T \in Good
  <2> DEFINE all == A \cup B
             more == A \cup T
  <2>1. more \in SUBSET all /\ x \in more /\ \A z \in all : g[z] \in Nat
    OBVIOUS
  <2>2. more \ {x} = A \cup (T \ {x})
    OBVIOUS
  <2> HIDE DEF all, more
  <2>3. SumOf(g, more) = g[x] + SumOf(g, more \ {x})
    BY <1>1, <2>1, SumOneMore DEF all
  <2>4. SumOf(g, T) = g[x] + SumOf(g, T \ {x}) /\ SumOf(g, T \ {x}) \in Nat
    <3>1. \A z \in B : g[z] \in Nat
      OBVIOUS
    <3>2. QED
      BY <3>1, SumOneMore, SMTT(60)
  <2>5. SumOf(g, more \ {x}) = SumOf(g, A) + SumOf(g, T \ {x})
    BY <1>3, <2>2
  <2>6. g[x] \in Nat
    OBVIOUS
  <2>7. SumOf(g, more) = SumOf(g, A) + SumOf(g, T)
    BY <1>1, <2>3, <2>4, <2>5, <2>6
  <2>8. QED
    BY <2>7 DEF more
<1>4. B \in Good
  <2> HIDE DEF Good
  <2>1. QED
    BY <1>2, <1>3, FiniteInduction
<1>5. QED
  BY <1>4

\* Of zeros.
LEMMA SumOfZeros ==
    ASSUME NEW S, IsFiniteSet(S), NEW g, \A x \in S : g[x] = 0
    PROVE  SumOf(g, S) = 0
<1> DEFINE Good == {T \in SUBSET S : SumOf(g, T) = 0}
<1>1. {} \in Good
  BY SumOfNone
<1>2. ASSUME NEW T \in SUBSET S, NEW x \in T, T \ {x} \in Good
      PROVE  T \in Good
  <2>1. \A z \in S : g[z] \in Nat
    OBVIOUS
  <2>2. SumOf(g, T) = g[x] + SumOf(g, T \ {x})
    BY <2>1, SumOneMore
  <2>3. QED
    BY <1>2, <2>2
<1>3. S \in Good
  <2> HIDE DEF Good
  <2>1. QED
    BY <1>1, <1>2, FiniteInduction
<1>4. QED
  BY <1>3

\* Of one summand.
LEMMA SumOfOne ==
    ASSUME NEW g, NEW x, g[x] \in Nat
    PROVE  SumOf(g, {x}) = g[x]
<1>1. IsFiniteSet({x}) /\ {x} \ {x} = {} /\ x \in {x} /\ \A z \in {x} : g[z] \in Nat
  BY FS_Singleton
<1>2. SumOf(g, {x}) = g[x] + SumOf(g, {x} \ {x})
  BY <1>1, SumProperties
<1>3. QED
  BY <1>1, <1>2, SumOfNone

(* Zeros can be left out.                                                  *)
LEMMA SumWithoutZeros ==
    ASSUME NEW S, IsFiniteSet(S), NEW T \in SUBSET S, NEW g,
           \A x \in S : g[x] \in Nat, \A x \in S \ T : g[x] = 0
    PROVE  SumOf(g, S) = SumOf(g, T)
<1>1. IsFiniteSet(T) /\ IsFiniteSet(S \ T)
  BY FS_Subset
<1>2. S = T \cup (S \ T) /\ T \cap (S \ T) = {}
  OBVIOUS
<1>3. SumOf(g, T \cup (S \ T)) = SumOf(g, T) + SumOf(g, S \ T)
  <2> DEFINE U == S \ T
  <2>1. T \cap U = {} /\ IsFiniteSet(U) /\ \A x \in T \cup U : g[x] \in Nat
    BY <1>1
  <2> HIDE DEF U
  <2>2. SumOf(g, T \cup U) = SumOf(g, T) + SumOf(g, U)
    BY <1>1, <2>1, SumUnion
  <2>3. QED
    BY <2>2 DEF U
<1>4. SumOf(g, S \ T) = 0
  BY <1>1, SumOfZeros
<1>5. SumOf(g, T) \in Nat
  BY <1>1, SumProperties
<1>6. SumOf(g, S) = SumOf(g, T) + SumOf(g, S \ T)
  BY <1>2, <1>3, Zenon
<1>7. QED
  BY <1>4, <1>5, <1>6

\* The image of a finite set is finite.
LEMMA ImageFinite ==
    ASSUME NEW S, IsFiniteSet(S), NEW f
    PROVE  IsFiniteSet({f[x] : x \in S})
<1> DEFINE T == {f[x] : x \in S}
           e == [x \in S |-> f[x]]
<1>1. e \in Surjection(S, T)
  BY DEF Surjection
<1>2. QED
  BY <1>1, FS_Surjection

(* Summands can be renamed.                                                *)
LEMMA SumOfImage ==
    ASSUME NEW S, IsFiniteSet(S), NEW g, \A x \in S : g[x] \in Nat, NEW f, NEW h,
           \A x \in S : h[f[x]] = g[x],
           \A x, y \in S : f[x] = f[y] => x = y
    PROVE  SumOf(g, S) = SumOf(h, {f[x] : x \in S})
<1> DEFINE Image(T) == {f[x] : x \in T}
           Good == {T \in SUBSET S : SumOf(g, T) = SumOf(h, Image(T))}
<1>1. {} \in Good
  <2>1. Image({}) = {}
    OBVIOUS
  <2>2. QED
    BY <2>1, SumOfNone
<1>2. ASSUME NEW T \in SUBSET S, NEW x \in T, T \ {x} \in Good
      PROVE  T \in Good
  <2>1. Image(T) \ {f[x]} = Image(T \ {x}) /\ f[x] \in Image(T)
    OBVIOUS
  <2>2. \A y \in Image(T) : h[y] \in Nat
    OBVIOUS
  <2>3. IsFiniteSet(Image(T))
    BY FS_Subset, ImageFinite
  <2>4. SumOf(g, T) = g[x] + SumOf(g, T \ {x})
    BY SumOneMore
  <2>5. SumOf(h, Image(T)) = h[f[x]] + SumOf(h, Image(T) \ {f[x]})
    <3> HIDE DEF Image
    <3>1. QED
      BY <2>1, <2>2, <2>3, SumProperties, ZenonT(60)
  <2>6. SumOf(g, T \ {x}) = SumOf(h, Image(T \ {x}))
    BY <1>2
  <2>7. SumOf(g, T) = SumOf(h, Image(T))
    <3> HIDE DEF Image
    <3>1. QED
      BY <2>1, <2>4, <2>5, <2>6
  <2>8. QED
    BY <2>7
<1>3. S \in Good
  <2> HIDE DEF Good
  <2>1. QED
    BY <1>1, <1>2, FiniteInduction
<1>4. QED
  BY <1>3

(* Disjoint sets of summands can be summed one by one.                     *)
LEMMA SumOfSums ==
    ASSUME NEW I, IsFiniteSet(I), NEW D, \A i \in I : IsFiniteSet(D[i]),
           \A i, j \in I : i # j => D[i] \cap D[j] = {},
           NEW g, \A i \in I : \A x \in D[i] : g[x] \in Nat,
           NEW h, \A i \in I : h[i] = SumOf(g, D[i])
    PROVE  SumOf(h, I) = SumOf(g, UNION {D[i] : i \in I})
<1> DEFINE All(T) == UNION {D[i] : i \in T}
           Good == {T \in SUBSET I : SumOf(h, T) = SumOf(g, All(T))}
<1>1. {} \in Good
  <2>1. All({}) = {}
    OBVIOUS
  <2>2. QED
    BY <2>1, SumOfNone
<1>2. ASSUME NEW T \in SUBSET I, NEW i \in T, T \ {i} \in Good
      PROVE  T \in Good
  <2>1. /\ All(T) = D[i] \cup All(T \ {i})
        /\ D[i] \cap All(T \ {i}) = {}
        /\ \A x \in D[i] \cup All(T \ {i}) : g[x] \in Nat
    OBVIOUS
  <2>2. IsFiniteSet(D[i]) /\ IsFiniteSet(All(T \ {i}))
    <3> DEFINE sets == {D[j] : j \in T \ {i}}
    <3>1. IsFiniteSet(T \ {i})
      BY FS_Subset
    <3>2. IsFiniteSet(sets)
      BY <3>1, ImageFinite
    <3>3. \A U \in sets : IsFiniteSet(U)
      OBVIOUS
    <3> HIDE DEF sets
    <3>4. IsFiniteSet(UNION sets)
      BY <3>2, <3>3, FS_UNION
    <3>5. QED
      BY <3>4 DEF sets
  <2>3. \A j \in I : h[j] \in Nat
    BY SumProperties
  <2>4. SumOf(h, T) = h[i] + SumOf(h, T \ {i})
    BY <2>3, SumOneMore
  <2>5. SumOf(h, T \ {i}) = SumOf(g, All(T \ {i}))
    BY <1>2
  <2>6. SumOf(h, T) = SumOf(g, All(T))
    <3> HIDE DEF All
    <3>1. SumOf(g, D[i] \cup All(T \ {i}))
            = SumOf(g, D[i]) + SumOf(g, All(T \ {i}))
      BY <2>1, <2>2, SumUnion, ZenonT(60)
    <3>2. QED
      BY <2>1, <2>4, <2>5, <3>1
  <2>7. QED
    BY <2>6
<1>3. I \in Good
  <2> HIDE DEF Good
  <2>1. QED
    BY <1>1, <1>2, FiniteInduction
<1>4. QED
  BY <1>3
=============================================================================
