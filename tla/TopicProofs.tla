---------------------------- MODULE TopicProofs ----------------------------
(***************************************************************************)
(* Proofs about the topics on display.                                     *)
(*                                                                         *)
(* Poller: a topic leaves the display only after it was deleted at the     *)
(* server, however polls fail and race with changes.  By VersionsInOrder.  *)
(*                                                                         *)
(* TopicTree: the cursor keeps its row through every rebuilding of the     *)
(* tree.  By TreeInv: an identifier names its row by itself (Denotes).     *)
(* And the tree's figures add up to the panel's totals: subtree_messages   *)
(* is a sum over all nodes below (SubtreeSums), and the lines of closed    *)
(* groups and open topics show each node once (CountedOnce,                *)
(* CountedSomewhere).                                                      *)
(***************************************************************************)
EXTENDS Poller, TopicTree, AppStateProofs, FiniteSetTheorems,
        WellFoundedInduction

-----------------------------------------------------------------------------
(* The inductive invariant.                                                *)

(***************************************************************************)
(* What an older listing had and a newer one has not was deleted between.  *)
(***************************************************************************)
OnlyDeleted(older, newer) == older \ newer \subseteq deleted

(***************************************************************************)
(* A listing travels from the server through the poller's hands and the    *)
(* queue into the state, so those are its versions from newest to oldest.  *)
(***************************************************************************)
VersionsInOrder ==
    /\ \A i \in 1..Len(queue) :
         /\ queue[i].kind = "AdminSnapshot"
         /\ OnlyDeleted(ExistingTopics(state), queue[i].topics)
         /\ \A j \in (i + 1)..Len(queue) :
              OnlyDeleted(queue[i].topics, queue[j].topics)
         /\ OnlyDeleted(queue[i].topics, topics)
    /\ OnlyDeleted(ExistingTopics(state), topics)
    /\ pollerPc \in {"subscriptions", "config"} =>
         /\ OnlyDeleted(ExistingTopics(state), listed)
         /\ \A i \in 1..Len(queue) : OnlyDeleted(queue[i].topics, listed)
         /\ OnlyDeleted(listed, topics)

PollerInv == PollerTypeOK /\ VersionsInOrder
-----------------------------------------------------------------------------
(* Maps, and what a folded listing shows.                                  *)

(* The empty map.                                                          *)
LEMMA EmptyMapType == ASSUME NEW K, NEW V PROVE EmptyMap \in MapOf(K, V)
<1>1. EmptyMap \in [{} -> V] /\ {} \in SUBSET K
  BY DEF EmptyMap
<1>2. QED
  BY <1>1 DEF MapOf

(* Setting an entry of a map.                                              *)
LEMMA PutInMap ==
    ASSUME NEW K, NEW V, NEW map \in MapOf(K, V), NEW key \in K, NEW value \in V
    PROVE  Put(map, key, value) \in MapOf(K, V)
<1>1. PICK D \in SUBSET K : map \in [D -> V]
  BY DEF MapOf
<1>2. Put(map, key, value) \in [D \cup {key} -> V]
  BY <1>1 DEF Put
<1>3. D \cup {key} \in SUBSET K
  OBVIOUS
<1>4. QED
  BY <1>2, <1>3 DEF MapOf

(* Removing an entry of a map.                                             *)
LEMMA RemoveFromMap ==
    ASSUME NEW K, NEW V, NEW map \in MapOf(K, V), NEW key
    PROVE  [x \in DOMAIN map \ {key} |-> map[x]] \in MapOf(K, V)
<1>1. PICK D \in SUBSET K : map \in [D -> V]
  BY DEF MapOf
<1>2. [x \in DOMAIN map \ {key} |-> map[x]] \in [D \ {key} -> V]
  BY <1>1
<1>3. D \ {key} \in SUBSET K
  OBVIOUS
<1>4. QED
  BY <1>2, <1>3 DEF MapOf

(* The keys and the values of a map.                                       *)
LEMMA MapOfDomain ==
    ASSUME NEW K, NEW V, NEW map \in MapOf(K, V)
    PROVE  DOMAIN map \subseteq K /\ \A key \in DOMAIN map : map[key] \in V
BY DEF MapOf

(* A folded admin snapshot shows as existing exactly the topics it lists.  *)
LEMMA ListedExist ==
    ASSUME NEW s, IsAppState(s), NEW listing \in SUBSET Topics, NEW subs
    PROVE  ExistingTopics(apply_admin(s, listing, subs)) = listing
<1> DEFINE marked == [t \in DOMAIN s.topics \cup listing |->
                        [topic_mut(s, t) EXCEPT !.exists = t \in listing]]
<1>1. apply_admin(s, listing, subs).topics = marked
  BY DEF apply_admin, IsAppState
<1>2. ASSUME NEW t \in DOMAIN s.topics \cup listing
      PROVE  marked[t].exists = (t \in listing)
  <2>1. marked[t] = [topic_mut(s, t) EXCEPT !.exists = t \in listing]
    OBVIOUS
  <2>2. IsTopic(topic_mut(s, t))
    BY TopicMutType
  <2>3. topic_mut(s, t) = [exists |-> topic_mut(s, t).exists,
                           publish_count |-> topic_mut(s, t).publish_count,
                           publishers |-> topic_mut(s, t).publishers]
    BY <2>2 DEF IsTopic
  <2> HIDE DEF marked
  <2>4. QED
    BY <2>1, <2>3
<1>3. DOMAIN marked = DOMAIN s.topics \cup listing
  OBVIOUS
<1> HIDE DEF marked
<1>4. QED
  BY <1>1, <1>2, <1>3 DEF ExistingTopics
-----------------------------------------------------------------------------
(* The invariant is inductive.                                             *)

(* The invariant holds before the first poll.                              *)
LEMMA PollerInitially == PollerInit => PollerInv
<1> SUFFICES ASSUME PollerInit PROVE PollerInv
  OBVIOUS
<1>1. <<>> \in Seq(Observation) /\ Len(<<>>) = 0
  BY EmptySeq
<1>2. PollerTypeOK
  BY <1>1, EmptyMapType, DefaultStateType, SinkAssumption, PollerAssumption
  DEF PollerInit, PollerTypeOK, SinkInit, SinkTypeOK
<1>3. ExistingTopics(DefaultState) = {}
  BY DEF ExistingTopics, DefaultState, EmptyMap
<1>4. VersionsInOrder
  BY <1>1, <1>3 DEF PollerInit, SinkInit, VersionsInOrder, OnlyDeleted
<1>5. QED
  BY <1>2, <1>4 DEF PollerInv

(* The server changes: a topic that goes is a deleted one.                 *)
LEMMA ServerStep ==
    ASSUME PollerInv,
           \/ \E t \in Topics : CreateTopic(t) \/ DeleteTopic(t)
           \/ \E s \in Subscriptions, t \in Topics : CreateSubscription(s, t)
           \/ \E s \in Subscriptions : DeleteSubscription(s)
    PROVE  PollerInv'
<1>1. /\ PollerTypeOK /\ VersionsInOrder
      /\ UNCHANGED <<sinkVars, pollerPc, pollVars, state, failures>>
      /\ changes < MaxChanges /\ changes' = changes + 1
  BY DEF PollerInv, CreateTopic, DeleteTopic, CreateSubscription,
         DeleteSubscription, Change
<1>2. changes' \in 0..MaxChanges
  BY <1>1, PollerAssumption DEF PollerTypeOK
<1>3. /\ topics' \in SUBSET Topics /\ deleted \subseteq deleted'
      /\ topics \ topics' \subseteq deleted'
  BY <1>1 DEF PollerTypeOK, CreateTopic, DeleteTopic, CreateSubscription,
              DeleteSubscription
<1>4. parents' \in MapOf(Subscriptions, Topics)
  <2>1. parents \in MapOf(Subscriptions, Topics) /\ topics \in SUBSET Topics
    BY <1>1 DEF PollerTypeOK
  <2>2. CASE UNCHANGED parents
    BY <2>1, <2>2
  <2>3. CASE \E s \in Subscriptions, t \in Topics : CreateSubscription(s, t)
    BY <2>1, <2>3, PutInMap DEF CreateSubscription
  <2>4. CASE \E s \in Subscriptions : DeleteSubscription(s)
    BY <2>1, <2>4, RemoveFromMap DEF DeleteSubscription
  <2>5. QED
    BY <2>2, <2>3, <2>4 DEF CreateTopic, DeleteTopic
<1>5. PollerTypeOK'
  BY <1>1, <1>2, <1>3, <1>4 DEF PollerTypeOK, SinkTypeOK, sinkVars, pollVars
<1>6. VersionsInOrder'
  <2>1. \A older, newer : OnlyDeleted(older, newer) => OnlyDeleted(older, newer)'
    BY <1>3 DEF OnlyDeleted
  <2>2. ASSUME NEW older, OnlyDeleted(older, topics)
        PROVE  OnlyDeleted(older, topics)'
    BY <1>3, <2>2 DEF OnlyDeleted
  <2>3. QED
    BY <1>1, <2>1, <2>2 DEF VersionsInOrder, sinkVars, pollVars
<1>7. QED
  BY <1>5, <1>6 DEF PollerInv

(* The requests of a poll, answered or failed.                             *)
LEMMA RequestStep ==
    ASSUME PollerInv,
           \/ Connect \/ Tick \/ GetTopics \/ GetSubscriptions \/ ListingFails
           \/ \E s \in Subscriptions : GetConfig(s)
    PROVE  PollerInv'
<1>1. /\ PollerTypeOK /\ VersionsInOrder
      /\ UNCHANGED <<sinkVars, serverVars, state>>
  BY DEF PollerInv, Connect, Tick, GetTopics, GetSubscriptions, ListingFails,
         GetConfig
<1>2. failures' \in 0..MaxFailures
  BY <1>1, PollerAssumption DEF PollerTypeOK, Connect, Tick, GetTopics,
     GetSubscriptions, ListingFails, GetConfig, Failing
<1>3. configured' \in MapOf(Subscriptions, Topics)
  BY <1>1, EmptyMapType, PutInMap, MapOfDomain DEF PollerTypeOK, Connect, Tick,
     GetTopics, GetSubscriptions, ListingFails, GetConfig, pollVars
<1>4. toAsk' \in SUBSET Subscriptions
  BY <1>1, MapOfDomain DEF PollerTypeOK, Connect, Tick, GetTopics,
     GetSubscriptions, ListingFails, GetConfig, pollVars
<1>5. /\ pollerPc' \in {"connect", "tick", "topics", "subscriptions", "config"}
      /\ \/ listed' = topics
         \/ /\ listed' = listed
            /\ pollerPc' \in {"subscriptions", "config"}
                 => pollerPc \in {"subscriptions", "config"}
  BY <1>1 DEF PollerTypeOK, Connect, Tick, GetTopics, GetSubscriptions,
     ListingFails, GetConfig, pollVars
<1>6. PollerTypeOK'
  BY <1>1, <1>2, <1>3, <1>4, <1>5 DEF PollerTypeOK, SinkTypeOK, sinkVars,
     serverVars
<1>7. VersionsInOrder'
  <2>1. CASE listed' = topics
    BY <1>1, <2>1 DEF VersionsInOrder, OnlyDeleted, sinkVars, serverVars
  <2>2. CASE /\ listed' = listed
             /\ pollerPc' \in {"subscriptions", "config"}
                  => pollerPc \in {"subscriptions", "config"}
    BY <1>1, <2>2 DEF VersionsInOrder, OnlyDeleted, sinkVars, serverVars
  <2>3. QED
    BY <1>5, <2>1, <2>2
<1>8. QED
  BY <1>6, <1>7 DEF PollerInv

(* The poll's snapshot goes into the queue, or is dropped.                 *)
LEMMA EmitStep ==
    ASSUME PollerInv, Emit
    PROVE  PollerInv'
<1> DEFINE o == [kind |-> "AdminSnapshot", topics |-> listed,
                 subscriptions |-> configured]
<1>1. /\ PollerTypeOK /\ VersionsInOrder /\ pollerPc = "config" /\ observe(o)
      /\ pollerPc' = "tick" /\ UNCHANGED <<serverVars, pollVars, state, failures>>
  BY DEF PollerInv, Emit
<1>2. o \in Observation
  BY <1>1 DEF PollerTypeOK, Observation
<1>3. SinkTypeOK'
  BY <1>1, <1>2, ObserveType DEF PollerTypeOK
<1>4. PollerTypeOK'
  BY <1>1, <1>3 DEF PollerTypeOK, serverVars, pollVars
<1>5. VersionsInOrder'
  <2>1. o.kind = "AdminSnapshot" /\ o.topics = listed
    OBVIOUS
  <2>2. queue \in Seq(Observation) /\ Len(queue) \in Nat
    BY <1>1, LenProperties DEF PollerTypeOK, SinkTypeOK
  <2> HIDE DEF o
  <2>3. CASE queue' = queue
    BY <1>1, <2>3 DEF VersionsInOrder, OnlyDeleted, serverVars, pollVars
  <2>4. CASE queue' = Append(queue, o)
    <3>1. /\ Len(queue') = Len(queue) + 1
          /\ \A i \in 1..Len(queue) : queue'[i] = queue[i]
          /\ queue'[Len(queue) + 1] = o
      BY <1>2, <2>2, <2>4, AppendProperties DEF o
    <3>2. UNCHANGED <<topics, deleted, listed, state>>
      BY <1>1 DEF serverVars, pollVars
    <3>3. \A older, newer : OnlyDeleted(older, newer)' <=> OnlyDeleted(older', newer')
      BY <3>2 DEF OnlyDeleted
    <3>4. ASSUME NEW i \in 1..Len(queue')
          PROVE  /\ queue'[i].kind = "AdminSnapshot"
                 /\ ExistingTopics(state) \ queue'[i].topics \subseteq deleted
                 /\ \A j \in (i + 1)..Len(queue') :
                      queue'[i].topics \ queue'[j].topics \subseteq deleted
                 /\ queue'[i].topics \ topics \subseteq deleted
      <4>1. CASE i = Len(queue) + 1
        BY <1>1, <2>1, <2>2, <3>1, <4>1 DEF VersionsInOrder, OnlyDeleted
      <4>2. CASE i # Len(queue) + 1
        <5>1. i \in 1..Len(queue) /\ queue'[i] = queue[i]
          BY <2>2, <3>1, <4>2
        <5>2. /\ queue[i].kind = "AdminSnapshot"
              /\ ExistingTopics(state) \ queue[i].topics \subseteq deleted
              /\ queue[i].topics \ topics \subseteq deleted
              /\ queue[i].topics \ listed \subseteq deleted
          BY <1>1, <5>1 DEF VersionsInOrder, OnlyDeleted
        <5>3. ASSUME NEW j \in (i + 1)..Len(queue')
              PROVE  queue'[i].topics \ queue'[j].topics \subseteq deleted
          <6>1. CASE j = Len(queue) + 1
            BY <2>1, <3>1, <5>1, <5>2, <6>1
          <6>2. CASE j # Len(queue) + 1
            <7>1. j \in (i + 1)..Len(queue) /\ j \in 1..Len(queue)
              BY <2>2, <3>1, <5>1, <6>2
            <7>2. queue[i].topics \ queue[j].topics \subseteq deleted
              BY <1>1, <5>1, <7>1 DEF VersionsInOrder, OnlyDeleted
            <7>3. QED
              BY <3>1, <5>1, <7>1, <7>2
          <6>3. QED
            BY <6>1, <6>2
        <5>4. QED
          BY <5>1, <5>2, <5>3
      <4>3. QED
        BY <4>1, <4>2
    <3>5. QED
      BY <1>1, <3>2, <3>4 DEF VersionsInOrder, OnlyDeleted
  <2>5. QED
    BY <1>1, <2>3, <2>4 DEF observe
<1>6. QED
  BY <1>4, <1>5 DEF PollerInv

(* The observer folds the oldest snapshot in.                              *)
LEMMA FoldStep ==
    ASSUME PollerInv, Fold
    PROVE  /\ PollerInv'
           /\ ExistingTopics(state) \ ExistingTopics(state') \subseteq deleted
<1> DEFINE o == Head(queue)
<1>1. /\ PollerTypeOK /\ VersionsInOrder /\ take
      /\ state' = apply(state, o, 0)
      /\ UNCHANGED <<serverVars, pollerPc, pollVars, failures>>
  BY DEF PollerInv, Fold
<1>2. SinkTypeOK' /\ o \in Observation
  BY <1>1, TakeType DEF PollerTypeOK
<1>3. /\ Len(queue) \in Nat /\ Len(queue) > 0 /\ o = queue[1]
      /\ Len(queue') = Len(queue) - 1
      /\ \A i \in 1..Len(queue') : queue'[i] = queue[i + 1]
  BY <1>1, HeadTailProperties, LenProperties, EmptySeq
  DEF take, PollerTypeOK, SinkTypeOK
<1>4. o.kind = "AdminSnapshot"
  BY <1>1, <1>3 DEF VersionsInOrder
<1>5. state' = apply_admin(state, o.topics, o.subscriptions)
      /\ o.topics \in SUBSET Topics
  BY <1>1, <1>2, <1>4 DEF apply, Observation
<1> HIDE DEF o
<1>6. IsAppState(state') /\ ExistingTopics(state') = o.topics
  <2>1. IsAppState(state')
    BY <1>1, <1>2, ApplyType DEF PollerTypeOK
  <2>2. QED
    BY <1>1, <1>5, <2>1, ListedExist DEF PollerTypeOK
<1>7. PollerTypeOK'
  BY <1>1, <1>2, <1>6 DEF PollerTypeOK, serverVars, pollVars
<1>8. UNCHANGED <<topics, deleted, listed, pollerPc>>
  BY <1>1 DEF serverVars, pollVars
<1>9. /\ OnlyDeleted(ExistingTopics(state), o.topics)
      /\ OnlyDeleted(o.topics, topics)
      /\ pollerPc \in {"subscriptions", "config"} =>
           OnlyDeleted(o.topics, listed) /\ OnlyDeleted(listed, topics)
      /\ \A j \in 2..Len(queue) : OnlyDeleted(o.topics, queue[j].topics)
  BY <1>1, <1>3 DEF VersionsInOrder
<1>10. VersionsInOrder'
  <2>1. ASSUME NEW i \in 1..Len(queue')
        PROVE  /\ queue'[i].kind = "AdminSnapshot"
               /\ o.topics \ queue'[i].topics \subseteq deleted
               /\ \A j \in (i + 1)..Len(queue') :
                    queue'[i].topics \ queue'[j].topics \subseteq deleted
               /\ queue'[i].topics \ topics \subseteq deleted
               /\ pollerPc \in {"subscriptions", "config"} =>
                    queue'[i].topics \ listed \subseteq deleted
    <3>1. i + 1 \in 1..Len(queue) /\ i + 1 \in 2..Len(queue)
          /\ queue'[i] = queue[i + 1]
      BY <1>3
    <3>2. ASSUME NEW j \in (i + 1)..Len(queue')
          PROVE  queue'[i].topics \ queue'[j].topics \subseteq deleted
      <4>1. j + 1 \in (i + 1 + 1)..Len(queue) /\ queue'[j] = queue[j + 1]
        BY <1>3, <3>1, SMTT(60)
      <4>2. QED
        BY <1>1, <3>1, <4>1 DEF VersionsInOrder, OnlyDeleted
    <3>3. QED
      BY <1>1, <1>9, <3>1, <3>2 DEF VersionsInOrder, OnlyDeleted
  <2>2. QED
    BY <1>6, <1>8, <1>9, <2>1 DEF VersionsInOrder, OnlyDeleted
<1>11. QED
  BY <1>6, <1>7, <1>9, <1>10 DEF PollerInv, OnlyDeleted

(* Every step keeps the invariant.                                         *)
LEMMA PollerStep == PollerInv /\ [PollerNext]_pollerVars => PollerInv'
<1> SUFFICES ASSUME PollerInv, [PollerNext]_pollerVars PROVE PollerInv'
  OBVIOUS
<1>1. CASE UNCHANGED pollerVars
  BY <1>1 DEF pollerVars, PollerInv, PollerTypeOK, SinkTypeOK, VersionsInOrder,
     OnlyDeleted
<1>2. CASE PollerNext
  BY <1>2, ServerStep, RequestStep, EmitStep, FoldStep DEF PollerNext, Poll
<1>3. QED
  BY <1>1, <1>2

(* The invariant always holds.                                             *)
LEMMA PollerInvariant == PollerSpec => []PollerInv
BY PollerInitially, PollerStep, PTL DEF PollerSpec
-----------------------------------------------------------------------------
(* What the invariant is for.                                              *)

(* The poller's variables and the state it feeds always have their types,  *)
(* for any topics and subscriptions (src/src/poller.rs, apply_admin).      *)
THEOREM PollerTypeCorrect == PollerSpec => []PollerTypeOK
<1>1. PollerInv => PollerTypeOK
  BY DEF PollerInv
<1>2. QED
  BY <1>1, PollerInvariant, PTL

(* A topic on display never vanishes because a poll failed, was dropped or *)
(* raced with changes: only one that was deleted at the server does, for   *)
(* any number of topics and changes and any channel capacity (poll_once,   *)
(* apply_admin).                                                           *)
THEOREM NothingVanishes == PollerSpec => NoFalseDisappearance
<1>1. PollerInv /\ [PollerNext]_pollerVars =>
        [\A t \in ExistingTopics(state) \ ExistingTopics(state') :
            t \in deleted]_state
  <2> SUFFICES ASSUME PollerInv, [PollerNext]_pollerVars, state' # state
               PROVE  ExistingTopics(state) \ ExistingTopics(state')
                        \subseteq deleted
    OBVIOUS
  <2>1. Fold
    BY DEF pollerVars, PollerNext, Poll, CreateTopic, DeleteTopic,
       CreateSubscription, DeleteSubscription, Change, Connect, Tick, GetTopics,
       GetSubscriptions, ListingFails, GetConfig, Emit
  <2>2. QED
    BY <2>1, FoldStep
<1>2. QED
  BY <1>1, PollerInvariant, PTL DEF PollerSpec, NoFalseDisappearance

-----------------------------------------------------------------------------
(***************************************************************************)
(* The topic tree.                                                         *)
(***************************************************************************)

(***************************************************************************)
(* What an identifier says of its row by itself, whatever snapshot it was  *)
(* taken from: the segments on the way down, each as a topic whose name    *)
(* ends there or as a group's own, and then the leaf.                      *)
(***************************************************************************)
NamesSegment(part, node, i) ==
    \/ \E t \in Topics : part = <<"topic", t>> /\ Segments[t] = SubSeq(node, 1, i)
    \/ part = <<"group", part[2], node[i]>>

NamesLeaf(id, row) ==
    \/ row.leaf = NoLeaf /\ Len(id) = Len(row.node)
    \/ /\ Len(id) = Len(row.node) + 1
       /\ Last(id)[1] \in {"pub", "sub"}
       /\ row.leaf = <<Last(id)[1], Last(id)[3]>>

Denotes(id, row) ==
    /\ row = Row(row.node, row.leaf)
    /\ row.node \in Seq(Nat)
    /\ id = [i \in 1..Len(id) |-> id[i]]
    /\ \A i \in 1..Len(row.node) : NamesSegment(id[i], row.node, i)
    /\ NamesLeaf(id, row)

\* A snapshot of finitely many topics and subscriptions.
IsSnapshot(s) ==
    /\ IsAppState(s)
    /\ IsFiniteSet(DOMAIN s.topics)
    /\ IsFiniteSet(DOMAIN s.subscriptions)

TreeInv ==
    /\ IsSnapshot(latest)
    /\ IsSnapshot(shown)
    /\ Denotes(selected, meant)

-----------------------------------------------------------------------------
(* Snapshots stay finite.                                                  *)

(* Whatever is folded in, topics and subscriptions stay finitely many.     *)
LEMMA FoldedSnapshot ==
    ASSUME NEW s, IsSnapshot(s), NEW o \in Offered
    PROVE  IsSnapshot(trim_recent(apply(s, o, 0), 0))
<1> DEFINE next == apply(s, o, 0)
<1>1. /\ IsAppState(s) /\ o \in Observation
      /\ IsFiniteSet(DOMAIN s.topics) /\ IsFiniteSet(DOMAIN s.subscriptions)
  BY TreeAssumption DEF IsSnapshot
<1>2. IsAppState(next) /\ IsAppState(trim_recent(next, 0))
  BY <1>1, ApplyType, TrimRecentProperties
<1>3. /\ trim_recent(next, 0).topics = next.topics
      /\ trim_recent(next, 0).subscriptions = next.subscriptions
  <2> HIDE DEF next
  <2>1. QED
    BY <1>2 DEF trim_recent, IsAppState
<1>4. IsFiniteSet(DOMAIN next.topics)
  <2>1. CASE o.kind = "Publish"
    <3>1. next = ApplyPublish(s, o, 0)
      BY <2>1 DEF apply
    <3> DEFINE entry   == CountPublish(topic_mut(s, o.topic), o.peer,
                                      Len(o.messages), 0)
               counted == Put(s.topics, o.topic, entry)
    <3>2. DOMAIN counted = DOMAIN s.topics \cup {o.topic}
      BY DEF Put
    <3>3. DOMAIN next.topics = DOMAIN s.topics \cup {o.topic}
      <4>1. next = push_recent([s EXCEPT !.topics = counted], o.topic, o.messages, 0)
        BY <3>1 DEF ApplyPublish
      <4> HIDE DEF counted, next
      <4>2. next.topics = counted
        BY <1>1, <4>1 DEF push_recent, IsAppState
      <4>3. QED
        BY <3>2, <4>2
    <3>4. QED
      BY <1>1, <3>3, FS_AddElement
  <2>2. CASE o.kind \in {"Deliver", "Ack", "ConsumerOpen", "ConsumerClose"}
    <3>1. next.topics = s.topics
      BY <1>1, <2>2 DEF apply, ApplyDeliver, ApplyAck, ApplyConsumerOpen,
                        ApplyConsumerClose, SetSubscription, IsAppState
    <3>2. QED
      BY <1>1, <3>1
  <2>3. CASE o.kind = "AdminSnapshot"
    <3>1. next = apply_admin(s, o.topics, o.subscriptions)
      BY <2>3 DEF apply
    <3> DEFINE marked == [t \in DOMAIN s.topics \cup o.topics |->
                            [topic_mut(s, t) EXCEPT !.exists = t \in o.topics]]
    <3>2. DOMAIN next.topics = DOMAIN s.topics \cup o.topics
      <4>1. DOMAIN marked = DOMAIN s.topics \cup o.topics
        OBVIOUS
      <4>2. next.topics = marked
        BY <1>1, <3>1 DEF apply_admin, IsAppState
      <4> HIDE DEF marked, next
      <4>3. QED
        BY <4>1, <4>2
    <3>3. IsFiniteSet(o.topics)
      BY <2>3, TreeAssumption
    <3>4. QED
      BY <1>1, <3>2, <3>3, FS_Union
  <2>4. QED
    BY <1>1, <2>1, <2>2, <2>3 DEF Observation
<1>5. IsFiniteSet(DOMAIN next.subscriptions)
  <2>1. CASE o.kind = "Publish"
    <3>1. next = ApplyPublish(s, o, 0)
      BY <2>1 DEF apply
    <3>2. next.subscriptions = s.subscriptions
      BY <1>1, <3>1 DEF ApplyPublish, push_recent, IsAppState
    <3>3. QED
      BY <1>1, <3>2
  <2>2. CASE o.kind \in {"Deliver", "Ack", "ConsumerOpen", "ConsumerClose"}
    <3>1. PICK sub : next = SetSubscription(s, o.subscription, sub)
      BY <2>2 DEF apply, ApplyDeliver, ApplyAck, ApplyConsumerOpen,
                  ApplyConsumerClose
    <3> HIDE DEF next
    <3>2. next.subscriptions = Put(s.subscriptions, o.subscription, sub)
      BY <1>1, <3>1 DEF SetSubscription, IsAppState
    <3>3. DOMAIN next.subscriptions = DOMAIN s.subscriptions \cup {o.subscription}
      BY <3>2 DEF Put
    <3>4. QED
      BY <1>1, <3>3, FS_AddElement
  <2>3. CASE o.kind = "AdminSnapshot"
    <3> DEFINE marked ==
          [c \in DOMAIN s.subscriptions \cup DOMAIN o.subscriptions |->
             [subscription_mut(s, c) EXCEPT
                !.exists = c \in DOMAIN o.subscriptions,
                !.topic = EntryOr(o.subscriptions, c, @)]]
    <3>1. next = apply_admin(s, o.topics, o.subscriptions)
      BY <2>3 DEF apply
    <3>2. next.subscriptions = marked
      BY <1>1, <3>1 DEF apply_admin, IsAppState
    <3>3. DOMAIN next.subscriptions = DOMAIN s.subscriptions \cup DOMAIN o.subscriptions
      <4>1. DOMAIN marked = DOMAIN s.subscriptions \cup DOMAIN o.subscriptions
        OBVIOUS
      <4> HIDE DEF marked, next
      <4>2. QED
        BY <3>2, <4>1
    <3>4. IsFiniteSet(DOMAIN o.subscriptions)
      BY <2>3, TreeAssumption
    <3>5. QED
      BY <1>1, <3>3, <3>4, FS_Union
  <2>4. QED
    BY <1>1, <2>1, <2>2, <2>3 DEF Observation
<1>6. QED
  BY <1>2, <1>3, <1>4, <1>5 DEF IsSnapshot

(* The monitor starts with a snapshot.                                     *)
LEMMA DefaultSnapshot == IsSnapshot(DefaultState)
<1>1. DOMAIN DefaultState.topics = {} /\ DOMAIN DefaultState.subscriptions = {}
  BY DEF DefaultState, EmptyMap
<1>2. QED
  BY <1>1, DefaultStateType, FS_EmptySet DEF IsSnapshot

-----------------------------------------------------------------------------
(* Nodes and their topics.                                                 *)

(* Finitely many topics, some: one's project is the last.                  *)
LEMMA LastProject ==
    ASSUME NEW here \in SUBSET Topics, IsFiniteSet(here), here # {}
    PROVE  \E t \in here : \A u \in here : Project[u] <= Project[t]
<1> DEFINE Above(t) == {u \in here : Project[t] < Project[u]}
           above == {Above(t) : t \in here}
<1>1. IsWellFoundedOn(StrictSubsetOrdering(here), FiniteSubsetsOf(here))
  BY FS_StrictSubsetOrderingWellFounded
<1>2. above \subseteq FiniteSubsetsOf(here) /\ above # {}
  <2>1. \A t \in here : Above(t) \in SUBSET here
    OBVIOUS
  <2> HIDE DEF Above
  <2>2. above \subseteq SUBSET here /\ above # {}
    BY <2>1
  <2>3. FiniteSubsetsOf(here) = SUBSET here
    BY FS_FiniteSubsetsOfFinite, Zenon
  <2>4. QED
    BY <2>2, <2>3
<1>3. PICK least \in above :
        \A other \in above : <<other, least>> \notin StrictSubsetOrdering(here)
  <2> HIDE DEF above
  <2>1. QED
    BY <1>1, <1>2, WFMin, Zenon
<1>4. PICK t \in here : least = Above(t)
  OBVIOUS
<1>5. \A u \in here : Project[u] \in Nat
  BY TreeAssumption
<1>6. ASSUME NEW u \in here, ~(Project[u] <= Project[t])
      PROVE  FALSE
  <2>1. u \in Above(t) /\ u \notin Above(u)
    BY <1>5, <1>6
  <2>2. Above(u) \subseteq Above(t)
    BY <1>5, <1>6
  <2>3. Above(u) \in above
    OBVIOUS
  <2>4. <<Above(u), Above(t)>> \in StrictSubsetOrdering(here)
    <3>1. Above(u) \in SUBSET here /\ Above(t) \in SUBSET here
      OBVIOUS
    <3> HIDE DEF Above
    <3>2. QED
      BY <2>1, <2>2, <3>1 DEF StrictSubsetOrdering
  <2>5. QED
    BY <1>3, <1>4, <2>3, <2>4
<1>7. QED
  BY <1>6

(* The topic that a node keeps is a listed one that ends there.            *)
LEMMA NodeTopic ==
    ASSUME NEW s, IsSnapshot(s), NEW node, node_topic(s, node) # NoTopic
    PROVE  /\ node_topic(s, node) \in Topics
           /\ node_topic(s, node) \in Listed(s)
           /\ Segments[node_topic(s, node)] = node
<1> DEFINE here == {t \in Listed(s) : Segments[t] = node}
<1>1. here \subseteq DOMAIN s.topics /\ DOMAIN s.topics \subseteq Topics
  BY DEF Listed, IsSnapshot, IsAppState, IsMap
<1>2. IsFiniteSet(here)
  BY <1>1, FS_Subset DEF IsSnapshot
<1>3. /\ here # {}
      /\ node_topic(s, node) =
            CHOOSE t \in here : \A u \in here : Project[u] <= Project[t]
  BY DEF node_topic
<1>4. \E t \in here : \A u \in here : Project[u] <= Project[t]
  <2> HIDE DEF here
  <2>1. QED
    BY <1>1, <1>2, <1>3, LastProject
<1>5. node_topic(s, node) \in here
  <2> HIDE DEF here
  <2>1. QED
    BY <1>3, <1>4
<1>6. QED
  BY <1>1, <1>5

(* A prefix of a sequence.                                                 *)
LEMMA PrefixProperties ==
    ASSUME NEW S, NEW seq \in Seq(S), NEW n \in 0..Len(seq)
    PROVE  /\ SubSeq(seq, 1, n) \in Seq(S)
           /\ Len(SubSeq(seq, 1, n)) = n
           /\ \A i \in 1..n : SubSeq(seq, 1, n)[i] = seq[i]
<1>1. Len(seq) \in Nat
  BY LenProperties
<1>2. \A i \in 1..n : seq[i] \in S
  BY <1>1, ElementOfSeq
<1>3. /\ SubSeq(seq, 1, n) \in Seq(S)
      /\ Len(SubSeq(seq, 1, n)) = IF 1 <= n THEN n - 1 + 1 ELSE 0
      /\ \A i \in 1..(n - 1 + 1) : SubSeq(seq, 1, n)[i] = seq[1 + i - 1]
  BY <1>1, <1>2, SubSeqProperties
<1>4. QED
  BY <1>1, <1>3

(* A node is a non-empty sequence of segments.                             *)
LEMMA NodeType ==
    ASSUME NEW s, IsSnapshot(s), NEW node \in Nodes(s)
    PROVE  node \in Seq(Nat) /\ Len(node) \in Nat \ {0}
<1>1. PICK t \in Listed(s) :
        \E n \in 1..Len(Segments[t]) : node = SubSeq(Segments[t], 1, n)
  BY DEF Nodes
<1>2. Segments[t] \in Seq(Nat)
  BY TreeAssumption DEF Listed, IsSnapshot, IsAppState, IsMap
<1>3. Len(Segments[t]) \in Nat
  BY <1>2, LenProperties
<1>4. PICK n \in 1..Len(Segments[t]) : node = SubSeq(Segments[t], 1, n)
  BY <1>1
<1>5. node \in Seq(Nat) /\ Len(node) = n
  BY <1>2, <1>3, <1>4, PrefixProperties
<1>6. QED
  BY <1>3, <1>5

-----------------------------------------------------------------------------
(* Identifiers and rows.                                                   *)

(* A function on 1..n is a sequence.                                       *)
LEMMA Enumerated ==
    ASSUME NEW n \in Nat, NEW f, f = [i \in 1..n |-> f[i]]
    PROVE  f \in Seq({f[i] : i \in 1..n}) /\ Len(f) = n
<1> DEFINE S == {f[i] : i \in 1..n}
<1>1. f \in [1..n -> S]
  OBVIOUS
<1> HIDE DEF S
<1>2. f \in Seq(S)
  BY <1>1, SeqDef
<1>3. Len(f) \in Nat /\ DOMAIN f = 1..Len(f)
  BY <1>2, LenProperties
<1>4. 1..n = 1..Len(f)
  BY <1>1, <1>3
<1>5. Len(f) = n
  BY <1>3, <1>4
<1>6. QED
  BY <1>2, <1>5 DEF S

(* A row is a node, or a leaf below a node that is a topic.                *)
LEMMA RowType ==
    ASSUME NEW s, NEW row \in Rows(s)
    PROVE  /\ row = Row(row.node, row.leaf)
           /\ row.node \in Nodes(s)
           /\ row.leaf # NoLeaf =>
                /\ node_topic(s, row.node) # NoTopic
                /\ row.leaf[1] \in {"pub", "sub"}
                /\ row.leaf = <<row.leaf[1], row.leaf[2]>>
<1>1. CASE \E n \in Nodes(s) : row = Row(n, NoLeaf)
  BY <1>1 DEF Row
<1>2. CASE \E n \in Nodes(s) :
             /\ node_topic(s, n) # NoTopic
             /\ \E leaf \in leaves_for_topic(s, node_topic(s, n)) : row = Row(n, leaf)
  <2>1. PICK n \in Nodes(s) :
             /\ node_topic(s, n) # NoTopic
             /\ \E leaf \in leaves_for_topic(s, node_topic(s, n)) : row = Row(n, leaf)
    BY <1>2
  <2>2. PICK leaf \in leaves_for_topic(s, node_topic(s, n)) : row = Row(n, leaf)
    BY <2>1
  <2>3. leaf[1] \in {"pub", "sub"} /\ leaf = <<leaf[1], leaf[2]>>
    BY DEF leaves_for_topic
  <2>4. QED
    BY <2>1, <2>2, <2>3 DEF Row
<1>3. QED
  BY <1>1, <1>2 DEF Rows

(* The identifier of a row names it.                                       *)
LEMMA IdentifierDenotes ==
    ASSUME NEW s, IsSnapshot(s), NEW row \in Rows(s)
    PROVE  Denotes(Identifier(s, row), row)
<1> DEFINE node == row.node
           path == [i \in DOMAIN node |-> item_id(s, SubSeq(node, 1, i))]
           id   == Identifier(s, row)
<1>1. /\ row = Row(node, row.leaf) /\ node \in Seq(Nat)
      /\ Len(node) \in Nat /\ DOMAIN node = 1..Len(node)
  BY RowType, NodeType, LenProperties
<1>2. ASSUME NEW i \in 1..Len(node)
      PROVE  NamesSegment(path[i], node, i)
  <2> DEFINE prefix == SubSeq(node, 1, i)
  <2>1. path[i] = item_id(s, prefix)
    BY <1>1
  <2>2. prefix \in Seq(Nat) /\ Len(prefix) = i /\ prefix[i] = node[i]
    BY <1>1, PrefixProperties
  <2>3. CASE node_topic(s, prefix) # NoTopic
    <3>1. path[i] = <<"topic", node_topic(s, prefix)>>
      BY <2>1, <2>3 DEF item_id
    <3>2. /\ node_topic(s, prefix) \in Topics
          /\ Segments[node_topic(s, prefix)] = prefix
      BY <2>3, NodeTopic
    <3> HIDE DEF path
    <3>3. QED
      BY <3>1, <3>2 DEF NamesSegment
  <2>4. CASE node_topic(s, prefix) = NoTopic
    <3>1. Last(prefix) = node[i]
      BY <2>2 DEF Last
    <3>2. path[i] = <<"group", first_topic(s)[prefix], node[i]>>
      BY <2>1, <2>4, <3>1 DEF item_id
    <3> HIDE DEF path
    <3>3. QED
      BY <3>2 DEF NamesSegment
  <2>5. QED
    BY <2>3, <2>4
<1>3. path = [i \in 1..Len(node) |-> path[i]]
  BY <1>1
<1> HIDE DEF path
<1>4. path \in Seq({path[i] : i \in 1..Len(node)}) /\ Len(path) = Len(node)
  BY <1>1, <1>3, Enumerated
<1>5. CASE row.leaf = NoLeaf
  <2>1. id = path
    BY <1>5 DEF Identifier, path
  <2>2. \A i \in 1..Len(node) : NamesSegment(id[i], node, i)
    BY <1>2, <2>1
  <2>3. id = [i \in 1..Len(id) |-> id[i]] /\ Len(id) = Len(node)
    BY <1>3, <1>4, <2>1
  <2>4. NamesLeaf(id, row)
    BY <1>5, <2>3 DEF NamesLeaf
  <2> HIDE DEF id
  <2>5. Denotes(id, row)
    BY <1>1, <2>2, <2>3, <2>4, Zenon DEF Denotes
  <2>6. QED
    BY <2>5 DEF id
<1>6. CASE row.leaf # NoLeaf
  <2> DEFINE leaf == <<row.leaf[1], node_topic(s, node), row.leaf[2]>>
             S    == {path[i] : i \in 1..Len(node)} \cup {leaf}
  <2>1. id = Append(path, leaf)
    BY <1>6 DEF Identifier, path
  <2>2. path \in Seq(S) /\ leaf \in S
    <3> HIDE DEF leaf
    <3>1. QED
      BY <1>4, SeqMonotonic
  <2>3. /\ row.leaf[1] \in {"pub", "sub"}
        /\ row.leaf = <<row.leaf[1], row.leaf[2]>>
    BY <1>6, RowType
  <2>4. leaf[1] = row.leaf[1] /\ leaf[3] = row.leaf[2]
    OBVIOUS
  <2> HIDE DEF leaf, S, id
  <2>5. /\ id \in Seq(S)
        /\ Len(id) = Len(node) + 1
        /\ \A i \in 1..Len(node) : id[i] = path[i]
        /\ id[Len(node) + 1] = leaf
    BY <1>1, <1>4, <2>1, <2>2, AppendProperties
  <2>6. id = [i \in 1..Len(id) |-> id[i]]
    BY <2>5, LenProperties
  <2>7. \A i \in 1..Len(node) : NamesSegment(id[i], node, i)
    BY <1>2, <2>5
  <2>8. NamesLeaf(id, row)
    <3>1. Last(id) = leaf
      BY <2>5 DEF Last
    <3>2. QED
      BY <2>3, <2>4, <2>5, <3>1 DEF NamesLeaf
  <2>9. Denotes(id, row)
    BY <1>1, <2>6, <2>7, <2>8, Zenon DEF Denotes
  <2>10. QED
    BY <2>9 DEF id
<1>7. QED
  BY <1>5, <1>6

(* A segment of the row that an identifier names.                          *)
LEMMA DenotedSegment ==
    ASSUME NEW id, NEW row, Denotes(id, row), NEW i \in 1..Len(row.node)
    PROVE  \/ id[i][1] = "topic" /\ row.node[i] = Segments[id[i][2]][i]
           \/ id[i][1] = "group" /\ row.node[i] = id[i][3]
<1>1. row.node \in Seq(Nat) /\ Len(row.node) \in Nat
  BY LenProperties DEF Denotes
<1>2. SubSeq(row.node, 1, i)[i] = row.node[i]
  BY <1>1, PrefixProperties
<1>3. CASE \E t \in Topics : /\ id[i] = <<"topic", t>>
                             /\ Segments[t] = SubSeq(row.node, 1, i)
  BY <1>2, <1>3
<1>4. CASE id[i] = <<"group", id[i][2], row.node[i]>>
  <2>1. id[i][1] = "group" /\ id[i][3] = row.node[i]
    BY <1>4
  <2>2. QED
    BY <2>1
<1>5. QED
  BY <1>3, <1>4 DEF Denotes, NamesSegment

(* An identifier names one row at most.                                    *)
LEMMA DenotesOne ==
    ASSUME NEW id, NEW row, NEW other, Denotes(id, row), Denotes(id, other)
    PROVE  row = other
<1>1. /\ row.node \in Seq(Nat) /\ Len(row.node) \in Nat
      /\ other.node \in Seq(Nat) /\ Len(other.node) \in Nat
  BY LenProperties, SMTT(60) DEF Denotes
<1> DEFINE kind == Last(id)[1]
           length == Len(id)
           Ends(r) == \/ /\ r.leaf = NoLeaf /\ length = Len(r.node)
                         /\ length > 0 => kind \in {"topic", "group"}
                      \/ /\ r.leaf = <<kind, Last(id)[3]>>
                         /\ length = Len(r.node) + 1
                         /\ kind \in {"pub", "sub"}
<1>2. ASSUME NEW r, Denotes(id, r), Len(r.node) \in Nat
      PROVE  Ends(r)
  <2>1. CASE r.leaf = NoLeaf /\ length = Len(r.node)
    <3>1. length > 0 => length \in 1..Len(r.node)
      BY <1>2, <2>1
    <3>2. length > 0 => id[length][1] \in {"topic", "group"}
      BY <1>2, <3>1, DenotedSegment
    <3>3. QED
      BY <2>1, <3>2 DEF Last
  <2>2. CASE /\ length = Len(r.node) + 1
             /\ kind \in {"pub", "sub"}
             /\ r.leaf = <<kind, Last(id)[3]>>
    BY <2>2
  <2>3. QED
    BY <1>2, <2>1, <2>2 DEF Denotes, NamesLeaf
<1>3. Len(row.node) = Len(other.node) /\ row.leaf = other.leaf
  <2>1. Ends(row) /\ Ends(other)
    BY <1>1, <1>2
  <2> HIDE DEF kind, length
  <2>2. CASE row.leaf = NoLeaf /\ length = Len(row.node)
    <3>1. other.leaf = NoLeaf /\ length = Len(other.node)
      BY <1>1, <2>1, <2>2
    <3>2. QED
      BY <2>2, <3>1
  <2>3. CASE ~(row.leaf = NoLeaf /\ length = Len(row.node))
    <3>1. /\ row.leaf = <<kind, Last(id)[3]>> /\ length = Len(row.node) + 1
          /\ kind \in {"pub", "sub"}
      BY <2>1, <2>3, Zenon
    <3>2. length > 0 /\ kind \notin {"topic", "group"}
      BY <1>1, <3>1
    <3>3. other.leaf = <<kind, Last(id)[3]>> /\ length = Len(other.node) + 1
      BY <2>1, <3>2, Zenon
    <3>4. QED
      BY <1>1, <3>1, <3>3, SMTT(60)
  <2>4. QED
    BY <2>2, <2>3
<1>4. \A i \in 1..Len(row.node) : row.node[i] = other.node[i]
  BY <1>3, DenotedSegment, SMTT(60)
<1>5. row.node = other.node
  BY <1>1, <1>3, <1>4, SeqEqual
<1>6. row = Row(row.node, row.leaf) /\ other = Row(other.node, other.leaf)
  BY DEF Denotes
<1>7. QED
  BY <1>3, <1>5, <1>6

(* The identifier without its last part names the row's parent.            *)
LEMMA DenotesParent ==
    ASSUME NEW id, NEW row, Denotes(id, row), id # <<>>
    PROVE  Denotes(Front(id),
                   IF row.leaf = NoLeaf THEN Row(Front(row.node), NoLeaf)
                   ELSE Row(row.node, NoLeaf))
<1> DEFINE node == row.node
           n    == Len(id) - 1
           up   == SubSeq(node, 1, n)
<1>1. node \in Seq(Nat) /\ Len(node) \in Nat
  BY LenProperties DEF Denotes
<1>2. Len(id) \in Nat /\ (Len(id) = Len(node) \/ Len(id) = Len(node) + 1)
  <2>1. NamesLeaf(id, row)
    BY SMTT(60) DEF Denotes
  <2>2. QED
    BY <1>1, <2>1 DEF NamesLeaf
<1>3. PICK S : id \in Seq(S)
  <2>1. id = [i \in 1..Len(id) |-> id[i]]
    BY DEF Denotes
  <2>2. QED
    BY <1>2, <2>1, Enumerated
<1>4. n \in Nat /\ n \in 0..Len(id)
  BY <1>2, <1>3, EmptySeq
<1>5. /\ Front(id) \in Seq(S)
      /\ Len(Front(id)) = n
      /\ \A i \in 1..n : Front(id)[i] = id[i]
  <2>1. Front(id) = SubSeq(id, 1, n)
    BY DEF Front
  <2> HIDE DEF n
  <2>2. QED
    BY <1>3, <1>4, <2>1, PrefixProperties
<1>6. Front(id) = [i \in 1..Len(Front(id)) |-> Front(id)[i]]
  BY <1>5, LenProperties
<1>7. n \in 0..Len(node)
  BY <1>1, <1>2, <1>4
<1>8. /\ up \in Seq(Nat) /\ Len(up) = n
      /\ \A i \in 1..n : up[i] = node[i]
  <2> HIDE DEF n
  <2>1. QED
    BY <1>1, <1>7, PrefixProperties
<1>9. ASSUME NEW i \in 1..n
      PROVE  NamesSegment(Front(id)[i], up, i)
  <2>1. SubSeq(up, 1, i) = SubSeq(node, 1, i)
    <3> HIDE DEF n, up
    <3>1. /\ SubSeq(up, 1, i) \in Seq(Nat) /\ Len(SubSeq(up, 1, i)) = i
          /\ \A j \in 1..i : SubSeq(up, 1, i)[j] = up[j]
      BY <1>4, <1>8, PrefixProperties
    <3>2. /\ SubSeq(node, 1, i) \in Seq(Nat) /\ Len(SubSeq(node, 1, i)) = i
          /\ \A j \in 1..i : SubSeq(node, 1, i)[j] = node[j]
      BY <1>1, <1>4, <1>7, PrefixProperties
    <3>3. \A j \in 1..i : SubSeq(up, 1, i)[j] = SubSeq(node, 1, i)[j]
      BY <1>4, <1>8, <3>1, <3>2
    <3>4. QED
      BY <3>1, <3>2, <3>3, SeqEqual
  <2>2. NamesSegment(id[i], node, i)
    <3>1. i \in 1..Len(node)
      BY <1>1, <1>4, <1>7
    <3>2. QED
      BY <3>1 DEF Denotes
  <2>3. Front(id)[i] = id[i] /\ up[i] = node[i]
    BY <1>5, <1>8
  <2> HIDE DEF up, n
  <2>4. QED
    BY <2>1, <2>2, <2>3, Zenon DEF NamesSegment
<1>10. Denotes(Front(id), Row(up, NoLeaf))
  <2> HIDE DEF up, n
  <2>1. Row(up, NoLeaf).node = up /\ Row(up, NoLeaf).leaf = NoLeaf
    BY DEF Row
  <2>2. \A i \in 1..Len(up) : NamesSegment(Front(id)[i], up, i)
    BY <1>8, <1>9
  <2>3. NamesLeaf(Front(id), Row(up, NoLeaf))
    BY <1>5, <1>8, <2>1, ZenonT(60) DEF NamesLeaf
  <2>4. QED
    BY <1>6, <1>8, <2>1, <2>2, <2>3, Zenon DEF Denotes
<1>11. Row(up, NoLeaf) = IF row.leaf = NoLeaf THEN Row(Front(node), NoLeaf)
                         ELSE Row(node, NoLeaf)
  <2>1. CASE row.leaf = NoLeaf /\ Len(id) = Len(node)
    BY <2>1 DEF Front
  <2>2. CASE Len(id) = Len(node) + 1 /\ row.leaf = <<Last(id)[1], Last(id)[3]>>
    <3>1. row.leaf # NoLeaf
      BY <2>2 DEF NoLeaf
    <3>2. n = Len(node)
      BY <1>1, <2>2
    <3>3. up = node
      BY <1>1, <3>2, SubSeqFull
    <3>4. QED
      BY <3>1, <3>3
  <2>3. QED
    BY <2>1, <2>2 DEF Denotes, NamesLeaf
<1>12. QED
  BY <1>10, <1>11

-----------------------------------------------------------------------------
(* The invariant is inductive.                                             *)

(* Nothing is selected at first.                                           *)
LEMMA TreeInitially == TreeInit => TreeInv
<1> SUFFICES ASSUME TreeInit PROVE TreeInv
  OBVIOUS
<1>1. IsSnapshot(latest) /\ IsSnapshot(shown)
  BY DefaultSnapshot DEF TreeInit
<1>2. <<>> \in Seq(Nat) /\ Len(<<>>) = 0
  BY EmptySeq
<1>3. Denotes(<<>>, Root)
  <2>1. Root.node = <<>> /\ Root.leaf = NoLeaf /\ Root = Row(Root.node, Root.leaf)
    BY DEF Root, Row
  <2>2. <<>> = [i \in 1..Len(<<>>) |-> <<>>[i]]
    BY <1>2
  <2>3. NamesLeaf(<<>>, Root)
    BY <1>2, <2>1, Zenon DEF NamesLeaf
  <2>4. QED
    BY <1>2, <2>1, <2>2, <2>3 DEF Denotes
<1>4. QED
  BY <1>1, <1>3 DEF TreeInit, TreeInv

(* One step per action.                                                    *)
LEMMA TreeStep == TreeInv /\ [TreeNext]_treeVars => TreeInv'
<1> SUFFICES ASSUME TreeInv, [TreeNext]_treeVars PROVE TreeInv'
  OBVIOUS
<1>1. ASSUME NEW o \in Offered, FoldIn(o) PROVE TreeInv'
  BY <1>1, FoldedSnapshot DEF TreeInv, FoldIn
<1>2. CASE Restart
  BY <1>2, DefaultSnapshot DEF TreeInv, Restart
<1>3. CASE Draw
  BY <1>3 DEF TreeInv, Draw
<1>4. CASE Move
  <2>1. PICK row \in Rows(shown) : /\ selected' = Identifier(shown, row)
                                   /\ meant' = row
    BY <1>4 DEF Move, Visible
  <2>2. Denotes(selected', meant')
    BY <2>1, IdentifierDenotes DEF TreeInv
  <2>3. UNCHANGED <<latest, shown>>
    BY <1>4 DEF Move
  <2>4. QED
    BY <2>2, <2>3 DEF TreeInv
<1>5. CASE OpenSelected \/ CloseSelected
  BY <1>5 DEF TreeInv, OpenSelected, CloseSelected
<1>6. CASE GoToParent
  <2>1. Denotes(selected', meant')
    BY <1>6, DenotesParent DEF GoToParent, TreeInv
  <2>2. UNCHANGED <<latest, shown>>
    BY <1>6 DEF GoToParent
  <2>3. QED
    BY <2>1, <2>2 DEF TreeInv
<1>7. CASE UNCHANGED treeVars
  BY <1>7 DEF TreeInv, treeVars
<1>8. QED
  BY <1>1, <1>2, <1>3, <1>4, <1>5, <1>6, <1>7 DEF TreeNext, handle_tree_key

(* The tree's invariant.                                                   *)
THEOREM TreeInvariant == TreeSpec => []TreeInv
<1>1. QED
  BY TreeInitially, TreeStep, PTL DEF TreeSpec

(* The cursor never comes to stand on a row the user did not put it on,    *)
(* whatever traffic and restarts of the monitor rebuild the tree           *)
(* (CursorKeepsItsRow): an identifier names its row without the snapshot.  *)
THEOREM CursorStays == TreeSpec => []CursorKeepsItsRow
<1>1. TreeInv => CursorKeepsItsRow
  BY IdentifierDenotes, DenotesOne DEF TreeInv, CursorKeepsItsRow
<1>2. QED
  BY <1>1, TreeInvariant, PTL

-----------------------------------------------------------------------------
(* The tree's figures add up.                                              *)

(* What a node leads to: the nodes it is a prefix of, itself among them.   *)
Below(s, node) == {n \in Nodes(s) : IsPrefix(node, n)}

(* One sequence starts with another: element by element.                   *)
LEMMA PrefixByElement ==
    ASSUME NEW a \in Seq(Nat), NEW b \in Seq(Nat)
    PROVE  IsPrefix(a, b) <=> Len(a) <= Len(b) /\ \A i \in 1..Len(a) : a[i] = b[i]
<1>1. /\ Len(a) \in Nat /\ Len(b) \in Nat
      /\ DOMAIN a = 1..Len(a) /\ DOMAIN b = 1..Len(b)
  BY LenProperties
<1>2. SubSeq(a, 1, Len(a)) \in Seq(Nat) /\ Len(SubSeq(a, 1, Len(a))) = Len(a)
      /\ \A i \in 1..Len(a) : SubSeq(a, 1, Len(a))[i] = a[i]
  BY <1>1, PrefixProperties
<1>3. ASSUME Len(a) <= Len(b)
      PROVE  /\ SubSeq(b, 1, Len(a)) \in Seq(Nat)
             /\ Len(SubSeq(b, 1, Len(a))) = Len(a)
             /\ \A i \in 1..Len(a) : SubSeq(b, 1, Len(a))[i] = b[i]
  BY <1>1, <1>3, PrefixProperties
<1>4. ASSUME Len(a) <= Len(b), SubSeq(a, 1, Len(a)) = SubSeq(b, 1, Len(a))
      PROVE  \A i \in 1..Len(a) : a[i] = b[i]
  BY <1>2, <1>3, <1>4
<1>5. ASSUME Len(a) <= Len(b), \A i \in 1..Len(a) : a[i] = b[i]
      PROVE  SubSeq(a, 1, Len(a)) = SubSeq(b, 1, Len(a))
  BY <1>2, <1>3, <1>5, SeqEqual
<1>6. QED
  BY <1>4, <1>5 DEF IsPrefix

(* A node's prefixes are nodes.                                            *)
LEMMA NodePrefix ==
    ASSUME NEW s, IsSnapshot(s), NEW node \in Nodes(s), NEW k \in 1..Len(node)
    PROVE  /\ SubSeq(node, 1, k) \in Nodes(s)
           /\ SubSeq(node, 1, k) \in Seq(Nat)
           /\ Len(SubSeq(node, 1, k)) = k
           /\ \A i \in 1..k : SubSeq(node, 1, k)[i] = node[i]
<1>0. PICK t \in Listed(s) :
        \E n \in 1..Len(Segments[t]) : node = SubSeq(Segments[t], 1, n)
  BY DEF Nodes
<1>1. PICK n \in 1..Len(Segments[t]) : node = SubSeq(Segments[t], 1, n)
  BY <1>0
<1>2. Segments[t] \in Seq(Nat)
  BY TreeAssumption DEF Listed, IsSnapshot, IsAppState, IsMap
<1>3. Len(Segments[t]) \in Nat
  BY <1>2, LenProperties
<1>4. /\ node \in Seq(Nat) /\ Len(node) = n
      /\ \A i \in 1..n : node[i] = Segments[t][i]
  BY <1>1, <1>2, <1>3, PrefixProperties, SMTT(60)
<1> DEFINE a == SubSeq(node, 1, k)
           b == SubSeq(Segments[t], 1, k)
<1>5. a \in Seq(Nat) /\ Len(a) = k /\ \A i \in 1..k : a[i] = node[i]
  BY <1>3, <1>4, PrefixProperties
<1>6. b \in Seq(Nat) /\ Len(b) = k /\ \A i \in 1..k : b[i] = Segments[t][i]
  BY <1>2, <1>3, <1>4, PrefixProperties, SMTT(60)
<1>7. a = b
  <2> HIDE DEF a, b
  <2>1. \A i \in 1..k : a[i] = b[i]
    BY <1>3, <1>4, <1>5, <1>6, SMTT(60)
  <2>2. QED
    BY <1>5, <1>6, <2>1, SeqEqual
<1>8. b \in Nodes(s)
  BY <1>3, <1>4 DEF Nodes
<1>9. QED
  BY <1>5, <1>7, <1>8

(* A listed topic's own node.                                              *)
LEMMA ListedNode ==
    ASSUME NEW s, IsSnapshot(s), NEW t \in Listed(s)
    PROVE  t \in Topics /\ t # NoTopic /\ Segments[t] \in Nodes(s)
<1>1. t \in Topics /\ t # NoTopic
  BY NoTopicAssumption DEF Listed, IsSnapshot, IsAppState, IsMap
<1> DEFINE all == Segments[t]
           n == SubSeq(all, 1, Len(all))
<1>2. all \in Seq(Nat) /\ all # <<>>
  BY <1>1, TreeAssumption
<1> HIDE DEF all
<1>3. Len(all) \in Nat \ {0}
  BY <1>2, LenProperties, EmptySeq
<1>4. n \in Seq(Nat) /\ Len(n) = Len(all) /\ \A i \in 1..Len(all) : n[i] = all[i]
  BY <1>2, <1>3, PrefixProperties
<1>5. n \in Nodes(s)
  BY <1>3 DEF Nodes, all
<1> HIDE DEF n
<1>6. n = all
  BY <1>2, <1>4, SeqEqual
<1>7. QED
  BY <1>1, <1>5, <1>6 DEF all

(* A snapshot has finitely many nodes.                                     *)
LEMMA NodesFinite ==
    ASSUME NEW s, IsSnapshot(s)
    PROVE  IsFiniteSet(Nodes(s)) /\ IsFiniteSet(Listed(s))
<1>1. IsFiniteSet(Listed(s))
  BY FS_Subset DEF Listed, IsSnapshot
<1> DEFINE Of(t) == {SubSeq(Segments[t], 1, n) : n \in 1..Len(Segments[t])}
           all == {Of(t) : t \in Listed(s)}
<1>2. ASSUME NEW t \in Listed(s) PROVE IsFiniteSet(Of(t))
  <2>1. Segments[t] \in Seq(Nat)
    BY TreeAssumption DEF Listed, IsSnapshot, IsAppState, IsMap
  <2>2. IsFiniteSet(1..Len(Segments[t]))
    BY <2>1, LenProperties, FS_Interval
  <2> DEFINE f == [n \in 1..Len(Segments[t]) |-> SubSeq(Segments[t], 1, n)]
  <2>3. Of(t) = {f[n] : n \in 1..Len(Segments[t])}
    OBVIOUS
  <2> HIDE DEF f, Of
  <2>4. QED
    BY <2>2, <2>3, ImageFinite
<1>3. IsFiniteSet(all)
  <2> DEFINE f == [t \in Listed(s) |-> Of(t)]
  <2>1. all = {f[t] : t \in Listed(s)}
    OBVIOUS
  <2> HIDE DEF f, all
  <2>2. QED
    BY <1>1, <2>1, ImageFinite
<1>4. IsFiniteSet(UNION all)
  <2>1. \A T \in all : IsFiniteSet(T)
    BY <1>2
  <2> HIDE DEF all
  <2>2. QED
    BY <1>3, <2>1, FS_UNION
<1>5. QED
  BY <1>1, <1>4 DEF Nodes

(* Nodes are ordered by being prefixes.                                    *)
LEMMA NodesOrdered ==
    ASSUME NEW s, IsSnapshot(s), NEW a \in Nodes(s), NEW b \in Nodes(s)
    PROVE  /\ a \in Seq(Nat) /\ b \in Seq(Nat)
           /\ Len(a) \in Nat \ {0} /\ Len(b) \in Nat \ {0}
           /\ IsPrefix(a, b) <=> Len(a) <= Len(b) /\ \A i \in 1..Len(a) : a[i] = b[i]
           /\ Len(a) = Len(b) /\ IsPrefix(a, b) => a = b
<1>1. /\ a \in Seq(Nat) /\ b \in Seq(Nat)
      /\ Len(a) \in Nat \ {0} /\ Len(b) \in Nat \ {0}
  BY NodeType
<1>2. IsPrefix(a, b) <=> Len(a) <= Len(b) /\ \A i \in 1..Len(a) : a[i] = b[i]
  BY <1>1, PrefixByElement
<1>3. Len(a) = Len(b) /\ IsPrefix(a, b) => a = b
  BY <1>1, <1>2, SeqEqual
<1>4. QED
  BY <1>1, <1>2, <1>3

(* Two prefixes of a node: the shorter one is a prefix of the longer.      *)
LEMMA PrefixesNest ==
    ASSUME NEW s, IsSnapshot(s), NEW a \in Nodes(s), NEW b \in Nodes(s),
           NEW n \in Nodes(s), IsPrefix(a, n), IsPrefix(b, n), Len(a) <= Len(b)
    PROVE  IsPrefix(a, b) /\ SubSeq(b, 1, Len(a)) = a
<1>1. /\ a \in Seq(Nat) /\ b \in Seq(Nat) /\ n \in Seq(Nat)
      /\ Len(a) \in Nat \ {0} /\ Len(b) \in Nat \ {0} /\ Len(n) \in Nat \ {0}
  BY NodeType
<1>2. \A i \in 1..Len(a) : a[i] = n[i]
  BY NodesOrdered
<1>3. \A i \in 1..Len(b) : b[i] = n[i]
  BY NodesOrdered
<1>4. \A i \in 1..Len(a) : a[i] = b[i]
  BY <1>1, <1>2, <1>3
<1>5. IsPrefix(a, b)
  BY <1>4, NodesOrdered
<1> DEFINE c == SubSeq(b, 1, Len(a))
<1>6. c \in Seq(Nat) /\ Len(c) = Len(a) /\ \A i \in 1..Len(a) : c[i] = b[i]
  BY <1>1, PrefixProperties, SMTT(60)
<1>7. c = a
  <2> HIDE DEF c
  <2>1. QED
    BY <1>1, <1>4, <1>6, SeqEqual
<1>8. QED
  BY <1>5, <1>7

(* Being a prefix is transitive.                                           *)
LEMMA PrefixOfPrefix ==
    ASSUME NEW s, IsSnapshot(s), NEW a \in Nodes(s), NEW b \in Nodes(s),
           NEW c \in Nodes(s), IsPrefix(a, b), IsPrefix(b, c)
    PROVE  IsPrefix(a, c)
<1>1. Len(a) \in Nat /\ Len(b) \in Nat /\ Len(c) \in Nat
  BY NodeType
<1>2. Len(a) <= Len(b) /\ \A i \in 1..Len(a) : a[i] = b[i]
  BY NodesOrdered
<1>3. Len(b) <= Len(c) /\ \A i \in 1..Len(b) : b[i] = c[i]
  BY NodesOrdered
<1>4. Len(a) <= Len(c) /\ \A i \in 1..Len(a) : a[i] = c[i]
  BY <1>1, <1>2, <1>3
<1>5. QED
  BY <1>4, NodesOrdered

(* A node leads to itself and to what its children lead to.                *)
LEMMA BelowChildren ==
    ASSUME NEW s, IsSnapshot(s), NEW node \in Nodes(s)
    PROVE  /\ Below(s, node)
                = {node} \cup UNION {Below(s, c) : c \in children(s, node)}
           /\ \A c \in children(s, node) :
                /\ c \in Nodes(s)
                /\ node \notin Below(s, c)
                /\ Below(s, c) \subseteq Below(s, node)
           /\ \A c, d \in children(s, node) :
                c # d => Below(s, c) \cap Below(s, d) = {}
<1>1. \A c \in children(s, node) :
        c \in Nodes(s) /\ Len(c) = Len(node) + 1 /\ IsPrefix(node, c)
  BY DEF children
<1>2. ASSUME NEW c \in children(s, node)
      PROVE  node \notin Below(s, c) /\ Below(s, c) \subseteq Below(s, node)
  <2>1. ~ IsPrefix(c, node)
    BY <1>1, NodesOrdered
  <2>2. \A n \in Nodes(s) : IsPrefix(c, n) => IsPrefix(node, n)
    BY <1>1, PrefixOfPrefix
  <2>3. QED
    BY <2>1, <2>2 DEF Below
<1>3. ASSUME NEW c \in children(s, node), NEW d \in children(s, node),
             NEW n \in Below(s, c) \cap Below(s, d)
      PROVE  c = d
  <2>1. IsPrefix(c, n) /\ IsPrefix(d, n) /\ n \in Nodes(s)
    BY DEF Below
  <2>2. Len(c) = Len(d) /\ Len(c) \in Nat
    BY <1>1, NodeType
  <2>3. IsPrefix(c, d)
    BY <1>1, <2>1, <2>2, PrefixesNest
  <2>4. QED
    BY <1>1, <2>2, <2>3, NodesOrdered
<1>4. IsPrefix(node, node)
  BY NodesOrdered
<1>5. ASSUME NEW n \in Below(s, node), n # node
      PROVE  \E c \in children(s, node) : n \in Below(s, c)
  <2>1. n \in Nodes(s) /\ IsPrefix(node, n)
    BY DEF Below
  <2>2. /\ Len(node) \in Nat /\ Len(n) \in Nat /\ Len(node) <= Len(n)
        /\ \A i \in 1..Len(node) : node[i] = n[i]
        /\ Len(node) # Len(n)
    BY <1>5, <2>1, NodesOrdered
  <2> DEFINE c == SubSeq(n, 1, Len(node) + 1)
  <2>3. Len(node) + 1 \in 1..Len(n)
    BY <2>2
  <2>4. /\ c \in Nodes(s) /\ Len(c) = Len(node) + 1
        /\ \A i \in 1..(Len(node) + 1) : c[i] = n[i]
    BY <2>1, <2>3, NodePrefix
  <2> HIDE DEF c
  <2>5. IsPrefix(node, c)
    <3>1. Len(node) <= Len(c) /\ \A i \in 1..Len(node) : node[i] = c[i]
      BY <2>2, <2>4
    <3>2. QED
      BY <2>4, <3>1, NodesOrdered
  <2>6. IsPrefix(c, n)
    <3>1. Len(c) <= Len(n) /\ \A i \in 1..Len(c) : c[i] = n[i]
      BY <2>2, <2>4
    <3>2. QED
      BY <2>1, <2>4, <3>1, NodesOrdered
  <2>7. QED
    BY <2>1, <2>4, <2>5, <2>6 DEF children, Below
<1>6. node \in Below(s, node)
  BY <1>4 DEF Below
<1>7. Below(s, node) = {node} \cup UNION {Below(s, c) : c \in children(s, node)}
  BY <1>2, <1>5, <1>6
<1>8. QED
  BY <1>1, <1>2, <1>3, <1>7

-----------------------------------------------------------------------------
(* What a group's line shows.                                              *)

Own(s) == [n \in Nodes(s) |-> OwnMessages(s, n)]

\* A node's own messages are those of a listed topic, or none.
LEMMA OwnType ==
    ASSUME NEW s, IsSnapshot(s), NEW n \in Nodes(s)
    PROVE  Own(s)[n] \in Nat
<1>1. CASE node_topic(s, n) = NoTopic
  BY <1>1 DEF Own, OwnMessages
<1>2. CASE node_topic(s, n) # NoTopic
  <2> DEFINE t == node_topic(s, n)
  <2>1. t \in DOMAIN s.topics
    BY <1>2, NodeTopic DEF Listed
  <2>2. s.topics[t].publish_count \in Nat
    <3> HIDE DEF t
    <3>1. QED
      BY <2>1 DEF IsSnapshot, IsAppState, IsMap, IsTopic
  <2>3. QED
    BY <1>2, <2>2 DEF Own, OwnMessages
<1>3. QED
  BY <1>1, <1>2

(***************************************************************************)
(* subtree_messages counts each topic below a group once: the recursion    *)
(* over the children adds up the own messages of all nodes below.          *)
(***************************************************************************)
LEMMA SubtreeSums ==
    ASSUME NEW s, IsSnapshot(s), NEW node \in Nodes(s)
    PROVE  subtree_messages(s)[node] = SumOf(Own(s), Below(s, node))
<1> DEFINE Rec(f) == f = [n \in Nodes(s) |->
                            OwnMessages(s, n) + SumOf(f, children(s, n))]
           total == [n \in Nodes(s) |-> SumOf(Own(s), Below(s, n))]
<1>1. subtree_messages(s) = CHOOSE f : Rec(f)
  BY DEF subtree_messages, MapThenSumSet, SumOf, MapThenFoldSet
<1>2. IsFiniteSet(Nodes(s))
  BY NodesFinite
<1>3. \A n \in Nodes(s) : IsFiniteSet(children(s, n)) /\ IsFiniteSet(Below(s, n))
  BY <1>2, FS_Subset DEF children, Below
<1>4. ASSUME NEW n \in Nodes(s)
      PROVE  total[n] = OwnMessages(s, n) + SumOf(total, children(s, n))
  <2> DEFINE I == children(s, n)
             D == [c \in Nodes(s) |-> Below(s, c)]
             rest == UNION {D[c] : c \in I}
  <2>1. /\ Below(s, n) = {n} \cup UNION {Below(s, c) : c \in I}
        /\ \A c \in I : c \in Nodes(s) /\ n \notin Below(s, c)
        /\ \A c, d \in I : c # d => Below(s, c) \cap Below(s, d) = {}
    BY BelowChildren
  <2>2. rest = UNION {Below(s, c) : c \in I}
    BY <2>1
  <2>3. /\ IsFiniteSet(I) /\ \A c \in I : IsFiniteSet(D[c])
        /\ \A c, d \in I : c # d => D[c] \cap D[d] = {}
        /\ \A c \in I : total[c] = SumOf(Own(s), D[c])
    BY <1>3, <2>1
  <2>4. \A c \in I : \A m \in D[c] : Own(s)[m] \in Nat
    BY <2>1, OwnType DEF Below
  <2>5. SumOf(total, I) = SumOf(Own(s), rest)
    <3> HIDE DEF I, D, total, rest
    <3>1. QED
      BY <2>3, <2>4, SumOfSums DEF rest
  <2>6. Below(s, n) \ {n} = rest /\ n \in Below(s, n)
    BY <2>1, <2>2
  <2>7. SumOf(Own(s), Below(s, n)) = Own(s)[n] + SumOf(Own(s), Below(s, n) \ {n})
    <3>1. \A m \in Below(s, n) : Own(s)[m] \in Nat
      BY OwnType DEF Below
    <3>2. QED
      BY <1>3, <2>6, <3>1, SumProperties, ZenonT(60)
  <2>8. Own(s)[n] = OwnMessages(s, n)
    BY DEF Own
  <2>9. total[n] = SumOf(Own(s), Below(s, n))
    OBVIOUS
  <2> HIDE DEF total, rest, I
  <2>10. QED
    BY <2>5, <2>6, <2>7, <2>8, <2>9 DEF I
<1>5. Rec(total)
  <2> DEFINE both == [n \in Nodes(s) |->
                        OwnMessages(s, n) + SumOf(total, children(s, n))]
  <2>1. \A n \in Nodes(s) : total[n] = both[n]
    BY <1>4
  <2>2. DOMAIN total = Nodes(s) /\ DOMAIN both = Nodes(s)
    OBVIOUS
  <2>3. total = both
    BY <2>1
  <2>4. QED
    BY <2>3
<1> DEFINE sum == CHOOSE f : Rec(f)
<1>6. Rec(sum)
  <2> HIDE DEF Rec, total
  <2>1. QED
    BY <1>5
<1> HIDE DEF sum
<1>7. \A n \in Nodes(s) : sum[n] = OwnMessages(s, n) + SumOf(sum, children(s, n))
  BY <1>6
<1>8. \A n \in Nodes(s) : sum[n] = total[n]
  <2> DEFINE bad == {Below(s, n) : n \in {m \in Nodes(s) : sum[m] # total[m]}}
  <2>1. SUFFICES ASSUME bad # {} PROVE FALSE
    OBVIOUS
  <2>2. PICK T \in bad : \A U \in bad : ~(U \subseteq T /\ U # T)
    <3>1. bad \subseteq SUBSET Nodes(s)
      BY DEF Below
    <3> HIDE DEF bad
    <3>2. QED
      BY <1>2, <2>1, <3>1, LeastSubset
  <2>3. PICK n \in Nodes(s) : T = Below(s, n) /\ sum[n] # total[n]
    OBVIOUS
  <2>4. \A c \in children(s, n) : sum[c] = total[c]
    <3> SUFFICES ASSUME NEW c \in children(s, n), sum[c] # total[c] PROVE FALSE
      OBVIOUS
    <3>1. /\ c \in Nodes(s) /\ Below(s, c) \subseteq Below(s, n)
          /\ Below(s, c) # Below(s, n)
      BY <2>3, BelowChildren
    <3>2. Below(s, c) \in bad
      BY <3>1
    <3> HIDE DEF bad
    <3>3. QED
      BY <2>2, <2>3, <3>1, <3>2
  <2> HIDE DEF total
  <2>5. SumOf(sum, children(s, n)) = SumOf(total, children(s, n))
    BY <1>3, <2>4, SumSame
  <2>6. QED
    BY <1>4, <1>7, <2>3, <2>5
<1>9. QED
  BY <1>1, <1>8 DEF sum

-----------------------------------------------------------------------------
(* Closed groups and open topics show each node once.                      *)

\* The nodes whose messages the line of a node shows.
CountedAt(s) ==
    [n \in Nodes(s) |->
        IF node_topic(s, n) # NoTopic THEN {n} ELSE Below(s, n)]

(* No node is shown by two lines: above an open line all are topics.       *)
LEMMA CountedOnce ==
    ASSUME NEW s, IsSnapshot(s), NEW a \in InOpenTopics(s),
           NEW b \in InOpenTopics(s), NEW n \in CountedAt(s)[a],
           n \in CountedAt(s)[b]
    PROVE  a = b
<1>1. a \in Nodes(s) /\ b \in Nodes(s)
  BY DEF InOpenTopics
<1>2. ASSUME NEW c \in Nodes(s), n \in CountedAt(s)[c]
      PROVE  /\ n \in Nodes(s) /\ IsPrefix(c, n)
             /\ node_topic(s, c) # NoTopic => n = c
  <2>1. IsPrefix(c, c)
    BY NodesOrdered
  <2>2. QED
    BY <1>2, <2>1 DEF CountedAt, Below
<1>3. ASSUME NEW c \in InOpenTopics(s), NEW d \in InOpenTopics(s),
             n \in CountedAt(s)[c], n \in CountedAt(s)[d], Len(c) <= Len(d)
      PROVE  c = d
  <2>1. c \in Nodes(s) /\ d \in Nodes(s)
    BY DEF InOpenTopics
  <2>2. /\ n \in Nodes(s) /\ IsPrefix(c, n) /\ IsPrefix(d, n)
        /\ node_topic(s, c) # NoTopic => n = c
    BY <1>2, <1>3, <2>1
  <2>3. IsPrefix(c, d) /\ SubSeq(d, 1, Len(c)) = c
    BY <1>3, <2>1, <2>2, PrefixesNest
  <2>4. Len(c) \in Nat \ {0} /\ Len(d) \in Nat \ {0} /\ Len(n) \in Nat
    BY <2>1, <2>2, NodeType
  <2>5. CASE Len(c) = Len(d)
    BY <2>1, <2>3, <2>5, NodesOrdered
  <2>6. CASE Len(c) # Len(d)
    <3>1. Len(c) \in 1..(Len(d) - 1)
      BY <1>3, <2>4, <2>6
    <3>2. node_topic(s, c) # NoTopic
      BY <2>3, <3>1 DEF InOpenTopics
    <3>3. n = c
      BY <2>2, <3>2
    <3>4. Len(d) <= Len(n)
      BY <2>1, <2>2, NodesOrdered
    <3>5. QED
      BY <1>3, <2>4, <2>6, <3>3, <3>4
  <2>7. QED
    BY <2>5, <2>6
<1>4. Len(a) \in Nat /\ Len(b) \in Nat
  BY <1>1, NodeType
<1>5. Len(a) <= Len(b) \/ Len(b) <= Len(a)
  BY <1>4
<1>6. QED
  BY <1>3, <1>5

(* Every node is shown: by the first group above it, or by itself.         *)
LEMMA CountedSomewhere ==
    ASSUME NEW s, IsSnapshot(s), NEW n \in Nodes(s)
    PROVE  \E a \in InOpenTopics(s) : n \in CountedAt(s)[a]
<1> DEFINE Above(k) == SubSeq(n, 1, k)
           K == {k \in 1..Len(n) : node_topic(s, Above(k)) = NoTopic}
<1>1. Len(n) \in Nat \ {0} /\ n \in Seq(Nat)
  BY NodeType
<1>2. \A k \in 1..Len(n) : /\ Above(k) \in Nodes(s) /\ Len(Above(k)) = k
                           /\ Above(k) \in Seq(Nat)
                           /\ \A i \in 1..k : Above(k)[i] = n[i]
  BY NodePrefix
<1>3. Above(Len(n)) = n
  <2> HIDE DEF Above
  <2>1. Len(n) \in 1..Len(n)
    BY <1>1
  <2>2. QED
    BY <1>1, <1>2, <2>1, SeqEqual
<1>4. \A k \in 1..Len(n) : \A j \in 1..k : SubSeq(Above(k), 1, j) = Above(j)
  <2> SUFFICES ASSUME NEW k \in 1..Len(n), NEW j \in 1..k
               PROVE  SubSeq(Above(k), 1, j) = Above(j)
    OBVIOUS
  <2> HIDE DEF Above
  <2> DEFINE c == SubSeq(Above(k), 1, j)
  <2>1. j \in 1..Len(n) /\ j \in 1..Len(Above(k)) /\ Above(k) \in Nodes(s)
    BY <1>1, <1>2
  <2>2. c \in Seq(Nat) /\ Len(c) = j /\ \A i \in 1..j : c[i] = Above(k)[i]
    BY <2>1, NodePrefix
  <2>3. \A i \in 1..j : Above(k)[i] = Above(j)[i]
    BY <1>1, <1>2, <2>1
  <2> HIDE DEF c
  <2>4. c = Above(j)
    BY <1>2, <2>1, <2>2, <2>3, SeqEqual, SMTT(60)
  <2>5. QED
    BY <2>4 DEF c
<1> HIDE DEF Above
<1>5. CASE K = {}
  <2>1. \A j \in 1..Len(n) : node_topic(s, SubSeq(n, 1, j)) # NoTopic
    BY <1>5 DEF Above
  <2>2. n \in InOpenTopics(s)
    BY <1>1, <2>1 DEF InOpenTopics
  <2>3. node_topic(s, n) # NoTopic
    BY <1>1, <1>3, <1>5
  <2>4. n \in CountedAt(s)[n]
    BY <2>3 DEF CountedAt
  <2>5. QED
    BY <2>2, <2>4
<1>6. CASE K # {}
  <2>1. K \subseteq Nat
    BY <1>1
  <2>2. PICK k \in K : \A j \in K : k <= j
    <3> HIDE DEF K
    <3>1. QED
      BY <1>6, <2>1, LeastNumber
  <2>3. k \in 1..Len(n) /\ node_topic(s, Above(k)) = NoTopic
    OBVIOUS
  <2>4. \A j \in 1..(k - 1) : node_topic(s, Above(j)) # NoTopic
    BY <1>1, <2>2, <2>3
  <2>5. Above(k) \in InOpenTopics(s)
    <3>1. \A j \in 1..(Len(Above(k)) - 1) :
            node_topic(s, SubSeq(Above(k), 1, j)) # NoTopic
      <4> SUFFICES ASSUME NEW j \in 1..(Len(Above(k)) - 1)
                   PROVE  node_topic(s, SubSeq(Above(k), 1, j)) # NoTopic
        OBVIOUS
      <4>1. j \in 1..(k - 1) /\ j \in 1..k
        BY <1>1, <1>2, <2>3
      <4>2. SubSeq(Above(k), 1, j) = Above(j)
        BY <1>4, <2>3, <4>1
      <4>3. QED
        BY <2>4, <4>1, <4>2
    <3>2. QED
      BY <1>2, <2>3, <3>1 DEF InOpenTopics
  <2>6. IsPrefix(Above(k), n)
    <3>1. Len(Above(k)) <= Len(n) /\ \A i \in 1..Len(Above(k)) : Above(k)[i] = n[i]
      BY <1>1, <1>2, <2>3
    <3>2. QED
      BY <1>2, <2>3, <3>1, NodesOrdered
  <2>7. n \in CountedAt(s)[Above(k)]
    BY <1>2, <2>3, <2>6 DEF CountedAt, Below
  <2>8. QED
    BY <2>5, <2>7
<1>7. QED
  BY <1>5, <1>6

-----------------------------------------------------------------------------
(* The sums of the panel and of the tree as sums of functions.             *)

Published(s) == [t \in DOMAIN s.topics |-> s.topics[t].publish_count]

Figures(s) == [n \in Nodes(s) |-> figure(s, n)]

ConsumerFigures(s) ==
    [row \in Rows(s) |-> s.subscriptions[row.leaf[2]].acked]

Acked(s) == [c \in DOMAIN s.subscriptions |-> s.subscriptions[c].acked]

(* Sums of messages published.                                             *)
LEMMA PublishedSum ==
    ASSUME NEW s, NEW T, IsFiniteSet(T), T \subseteq DOMAIN s.topics
    PROVE  MapThenSumSet(LAMBDA t : s.topics[t].publish_count, T)
             = SumOf(Published(s), T)
<1> DEFINE Rec(f) ==
      f = [u \in SUBSET T |->
             IF u = {} THEN 0
             ELSE s.topics[Some(u)].publish_count + f[u \ {Some(u)}]]
<1>1. MapThenSumSet(LAMBDA t : s.topics[t].publish_count, T)
        = (CHOOSE f : Rec(f))[T]
  BY DEF MapThenSumSet, MapThenFoldSet, Some
<1>2. ASSUME NEW f PROVE Rec(f) <=> Sums(f, Published(s), T)
  <2> DEFINE given(u) == IF u = {} THEN 0
               ELSE s.topics[Some(u)].publish_count + f[u \ {Some(u)}]
             summed(u) == IF u = {} THEN 0
               ELSE Published(s)[Some(u)] + f[u \ {Some(u)}]
  <2>1. \A u \in SUBSET T : u # {} => Some(u) \in DOMAIN s.topics
    BY DEF Some
  <2>2. \A u \in SUBSET T : given(u) = summed(u)
    BY <2>1 DEF Published
  <2>3. /\ Rec(f) <=> f = [u \in SUBSET T |-> given(u)]
        /\ Sums(f, Published(s), T) <=> f = [u \in SUBSET T |-> summed(u)]
    BY DEF Sums
  <2> HIDE DEF given, summed, Rec
  <2>4. [u \in SUBSET T |-> given(u)] = [u \in SUBSET T |-> summed(u)]
    BY <2>2
  <2>5. QED
    BY <2>3, <2>4
<1> HIDE DEF Rec
<1>3. PICK f : Sums(f, Published(s), T)
  BY SumsExist
<1> DEFINE e == CHOOSE h : Rec(h)
<1>4. Rec(e)
  BY <1>2, <1>3
<1>5. Sums(e, Published(s), T)
  BY <1>2, <1>4
<1> HIDE DEF e
<1>6. SumOf(Published(s), T) = e[T]
  BY <1>5, SumOfSubset
<1>7. QED
  BY <1>1, <1>6 DEF e

(* Sums of messages consumed.                                              *)
LEMMA AckedSum ==
    ASSUME NEW s, NEW T, IsFiniteSet(T), T \subseteq DOMAIN s.subscriptions
    PROVE  MapThenSumSet(LAMBDA c : s.subscriptions[c].acked, T)
             = SumOf(Acked(s), T)
<1> DEFINE Rec(f) ==
      f = [u \in SUBSET T |->
             IF u = {} THEN 0
             ELSE s.subscriptions[Some(u)].acked + f[u \ {Some(u)}]]
<1>1. MapThenSumSet(LAMBDA c : s.subscriptions[c].acked, T)
        = (CHOOSE f : Rec(f))[T]
  BY DEF MapThenSumSet, MapThenFoldSet, Some
<1>2. ASSUME NEW f PROVE Rec(f) <=> Sums(f, Acked(s), T)
  <2> DEFINE given(u) == IF u = {} THEN 0
               ELSE s.subscriptions[Some(u)].acked + f[u \ {Some(u)}]
             summed(u) == IF u = {} THEN 0
               ELSE Acked(s)[Some(u)] + f[u \ {Some(u)}]
  <2>1. \A u \in SUBSET T : u # {} => Some(u) \in DOMAIN s.subscriptions
    BY DEF Some
  <2>2. \A u \in SUBSET T : given(u) = summed(u)
    BY <2>1 DEF Acked
  <2>3. /\ Rec(f) <=> f = [u \in SUBSET T |-> given(u)]
        /\ Sums(f, Acked(s), T) <=> f = [u \in SUBSET T |-> summed(u)]
    BY DEF Sums
  <2> HIDE DEF given, summed, Rec
  <2>4. [u \in SUBSET T |-> given(u)] = [u \in SUBSET T |-> summed(u)]
    BY <2>2
  <2>5. QED
    BY <2>3, <2>4
<1> HIDE DEF Rec
<1>3. PICK f : Sums(f, Acked(s), T)
  BY SumsExist
<1> DEFINE e == CHOOSE h : Rec(h)
<1>4. Rec(e)
  BY <1>2, <1>3
<1>5. Sums(e, Acked(s), T)
  BY <1>2, <1>4
<1> HIDE DEF e
<1>6. SumOf(Acked(s), T) = e[T]
  BY <1>5, SumOfSubset
<1>7. QED
  BY <1>1, <1>6 DEF e

(* Sums of the figures on lines.                                           *)
LEMMA FigureSum ==
    ASSUME NEW s, NEW T, IsFiniteSet(T), T \subseteq Nodes(s)
    PROVE  MapThenSumSet(LAMBDA n : figure(s, n), T)
             = SumOf(Figures(s), T)
<1> DEFINE Rec(f) ==
      f = [u \in SUBSET T |->
             IF u = {} THEN 0
             ELSE figure(s, Some(u)) + f[u \ {Some(u)}]]
<1>1. MapThenSumSet(LAMBDA n : figure(s, n), T)
        = (CHOOSE f : Rec(f))[T]
  BY DEF MapThenSumSet, MapThenFoldSet, Some
<1>2. ASSUME NEW f PROVE Rec(f) <=> Sums(f, Figures(s), T)
  <2> DEFINE given(u) == IF u = {} THEN 0
               ELSE figure(s, Some(u)) + f[u \ {Some(u)}]
             summed(u) == IF u = {} THEN 0
               ELSE Figures(s)[Some(u)] + f[u \ {Some(u)}]
  <2>1. \A u \in SUBSET T : u # {} => Some(u) \in Nodes(s)
    BY DEF Some
  <2>2. \A u \in SUBSET T : given(u) = summed(u)
    BY <2>1 DEF Figures
  <2>3. /\ Rec(f) <=> f = [u \in SUBSET T |-> given(u)]
        /\ Sums(f, Figures(s), T) <=> f = [u \in SUBSET T |-> summed(u)]
    BY DEF Sums
  <2> HIDE DEF given, summed, Rec
  <2>4. [u \in SUBSET T |-> given(u)] = [u \in SUBSET T |-> summed(u)]
    BY <2>2
  <2>5. QED
    BY <2>3, <2>4
<1> HIDE DEF Rec
<1>3. PICK f : Sums(f, Figures(s), T)
  BY SumsExist
<1> DEFINE e == CHOOSE h : Rec(h)
<1>4. Rec(e)
  BY <1>2, <1>3
<1>5. Sums(e, Figures(s), T)
  BY <1>2, <1>4
<1> HIDE DEF e
<1>6. SumOf(Figures(s), T) = e[T]
  BY <1>5, SumOfSubset
<1>7. QED
  BY <1>1, <1>6 DEF e

(* Sums of the figures on consumers' lines.                                *)
LEMMA ConsumerSum ==
    ASSUME NEW s, NEW T, IsFiniteSet(T), T \subseteq Rows(s)
    PROVE  MapThenSumSet(LAMBDA row : s.subscriptions[row.leaf[2]].acked, T)
             = SumOf(ConsumerFigures(s), T)
<1> DEFINE Rec(f) ==
      f = [u \in SUBSET T |->
             IF u = {} THEN 0
             ELSE s.subscriptions[Some(u).leaf[2]].acked + f[u \ {Some(u)}]]
<1>1. MapThenSumSet(LAMBDA row : s.subscriptions[row.leaf[2]].acked, T)
        = (CHOOSE f : Rec(f))[T]
  BY DEF MapThenSumSet, MapThenFoldSet, Some
<1>2. ASSUME NEW f PROVE Rec(f) <=> Sums(f, ConsumerFigures(s), T)
  <2> DEFINE given(u) == IF u = {} THEN 0
               ELSE s.subscriptions[Some(u).leaf[2]].acked + f[u \ {Some(u)}]
             summed(u) == IF u = {} THEN 0
               ELSE ConsumerFigures(s)[Some(u)] + f[u \ {Some(u)}]
  <2>1. \A u \in SUBSET T : u # {} => Some(u) \in Rows(s)
    BY DEF Some
  <2>2. \A u \in SUBSET T : given(u) = summed(u)
    BY <2>1 DEF ConsumerFigures
  <2>3. /\ Rec(f) <=> f = [u \in SUBSET T |-> given(u)]
        /\ Sums(f, ConsumerFigures(s), T) <=> f = [u \in SUBSET T |-> summed(u)]
    BY DEF Sums
  <2> HIDE DEF given, summed, Rec
  <2>4. [u \in SUBSET T |-> given(u)] = [u \in SUBSET T |-> summed(u)]
    BY <2>2
  <2>5. QED
    BY <2>3, <2>4
<1> HIDE DEF Rec
<1>3. PICK f : Sums(f, ConsumerFigures(s), T)
  BY SumsExist
<1> DEFINE e == CHOOSE h : Rec(h)
<1>4. Rec(e)
  BY <1>2, <1>3
<1>5. Sums(e, ConsumerFigures(s), T)
  BY <1>2, <1>4
<1> HIDE DEF e
<1>6. SumOf(ConsumerFigures(s), T) = e[T]
  BY <1>5, SumOfSubset
<1>7. QED
  BY <1>1, <1>6 DEF e

(* The lines of a tree with open topics and closed groups show the own     *)
(* messages of each node once.                                             *)
LEMMA LinesShowNodes ==
    ASSUME NEW s, IsSnapshot(s)
    PROVE  MapThenSumSet(LAMBDA n : figure(s, n), InOpenTopics(s))
             = SumOf(Own(s), Nodes(s))
<1> DEFINE I == InOpenTopics(s)
           D == CountedAt(s)
<1>1. I \subseteq Nodes(s) /\ IsFiniteSet(I) /\ IsFiniteSet(Nodes(s))
  <2>1. I \subseteq Nodes(s)
    BY DEF InOpenTopics
  <2>2. QED
    BY <2>1, NodesFinite, FS_Subset
<1>2. \A n \in Nodes(s) : D[n] \subseteq Nodes(s)
  BY DEF CountedAt, Below
<1>3. \A n \in I : IsFiniteSet(D[n])
  BY <1>1, <1>2, FS_Subset
<1>4. \A a, b \in I : a # b => D[a] \cap D[b] = {}
  BY CountedOnce
<1>5. UNION {D[a] : a \in I} = Nodes(s)
  <2>1. \A n \in Nodes(s) : \E a \in I : n \in D[a]
    BY CountedSomewhere
  <2> HIDE DEF I, D
  <2>2. QED
    BY <1>1, <1>2, <2>1
<1>6. \A n \in I : \A m \in D[n] : Own(s)[m] \in Nat
  BY <1>1, <1>2, OwnType
<1>7. ASSUME NEW n \in I PROVE Figures(s)[n] = SumOf(Own(s), D[n])
  <2>1. n \in Nodes(s) /\ Figures(s)[n] = figure(s, n)
    BY <1>1 DEF Figures
  <2>2. CASE node_topic(s, n) # NoTopic
    <3>1. D[n] = {n} /\ figure(s, n) = OwnMessages(s, n)
      BY <2>1, <2>2 DEF CountedAt, figure
    <3>2. Own(s)[n] = OwnMessages(s, n) /\ Own(s)[n] \in Nat
      BY <2>1, OwnType DEF Own
    <3>3. SumOf(Own(s), {n}) = Own(s)[n]
      BY <3>2, SumOfOne
    <3>4. QED
      BY <2>1, <3>1, <3>2, <3>3
  <2>3. CASE node_topic(s, n) = NoTopic
    <3>1. D[n] = Below(s, n) /\ figure(s, n) = subtree_messages(s)[n]
      BY <2>1, <2>3 DEF CountedAt, figure
    <3>2. QED
      BY <2>1, <3>1, SubtreeSums
  <2>4. QED
    BY <2>2, <2>3
<1> HIDE DEF I, D
<1>8. SumOf(Figures(s), I) = SumOf(Own(s), UNION {D[a] : a \in I})
  BY <1>1, <1>3, <1>4, <1>6, <1>7, SumOfSums
<1>9. MapThenSumSet(LAMBDA n : figure(s, n), I) = SumOf(Figures(s), I)
  BY <1>1, FigureSum
<1>10. QED
  BY <1>5, <1>8, <1>9 DEF I

(* The nodes' own messages are those of the listed topics, but for the     *)
(* topics whose node keeps another.                                        *)
LEMMA NodesShowTopics ==
    ASSUME NEW s, IsSnapshot(s)
    PROVE  SumOf(Own(s), Nodes(s)) = SumOf(Published(s), Listed(s) \ Shadowed(s))
<1> DEFINE T == {n \in Nodes(s) : node_topic(s, n) # NoTopic}
           f == [n \in Nodes(s) |-> node_topic(s, n)]
<1>1. IsFiniteSet(Nodes(s)) /\ IsFiniteSet(T)
  BY NodesFinite, FS_Subset
<1>2. \A n \in Nodes(s) : Own(s)[n] \in Nat
  BY OwnType
<1>3. \A n \in Nodes(s) \ T : Own(s)[n] = 0
  BY DEF Own, OwnMessages
<1>4. SumOf(Own(s), Nodes(s)) = SumOf(Own(s), T)
  <2>1. T \subseteq Nodes(s)
    OBVIOUS
  <2> HIDE DEF T
  <2>2. QED
    BY <1>1, <1>2, <1>3, <2>1, SumWithoutZeros
<1>5. \A n \in T : /\ f[n] \in Listed(s) /\ f[n] \in DOMAIN s.topics
                   /\ Segments[f[n]] = n
                   /\ Published(s)[f[n]] = Own(s)[n]
  <2> SUFFICES ASSUME NEW n \in T
               PROVE  /\ f[n] \in Listed(s) /\ f[n] \in DOMAIN s.topics
                      /\ Segments[f[n]] = n
                      /\ Published(s)[f[n]] = Own(s)[n]
    OBVIOUS
  <2>1. f[n] = node_topic(s, n) /\ n \in Nodes(s)
    OBVIOUS
  <2>2. f[n] \in Listed(s) /\ Segments[f[n]] = n
    BY <2>1, NodeTopic
  <2>3. f[n] \in DOMAIN s.topics
    BY <2>2 DEF Listed
  <2>4. Own(s)[n] = s.topics[f[n]].publish_count
    BY <2>1 DEF Own, OwnMessages
  <2>5. QED
    BY <2>2, <2>3, <2>4 DEF Published
<1>6. \A a, b \in T : f[a] = f[b] => a = b
  BY <1>5
<1>7. {f[n] : n \in T} = Listed(s) \ Shadowed(s)
  <2>1. ASSUME NEW n \in T PROVE f[n] \in Listed(s) \ Shadowed(s)
    <3>1. f[n] = node_topic(s, n)
      OBVIOUS
    <3>2. QED
      BY <1>5, <3>1 DEF Shadowed
  <2>2. ASSUME NEW t \in Listed(s) \ Shadowed(s) PROVE \E n \in T : t = f[n]
    <3>1. node_topic(s, Segments[t]) = t
      BY DEF Shadowed
    <3>2. t # NoTopic /\ Segments[t] \in Nodes(s)
      BY ListedNode
    <3>3. QED
      BY <3>1, <3>2
  <2> HIDE DEF T, f
  <2>3. QED
    BY <2>1, <2>2
<1>8. SumOf(Own(s), T) = SumOf(Published(s), {f[n] : n \in T})
  <2>1. \A n \in T : Own(s)[n] \in Nat
    BY <1>2
  <2> HIDE DEF T, f
  <2>2. QED
    BY <1>1, <1>5, <1>6, <2>1, SumOfImage
<1>9. QED
  BY <1>4, <1>7, <1>8

(* The tree's messages are the panel's "Messages published".               *)
LEMMA PublishedAddUp ==
    ASSUME NEW s, IsSnapshot(s)
    PROVE  MapThenSumSet(LAMBDA n : figure(s, n), InOpenTopics(s))
             + MapThenSumSet(LAMBDA t : s.topics[t].publish_count, Shadowed(s))
             = total_published(s)
<1> DEFINE L == Listed(s)
           H == Shadowed(s)
           P == Published(s)
           K == DOMAIN s.topics
<1>1. /\ L \subseteq K /\ H \subseteq L
      /\ IsFiniteSet(K) /\ IsFiniteSet(H) /\ IsFiniteSet(L \ H)
  <2>1. L \subseteq K /\ H \subseteq L /\ IsFiniteSet(K)
    BY DEF Listed, Shadowed, IsSnapshot
  <2>2. QED
    BY <2>1, FS_Subset
<1>2. \A t \in K : P[t] \in Nat
  BY DEF Published, IsSnapshot, IsAppState, IsMap, IsTopic
<1>3. \A t \in K \ L : P[t] = 0
  BY <1>2 DEF Published, Listed
<1>4. total_published(s) = SumOf(P, K)
  BY <1>1, PublishedSum DEF total_published
<1>5. MapThenSumSet(LAMBDA t : s.topics[t].publish_count, H) = SumOf(P, H)
  BY <1>1, PublishedSum
<1>6. MapThenSumSet(LAMBDA n : figure(s, n), InOpenTopics(s)) = SumOf(P, L \ H)
  BY LinesShowNodes, NodesShowTopics
<1> HIDE DEF L, H, P, K
<1>7. SumOf(P, K) = SumOf(P, L)
  BY <1>1, <1>2, <1>3, SumWithoutZeros
<1>8. L = (L \ H) \cup H /\ (L \ H) \cap H = {}
      /\ \A t \in (L \ H) \cup H : P[t] \in Nat
  BY <1>1, <1>2
<1>9. SumOf(P, (L \ H) \cup H) = SumOf(P, L \ H) + SumOf(P, H)
  <2> DEFINE A == L \ H
  <2>1. IsFiniteSet(A) /\ A \cap H = {} /\ \A t \in A \cup H : P[t] \in Nat
    BY <1>1, <1>8
  <2> HIDE DEF A
  <2>2. SumOf(P, A \cup H) = SumOf(P, A) + SumOf(P, H)
    BY <1>1, <2>1, SumUnion
  <2>3. QED
    BY <2>2 DEF A
<1>10. SumOf(P, L) = SumOf(P, L \ H) + SumOf(P, H)
  BY <1>8, <1>9, Zenon
<1>11. QED
  BY <1>4, <1>5, <1>6, <1>7, <1>10 DEF H

(* The consumers' lines are the panel's "Messages consumed".               *)
LEMMA ConsumedAddUp ==
    ASSUME NEW s, IsSnapshot(s)
    PROVE  MapThenSumSet(LAMBDA row : s.subscriptions[row.leaf[2]].acked,
                         ConsumerRows(s))
             + MapThenSumSet(LAMBDA c : s.subscriptions[c].acked, Homeless(s))
             = total_consumed(s)
<1> DEFINE K == DOMAIN s.subscriptions
           H == Homeless(s)
           A == {c \in K \ H : s.subscriptions[c].acked > 0}
           R == ConsumerRows(s)
           Line(c) == Row(Segments[s.subscriptions[c].topic], <<"sub", c>>)
           f == [c \in A |-> Line(c)]
<1>1. /\ H \subseteq K /\ A \subseteq K \ H /\ IsFiniteSet(K)
      /\ IsFiniteSet(H) /\ IsFiniteSet(K \ H) /\ IsFiniteSet(A)
  <2>1. H \subseteq K /\ A \subseteq K \ H /\ IsFiniteSet(K)
    BY DEF Homeless, IsSnapshot
  <2> HIDE DEF K, H, A
  <2>2. A \subseteq K
    BY <2>1
  <2>3. QED
    BY <2>1, <2>2, FS_Subset
<1>2. \A c \in K : /\ s.subscriptions[c].acked \in Nat
                   /\ Acked(s)[c] = s.subscriptions[c].acked
  BY DEF Acked, IsSnapshot, IsAppState, IsMap, IsSubscription, Subscription
<1>3. ASSUME NEW c \in A
      PROVE  /\ f[c] \in R
             /\ f[c].leaf[2] = c
             /\ ConsumerFigures(s)[f[c]] = Acked(s)[c]
  <2> DEFINE t == s.subscriptions[c].topic
             n == Segments[t]
  <2>1. t \in Listed(s) /\ t \notin Shadowed(s) /\ c \in K
    BY DEF Homeless
  <2>2. node_topic(s, n) = t
    BY <2>1 DEF Shadowed
  <2>3. t # NoTopic /\ n \in Nodes(s)
    BY <2>1, ListedNode
  <2>5. <<"sub", c>> \in leaves_for_topic(s, t)
    BY DEF leaves_for_topic, active_consumers_of
  <2>6. f[c] = Row(n, <<"sub", c>>)
    OBVIOUS
  <2> HIDE DEF n, t, f, A
  <2>7. f[c] \in Rows(s)
    BY <2>2, <2>3, <2>5, <2>6 DEF Rows
  <2>8. f[c].leaf = <<"sub", c>> /\ <<"sub", c>> # NoLeaf
    BY <2>6 DEF Row, NoLeaf
  <2>9. f[c] \in R
    BY <2>7, <2>8 DEF ConsumerRows
  <2>10. ConsumerFigures(s)[f[c]] = s.subscriptions[c].acked
    BY <2>7, <2>8 DEF ConsumerFigures
  <2>11. QED
    BY <1>2, <2>1, <2>8, <2>9, <2>10
<1>4. ASSUME NEW row \in R
      PROVE  \E c \in A : row = f[c]
  <2>1. /\ row \in Rows(s) /\ row.leaf # NoLeaf /\ row.leaf[1] = "sub"
    BY DEF ConsumerRows
  <2>2. PICK n \in Nodes(s) :
          /\ node_topic(s, n) # NoTopic
          /\ \E leaf \in leaves_for_topic(s, node_topic(s, n)) : row = Row(n, leaf)
    BY <2>1 DEF Rows, Row
  <2>3. PICK leaf \in leaves_for_topic(s, node_topic(s, n)) : row = Row(n, leaf)
    BY <2>2
  <2>4. leaf[1] = "sub"
    BY <2>1, <2>3 DEF Row
  <2>5. PICK c \in active_consumers_of(s, node_topic(s, n)) : leaf = <<"sub", c>>
    BY <2>4 DEF leaves_for_topic
  <2>6. /\ c \in K /\ s.subscriptions[c].topic = node_topic(s, n)
        /\ s.subscriptions[c].acked > 0
    BY <2>5 DEF active_consumers_of
  <2>7. /\ node_topic(s, n) \in Listed(s)
        /\ Segments[node_topic(s, n)] = n
    BY <2>2, NodeTopic
  <2>8. node_topic(s, n) \notin Shadowed(s)
    BY <2>7 DEF Shadowed
  <2>9. c \notin H
    BY <2>6, <2>7, <2>8 DEF Homeless
  <2>10. c \in A
    BY <2>6, <2>9
  <2>11. f[c] = row
    BY <2>3, <2>5, <2>6, <2>7, <2>10
  <2>12. QED
    BY <2>10, <2>11
<1>5. R = {f[c] : c \in A}
  <2> HIDE DEF R, A, f
  <2>1. QED
    BY <1>3, <1>4
<1>6. R \subseteq Rows(s)
  BY DEF ConsumerRows
<1>7. MapThenSumSet(LAMBDA c : s.subscriptions[c].acked, H) = SumOf(Acked(s), H)
  BY <1>1, AckedSum
<1>8. total_consumed(s) = SumOf(Acked(s), K)
  BY <1>1, AckedSum DEF total_consumed
<1>9. \A c \in (K \ H) \ A : Acked(s)[c] = 0
  BY <1>2
<1> HIDE DEF K, H, A, R, f
<1>10. IsFiniteSet(R)
  BY <1>1, <1>5, ImageFinite
<1>11. MapThenSumSet(LAMBDA row : s.subscriptions[row.leaf[2]].acked, R)
         = SumOf(ConsumerFigures(s), R)
  BY <1>6, <1>10, ConsumerSum
<1>12. SumOf(Acked(s), A) = SumOf(ConsumerFigures(s), R)
  <2>1. \A c \in A : Acked(s)[c] \in Nat
    BY <1>1, <1>2
  <2>2. \A c, d \in A : f[c] = f[d] => c = d
    BY <1>3
  <2>3. \A c \in A : ConsumerFigures(s)[f[c]] = Acked(s)[c]
    BY <1>3
  <2>4. SumOf(Acked(s), A) = SumOf(ConsumerFigures(s), {f[c] : c \in A})
    BY <1>1, <2>1, <2>2, <2>3, SumOfImage
  <2>5. QED
    BY <1>5, <2>4
<1>13. SumOf(Acked(s), K \ H) = SumOf(Acked(s), A)
  <2>1. \A c \in K \ H : Acked(s)[c] \in Nat
    BY <1>2
  <2>2. QED
    BY <1>1, <1>9, <2>1, SumWithoutZeros
<1>14. SumOf(Acked(s), K) = SumOf(Acked(s), K \ H) + SumOf(Acked(s), H)
  <2> DEFINE B == K \ H
  <2>1. /\ IsFiniteSet(B) /\ B \cap H = {} /\ K = B \cup H
        /\ \A c \in B \cup H : Acked(s)[c] \in Nat
    BY <1>1, <1>2
  <2> HIDE DEF B
  <2>2. SumOf(Acked(s), B \cup H) = SumOf(Acked(s), B) + SumOf(Acked(s), H)
    BY <1>1, <2>1, SumUnion
  <2>3. SumOf(Acked(s), K) = SumOf(Acked(s), B) + SumOf(Acked(s), H)
    BY <2>1, <2>2, Zenon
  <2>4. QED
    BY <2>3 DEF B
<1>15. QED
  BY <1>7, <1>8, <1>11, <1>12, <1>13, <1>14 DEF H, R

(***************************************************************************)
(* The tree accounts for the panel's totals (TreeAddsUp): the figures of   *)
(* topic_line, group_line and subtree_messages (src/src/ui/tree.rs) count  *)
(* each published message once, and the consumers' lines each ack, for     *)
(* every set of topics, names that are groups as well included.            *)
(***************************************************************************)
THEOREM TreeAccountsForTotals == TreeSpec => []TreeAddsUp
<1>1. TreeInv => TreeAddsUp
  BY PublishedAddUp, ConsumedAddUp DEF TreeInv, TreeAddsUp
<1>2. QED
  BY <1>1, TreeInvariant, PTL
=============================================================================
