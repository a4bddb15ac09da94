------------------------------ MODULE AppState ------------------------------
(***************************************************************************)
(* AppState and how one observation is folded into it                      *)
(* (src/src/observe/state.rs).  A BTreeMap is a function whose domain is   *)
(* the set of keys present; instants are ticks of a clock; u64 counters    *)
(* are natural numbers, since nothing here can reach 2^64.                 *)
(***************************************************************************)
EXTENDS ObservationSink, FiniteSets

CONSTANT NoTopic            \* a subscription whose parent topic is unknown

ASSUME NoTopicAssumption == NoTopic \notin Topics

Publisher == [published : Nat, last_seen : Nat]

Subscription == [exists : BOOLEAN,
                 topic : Topics \cup {NoTopic},
                 delivered : Nat,
                 acked : Nat,
                 live_consumers : Nat]

RecentMessage == [seq : Nat, topic : Topics, message : Messages, seen : Nat]

(***************************************************************************)
(* Types that contain a map are predicates, so that TLC can evaluate them. *)
(***************************************************************************)
IsMap(map, Keys, IsValue(_)) ==
    /\ DOMAIN map \subseteq Keys
    /\ map = [k \in DOMAIN map |-> map[k]]
    /\ \A k \in DOMAIN map : IsValue(map[k])

IsPublisher(p) == p \in Publisher

IsTopic(t) ==
    /\ t = [exists |-> t.exists, publish_count |-> t.publish_count,
            publishers |-> t.publishers]
    /\ t.exists \in BOOLEAN
    /\ t.publish_count \in Nat
    /\ IsMap(t.publishers, PeerKeys, IsPublisher)

IsSubscription(s) == s \in Subscription

IsAppState(s) ==
    /\ s = [topics |-> s.topics, subscriptions |-> s.subscriptions,
            recent_messages |-> s.recent_messages,
            recent_buffer_capacity |-> s.recent_buffer_capacity,
            next_seq |-> s.next_seq]
    /\ IsMap(s.topics, Topics, IsTopic)
    /\ IsMap(s.subscriptions, Subscriptions, IsSubscription)
    /\ s.recent_messages \in Seq(RecentMessage)
    /\ s.recent_buffer_capacity \in Nat
    /\ s.next_seq \in Nat

EmptyMap == [x \in {} |-> x]

DefaultTopic == [exists |-> FALSE, publish_count |-> 0, publishers |-> EmptyMap]

DefaultSubscription == [exists |-> FALSE, topic |-> NoTopic, delivered |-> 0,
                        acked |-> 0, live_consumers |-> 0]

DefaultState == [topics |-> EmptyMap, subscriptions |-> EmptyMap,
                 recent_messages |-> <<>>, recent_buffer_capacity |-> 0,
                 next_seq |-> 0]

-----------------------------------------------------------------------------
(***************************************************************************)
(* Maps: the entry under a key with a default, and setting an entry.       *)
(***************************************************************************)
EntryOr(map, key, default) == IF key \in DOMAIN map THEN map[key] ELSE default

Put(map, key, value) ==
    [k \in DOMAIN map \cup {key} |-> IF k = key THEN value ELSE map[k]]

topic_mut(state, name) == EntryOr(state.topics, name, DefaultTopic)

subscription_mut(state, name) ==
    EntryOr(state.subscriptions, name, DefaultSubscription)

SetSubscription(state, name, sub) ==
    [state EXCEPT !.subscriptions = Put(@, name, sub)]

-----------------------------------------------------------------------------
(***************************************************************************)
(* The entries that push_recent appends, one call per captured message.    *)
(***************************************************************************)
NewEntries(state, topic, messages, now) ==
    [i \in 1..Len(messages) |->
        [seq |-> state.next_seq + i - 1, topic |-> topic,
         message |-> messages[i], seen |-> now]]

\* Mutation of push_recent: a message's number is its place in the buffer.
NumberByPosition(state, topic, messages, now) ==
    LET all == state.recent_messages
                 \o [i \in 1..Len(messages) |->
                        [seq |-> 0, topic |-> topic, message |-> messages[i],
                         seen |-> now]]
    IN  [state EXCEPT
            !.recent_messages =
                [i \in 1..Len(all) |-> [all[i] EXCEPT !.seq = i - 1]],
            !.next_seq = Len(all)]

push_recent(state, topic, messages, now) ==
    [state EXCEPT
        !.recent_messages = @ \o NewEntries(state, topic, messages, now),
        !.next_seq = @ + Len(messages)]

\* Mutation of trim_recent: at most one message is dropped per burst.
TrimOne(state, cap) ==
    [state EXCEPT !.recent_messages = IF Len(@) > cap THEN Tail(@) ELSE @]

\* Drop from the front until at most cap remain.
trim_recent(state, cap) ==
    [state EXCEPT !.recent_messages =
        IF Len(@) > cap THEN SubSeq(@, Len(@) - cap + 1, Len(@)) ELSE @]

(***************************************************************************)
(* The arms of AppState::apply.                                            *)
(***************************************************************************)
CountPublish(entry, peer, count, now) ==
    LET published == EntryOr(entry.publishers, peer_key(peer),
                             [published |-> 0, last_seen |-> now]).published
    IN  [entry EXCEPT
            !.publish_count = @ + count,
            !.publishers = Put(@, peer_key(peer),
                [published |-> published + count, last_seen |-> now])]

ApplyPublish(state, o, now) ==
    LET entry == CountPublish(topic_mut(state, o.topic), o.peer,
                              Len(o.messages), now)
    IN  push_recent([state EXCEPT !.topics = Put(@, o.topic, entry)],
                    o.topic, o.messages, now)

ApplyDeliver(state, o) ==
    SetSubscription(state, o.subscription,
        [subscription_mut(state, o.subscription)
            EXCEPT !.delivered = @ + o.messages])

ApplyAck(state, o) ==
    SetSubscription(state, o.subscription,
        [subscription_mut(state, o.subscription)
            EXCEPT !.acked = @ + o.messages])

\* Mutation of ApplyConsumerOpen: a flag instead of a count.
OpenSetsFlag(state, o) ==
    SetSubscription(state, o.subscription,
        [subscription_mut(state, o.subscription) EXCEPT !.live_consumers = 1])

ApplyConsumerOpen(state, o) ==
    SetSubscription(state, o.subscription,
        [subscription_mut(state, o.subscription)
            EXCEPT !.live_consumers = @ + 1])

\* Mutation of ApplyConsumerClose: a subtraction that does not saturate.
CloseUnderflows(state, o) ==
    SetSubscription(state, o.subscription,
        [subscription_mut(state, o.subscription)
            EXCEPT !.live_consumers = @ - 1])

\* saturating_sub: a close without an open leaves zero.
ApplyConsumerClose(state, o) ==
    SetSubscription(state, o.subscription,
        [subscription_mut(state, o.subscription)
            EXCEPT !.live_consumers = IF @ = 0 THEN 0 ELSE @ - 1])

\* Mutations of apply_admin: unlisted entities are forgotten with their
\* counters, and unlisted entities are not marked gone.
AdminForgets(state, topics, subscriptions) ==
    [state EXCEPT
        !.topics = [t \in topics |->
            [topic_mut(state, t) EXCEPT !.exists = TRUE]],
        !.subscriptions = [s \in DOMAIN subscriptions |->
            [subscription_mut(state, s) EXCEPT
                !.exists = TRUE, !.topic = subscriptions[s]]]]

AdminOnlyAdds(state, topics, subscriptions) ==
    [state EXCEPT
        !.topics = [t \in DOMAIN @ \cup topics |->
            [topic_mut(state, t) EXCEPT !.exists = @ \/ t \in topics]],
        !.subscriptions = [s \in DOMAIN @ \cup DOMAIN subscriptions |->
            [subscription_mut(state, s) EXCEPT
                !.exists = @ \/ s \in DOMAIN subscriptions,
                !.topic = EntryOr(subscriptions, s, @)]]]

(***************************************************************************)
(* Every known entity is marked gone, then every listed one is marked      *)
(* present (and created when unknown).  Counters survive.                  *)
(***************************************************************************)
apply_admin(state, topics, subscriptions) ==
    [state EXCEPT
        !.topics =
            [t \in DOMAIN @ \cup topics |->
                [topic_mut(state, t) EXCEPT !.exists = t \in topics]],
        !.subscriptions =
            [s \in DOMAIN @ \cup DOMAIN subscriptions |->
                [subscription_mut(state, s) EXCEPT
                    !.exists = s \in DOMAIN subscriptions,
                    !.topic = EntryOr(subscriptions, s, @)]]]

apply(state, o, now) ==
    CASE o.kind = "Publish"       -> ApplyPublish(state, o, now)
      [] o.kind = "Deliver"       -> ApplyDeliver(state, o)
      [] o.kind = "Ack"           -> ApplyAck(state, o)
      [] o.kind = "ConsumerOpen"  -> ApplyConsumerOpen(state, o)
      [] o.kind = "ConsumerClose" -> ApplyConsumerClose(state, o)
      [] o.kind = "AdminSnapshot" ->
            apply_admin(state, o.topics, o.subscriptions)

-----------------------------------------------------------------------------
(* Figures of the statistics panel.                                        *)

\* Topics the latest admin listing reported.
ExistingTopics(state) == {t \in DOMAIN state.topics : state.topics[t].exists}

topic_count(state) == Cardinality(ExistingTopics(state))
=============================================================================
