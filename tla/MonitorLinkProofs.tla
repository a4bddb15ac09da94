------------------------- MODULE MonitorLinkProofs -------------------------
(***************************************************************************)
(* Proofs about MonitorLink: however connections break and the monitor     *)
(* restarts, a UI shows a state the monitor published, with true ages, and *)
(* never goes back to an earlier one.                                      *)
(***************************************************************************)
EXTENDS MonitorLink, AppStateProofs

-----------------------------------------------------------------------------
(* The inductive invariant.                                                *)

IsPerUI(f) == f = [u \in UIs |-> f[u]]

IsSequence(q) == q \in Seq({q[i] : i \in DOMAIN q})

\* No instant in the state is later than now.
StampedBy(s, now) ==
    /\ \A t \in DOMAIN s.topics : \A p \in DOMAIN s.topics[t].publishers :
         s.topics[t].publishers[p].last_seen <= now
    /\ \A i \in 1..Len(s.recent_messages) : s.recent_messages[i].seen <= now

IsFrame(f) ==
    /\ f.life \in Nat
    /\ f.version \in Nat
    /\ f.sent \in 0..clock
    /\ IsAppState(f.state)
    /\ StampedBy(f.state, f.sent)
    /\ f.snapshot = to_wire(f.state, f.sent)

IsOrigin(g) ==
    /\ g.life \in Nat
    /\ g.version \in Int
    /\ g.sent \in Nat
    /\ g.received \in Nat
    /\ IsAppState(g.state)
    /\ StampedBy(g.state, g.sent)

\* What a UI holds was encoded when it was sent and decoded on receipt.
LocalIsDecoded ==
    \A u \in UIs :
        local[u] = from_wire(to_wire(origin[u].state, origin[u].sent),
                             origin[u].received + ClockOffset[u])

\* Published in an earlier life, or in the same one and no later.
NotLater(a, b) ==
    \/ a.life < b.life
    \/ a.life = b.life /\ a.version <= b.version

\* Before the monitor's present value, and not of its next life.
Published(a) ==
    /\ NotLater(a, [life |-> crashes, version |-> version])
    /\ ~up => a.life < crashes

(***************************************************************************)
(* Shown, then in transit, then still at the monitor: oldest to newest.    *)
(***************************************************************************)
OldestFirst ==
    \A u \in UIs :
        /\ Published(origin[u])
        /\ \A i \in 1..Len(wire[u]) :
             /\ Published(wire[u][i])
             /\ NotLater(origin[u], wire[u][i])
             /\ \A j \in i..Len(wire[u]) : NotLater(wire[u][i], wire[u][j])

InTransit ==
    /\ IsPerUI(wire) /\ IsPerUI(local) /\ IsPerUI(origin)
    /\ \A u \in UIs : /\ IsSequence(wire[u])
                      /\ \A i \in 1..Len(wire[u]) : IsFrame(wire[u][i])
                      /\ IsOrigin(origin[u])

LinkInv ==
    /\ LinkTypeOK
    /\ StampedBy(current, clock)
    /\ InTransit
    /\ LocalIsDecoded
    /\ OldestFirst

-----------------------------------------------------------------------------
(* Sequences of unlike things.                                             *)

(* The length and the domain of a sequence.                                *)
LEMMA SequenceLength ==
    ASSUME NEW q, IsSequence(q)
    PROVE  Len(q) \in Nat /\ DOMAIN q = 1..Len(q)
BY LenProperties DEF IsSequence

(* Appending to a sequence.                                                *)
LEMMA AppendSequence ==
    ASSUME NEW q, IsSequence(q), NEW x
    PROVE  /\ IsSequence(Append(q, x))
           /\ Len(Append(q, x)) = Len(q) + 1
           /\ \A i \in 1..Len(q) : Append(q, x)[i] = q[i]
           /\ Append(q, x)[Len(q) + 1] = x
<1> DEFINE S == {q[i] : i \in DOMAIN q} \cup {x}
           r == Append(q, x)
<1>1. q \in Seq(S) /\ x \in S
  BY SeqMonotonic DEF IsSequence
<1>2. /\ r \in Seq(S)
      /\ Len(r) = Len(q) + 1
      /\ \A i \in 1..Len(q) : r[i] = q[i]
      /\ r[Len(q) + 1] = x
  BY <1>1, AppendProperties
<1>3. DOMAIN r = 1..Len(r) /\ DOMAIN q = 1..Len(q) /\ Len(q) \in Nat
  BY <1>1, <1>2, LenProperties
<1>4. S \subseteq {r[i] : i \in DOMAIN r}
  BY <1>2, <1>3
<1>5. IsSequence(r)
  BY <1>2, <1>4, SeqMonotonic DEF IsSequence
<1>6. QED
  BY <1>2, <1>5

(* Taking the first entry off a sequence.                                  *)
LEMMA TailSequence ==
    ASSUME NEW q, IsSequence(q), q # <<>>
    PROVE  /\ IsSequence(Tail(q))
           /\ Len(q) >= 1
           /\ Len(Tail(q)) = Len(q) - 1
           /\ \A i \in 1..Len(Tail(q)) : Tail(q)[i] = q[i + 1]
           /\ Head(q) = q[1]
<1> DEFINE S == {q[i] : i \in DOMAIN q}
           r == Tail(q)
<1>1. q \in Seq(S)
  BY DEF IsSequence
<1>2. /\ r \in Seq(S)
      /\ Len(r) = Len(q) - 1
      /\ \A i \in 1..Len(r) : r[i] = q[i + 1]
  BY <1>1, HeadTailProperties
<1>3. Len(q) \in Nat \ {0} /\ DOMAIN r = 1..Len(r) /\ Len(r) \in Nat
  BY <1>1, <1>2, EmptySeq, LenProperties
<1> DEFINE T == {r[i] : i \in DOMAIN r}
<1>4. r \in [1..Len(r) -> T]
  <2>1. r \in [1..Len(r) -> S]
    BY <1>2, LenProperties
  <2>2. QED
    BY <2>1, <1>3
<1> HIDE DEF r
<1>5. r \in Seq(T)
  <2>1. \A n \in Nat : [1..n -> T] \subseteq Seq(T)
    BY SMT
  <2>2. QED
    BY <1>3, <1>4, <2>1
<1> USE DEF r
<1>6. IsSequence(r)
  BY <1>5 DEF IsSequence
<1>7. Head(q) = q[1]
  BY <1>1
<1>8. QED
  BY <1>2, <1>3, <1>6, <1>7

(* The empty sequence.                                                     *)
LEMMA EmptySequence == IsSequence(<<>>) /\ Len(<<>>) = 0
BY EmptySeq, Zenon DEF IsSequence
-----------------------------------------------------------------------------
(* Folding an observation in stamps what it adds with the present.         *)

(* A bound on the stamps stays one as time passes.                         *)
LEMMA LaterStampBound ==
    ASSUME NEW s, IsAppState(s), NEW a \in Nat, NEW b \in Nat, a <= b,
           StampedBy(s, a)
    PROVE  StampedBy(s, b)
<1>1. \A t \in DOMAIN s.topics : \A p \in DOMAIN s.topics[t].publishers :
        s.topics[t].publishers[p].last_seen \in Nat
  BY DEF IsAppState, IsMap, IsTopic, IsPublisher, Publisher
<1>2. \A i \in 1..Len(s.recent_messages) : s.recent_messages[i].seen \in Nat
  <2>1. s.recent_messages \in Seq(RecentMessage)
    BY DEF IsAppState
  <2>2. \A i \in 1..Len(s.recent_messages) :
          s.recent_messages[i] \in RecentMessage
    BY <2>1, ElementOfSeq
  <2>3. QED
    BY <2>2 DEF RecentMessage
<1>3. QED
  BY <1>1, <1>2 DEF StampedBy

(* Entries of two stamped sequences, in one.                               *)
LEMMA StampedConcat ==
    ASSUME NEW p \in Seq(RecentMessage), NEW q \in Seq(RecentMessage),
           NEW n \in Nat,
           \A i \in 1..Len(p) : p[i].seen <= n,
           \A i \in 1..Len(q) : q[i].seen <= n
    PROVE  \A i \in 1..Len(p \o q) : (p \o q)[i].seen <= n
<1>1. Len(p) \in Nat /\ Len(q) \in Nat
  BY LenProperties
<1>2. /\ Len(p \o q) = Len(p) + Len(q)
      /\ \A i \in 1..Len(p) + Len(q) :
           (p \o q)[i] = IF i <= Len(p) THEN p[i] ELSE q[i - Len(p)]
  BY ConcatProperties
<1> DEFINE r == p \o q
<1>3. Len(r) = Len(p) + Len(q)
  BY <1>2
<1>4. ASSUME NEW i \in 1..Len(p) + Len(q)
      PROVE  r[i].seen <= n
  <2>1. CASE i <= Len(p)
    BY <1>1, <1>2, <2>1
  <2>2. CASE ~(i <= Len(p))
    <3>1. r[i] = q[i - Len(p)] /\ i - Len(p) \in 1..Len(q)
      BY <1>1, <1>2, <2>2
    <3>2. QED
      BY <3>1
  <2>3. QED
    BY <2>1, <2>2
<1>5. QED
  BY <1>3, <1>4

(* A publish stamps its publisher and its messages with the present.       *)
LEMMA PublishStamps ==
    ASSUME NEW s, IsAppState(s), NEW n \in Nat, StampedBy(s, n), NEW o,
           o.topic \in Topics, o.peer \in Peers \cup {NoPeer},
           o.messages \in Seq(Messages)
    PROVE  StampedBy(ApplyPublish(s, o, n), n)
<1> DEFINE before == topic_mut(s, o.topic)
           entry == CountPublish(before, o.peer, Len(o.messages), n)
           topics == Put(s.topics, o.topic, entry)
           counted == [s EXCEPT !.topics = topics]
           new == NewEntries(s, o.topic, o.messages, n)
           after == ApplyPublish(s, o, n)
<1>1. IsTopic(before)
  BY TopicMutType
<1>2. \A p \in DOMAIN before.publishers : before.publishers[p].last_seen <= n
  BY DEF topic_mut, EntryOr, DefaultTopic, EmptyMap, StampedBy
<1>3. \A p \in DOMAIN entry.publishers : entry.publishers[p].last_seen <= n
  <2>1. PICK published :
          entry.publishers = Put(before.publishers, peer_key(o.peer),
                                 [published |-> published, last_seen |-> n])
    BY <1>1 DEF CountPublish, IsTopic
  <2>2. QED
    BY <1>2, <2>1 DEF Put
<1>4. after.topics = topics
  BY DEF ApplyPublish, push_recent, IsAppState
<1>5. \A t \in DOMAIN topics : \A p \in DOMAIN topics[t].publishers :
        topics[t].publishers[p].last_seen <= n
  <2> HIDE DEF entry
  <2>1. QED
    BY <1>3 DEF Put, StampedBy
<1>6. after.recent_messages = s.recent_messages \o new
  BY DEF ApplyPublish, push_recent, NewEntries, IsAppState
<1>7. /\ new \in Seq(RecentMessage)
      /\ Len(new) = Len(o.messages)
      /\ \A i \in 1..Len(new) : new[i].seen = n
  <2>1. Len(o.messages) \in Nat
    BY LenProperties
  <2>2. new \in Seq(RecentMessage) /\ Len(new) = Len(o.messages)
    BY NewEntriesProperties
  <2>3. \A i \in 1..Len(o.messages) : new[i].seen = n
    BY DEF NewEntries
  <2>4. QED
    BY <2>2, <2>3
<1>8. \A i \in 1..Len(after.recent_messages) :
        after.recent_messages[i].seen <= n
  <2>1. s.recent_messages \in Seq(RecentMessage)
    BY DEF IsAppState
  <2>2. \A i \in 1..Len(s.recent_messages) : s.recent_messages[i].seen <= n
    BY DEF StampedBy
  <2>3. \A i \in 1..Len(new) : new[i].seen <= n
    BY <1>7
  <2> HIDE DEF new, after
  <2>4. QED
    BY <1>6, <1>7, <2>1, <2>2, <2>3, StampedConcat
<1>9. StampedBy(after, n)
  <2> HIDE DEF after, topics
  <2>1. QED
    BY <1>4, <1>5, <1>8 DEF StampedBy
<1>10. QED
  BY <1>9
(* An admin listing touches no stamp.                                      *)
LEMMA AdminStamps ==
    ASSUME NEW s, IsAppState(s), NEW n \in Nat, StampedBy(s, n),
           NEW topics, NEW subscriptions
    PROVE  StampedBy(apply_admin(s, topics, subscriptions), n)
<1> DEFINE after == apply_admin(s, topics, subscriptions)
           marked == [t \in DOMAIN s.topics \cup topics |->
                        [topic_mut(s, t) EXCEPT !.exists = t \in topics]]
<1>1. /\ after.topics = marked
      /\ after.recent_messages = s.recent_messages
  BY DEF apply_admin, IsAppState
<1>2. ASSUME NEW t \in DOMAIN marked, NEW p \in DOMAIN marked[t].publishers
      PROVE  marked[t].publishers[p].last_seen <= n
  <2>1. marked[t].publishers = topic_mut(s, t).publishers
    BY TopicMutType DEF IsTopic
  <2>2. QED
    BY <2>1 DEF topic_mut, EntryOr, DefaultTopic, EmptyMap, StampedBy
<1> HIDE DEF after, marked
<1>3. StampedBy(after, n)
  BY <1>1, <1>2 DEF StampedBy
<1>4. QED
  BY <1>3 DEF after

(* What the subscriptions' entries become is nobody's concern here.        *)
LEMMA MovementStamps ==
    ASSUME NEW s, IsAppState(s), NEW n, StampedBy(s, n), NEW name, NEW sub
    PROVE  StampedBy(SetSubscription(s, name, sub), n)
<1>1. /\ SetSubscription(s, name, sub).topics = s.topics
      /\ SetSubscription(s, name, sub).recent_messages = s.recent_messages
  BY DEF SetSubscription, IsAppState
<1>2. QED
  BY <1>1 DEF StampedBy

(* Folding any observation in stamps nothing later than the present.       *)
LEMMA ApplyStamps ==
    ASSUME NEW s, IsAppState(s), NEW n \in Nat, StampedBy(s, n),
           NEW o \in Observation
    PROVE  StampedBy(apply(s, o, n), n)
<1>1. CASE o.kind = "Publish"
  <2>1. /\ o.topic \in Topics /\ o.peer \in Peers \cup {NoPeer}
        /\ o.messages \in Seq(Messages)
    BY <1>1 DEF Observation
  <2>2. QED
    BY <1>1, <2>1, PublishStamps DEF apply
<1>2. CASE o.kind \in {"Deliver", "Ack", "ConsumerOpen", "ConsumerClose"}
  <2>1. PICK sub : apply(s, o, n) = SetSubscription(s, o.subscription, sub)
    BY <1>2 DEF apply, ApplyDeliver, ApplyAck, ApplyConsumerOpen,
                ApplyConsumerClose
  <2>2. QED
    BY <2>1, MovementStamps
<1>3. CASE o.kind = "AdminSnapshot"
  BY <1>3, AdminStamps DEF apply
<1>4. o.kind \in {"Publish", "Deliver", "Ack", "ConsumerOpen",
                  "ConsumerClose", "AdminSnapshot"}
  BY DEF Observation
<1>5. QED
  BY <1>1, <1>2, <1>3, <1>4

(* Trimming only drops entries.                                            *)
LEMMA TrimStamps ==
    ASSUME NEW s, IsAppState(s), NEW n \in Nat, StampedBy(s, n),
           NEW cap \in Nat
    PROVE  StampedBy(trim_recent(s, cap), n)
<1> DEFINE after == trim_recent(s, cap)
           old == s.recent_messages
           new == after.recent_messages
<1>1. after.topics = s.topics
  BY DEF trim_recent, IsAppState
<1>2. /\ Len(new) = IF Len(old) > cap THEN cap ELSE Len(old)
      /\ \A i \in 1..Len(new) : new[i] = old[Len(old) - Len(new) + i]
  BY TrimRecentProperties
<1>3. Len(old) \in Nat
  BY LenProperties DEF IsAppState
<1>4. \A i \in 1..Len(old) : old[i].seen <= n
  BY DEF StampedBy
<1> HIDE DEF old, new
<1>5. ASSUME NEW i \in 1..Len(new)
      PROVE  new[i].seen <= n
  <2>1. Len(old) - Len(new) + i \in 1..Len(old)
    BY <1>2, <1>3
  <2>2. QED
    BY <1>2, <1>4, <2>1
<1>6. QED
  BY <1>1, <1>5 DEF StampedBy, new
-----------------------------------------------------------------------------
(* What the trip over the wire keeps.                                      *)

\* An instant rebuilt on receipt, from its age when it was sent.
LEMMA InstantSurvives ==
    ASSUME NEW u \in UIs, IsOrigin(origin[u]),
           NEW seen \in Nat, seen <= origin[u].sent
    PROVE  Rebuilt(origin[u].received + ClockOffset[u],
                   Age(origin[u].sent, seen)) = ShownInstant(u, seen)
<1> DEFINE m == origin[u].sent
           n == origin[u].received
           offset == ClockOffset[u]
<1>1. m \in Nat /\ n \in Nat /\ offset \in Int /\ EarliestInstant \in Int
  BY LinkAssumption, ConvertAssumption DEF IsOrigin
<1>2. ShownInstant(u, seen) = IF seen + offset + (n - m) >= EarliestInstant
                                THEN seen + offset + (n - m)
                                ELSE n + offset
  BY DEF ShownInstant
<1>3. Age(m, seen) = m - seen
  BY <1>1 DEF Age
<1> HIDE DEF m, n, offset
<1>4. (n + offset) - (m - seen) = seen + offset + (n - m)
  BY <1>1
<1>5. QED
  BY <1>2, <1>3, <1>4 DEF Rebuilt, m, n, offset

(* A publisher comes back with its count and the instant to be shown.      *)
LEMMA PublisherSurvives ==
    ASSUME NEW u \in UIs, IsOrigin(origin[u]),
           NEW p \in Publisher, p.last_seen <= origin[u].sent
    PROVE  [published |-> p.published,
            last_seen |-> Rebuilt(origin[u].received + ClockOffset[u],
                                  Age(origin[u].sent, p.last_seen))]
             = ShownPublisher(u, p)
<1>1. p.last_seen \in Nat
  BY DEF Publisher
<1>2. Rebuilt(origin[u].received + ClockOffset[u],
              Age(origin[u].sent, p.last_seen)) = ShownInstant(u, p.last_seen)
  BY <1>1, InstantSurvives
<1>3. ShownPublisher(u, p)
        = [published |-> p.published, last_seen |-> ShownInstant(u, p.last_seen)]
  BY DEF ShownPublisher, Publisher
<1>4. QED
  BY <1>2, <1>3

(* A topic comes back whole but for the instants of its publishers.        *)
LEMMA TopicSurvives ==
    ASSUME NEW u \in UIs, IsOrigin(origin[u]), NEW topic, IsTopic(topic),
           \A p \in DOMAIN topic.publishers :
             topic.publishers[p].last_seen <= origin[u].sent
    PROVE  topic_from_wire(topic_to_wire(topic, origin[u].sent),
                           origin[u].received + ClockOffset[u])
             = ShownTopic(u, topic)
<1> DEFINE m == origin[u].sent
           k == origin[u].received + ClockOffset[u]
           pubs == topic.publishers
           rebuilt == [p \in DOMAIN pubs |->
                        [published |-> pubs[p].published,
                         last_seen |-> Rebuilt(k, Age(m, pubs[p].last_seen))]]
           shown == [p \in DOMAIN pubs |-> ShownPublisher(u, pubs[p])]
<1>1. rebuilt = shown
  <2>1. ASSUME NEW p \in DOMAIN pubs
        PROVE  [published |-> pubs[p].published,
                last_seen |-> Rebuilt(k, Age(m, pubs[p].last_seen))]
                 = ShownPublisher(u, pubs[p])
    <3>1. pubs[p] \in Publisher
      BY DEF IsTopic, IsMap, IsPublisher
    <3>2. QED
      BY <3>1, PublisherSurvives
  <2>2. QED
    BY <2>1, Zenon
<1>2. topic_from_wire(topic_to_wire(topic, m), k)
        = [exists |-> topic.exists, publish_count |-> topic.publish_count,
           publishers |-> rebuilt]
  BY DEF topic_from_wire, topic_to_wire
<1>3. ShownTopic(u, topic)
        = [exists |-> topic.exists, publish_count |-> topic.publish_count,
           publishers |-> shown]
  <2>1. topic = [exists |-> topic.exists, publish_count |-> topic.publish_count,
                 publishers |-> topic.publishers]
    BY DEF IsTopic
  <2>2. ShownTopic(u, topic) = [topic EXCEPT !.publishers = shown]
    BY DEF ShownTopic
  <2> HIDE DEF shown
  <2>3. QED
    BY <2>1, <2>2
<1>4. QED
  BY <1>1, <1>2, <1>3

(* So does a message.                                                      *)
LEMMA MessageSurvives ==
    ASSUME NEW u \in UIs, IsOrigin(origin[u]),
           NEW msg \in RecentMessage, msg.seen <= origin[u].sent
    PROVE  message_from_wire(message_to_wire(msg, origin[u].sent),
                             origin[u].received + ClockOffset[u])
             = ShownMessage(u, msg)
<1> DEFINE m == origin[u].sent
           k == origin[u].received + ClockOffset[u]
<1>1. msg.seen \in Nat
  BY DEF RecentMessage
<1>2. Rebuilt(k, Age(m, msg.seen)) = ShownInstant(u, msg.seen)
  BY <1>1, InstantSurvives
<1>3. message_from_wire(message_to_wire(msg, m), k)
        = [seq |-> msg.seq, topic |-> msg.topic, message |-> msg.message,
           seen |-> Rebuilt(k, Age(m, msg.seen))]
  BY DEF message_from_wire, message_to_wire
<1>4. ShownMessage(u, msg)
        = [seq |-> msg.seq, topic |-> msg.topic, message |-> msg.message,
           seen |-> ShownInstant(u, msg.seen)]
  BY DEF ShownMessage, RecentMessage
<1>5. QED
  BY <1>2, <1>3, <1>4
-----------------------------------------------------------------------------
(* What the invariant implies.                                             *)

\* The topics that a UI holds.
LEMMA TopicsFollow ==
    ASSUME LinkInv, NEW u \in UIs
    PROVE  LET topics == origin[u].state.topics
           IN  local[u].topics = [t \in DOMAIN topics |-> ShownTopic(u, topics[t])]
<1> DEFINE s == origin[u].state
           m == origin[u].sent
           k == origin[u].received + ClockOffset[u]
<1>1. /\ IsOrigin(origin[u]) /\ IsAppState(s) /\ StampedBy(s, m)
      /\ local[u] = from_wire(to_wire(s, m), k)
  BY DEF LinkInv, InTransit, IsOrigin, LocalIsDecoded
<1>2. local[u].topics = [t \in DOMAIN s.topics |->
                           topic_from_wire(topic_to_wire(s.topics[t], m), k)]
  BY <1>1, SMTT(30) DEF from_wire, to_wire
<1>3. ASSUME NEW t \in DOMAIN s.topics
      PROVE  topic_from_wire(topic_to_wire(s.topics[t], m), k)
               = ShownTopic(u, s.topics[t])
  <2>1. IsTopic(s.topics[t])
    BY <1>1 DEF IsAppState, IsMap
  <2>2. \A p \in DOMAIN s.topics[t].publishers :
          s.topics[t].publishers[p].last_seen <= m
    BY <1>1 DEF StampedBy
  <2>3. QED
    BY <1>1, <2>1, <2>2, TopicSurvives
<1>4. [t \in DOMAIN s.topics |->
         topic_from_wire(topic_to_wire(s.topics[t], m), k)]
        = [t \in DOMAIN s.topics |-> ShownTopic(u, s.topics[t])]
  BY <1>3, Zenon
<1>5. QED
  BY <1>2, <1>4, Zenon

\* The messages that a UI holds.
LEMMA MessagesFollow ==
    ASSUME LinkInv, NEW u \in UIs
    PROVE  LET messages == origin[u].state.recent_messages
           IN  local[u].recent_messages
                 = [i \in DOMAIN messages |-> ShownMessage(u, messages[i])]
<1> DEFINE s == origin[u].state
           msgs == s.recent_messages
           m == origin[u].sent
           k == origin[u].received + ClockOffset[u]
<1>1. /\ IsOrigin(origin[u]) /\ IsAppState(s) /\ StampedBy(s, m)
      /\ local[u] = from_wire(to_wire(s, m), k)
  BY DEF LinkInv, InTransit, IsOrigin, LocalIsDecoded
<1>2. local[u].recent_messages
        = [i \in DOMAIN msgs |->
             message_from_wire(message_to_wire(msgs[i], m), k)]
  BY <1>1, SMTT(30) DEF from_wire, to_wire
<1>3. ASSUME NEW i \in DOMAIN msgs
      PROVE  message_from_wire(message_to_wire(msgs[i], m), k)
               = ShownMessage(u, msgs[i])
  <2>1. msgs \in Seq(RecentMessage)
    BY <1>1 DEF IsAppState
  <2>2. DOMAIN msgs = 1..Len(msgs) /\ i \in 1..Len(msgs)
    BY <2>1, LenProperties
  <2>3. msgs[i] \in RecentMessage
    BY <2>1, <2>2, ElementOfSeq
  <2>4. msgs[i].seen <= m
    BY <1>1, <2>2 DEF StampedBy
  <2>5. QED
    BY <1>1, <2>3, <2>4, MessageSurvives
<1>4. [i \in DOMAIN msgs |->
         message_from_wire(message_to_wire(msgs[i], m), k)]
        = [i \in DOMAIN msgs |-> ShownMessage(u, msgs[i])]
  BY <1>3, Zenon
<1>5. QED
  BY <1>2, <1>4, Zenon

(* The fields that the trip does not touch, and the number that is lost.   *)
LEMMA TheRestSurvives ==
    ASSUME NEW s, NEW m, NEW k, NEW r, r = from_wire(to_wire(s, m), k)
    PROVE  r = [topics |-> r.topics,
                subscriptions |-> s.subscriptions,
                recent_messages |-> r.recent_messages,
                recent_buffer_capacity |-> s.recent_buffer_capacity,
                next_seq |-> 0]
<1> DEFINE w == to_wire(s, m)
<1>1. /\ w.subscriptions = s.subscriptions
      /\ w.recent_buffer_capacity = s.recent_buffer_capacity
  BY DEF to_wire
<1> HIDE DEF w
<1>2. PICK topics, messages :
        r = [topics |-> topics,
             subscriptions |-> w.subscriptions,
             recent_messages |-> messages,
             recent_buffer_capacity |-> w.recent_buffer_capacity,
             next_seq |-> 0]
  BY Zenon DEF w, from_wire
<1>3. r.topics = topics /\ r.recent_messages = messages
  BY <1>2
<1>4. QED
  BY <1>1, <1>2, <1>3

\* Replacing three fields of a state.
LEMMA ThreeFieldsReplaced ==
    ASSUME NEW s, NEW x, NEW y,
           s = [topics |-> s.topics, subscriptions |-> s.subscriptions,
                recent_messages |-> s.recent_messages,
                recent_buffer_capacity |-> s.recent_buffer_capacity,
                next_seq |-> s.next_seq]
    PROVE  [s EXCEPT !.topics = x, !.recent_messages = y, !.next_seq = 0]
             = [topics |-> x, subscriptions |-> s.subscriptions,
                recent_messages |-> y,
                recent_buffer_capacity |-> s.recent_buffer_capacity,
                next_seq |-> 0]
<1>1. PICK a, b, c, d, e :
        s = [topics |-> a, subscriptions |-> b, recent_messages |-> c,
             recent_buffer_capacity |-> d, next_seq |-> e]
  OBVIOUS
<1>2. s.subscriptions = b /\ s.recent_buffer_capacity = d
  BY <1>1
<1> DEFINE s1 == [s EXCEPT !.topics = x]
           s2 == [s1 EXCEPT !.recent_messages = y]
           s3 == [s2 EXCEPT !.next_seq = 0]
<1>3. s1 = [topics |-> x, subscriptions |-> b, recent_messages |-> c,
            recent_buffer_capacity |-> d, next_seq |-> e]
  BY <1>1
<1>4. s2 = [topics |-> x, subscriptions |-> b, recent_messages |-> y,
            recent_buffer_capacity |-> d, next_seq |-> e]
  <2> HIDE DEF s1
  <2>1. QED
    BY <1>3
<1>5. s3 = [topics |-> x, subscriptions |-> b, recent_messages |-> y,
            recent_buffer_capacity |-> d, next_seq |-> 0]
  <2> HIDE DEF s2
  <2>1. QED
    BY <1>4
<1>6. QED
  BY <1>2, <1>5, Zenon

(* The invariant implies what the UI is to show.                           *)
LEMMA MirrorsFollow ==
    ASSUME LinkInv
    PROVE  LocalMirrors
<1> SUFFICES ASSUME NEW u \in UIs
             PROVE  LET original == origin[u].state
                    IN  local[u] =
                          [original EXCEPT
                             !.topics = [t \in DOMAIN @ |-> ShownTopic(u, @[t])],
                             !.recent_messages =
                                [i \in DOMAIN @ |-> ShownMessage(u, @[i])],
                             !.next_seq = 0]
  BY DEF LocalMirrors
<1> DEFINE s == origin[u].state
           topics == [t \in DOMAIN s.topics |-> ShownTopic(u, s.topics[t])]
           messages == [i \in DOMAIN s.recent_messages |->
                          ShownMessage(u, s.recent_messages[i])]
<1>1. s = [topics |-> s.topics, subscriptions |-> s.subscriptions,
           recent_messages |-> s.recent_messages,
           recent_buffer_capacity |-> s.recent_buffer_capacity,
           next_seq |-> s.next_seq]
  BY DEF LinkInv, InTransit, IsOrigin, IsAppState
<1>2. local[u] = [topics |-> local[u].topics,
                  subscriptions |-> s.subscriptions,
                  recent_messages |-> local[u].recent_messages,
                  recent_buffer_capacity |-> s.recent_buffer_capacity,
                  next_seq |-> 0]
  BY TheRestSurvives DEF LinkInv, LocalIsDecoded
<1>3. local[u].topics = topics
  BY TopicsFollow
<1>4. local[u].recent_messages = messages
  BY MessagesFollow
<1> DEFINE shown == [s EXCEPT !.topics = topics, !.recent_messages = messages,
                              !.next_seq = 0]
<1>5. shown = [topics |-> topics, subscriptions |-> s.subscriptions,
               recent_messages |-> messages,
               recent_buffer_capacity |-> s.recent_buffer_capacity,
               next_seq |-> 0]
  <2> HIDE DEF topics, messages
  <2>1. QED
    BY <1>1, ThreeFieldsReplaced, Zenon
<1>6. local[u] = shown
  <2> HIDE DEF s, topics, messages, shown
  <2>1. QED
    BY <1>2, <1>3, <1>4, <1>5, Zenon
<1>7. QED
  BY <1>6, Zenon
-----------------------------------------------------------------------------
(* It holds at first.                                                      *)

(* The invariant holds before anything is connected.                       *)
LEMMA LinkInitHolds == LinkInit => LinkInv
<1> SUFFICES ASSUME LinkInit PROVE LinkInv
  OBVIOUS
<1> USE DEF LinkInit
<1>1. /\ IsAppState(DefaultState)
      /\ \A n \in Nat : StampedBy(DefaultState, n)
  <2>1. /\ DOMAIN DefaultState.topics = {}
        /\ Len(DefaultState.recent_messages) = 0
    BY EmptySequence DEF DefaultState, EmptyMap
  <2>2. QED
    BY <2>1, DefaultStateType DEF StampedBy
<1>2. LinkTypeOK
  <2>1. /\ up \in BOOLEAN /\ crashes \in 0..MaxCrashes
        /\ proxying \in BOOLEAN /\ version \in 0..MaxVersions
        /\ clock \in 0..MaxTime
    BY LinkAssumption
  <2>2. cursor \in [UIs -> -1..MaxVersions]
    BY LinkAssumption
  <2>3. \A u \in UIs : Len(wire[u]) <= InFlight
    BY LinkAssumption, EmptySequence
  <2>4. QED
    BY <1>1, <2>1, <2>2, <2>3 DEF LinkTypeOK
<1>3. InTransit
  <2>1. \A u \in UIs : wire[u] = <<>> /\ origin[u] = NoOrigin
    OBVIOUS
  <2>2. IsOrigin(NoOrigin)
    BY <1>1 DEF NoOrigin, IsOrigin
  <2>3. \A u \in UIs : /\ IsSequence(wire[u])
                       /\ \A i \in 1..Len(wire[u]) : IsFrame(wire[u][i])
                       /\ IsOrigin(origin[u])
    BY <2>1, <2>2, EmptySequence
  <2>4. QED
    BY <2>3 DEF InTransit, IsPerUI
<1>4. LocalIsDecoded
  <2>1. \A n, k \in Int : from_wire(to_wire(DefaultState, n), k) = DefaultState
    BY DEF from_wire, to_wire, DefaultState, EmptyMap
  <2>2. ASSUME NEW u \in UIs
        PROVE  local[u] = from_wire(to_wire(origin[u].state, origin[u].sent),
                                    origin[u].received + ClockOffset[u])
    <3>1. /\ local[u] = DefaultState
          /\ origin[u].state = DefaultState
          /\ origin[u].sent = 0 /\ origin[u].received = 0
      BY DEF NoOrigin
    <3>2. 0 + ClockOffset[u] \in Int
      BY LinkAssumption
    <3>3. QED
      BY <2>1, <3>1, <3>2
  <2>3. QED
    BY <2>2 DEF LocalIsDecoded
<1>5. OldestFirst
  <2>1. ASSUME NEW u \in UIs
        PROVE  Published(origin[u]) /\ Len(wire[u]) = 0
    BY EmptySequence DEF Published, NotLater, NoOrigin
  <2>2. QED
    BY <2>1 DEF OldestFirst
<1>6. QED
  BY <1>1, <1>2, <1>3, <1>4, <1>5 DEF LinkInv

-----------------------------------------------------------------------------
(* The parts that a step keeps when it leaves the wires alone.             *)

(* Frames stay what they were while the wires are left alone.              *)
LEMMA FramesStay ==
    ASSUME LinkInv, LinkTypeOK', clock <= clock',
           UNCHANGED <<wire, local, origin>>
    PROVE  InTransit' /\ LocalIsDecoded'
<1>1. clock \in Nat /\ clock' \in Nat
  BY LinkAssumption DEF LinkInv, LinkTypeOK
<1>2. \A n : n \in 0..clock => n \in 0..clock'
  BY <1>1
<1>3. \A f : IsFrame(f) => IsFrame(f)'
  BY <1>2 DEF IsFrame
<1>4. InTransit'
  BY <1>3 DEF LinkInv, InTransit, IsPerUI, IsOrigin, StampedBy
<1>5. LocalIsDecoded'
  BY DEF LinkInv, LocalIsDecoded
<1>6. QED
  BY <1>4, <1>5

(* A step that leaves the wires alone and publishes only forward.          *)
LEMMA QuietStep ==
    ASSUME LinkInv, LinkTypeOK', StampedBy(current, clock)', clock <= clock',
           UNCHANGED <<wire, local, origin>>,
           \A a : (/\ a.life \in Nat /\ a.version \in Int
                   /\ Published(a)) => Published(a)'
    PROVE  LinkInv'
<1>1. InTransit' /\ LocalIsDecoded'
  BY FramesStay
<1>2. ASSUME NEW u \in UIs
      PROVE  /\ Published(origin[u])'
             /\ \A i \in 1..Len(wire[u]) : Published(wire[u][i])'
  <2>1. IsOrigin(origin[u]) /\ Published(origin[u])
    BY DEF LinkInv, InTransit, OldestFirst
  <2>2. \A i \in 1..Len(wire[u]) : /\ IsFrame(wire[u][i])
                                   /\ Published(wire[u][i])
    BY DEF LinkInv, InTransit, OldestFirst
  <2>3. QED
    BY <2>1, <2>2 DEF IsOrigin, IsFrame, Published, NotLater
<1>3. OldestFirst'
  BY <1>2 DEF LinkInv, OldestFirst, NotLater
<1>4. QED
  BY <1>1, <1>3 DEF LinkInv

\* Steps of a UI or of the network that leave monitor and wires alone.
LEMMA StillStep ==
    ASSUME LinkInv, LinkTypeOK',
           UNCHANGED <<monitorVars, clock, wire, local, origin>>
    PROVE  LinkInv'
<1>1. clock <= clock'
  BY LinkAssumption DEF LinkInv, LinkTypeOK
<1>2. StampedBy(current, clock)'
  BY DEF monitorVars, LinkInv, StampedBy
<1>3. \A a : Published(a) => Published(a)'
  BY DEF monitorVars, Published, NotLater
<1>4. QED
  BY <1>1, <1>2, <1>3, QuietStep
-----------------------------------------------------------------------------
(* The steps of the monitor and of time.                                   *)

(* A new snapshot is newer than all in transit.                            *)
LEMMA UpdateKeeps ==
    ASSUME LinkInv, NEW o \in Observed, Update(o)
    PROVE  LinkInv'
<1> DEFINE before == [current EXCEPT !.recent_buffer_capacity = RecentBuffer]
           folded == apply(before, o, clock)
<1>1. /\ clock \in Nat /\ RecentBuffer \in Nat /\ o \in Observation
      /\ version \in Nat /\ crashes \in Nat /\ IsAppState(current)
  BY LinkAssumption DEF LinkInv, LinkTypeOK
<1>2. IsAppState(before) /\ StampedBy(before, clock)
  <2>1. /\ before.topics = current.topics
        /\ before.recent_messages = current.recent_messages
    BY <1>1 DEF IsAppState
  <2>2. IsAppState(before)
    BY <1>1 DEF IsAppState
  <2>3. QED
    BY <2>1, <2>2 DEF LinkInv, StampedBy
<1>3. IsAppState(folded) /\ StampedBy(folded, clock)
  BY <1>1, <1>2, ApplyType, ApplyStamps
<1>4. current' = trim_recent(folded, RecentBuffer)
  BY DEF Update
<1> HIDE DEF before, folded
<1>5. IsAppState(current)' /\ StampedBy(current, clock)'
  <2>1. IsAppState(trim_recent(folded, RecentBuffer))
    BY <1>1, <1>3, TrimRecentProperties
  <2>2. StampedBy(trim_recent(folded, RecentBuffer), clock)
    BY <1>1, <1>3, TrimStamps
  <2>3. clock' = clock
    BY DEF Update
  <2>4. QED
    BY <1>4, <2>1, <2>2, <2>3 DEF StampedBy
<1>6. LinkTypeOK'
  <2>1. version' \in 0..MaxVersions
    BY <1>1, LinkAssumption DEF Update
  <2>2. QED
    BY <1>5, <2>1 DEF Update, LinkInv, LinkTypeOK
<1>7. \A a : (/\ a.life \in Nat /\ a.version \in Int
              /\ Published(a)) => Published(a)'
  BY <1>1 DEF Update, Published, NotLater
<1>8. clock <= clock' /\ UNCHANGED <<wire, local, origin>>
  BY <1>1 DEF Update
<1>9. QED
  BY <1>5, <1>6, <1>7, <1>8, QuietStep

(* The proxy's end concerns no UI.                                         *)
LEMMA ProxyStopsKeeps == ASSUME LinkInv, ProxyStops PROVE LinkInv'
<1>1. LinkTypeOK'
  BY DEF ProxyStops, LinkInv, LinkTypeOK
<1>2. clock <= clock' /\ UNCHANGED <<wire, local, origin>>
  BY LinkAssumption DEF ProxyStops, LinkInv, LinkTypeOK
<1>3. StampedBy(current, clock)'
  BY DEF ProxyStops, LinkInv, StampedBy
<1>4. \A a : Published(a) => Published(a)'
  BY DEF ProxyStops, Published, NotLater
<1>5. QED
  BY <1>1, <1>2, <1>3, <1>4, QuietStep

(* What was published before a crash belongs to an earlier life.           *)
LEMMA CrashKeeps == ASSUME LinkInv, Crash PROVE LinkInv'
<1>1. crashes \in Nat /\ version \in Nat /\ clock \in Nat
  BY LinkAssumption DEF LinkInv, LinkTypeOK
<1>2. LinkTypeOK'
  <2>1. crashes' \in 0..MaxCrashes
    BY <1>1, LinkAssumption DEF Crash
  <2>2. link' \in [UIs -> {"none", "open", "dead", "broken"}]
    BY DEF Crash, LinkInv, LinkTypeOK
  <2>3. QED
    BY <2>1, <2>2 DEF Crash, LinkInv, LinkTypeOK
<1>3. clock <= clock' /\ UNCHANGED <<wire, local, origin>>
  BY <1>1 DEF Crash
<1>4. StampedBy(current, clock)'
  BY DEF Crash, LinkInv, StampedBy
<1>5. \A a : (/\ a.life \in Nat /\ a.version \in Int
              /\ Published(a)) => Published(a)'
  BY <1>1 DEF Crash, Published, NotLater
<1>6. QED
  BY <1>2, <1>3, <1>4, <1>5, QuietStep

(* The next life starts with an empty state.                               *)
LEMMA RestartKeeps == ASSUME LinkInv, Restart PROVE LinkInv'
<1>1. crashes \in Nat /\ version \in Nat /\ clock \in Nat
  BY LinkAssumption DEF LinkInv, LinkTypeOK
<1>2. LinkTypeOK'
  <2>1. version' \in 0..MaxVersions
    BY LinkAssumption DEF Restart
  <2>2. IsAppState(current)'
    BY DefaultStateType DEF Restart
  <2>3. QED
    BY <2>1, <2>2 DEF Restart, LinkInv, LinkTypeOK
<1>3. clock <= clock' /\ UNCHANGED <<wire, local, origin>>
  BY <1>1 DEF Restart
<1>4. StampedBy(current, clock)'
  <2>1. /\ current'.topics = EmptyMap
        /\ Len(current'.recent_messages) = 0
    BY EmptySequence DEF Restart, DefaultState
  <2>2. QED
    BY <2>1 DEF StampedBy, EmptyMap
<1>5. \A a : (/\ a.life \in Nat /\ a.version \in Int
              /\ Published(a)) => Published(a)'
  BY <1>1 DEF Restart, Published, NotLater
<1>6. QED
  BY <1>2, <1>3, <1>4, <1>5, QuietStep

(* Time passes.                                                            *)
LEMMA TickKeeps == ASSUME LinkInv, Tick PROVE LinkInv'
<1>1. clock \in Nat /\ clock' = clock + 1
  BY LinkAssumption DEF Tick, LinkInv, LinkTypeOK
<1>2. LinkTypeOK'
  <2>1. clock' \in 0..MaxTime
    BY <1>1, LinkAssumption DEF Tick
  <2>2. QED
    BY <2>1 DEF Tick, monitorVars, LinkInv, LinkTypeOK
<1>3. StampedBy(current, clock)'
  <2>1. StampedBy(current, clock')
    <3>1. IsAppState(current) /\ StampedBy(current, clock)
      BY DEF LinkInv, LinkTypeOK
    <3>2. clock' \in Nat /\ clock <= clock'
      BY <1>1
    <3>3. QED
      BY <1>1, <3>1, <3>2, LaterStampBound
  <2>2. current' = current
    BY DEF Tick, monitorVars
  <2>3. QED
    BY <2>1, <2>2 DEF StampedBy
<1>4. \A a : Published(a) => Published(a)'
  BY DEF Tick, monitorVars, Published, NotLater
<1>5. UNCHANGED <<wire, local, origin>> /\ clock <= clock'
  BY <1>1 DEF Tick
<1>6. QED
  BY <1>2, <1>3, <1>4, <1>5, QuietStep
-----------------------------------------------------------------------------
(* The steps of the network and of a UI that leave the wires alone.        *)

(* Connections break and are found out; the UI goes away.                  *)
LEMMA NetworkKeeps ==
    ASSUME LinkInv, NEW u \in UIs, Lose(u) \/ KeepAlive(u) \/ CloseUI(u)
    PROVE  LinkInv'
<1>1. LinkTypeOK'
  <2>1. link' \in [UIs -> {"none", "open", "dead", "broken"}]
    BY DEF Lose, KeepAlive, CloseUI, LinkInv, LinkTypeOK
  <2>2. open' \in [UIs -> BOOLEAN]
    BY DEF Lose, KeepAlive, CloseUI, LinkInv, LinkTypeOK
  <2>3. UNCHANGED <<monitorVars, clock, pc, cursor, wire, local, connected>>
    BY DEF Lose, KeepAlive, CloseUI
  <2>4. QED
    BY <2>1, <2>2, <2>3 DEF monitorVars, LinkInv, LinkTypeOK
<1>2. UNCHANGED <<monitorVars, clock, wire, local, origin>>
  BY DEF Lose, KeepAlive, CloseUI
<1>3. QED
  BY <1>1, <1>2, StillStep

(* The supervisor connects, subscribes, and waits to reconnect.            *)
LEMMA SupervisorKeeps ==
    ASSUME LinkInv, NEW u \in UIs, Connect(u) \/ Subscribe(u) \/ Reconnect(u)
    PROVE  LinkInv'
<1>1. LinkTypeOK'
  <2>1. link' \in [UIs -> {"none", "open", "dead", "broken"}]
    BY DEF Connect, Subscribe, Reconnect, LinkInv, LinkTypeOK
  <2>2. pc' \in [UIs -> {"connect", "subscribe", "pump", "backoff", "stopped"}]
    BY DEF Connect, Subscribe, Reconnect, LinkInv, LinkTypeOK
  <2>3. cursor' \in [UIs -> -1..MaxVersions]
    <3>1. -1 \in -1..MaxVersions
      BY LinkAssumption
    <3>2. cursor' = cursor \/ cursor' = [cursor EXCEPT ![u] = -1]
      BY DEF Connect, Subscribe, Reconnect
    <3>3. QED
      BY <3>1, <3>2 DEF LinkInv, LinkTypeOK
  <2>4. connected' \in [UIs -> BOOLEAN]
    BY DEF Connect, Subscribe, Reconnect, LinkInv, LinkTypeOK
  <2>5. UNCHANGED <<monitorVars, clock, wire, local, open>>
    BY DEF Connect, Subscribe, Reconnect
  <2>6. QED
    BY <2>1, <2>2, <2>3, <2>4, <2>5 DEF monitorVars, LinkInv, LinkTypeOK
<1>2. UNCHANGED <<monitorVars, clock, wire, local, origin>>
  BY DEF Connect, Subscribe, Reconnect
<1>3. QED
  BY <1>1, <1>2, StillStep

-----------------------------------------------------------------------------
(* The steps that put frames on a wire or take them off.                   *)

(* A connection ends, and what was in transit is lost.                     *)
LEMMA EndKeeps ==
    ASSUME LinkInv, NEW u \in UIs, EndOfConnection(u),
           UNCHANGED <<local, origin>>
    PROVE  LinkInv'
<1>1. \A v \in UIs : wire'[v] = IF v = u THEN <<>> ELSE wire[v]
  BY DEF EndOfConnection, LinkInv, InTransit, IsPerUI
<1>2. UNCHANGED <<monitorVars, clock, open>>
  BY DEF EndOfConnection
<1>3. LinkTypeOK'
  <2>1. link' \in [UIs -> {"none", "open", "dead", "broken"}]
    BY DEF EndOfConnection, LinkInv, LinkTypeOK
  <2>2. pc' \in [UIs -> {"connect", "subscribe", "pump", "backoff", "stopped"}]
    BY DEF EndOfConnection, LinkInv, LinkTypeOK
  <2>3. cursor' \in [UIs -> -1..MaxVersions]
    BY LinkAssumption DEF EndOfConnection, LinkInv, LinkTypeOK
  <2>4. connected' \in [UIs -> BOOLEAN]
    BY DEF EndOfConnection, LinkInv, LinkTypeOK
  <2>5. \A v \in UIs : Len(wire'[v]) <= InFlight
    <3>1. 0 <= InFlight /\ Len(<<>>) = 0
      BY EmptySequence, LinkAssumption
    <3>2. \A v \in UIs : Len(wire[v]) <= InFlight
      BY DEF LinkInv, LinkTypeOK
    <3>3. QED
      BY <1>1, <3>1, <3>2
  <2>6. QED
    BY <1>2, <2>1, <2>2, <2>3, <2>4, <2>5 DEF monitorVars, LinkInv, LinkTypeOK
<1>4. StampedBy(current, clock)'
  BY <1>2 DEF monitorVars, LinkInv, StampedBy
<1>5. InTransit'
  <2>1. \A f : IsFrame(f) => IsFrame(f)'
    BY <1>2 DEF IsFrame
  <2>2. ASSUME NEW v \in UIs
        PROVE  /\ IsSequence(wire'[v])
               /\ \A i \in 1..Len(wire'[v]) : IsFrame(wire[v][i])'
    <3>1. CASE v = u
      <4>1. wire'[v] = <<>>
        BY <1>1, <3>1
      <4>2. IsSequence(wire'[v]) /\ Len(wire'[v]) = 0
        BY <4>1, EmptySequence
      <4>3. QED
        BY <4>2
    <3>2. CASE v # u
      <4>1. wire'[v] = wire[v]
        BY <1>1, <3>2
      <4>2. QED
        BY <4>1, <2>1 DEF LinkInv, InTransit, IsFrame
    <3>3. QED
      BY <3>1, <3>2
  <2>3. IsPerUI(wire)' /\ IsPerUI(local)' /\ IsPerUI(origin)'
    BY DEF EndOfConnection, LinkInv, InTransit, IsPerUI
  <2>4. \A v \in UIs : IsOrigin(origin[v])'
    BY DEF LinkInv, InTransit, IsOrigin, StampedBy
  <2>5. QED
    BY <2>2, <2>3, <2>4 DEF InTransit, IsSequence
<1>6. LocalIsDecoded'
  BY <1>2 DEF LinkInv, LocalIsDecoded
<1>7. OldestFirst'
  <2>1. \A a : Published(a) => Published(a)'
    BY <1>2 DEF monitorVars, Published, NotLater
  <2>2. \A v \in UIs : Len(wire'[v]) = 0 \/ wire'[v] = wire[v]
    BY <1>1, EmptySequence
  <2>3. QED
    BY <2>1, <2>2 DEF LinkInv, OldestFirst, NotLater
<1>8. QED
  BY <1>3, <1>4, <1>5, <1>6, <1>7 DEF LinkInv
(* The server sends its present state behind all that is in transit.       *)
LEMMA ServerSendKeeps ==
    ASSUME LinkInv, NEW u \in UIs, ServerSend(u)
    PROVE  LinkInv'
<1> DEFINE q == wire[u]
           frame == [life |-> crashes, version |-> version, state |-> current,
                     sent |-> clock, snapshot |-> to_wire(current, clock)]
<1>1. /\ crashes \in Nat /\ version \in Nat /\ clock \in Nat /\ InFlight \in Nat
      /\ version \in -1..MaxVersions
  BY LinkAssumption DEF LinkInv, LinkTypeOK
<1>2. UNCHANGED <<monitorVars, clock, pc, link, local, connected, open, origin>>
  BY DEF ServerSend
<1>3. /\ wire' = [wire EXCEPT ![u] = Append(q, frame)]
      /\ \A v \in UIs : wire'[v] = IF v = u THEN Append(q, frame) ELSE wire[v]
  BY DEF ServerSend, LinkInv, InTransit, IsPerUI
<1>4. IsSequence(q) /\ Len(q) < InFlight
  BY DEF ServerSend, LinkInv, InTransit
<1>5. IsFrame(frame) /\ Published(frame)
  <2>1. up /\ clock \in 0..clock /\ IsAppState(current)
    BY <1>1 DEF ServerSend, LinkInv, LinkTypeOK
  <2>2. StampedBy(current, clock)
    BY DEF LinkInv
  <2>3. IsFrame(frame)
    BY <1>1, <2>1, <2>2 DEF IsFrame
  <2>4. Published(frame)
    BY <1>1, <2>1 DEF Published, NotLater
  <2>5. QED
    BY <2>3, <2>4
<1>6. /\ frame.life = crashes /\ frame.version = version
      /\ \A a : Published(a) => NotLater(a, frame)
  BY DEF Published, NotLater
<1> HIDE DEF frame
<1>7. /\ IsSequence(wire'[u])
      /\ Len(wire'[u]) = Len(q) + 1 /\ Len(q) \in Nat
      /\ \A i \in 1..Len(q) : wire'[u][i] = q[i]
      /\ wire'[u][Len(q) + 1] = frame
  <2>1. wire'[u] = Append(q, frame)
    BY <1>3
  <2> HIDE DEF q
  <2>2. QED
    BY <2>1, <1>4, AppendSequence, SequenceLength
<1>8. LinkTypeOK'
  <2>1. cursor' \in [UIs -> -1..MaxVersions]
    BY <1>1 DEF ServerSend, LinkInv, LinkTypeOK
  <2>2. \A v \in UIs : Len(wire'[v]) <= InFlight
    BY <1>1, <1>3, <1>4, <1>7 DEF LinkInv, LinkTypeOK
  <2>3. QED
    BY <1>2, <2>1, <2>2 DEF monitorVars, LinkInv, LinkTypeOK
<1>9. StampedBy(current, clock)'
  BY <1>2 DEF monitorVars, LinkInv, StampedBy
<1>10. InTransit'
  <2>1. \A f : IsFrame(f) => IsFrame(f)'
    BY <1>2 DEF IsFrame
  <2>2. ASSUME NEW v \in UIs
        PROVE  /\ IsSequence(wire'[v])
               /\ \A i \in 1..Len(wire'[v]) : IsFrame(wire[v][i])'
    <3>1. CASE v = u
      <4>1. \A i \in 1..Len(q) : IsFrame(q[i])
        BY DEF LinkInv, InTransit
      <4>2. \A i \in 1..Len(q) + 1 : i \in 1..Len(q) \/ i = Len(q) + 1
        BY <1>7
      <4>3. \A i \in 1..Len(wire'[u]) : IsFrame(wire[u][i])'
        BY <1>5, <1>7, <2>1, <4>1, <4>2 DEF IsFrame
      <4>4. QED
        BY <1>7, <3>1, <4>3
    <3>2. CASE v # u
      <4>1. wire'[v] = wire[v]
        BY <1>3, <3>2
      <4>2. QED
        BY <4>1, <2>1 DEF LinkInv, InTransit, IsFrame
    <3>3. QED
      BY <3>1, <3>2
  <2>3. IsPerUI(wire)' /\ IsPerUI(local)' /\ IsPerUI(origin)'
    BY <1>2, <1>3 DEF LinkInv, InTransit, IsPerUI
  <2>4. \A v \in UIs : IsOrigin(origin[v])'
    BY <1>2 DEF LinkInv, InTransit, IsOrigin, StampedBy
  <2>5. QED
    BY <2>2, <2>3, <2>4 DEF InTransit, IsSequence
<1>11. LocalIsDecoded'
  BY <1>2 DEF LinkInv, LocalIsDecoded
<1>12. OldestFirst'
  <2>1. \A a : Published(a) => Published(a)'
    BY <1>2 DEF monitorVars, Published, NotLater
  <2>2. ASSUME NEW v \in UIs
        PROVE  /\ Published(origin[v])'
               /\ \A i \in 1..Len(wire'[v]) :
                    /\ Published(wire[v][i])'
                    /\ NotLater(origin[v], wire'[v][i])
                    /\ \A j \in i..Len(wire'[v]) :
                         NotLater(wire'[v][i], wire'[v][j])
    <3>1. /\ Published(origin[v])
          /\ \A i \in 1..Len(wire[v]) :
               /\ Published(wire[v][i])
               /\ NotLater(origin[v], wire[v][i])
               /\ \A j \in i..Len(wire[v]) : NotLater(wire[v][i], wire[v][j])
      BY DEF LinkInv, OldestFirst
    <3>2. CASE v = u
      <4>1. \A i \in 1..Len(q) + 1 : i \in 1..Len(q) \/ i = Len(q) + 1
        BY <1>7
      <4>2. ASSUME NEW i \in 1..Len(wire'[u])
            PROVE  /\ Published(wire'[u][i])
                   /\ NotLater(origin[u], wire'[u][i])
        BY <1>5, <1>6, <1>7, <3>1, <3>2, <4>1
      <4>3. ASSUME NEW i \in 1..Len(wire'[u]), NEW j \in i..Len(wire'[u])
            PROVE  NotLater(wire'[u][i], wire'[u][j])
        <5>1. CASE j = Len(q) + 1
          <6>1. wire'[u][j] = frame
            BY <1>7, <5>1
          <6>2. QED
            BY <1>6, <4>2, <6>1
        <5>2. CASE j # Len(q) + 1
          <6>1. i \in 1..Len(q) /\ j \in i..Len(q) /\ j \in 1..Len(q)
            BY <1>7, <5>2
          <6>2. wire'[u][i] = q[i] /\ wire'[u][j] = q[j]
            BY <1>7, <6>1
          <6>3. QED
            BY <3>1, <3>2, <6>1, <6>2
        <5>3. QED
          BY <5>1, <5>2
      <4>4. \A i \in 1..Len(wire'[u]) : Published(wire[u][i])'
        BY <2>1, <4>2 DEF Published, NotLater
      <4>5. Published(origin[u])'
        BY <1>2, <2>1, <3>1, <3>2 DEF Published, NotLater
      <4>6. QED
        BY <3>2, <4>2, <4>3, <4>4, <4>5
    <3>3. CASE v # u
      <4>1. wire'[v] = wire[v] /\ origin'[v] = origin[v]
        BY <1>2, <1>3, <3>3
      <4>2. QED
        BY <2>1, <3>1, <4>1 DEF Published, NotLater
    <3>4. QED
      BY <3>2, <3>3
  <2>3. QED
    BY <1>2, <2>2 DEF OldestFirst, NotLater
<1>13. QED
  BY <1>8, <1>9, <1>10, <1>11, <1>12 DEF LinkInv
(* The UI shows the oldest frame in transit, no older than what it showed. *)
LEMMA ReceiveKeeps ==
    ASSUME LinkInv, NEW u \in UIs, Receive(u)
    PROVE  LinkInv' /\ NotLater(origin[u], origin'[u])
<1> DEFINE q == wire[u]
           f == q[1]
           g == [life |-> f.life, version |-> f.version, state |-> f.state,
                 sent |-> f.sent, received |-> clock]
           decoded == from_wire(f.snapshot, UiNow(u))
<1>1. UNCHANGED <<monitorVars, clock, pc, link, cursor, connected, open>>
  BY DEF Receive
<1>2. IsSequence(q) /\ q # <<>>
  BY DEF Receive, LinkInv, InTransit
<1>3. /\ IsSequence(Tail(q))
      /\ Len(q) \in Nat /\ Len(q) >= 1
      /\ Len(Tail(q)) = Len(q) - 1
      /\ \A i \in 1..Len(Tail(q)) : Tail(q)[i] = q[i + 1]
      /\ Head(q) = f
  BY <1>2, TailSequence, SequenceLength
<1>4. /\ wire' = [wire EXCEPT ![u] = Tail(q)]
      /\ local' = [local EXCEPT ![u] = decoded]
      /\ origin' = [origin EXCEPT ![u] = g]
  BY <1>3 DEF Receive
<1>5. \A v \in UIs : /\ wire'[v] = IF v = u THEN Tail(q) ELSE wire[v]
                     /\ local'[v] = IF v = u THEN decoded ELSE local[v]
                     /\ origin'[v] = IF v = u THEN g ELSE origin[v]
  BY <1>4 DEF LinkInv, InTransit, IsPerUI
<1>6. /\ IsFrame(f) /\ Published(f) /\ NotLater(origin[u], f)
      /\ \A i \in 1..Len(q) : IsFrame(q[i]) /\ Published(q[i]) /\ NotLater(f, q[i])
  <2>1. 1 \in 1..Len(q)
    BY <1>3
  <2>2. \A i \in 1..Len(q) : i \in 1..Len(q) /\ IsFrame(q[i]) /\ Published(q[i])
    BY DEF LinkInv, InTransit, OldestFirst
  <2>3. /\ NotLater(origin[u], f)
        /\ \A j \in 1..Len(q) : NotLater(f, q[j])
    BY <2>1 DEF LinkInv, OldestFirst
  <2>4. QED
    BY <2>1, <2>2, <2>3
<1>7. /\ clock \in Nat /\ f.sent \in 0..clock
      /\ f.life \in Nat /\ f.version \in Nat
      /\ IsAppState(f.state) /\ StampedBy(f.state, f.sent)
      /\ f.snapshot = to_wire(f.state, f.sent)
  BY <1>6, LinkAssumption DEF IsFrame, LinkInv, LinkTypeOK
<1>8. /\ g.life = f.life /\ g.version = f.version /\ g.state = f.state
      /\ g.sent = f.sent /\ g.received = clock /\ f.sent \in Nat
  BY <1>7
<1> HIDE DEF f, g
<1>9. NotLater(origin[u], origin'[u])
  BY <1>5, <1>6, <1>8 DEF NotLater
<1>10. LinkTypeOK'
  <2>1. \A v \in UIs : Len(wire'[v]) <= InFlight
    <3>1. Len(q) <= InFlight /\ InFlight \in Nat
      BY LinkAssumption DEF LinkInv, LinkTypeOK
    <3>2. Len(Tail(q)) <= InFlight
      <4> HIDE DEF q
      <4>1. QED
        BY <1>3, <3>1
    <3>3. \A v \in UIs : Len(wire[v]) <= InFlight
      BY DEF LinkInv, LinkTypeOK
    <3>4. \A v \in UIs : wire'[v] = Tail(q) \/ wire'[v] = wire[v]
      BY <1>5
    <3>5. QED
      BY <3>2, <3>3, <3>4
  <2>2. \A v \in UIs : DOMAIN local'[v] = DOMAIN DefaultState
    <3>1. DOMAIN decoded = DOMAIN DefaultState
      BY DEF from_wire, DefaultState
    <3> HIDE DEF decoded
    <3>2. QED
      BY <1>5, <3>1 DEF LinkInv, LinkTypeOK
  <2>3. QED
    BY <1>1, <2>1, <2>2 DEF monitorVars, LinkInv, LinkTypeOK
<1>11. StampedBy(current, clock)'
  BY <1>1 DEF monitorVars, LinkInv, StampedBy
<1>12. InTransit'
  <2>1. \A a : IsFrame(a) => IsFrame(a)'
    BY <1>1 DEF IsFrame
  <2>2. ASSUME NEW v \in UIs
        PROVE  /\ IsSequence(wire'[v])
               /\ \A i \in 1..Len(wire'[v]) : IsFrame(wire[v][i])'
    <3>1. CASE v = u
      <4>1. wire'[v] = Tail(q)
        BY <1>5, <3>1
      <4>2. \A i \in 1..Len(Tail(q)) : i + 1 \in 1..Len(q)
        BY <1>3
      <4>3. \A i \in 1..Len(Tail(q)) : IsFrame(Tail(q)[i])
        BY <1>3, <1>6, <4>2
      <4>4. QED
        BY <1>3, <2>1, <4>1, <4>3 DEF IsFrame
    <3>2. CASE v # u
      <4>1. wire'[v] = wire[v]
        BY <1>5, <3>2
      <4>2. QED
        BY <4>1, <2>1 DEF LinkInv, InTransit, IsFrame
    <3>3. QED
      BY <3>1, <3>2
  <2>3. IsPerUI(wire)' /\ IsPerUI(local)' /\ IsPerUI(origin)'
    <3> HIDE DEF decoded
    <3>1. QED
      BY <1>4 DEF LinkInv, InTransit, IsPerUI
  <2>4. \A v \in UIs : IsOrigin(origin[v])'
    <3>1. IsOrigin(g)
      BY <1>7, <1>8 DEF IsOrigin
    <3>2. \A v \in UIs : IsOrigin(origin[v])
      BY DEF LinkInv, InTransit
    <3>3. QED
      BY <1>5, <3>1, <3>2 DEF IsOrigin, StampedBy
  <2>5. QED
    BY <2>2, <2>3, <2>4 DEF InTransit, IsSequence
<1>13. LocalIsDecoded'
  <2>1. ASSUME NEW v \in UIs
        PROVE  local'[v] = from_wire(to_wire(origin'[v].state, origin'[v].sent),
                                     origin'[v].received + ClockOffset[v])
    <3>1. CASE v = u
      <4>1. origin'[v] = g /\ local'[v] = from_wire(f.snapshot, UiNow(u))
        BY <1>5, <3>1
      <4>2. QED
        BY <1>7, <1>8, <3>1, <4>1 DEF UiNow
    <3>2. CASE v # u
      <4>1. origin'[v] = origin[v] /\ local'[v] = local[v]
        BY <1>5, <3>2
      <4>2. QED
        BY <4>1 DEF LinkInv, LocalIsDecoded
    <3>3. QED
      BY <3>1, <3>2
  <2>2. QED
    BY <2>1 DEF LocalIsDecoded
<1>14. OldestFirst'
  <2>1. \A a : Published(a) => Published(a)'
    BY <1>1 DEF monitorVars, Published, NotLater
  <2>2. ASSUME NEW v \in UIs
        PROVE  /\ Published(origin[v])'
               /\ \A i \in 1..Len(wire'[v]) :
                    /\ Published(wire[v][i])'
                    /\ NotLater(origin'[v], wire'[v][i])
                    /\ \A j \in i..Len(wire'[v]) :
                         NotLater(wire'[v][i], wire'[v][j])
    <3>1. /\ Published(origin[v])
          /\ \A i \in 1..Len(wire[v]) :
               /\ Published(wire[v][i])
               /\ NotLater(origin[v], wire[v][i])
               /\ \A j \in i..Len(wire[v]) : NotLater(wire[v][i], wire[v][j])
      BY DEF LinkInv, OldestFirst
    <3>2. CASE v = u
      <4>1. wire'[v] = Tail(q) /\ origin'[v] = g
        BY <1>5, <3>2
      <4>2. Published(origin[v])'
        BY <1>6, <1>8, <2>1, <4>1 DEF Published, NotLater
      <4>3. ASSUME NEW i \in 1..Len(Tail(q))
            PROVE  /\ Published(Tail(q)[i])
                   /\ NotLater(g, Tail(q)[i])
                   /\ \A j \in i..Len(Tail(q)) :
                        NotLater(Tail(q)[i], Tail(q)[j])
        <5>1. i + 1 \in 1..Len(q) /\ Tail(q)[i] = q[i + 1]
          BY <1>3
        <5>2. Published(q[i + 1]) /\ NotLater(f, q[i + 1])
          BY <1>6, <5>1
        <5>3. NotLater(g, q[i + 1])
          BY <1>8, <5>2 DEF NotLater
        <5>4. ASSUME NEW j \in i..Len(Tail(q))
              PROVE  NotLater(Tail(q)[i], Tail(q)[j])
          <6>1. /\ j + 1 \in (i + 1)..Len(q) /\ Tail(q)[j] = q[j + 1]
            BY <1>3
          <6>2. NotLater(q[i + 1], q[j + 1])
            BY <3>1, <3>2, <5>1, <6>1
          <6>3. QED
            BY <5>1, <6>1, <6>2
        <5>5. QED
          BY <5>1, <5>2, <5>3, <5>4
      <4>4. \A i \in 1..Len(wire'[v]) : Published(wire[v][i])'
        BY <2>1, <4>1, <4>3 DEF Published, NotLater
      <4>5. QED
        BY <4>1, <4>2, <4>3, <4>4
    <3>3. CASE v # u
      <4>1. wire'[v] = wire[v] /\ origin'[v] = origin[v]
        BY <1>5, <3>3
      <4>2. QED
        BY <2>1, <3>1, <4>1 DEF Published, NotLater
    <3>4. QED
      BY <3>2, <3>3
  <2>3. QED
    BY <2>2 DEF OldestFirst, NotLater
<1>15. QED
  BY <1>9, <1>10, <1>11, <1>12, <1>13, <1>14 DEF LinkInv
-----------------------------------------------------------------------------
(* Every step keeps the invariant and never shows an older snapshot.       *)

(* Four ways for a connection to end.                                      *)
LEMMA EndOnly ==
    ASSUME NEW u \in UIs,
           \/ ConnectFails(u) \/ ReceiveUnwanted(u)
           \/ ReceiveTooLarge(u) \/ Disconnect(u)
    PROVE  EndOfConnection(u) /\ UNCHANGED <<local, origin>>
BY DEF ConnectFails, ReceiveUnwanted, ReceiveTooLarge, Disconnect

\* Only Receive changes what a UI shows.
LEMMA OriginsOf ==
    ASSUME LinkNext, NEW u \in UIs
    PROVE  \/ origin' = origin
           \/ \E v \in UIs : Receive(v)
<1>1. ASSUME NEW o \in Observed, Update(o) PROVE origin' = origin
  BY <1>1 DEF Update
<1>2. CASE ProxyStops \/ Crash \/ Restart \/ Tick
  BY <1>2 DEF ProxyStops, Crash, Restart, Tick
<1>3. ASSUME NEW v \in UIs, Lose(v) \/ ServerSend(v) \/ KeepAlive(v) \/ CloseUI(v)
      PROVE  origin' = origin
  BY <1>3 DEF Lose, ServerSend, KeepAlive, CloseUI
<1>4. ASSUME NEW v \in UIs, Supervise(v)
      PROVE  origin' = origin \/ Receive(v)
  BY <1>4 DEF Supervise, Connect, ConnectFails, Subscribe, ReceiveUnwanted,
              ReceiveTooLarge, Disconnect, Reconnect
<1>5. QED
  BY <1>1, <1>2, <1>3, <1>4 DEF LinkNext

(* Every step keeps the invariant.                                         *)
LEMMA LinkStepKeeps == LinkInv /\ [LinkNext]_linkVars => LinkInv'
<1> SUFFICES ASSUME LinkInv, [LinkNext]_linkVars
             PROVE  LinkInv'
  OBVIOUS
<1>1. ASSUME NEW o \in Observed, Update(o) PROVE LinkInv'
  BY <1>1, UpdateKeeps
<1>2. CASE ProxyStops
  BY <1>2, ProxyStopsKeeps
<1>3. CASE Crash
  BY <1>3, CrashKeeps
<1>4. CASE Restart
  BY <1>4, RestartKeeps
<1>5. CASE Tick
  BY <1>5, TickKeeps
<1>6. ASSUME NEW u \in UIs, Lose(u) \/ KeepAlive(u) \/ CloseUI(u)
      PROVE  LinkInv'
  BY <1>6, NetworkKeeps
<1>7. ASSUME NEW u \in UIs, ServerSend(u) PROVE LinkInv'
  BY <1>7, ServerSendKeeps
<1>8. ASSUME NEW u \in UIs, Supervise(u) PROVE LinkInv'
  <2>1. CASE Connect(u) \/ Subscribe(u) \/ Reconnect(u)
    BY <2>1, SupervisorKeeps
  <2>2. CASE \/ ConnectFails(u) \/ ReceiveUnwanted(u)
             \/ ReceiveTooLarge(u) \/ Disconnect(u)
    BY <2>2, EndOnly, EndKeeps
  <2>3. CASE Receive(u)
    BY <2>3, ReceiveKeeps
  <2>4. QED
    BY <1>8, <2>1, <2>2, <2>3 DEF Supervise
<1>9. CASE UNCHANGED linkVars
  <2>1. UNCHANGED <<monitorVars, clock, pc, link, cursor, wire, local,
                    connected, open, origin>>
    BY <1>9 DEF linkVars
  <2>2. LinkTypeOK'
    BY <2>1 DEF monitorVars, LinkInv, LinkTypeOK
  <2>3. QED
    BY <2>1, <2>2, StillStep
<1>10. QED
  BY <1>1, <1>2, <1>3, <1>4, <1>5, <1>6, <1>7, <1>8, <1>9 DEF LinkNext

(* No step shows an older snapshot.                                        *)
LEMMA LinkStepForward ==
    LinkInv /\ [LinkNext]_linkVars
        => [\A u \in UIs :
              \/ origin[u].life < origin'[u].life
              \/ /\ origin[u].life = origin'[u].life
                 /\ origin[u].version <= origin'[u].version]_origin
<1> SUFFICES ASSUME LinkInv, LinkNext, origin' # origin, NEW u \in UIs
             PROVE  NotLater(origin[u], origin'[u])
  BY DEF linkVars, NotLater
<1>1. PICK v \in UIs : Receive(v)
  BY OriginsOf
<1>2. CASE u = v
  BY <1>1, <1>2, ReceiveKeeps
<1>3. CASE u # v
  <2>1. origin'[u] = origin[u]
    BY <1>1, <1>3 DEF Receive, LinkInv, InTransit, IsPerUI
  <2>2. origin[u].life \in Nat /\ origin[u].version \in Int
    BY DEF LinkInv, InTransit, IsOrigin
  <2>3. QED
    BY <2>1, <2>2 DEF NotLater
<1>4. QED
  BY <1>2, <1>3

(* The invariant always holds.                                             *)
LEMMA LinkInvariant == LinkSpec => []LinkInv
<1>1. LinkInit => LinkInv
  BY LinkInitHolds
<1>2. LinkInv /\ [LinkNext]_linkVars => LinkInv'
  BY LinkStepKeeps
<1>3. QED
  BY <1>1, <1>2, PTL DEF LinkSpec

(***************************************************************************)
(* The types: what the watch channels and the supervisors' states hold     *)
(* (src/src/monitor/client.rs), for any number of UIs.                     *)
(***************************************************************************)
THEOREM LinkTypeCorrect == LinkSpec => []LinkTypeOK
<1>1. LinkInv => LinkTypeOK
  BY DEF LinkInv
<1>2. QED
  BY <1>1, LinkInvariant, PTL

(***************************************************************************)
(* What a UI holds is, in every field, what some snapshot of the monitor   *)
(* said, with every instant that of the same age less the time that the    *)
(* snapshot was under way, whatever the clocks of the two hosts show, or   *)
(* that of receipt where the UI's host cannot express it (to_wire and      *)
(* from_wire in src/src/monitor/convert.rs).                               *)
(***************************************************************************)
THEOREM AgesSurvive == LinkSpec => []LocalMirrors
<1>1. LinkInv => LocalMirrors
  BY MirrorsFollow
<1>2. QED
  BY <1>1, LinkInvariant, PTL

(***************************************************************************)
(* Through lost connections, reconnects and restarts of the monitor, a UI  *)
(* never goes back to a snapshot older than the one it shows               *)
(* (stream_state in src/src/monitor/server.rs, stream_once in client.rs).  *)
(***************************************************************************)
THEOREM ShownInOrder == LinkSpec => NeverBackwards
<1>1. LinkInv /\ [LinkNext]_linkVars
        => [\A u \in UIs :
              \/ origin[u].life < origin'[u].life
              \/ /\ origin[u].life = origin'[u].life
                 /\ origin[u].version <= origin'[u].version]_origin
  BY LinkStepForward
<1>2. QED
  BY <1>1, LinkInvariant, PTL DEF LinkSpec, NeverBackwards
=============================================================================
