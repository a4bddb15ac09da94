--------------------------- MODULE ObserverProofs ---------------------------
(***************************************************************************)
(* Proofs about the state-owning task, for every set of topics,            *)
(* subscriptions, peers and messages, every channel capacity, buffer size  *)
(* and amount of traffic: what the buffer holds, what sequence numbers     *)
(* identify, and that the display implements the traffic ledger.           *)
(***************************************************************************)
EXTENDS ObserverHistory, AppStateProofs

-----------------------------------------------------------------------------
(* Type correctness.                                                       *)

(* The initial states of start are well typed.                             *)
LEMMA TypeInitially == Init => TypeOK
<1> SUFFICES ASSUME Init PROVE TypeOK
  OBVIOUS
<1>1. IsAppState(state)
  <2>1. RecentBuffer \in Nat
    BY ObserverAssumption
  <2>2. state = [DefaultState EXCEPT !.recent_buffer_capacity = RecentBuffer]
    BY DEF Init
  <2>3. QED
    BY <2>1, <2>2 DEF IsAppState, IsMap, DefaultState, EmptyMap
<1>2. SinkTypeOK
  BY EmptySeq, SinkAssumption DEF Init, SinkInit, SinkTypeOK
<1>3. QED
  BY <1>1, <1>2, DefaultStateType DEF Init, TypeOK

(* Every step, of run or of its environment, preserves the types.          *)
LEMMA TypeStep == TypeOK /\ [Next]_vars => TypeOK'
<1> SUFFICES ASSUME TypeOK, [Next]_vars PROVE TypeOK'
  OBVIOUS
<1>1. CASE \E o \in Offered : Observe(o)
  <2>1. PICK o \in Offered : Observe(o)
    BY <1>1
  <2>2. o \in Observation
    BY ObserverAssumption
  <2>3. SinkTypeOK'
    BY <2>1, <2>2, ObserveType DEF TypeOK, Observe
  <2>4. QED
    BY <2>1, <2>3 DEF TypeOK, Observe, taskVars
<1>2. CASE Tick
  BY <1>2 DEF TypeOK, SinkTypeOK, Tick, sinkVars, taskVars
<1>3. CASE DropSenders
  BY <1>3 DEF TypeOK, SinkTypeOK, DropSenders, sinkVars, taskVars
<1>4. CASE DropReaders
  BY <1>4 DEF TypeOK, SinkTypeOK, DropReaders, sinkVars, taskVars
<1>5. CASE Recv
  <2>1. SinkTypeOK' /\ Head(queue) \in Observation
    BY <1>5, TakeType DEF TypeOK, Recv
  <2>2. IsAppState(state')
    BY <1>5, <2>1, ApplyType DEF TypeOK, Recv
  <2>3. QED
    BY <1>5, <2>1, <2>2 DEF TypeOK, Recv
<1>6. CASE RecvNone
  BY <1>6, CloseType DEF TypeOK, RecvNone
<1>7. CASE TryRecv
  <2>1. SinkTypeOK' /\ Head(queue) \in Observation
    BY <1>7, TakeType DEF TypeOK, TryRecv
  <2>2. IsAppState(state')
    BY <1>7, <2>1, ApplyType DEF TypeOK, TryRecv
  <2>3. QED
    BY <1>7, <2>1, <2>2 DEF TypeOK, TryRecv
<1>8. CASE TryRecvEmpty
  BY <1>8 DEF TypeOK, SinkTypeOK, TryRecvEmpty, sinkVars
<1>9. CASE Publish
  <2>1. IsAppState(state')
    <3>1. RecentBuffer \in Nat
      BY ObserverAssumption
    <3>2. state' = trim_recent(state, RecentBuffer) /\ IsAppState(state)
      BY <1>9 DEF Publish, TypeOK
    <3>3. QED
      BY <3>1, <3>2, TrimRecentProperties
  <2>2. IsAppState(snapshot')
    BY <1>9, <2>1 DEF Publish, TypeOK
  <2>3. SinkTypeOK'
    BY <1>9, CloseType DEF Publish, TypeOK, SinkTypeOK, sinkVars
  <2>4. QED
    BY <1>9, <2>1, <2>2, <2>3 DEF Publish, TypeOK
<1>10. CASE UNCHANGED vars
  BY <1>10 DEF TypeOK, SinkTypeOK, vars
<1>11. QED
  BY <1>1, <1>2, <1>3, <1>4, <1>5, <1>6, <1>7, <1>8, <1>9, <1>10 DEF Next, Run

(* The task's variables always have their types: whatever the proxy's      *)
(* handlers and the poller report (Offered), folding it in leaves a well-  *)
(* formed AppState, and no counter underflows (the saturating close).      *)
THEOREM TypeCorrect == Spec => []TypeOK
BY TypeInitially, TypeStep, PTL DEF Spec

-----------------------------------------------------------------------------
(* What the recent-messages buffer holds.                                  *)

(***************************************************************************)
(* Between bursts nothing is trimmed, so the task's own buffer may hold    *)
(* more than RecentBuffer messages, and never fewer than a snapshot is due *)
(* to show.  This, with the contiguity of its numbers, is what makes the   *)
(* snapshot's property inductive.                                          *)
(***************************************************************************)
HoldsEnough(s) ==
    Len(s.recent_messages) >= AtMost(RecentBuffer, s.next_seq)

BufferInv ==
    /\ TypeOK
    /\ Contiguous(state)
    /\ HoldsEnough(state)
    /\ SnapshotHoldsNewest

(* Folding one observation in keeps the numbers contiguous, drops nothing  *)
(* from the buffer, and keeps the entries that were there in their places. *)
LEMMA ApplyBuffer ==
    ASSUME NEW s, IsAppState(s), Contiguous(s), HoldsEnough(s),
           NEW o \in Observation, NEW now_ \in Nat
    PROVE  LET t == apply(s, o, now_)
           IN  /\ Contiguous(t)
               /\ HoldsEnough(t)
               /\ s.next_seq <= t.next_seq
               /\ Len(t.recent_messages)
                    = Len(s.recent_messages) + t.next_seq - s.next_seq
               /\ \A i \in 1..Len(s.recent_messages) :
                    t.recent_messages[i] = s.recent_messages[i]
<1> DEFINE t == apply(s, o, now_)
<1>1. /\ s.recent_messages \in Seq(RecentMessage)
      /\ Len(s.recent_messages) \in Nat /\ s.next_seq \in Nat
  BY LenProperties DEF IsAppState
<1>2. CASE o.kind = "Publish"
  <2> DEFINE new == NewEntries(s, o.topic, o.messages, now_)
             n   == Len(o.messages)
  <2>1. o.topic \in Topics /\ o.messages \in Seq(Messages) /\ n \in Nat
    BY <1>2, LenProperties DEF Observation
  <2>2. /\ new \in Seq(RecentMessage) /\ Len(new) = n
        /\ \A i \in 1..n : new[i].seq = s.next_seq + i - 1
    BY <2>1, NewEntriesProperties
  <2>3. /\ t.recent_messages = s.recent_messages \o new
        /\ t.next_seq = s.next_seq + n
    <3>1. t = ApplyPublish(s, o, now_)
      BY <1>2 DEF apply
    <3>2. PICK topics : ApplyPublish(s, o, now_)
                          = push_recent([s EXCEPT !.topics = topics],
                                        o.topic, o.messages, now_)
      BY DEF ApplyPublish
    <3> DEFINE counted == [s EXCEPT !.topics = topics]
    <3>3. counted = [topics |-> topics, subscriptions |-> s.subscriptions,
                     recent_messages |-> s.recent_messages,
                     recent_buffer_capacity |-> s.recent_buffer_capacity,
                     next_seq |-> s.next_seq]
      BY DEF IsAppState
    <3>4. t = [counted EXCEPT
                 !.recent_messages = @ \o NewEntries(counted, o.topic, o.messages, now_),
                 !.next_seq = @ + n]
      BY <3>1, <3>2 DEF push_recent
    <3> HIDE DEF counted, t, n
    <3>5. NewEntries(counted, o.topic, o.messages, now_) = new
      BY <3>3 DEF NewEntries
    <3> HIDE DEF new
    <3>6. QED
      BY <3>3, <3>4, <3>5
  <2> HIDE DEF t, new, n
  <2>4. /\ Len(t.recent_messages) = Len(s.recent_messages) + n
        /\ \A i \in 1..(Len(s.recent_messages) + n) :
             t.recent_messages[i] = IF i <= Len(s.recent_messages)
                                      THEN s.recent_messages[i]
                                      ELSE new[i - Len(s.recent_messages)]
    <3> DEFINE old == s.recent_messages
    <3>1. old \in Seq(RecentMessage) /\ new \in Seq(RecentMessage)
      BY <1>1, <2>2
    <3>2. t.recent_messages = old \o new
      BY <2>3
    <3> HIDE DEF old
    <3>3. /\ Len(old \o new) = Len(old) + Len(new)
          /\ \A i \in 1..(Len(old) + Len(new)) :
               (old \o new)[i] = IF i <= Len(old) THEN old[i]
                                 ELSE new[i - Len(old)]
      BY <3>1, ConcatProperties
    <3>4. QED
      BY <2>2, <3>2, <3>3 DEF old
  <2>5. Contiguous(t)
    <3> DEFINE k == Len(s.recent_messages)
    <3>1. /\ k \in Nat /\ k <= s.next_seq /\ s.next_seq \in Nat /\ n \in Nat
          /\ Len(t.recent_messages) = k + n
          /\ t.next_seq = s.next_seq + n
      BY <1>1, <2>1, <2>3, <2>4 DEF Contiguous
    <3>2. \A i \in 1..(k + n) :
            t.recent_messages[i].seq = s.next_seq - k + i - 1
      <4> SUFFICES ASSUME NEW i \in 1..(k + n)
                   PROVE  t.recent_messages[i].seq = s.next_seq - k + i - 1
        OBVIOUS
      <4>1. CASE i <= k
        <5>1. t.recent_messages[i] = s.recent_messages[i] /\ i \in 1..k
          BY <2>4, <3>1, <4>1
        <5>2. QED
          BY <5>1 DEF Contiguous
      <4>2. CASE ~(i <= k)
        <5>1. t.recent_messages[i] = new[i - k] /\ i - k \in 1..n
          BY <2>4, <3>1, <4>2
        <5>2. new[i - k].seq = s.next_seq + (i - k) - 1
          BY <2>2, <5>1
        <5> HIDE DEF k
        <5>3. s.next_seq + (i - k) - 1 = s.next_seq - k + i - 1
          BY <3>1
        <5>4. QED
          BY <5>1, <5>2, <5>3
      <4>3. QED
        BY <4>1, <4>2
    <3> HIDE DEF k
    <3>3. QED
      BY <3>1, <3>2, SMTT(30) DEF Contiguous
  <2>6. HoldsEnough(t)
    BY <1>1, <2>1, <2>3, <2>4, ObserverAssumption, SMTT(30)
       DEF HoldsEnough, AtMost
  <2>7. QED
    BY <1>1, <2>1, <2>3, <2>4, <2>5, <2>6 DEF t
<1>3. CASE o.kind # "Publish"
  <2>1. /\ t.recent_messages = s.recent_messages
        /\ t.next_seq = s.next_seq
    <3>1. CASE o.kind \in {"Deliver", "Ack", "ConsumerOpen", "ConsumerClose"}
      BY <3>1 DEF apply, ApplyDeliver, ApplyAck, ApplyConsumerOpen,
                  ApplyConsumerClose, SetSubscription, IsAppState
    <3>2. CASE o.kind = "AdminSnapshot"
      <4>1. PICK topics, subscriptions :
              apply_admin(s, o.topics, o.subscriptions)
                = [s EXCEPT !.topics = topics, !.subscriptions = subscriptions]
        BY DEF apply_admin
      <4>2. t = [s EXCEPT !.topics = topics, !.subscriptions = subscriptions]
        BY <3>2, <4>1 DEF apply
      <4> HIDE DEF t
      <4>3. QED
        BY <4>2 DEF IsAppState
    <3>3. QED
      BY <1>3, <3>1, <3>2 DEF Observation
  <2> HIDE DEF t
  <2>2. QED
    BY <1>1, <2>1 DEF Contiguous, HoldsEnough, t
<1>4. QED
  BY <1>2, <1>3

(* Trimming at the end of a burst leaves exactly what is to be shown.      *)
LEMMA TrimBuffer ==
    ASSUME NEW s, IsAppState(s), Contiguous(s), HoldsEnough(s)
    PROVE  LET t == trim_recent(s, RecentBuffer)
           IN  /\ Contiguous(t)
               /\ Len(t.recent_messages) = AtMost(RecentBuffer, t.next_seq)
<1> DEFINE t   == trim_recent(s, RecentBuffer)
           len == Len(s.recent_messages)
           k   == Len(t.recent_messages)
<1>1. /\ RecentBuffer \in Nat /\ s.next_seq \in Nat /\ len \in Nat
      /\ len <= s.next_seq
      /\ len >= AtMost(RecentBuffer, s.next_seq)
  BY ObserverAssumption, LenProperties
     DEF IsAppState, Contiguous, HoldsEnough
<1>2. /\ t.next_seq = s.next_seq
      /\ k = IF len > RecentBuffer THEN RecentBuffer ELSE len
      /\ \A i \in 1..k : t.recent_messages[i] = s.recent_messages[len - k + i]
  BY <1>1, TrimRecentProperties
<1>3. \A i \in 1..len : s.recent_messages[i].seq = s.next_seq - len + i - 1
  BY DEF Contiguous
<1> HIDE DEF t, len
<1>4. k = AtMost(RecentBuffer, t.next_seq)
  BY <1>1, <1>2 DEF AtMost
<1>5. k \in Nat /\ k <= len
  BY <1>1, <1>2
<1>6. \A i \in 1..k : t.recent_messages[i].seq = t.next_seq - k + i - 1
  <2> SUFFICES ASSUME NEW i \in 1..k
               PROVE  t.recent_messages[i].seq = t.next_seq - k + i - 1
    OBVIOUS
  <2> HIDE DEF k
  <2>1. len - k + i \in 1..len
    BY <1>1, <1>5
  <2>2. t.recent_messages[i].seq = s.next_seq - len + (len - k + i) - 1
    BY <1>2, <1>3, <2>1
  <2>3. QED
    BY <1>1, <1>2, <1>5, <2>2
<1>7. Contiguous(t)
  BY <1>1, <1>2, <1>5, <1>6 DEF Contiguous
<1>8. QED
  BY <1>4, <1>7 DEF t

(* The buffer invariant holds when the task starts.                        *)
LEMMA BufferInitially == Init => BufferInv
<1> SUFFICES ASSUME Init PROVE BufferInv
  OBVIOUS
<1>1. TypeOK
  BY TypeInitially
<1>2. /\ state.recent_messages = <<>> /\ state.next_seq = 0
      /\ snapshot.recent_messages = <<>> /\ snapshot.next_seq = 0
  BY DEF Init, DefaultState
<1>3. QED
  BY <1>1, <1>2, EmptySeq, ObserverAssumption
     DEF BufferInv, Contiguous, HoldsEnough, SnapshotHoldsNewest, AtMost

(* Every step preserves the buffer invariant.                              *)
LEMMA BufferStep == BufferInv /\ [Next]_vars => BufferInv'
<1> SUFFICES ASSUME BufferInv, [Next]_vars PROVE BufferInv'
  OBVIOUS
<1>1. TypeOK'
  BY TypeStep DEF BufferInv
<1>2. CASE Recv \/ TryRecv
  <2>1. Head(queue) \in Observation
    BY <1>2, TakeType DEF BufferInv, TypeOK, Recv, TryRecv
  <2>2. PICK instant \in Nat : state' = apply(state, Head(queue), instant)
    BY <1>2 DEF BufferInv, TypeOK, Recv, TryRecv
  <2>3. Contiguous(state') /\ HoldsEnough(state')
    BY <2>1, <2>2, ApplyBuffer DEF BufferInv, TypeOK
  <2>4. UNCHANGED snapshot
    BY <1>2 DEF Recv, TryRecv
  <2>5. QED
    BY <1>1, <2>3, <2>4
       DEF BufferInv, SnapshotHoldsNewest
<1>3. CASE Publish
  <2>1. /\ Contiguous(state')
        /\ Len(state'.recent_messages) = AtMost(RecentBuffer, state'.next_seq)
    BY <1>3, TrimBuffer DEF BufferInv, TypeOK, Publish
  <2>2. HoldsEnough(state')
    <3>1. AtMost(RecentBuffer, state'.next_seq) \in Nat
      BY <1>1, ObserverAssumption DEF AtMost, TypeOK, IsAppState
    <3>2. QED
      BY <2>1, <3>1 DEF HoldsEnough
  <2>3. snapshot' = state' \/ UNCHANGED snapshot
    BY <1>3 DEF Publish
  <2>4. SnapshotHoldsNewest'
    BY <2>1, <2>3 DEF BufferInv, SnapshotHoldsNewest
  <2>5. QED
    BY <1>1, <2>1, <2>2, <2>4 DEF BufferInv
<1>4. CASE UNCHANGED <<state, snapshot>>
  BY <1>1, <1>4 DEF BufferInv, SnapshotHoldsNewest
<1>5. QED
  BY <1>2, <1>3, <1>4
     DEF Next, Run, Observe, Tick, DropSenders, DropReaders, RecvNone,
         TryRecvEmpty, taskVars, vars

(* Every snapshot holds exactly the newest RecentBuffer messages folded    *)
(* in, without a gap, for bursts of any length and any buffer size: one    *)
(* trim per burst, in run, is enough.                                      *)
THEOREM SnapshotsHoldNewest == Spec => []SnapshotHoldsNewest
<1>1. BufferInv => SnapshotHoldsNewest
  BY DEF BufferInv
<1>2. QED
  BY <1>1, BufferInitially, BufferStep, PTL DEF Spec

-----------------------------------------------------------------------------
(* Sequence numbers identify messages.                                     *)

(***************************************************************************)
(* What the task holds agrees with what it published last: numbers do not  *)
(* go back, and a number that both know stands for the same message.       *)
(***************************************************************************)
IdentityInv ==
    /\ BufferInv
    /\ snapshot.next_seq <= state.next_seq
    /\ SameMessageUnderSeq(snapshot, state)

(* In a buffer numbered without a gap, an entry's number determines it.    *)
LEMMA ContiguousIdentity ==
    ASSUME NEW s, IsAppState(s), Contiguous(s)
    PROVE  SameMessageUnderSeq(s, s)
<1> DEFINE len == Len(s.recent_messages)
<1> SUFFICES ASSUME NEW i \in 1..len, NEW j \in 1..len,
                    s.recent_messages[i].seq = s.recent_messages[j].seq
             PROVE  i = j
  BY DEF SameMessageUnderSeq
<1>1. len \in Nat /\ s.next_seq \in Nat
  BY LenProperties DEF IsAppState
<1>2. /\ s.recent_messages[i].seq = s.next_seq - len + i - 1
      /\ s.recent_messages[j].seq = s.next_seq - len + j - 1
  BY DEF Contiguous
<1>3. s.next_seq - len + i - 1 = s.next_seq - len + j - 1
  <2> HIDE DEF len
  <2> QED BY <1>2
<1>4. QED
  <2> HIDE DEF len
  <2>1. i \in Int /\ j \in Int
    BY <1>1
  <2>2. QED
    BY <1>1, <1>3, <2>1

(* Folding in an observation gives no number to a second message.          *)
LEMMA ApplyIdentity ==
    ASSUME NEW u, IsAppState(u), Contiguous(u),
           NEW s, IsAppState(s), Contiguous(s), HoldsEnough(s),
           u.next_seq <= s.next_seq, SameMessageUnderSeq(u, s),
           NEW o \in Observation, NEW now_ \in Nat
    PROVE  LET t == apply(s, o, now_)
           IN  u.next_seq <= t.next_seq /\ SameMessageUnderSeq(u, t)
<1> DEFINE t == apply(s, o, now_)
           a == Len(u.recent_messages)
           b == Len(s.recent_messages)
           c == Len(t.recent_messages)
<1>1. IsAppState(t)
  BY ApplyType
<1>2. /\ Contiguous(t) /\ s.next_seq <= t.next_seq
      /\ c = b + t.next_seq - s.next_seq
      /\ \A i \in 1..b : t.recent_messages[i] = s.recent_messages[i]
  BY ApplyBuffer
<1> HIDE DEF t
<1>3. /\ a \in Nat /\ b \in Nat /\ c \in Nat
      /\ u.next_seq \in Nat /\ s.next_seq \in Nat /\ t.next_seq \in Nat
  BY <1>1, LenProperties DEF IsAppState
<1>4. SameMessageUnderSeq(u, t)
  <2> SUFFICES ASSUME NEW i \in 1..a, NEW j \in 1..c,
                      u.recent_messages[i].seq = t.recent_messages[j].seq
               PROVE  u.recent_messages[i] = t.recent_messages[j]
    BY DEF SameMessageUnderSeq
  <2>1. /\ u.recent_messages[i].seq = u.next_seq - a + i - 1
        /\ t.recent_messages[j].seq = t.next_seq - c + j - 1
    BY <1>2 DEF Contiguous
  <2>2. CASE j \in 1..b
    BY <1>2, <2>2 DEF SameMessageUnderSeq
  <2>3. CASE j \notin 1..b
    <3>1. i \in Int /\ i <= a /\ j \in Int /\ j >= b + 1
      BY <1>3, <2>3
    <3>2. u.next_seq - a + i - 1 = t.next_seq - c + j - 1
      BY <2>1
    <3> HIDE DEF a, b, c
    <3>3. t.next_seq - c = s.next_seq - b
      BY <1>2, <1>3
    <3>4. u.next_seq - a + i - 1 < s.next_seq
      BY <1>3, <3>1
    <3>5. s.next_seq - b + j - 1 >= s.next_seq
      BY <1>3, <3>1
    <3>6. FALSE
      <4>1. u.next_seq - a + i - 1 = s.next_seq - b + j - 1
        BY <3>2, <3>3
      <4>2. QED
        BY <1>3, <3>1, <3>4, <3>5, <4>1
    <3>7. QED
      BY <3>6
  <2>4. QED
    BY <2>2, <2>3
<1>5. u.next_seq <= t.next_seq
  BY <1>2, <1>3
<1>6. QED
  BY <1>4, <1>5 DEF t

(* Nor does trimming.                                                      *)
LEMMA TrimIdentity ==
    ASSUME NEW u, NEW s, IsAppState(s),
           u.next_seq <= s.next_seq, SameMessageUnderSeq(u, s)
    PROVE  LET t == trim_recent(s, RecentBuffer)
           IN  u.next_seq <= t.next_seq /\ SameMessageUnderSeq(u, t)
<1> DEFINE t   == trim_recent(s, RecentBuffer)
           len == Len(s.recent_messages)
           k   == Len(t.recent_messages)
<1>1. len \in Nat /\ RecentBuffer \in Nat
  BY LenProperties, ObserverAssumption DEF IsAppState
<1>2. /\ t.next_seq = s.next_seq
      /\ k = IF len > RecentBuffer THEN RecentBuffer ELSE len
      /\ \A i \in 1..k : t.recent_messages[i] = s.recent_messages[len - k + i]
  BY <1>1, TrimRecentProperties
<1>3. \A j \in 1..k : len - k + j \in 1..len
  <2> HIDE DEF len, k
  <2> QED BY <1>1, <1>2
<1>4. SameMessageUnderSeq(u, t)
  <2> SUFFICES ASSUME NEW i \in 1..Len(u.recent_messages), NEW j \in 1..k,
                      u.recent_messages[i].seq = t.recent_messages[j].seq
               PROVE  u.recent_messages[i] = t.recent_messages[j]
    BY DEF SameMessageUnderSeq
  <2> HIDE DEF t, len, k
  <2>1. len - k + j \in 1..len
    BY <1>3
  <2>2. t.recent_messages[j] = s.recent_messages[len - k + j]
    BY <1>2
  <2>3. QED
    BY <2>1, <2>2 DEF SameMessageUnderSeq, len
<1>5. QED
  BY <1>2, <1>4

(* The identity invariant holds when the task starts.                      *)
LEMMA IdentityInitially == Init => IdentityInv
<1> SUFFICES ASSUME Init PROVE IdentityInv
  OBVIOUS
<1>1. /\ state.next_seq = 0 /\ snapshot.next_seq = 0
      /\ snapshot.recent_messages = <<>>
  BY DEF Init, DefaultState
<1>2. SameMessageUnderSeq(snapshot, state)
  BY <1>1, EmptySeq DEF SameMessageUnderSeq
<1>3. QED
  BY <1>1, <1>2, BufferInitially DEF IdentityInv

(* Every step preserves it, and satisfies SeqIsIdentity.                   *)
LEMMA IdentityStep ==
    IdentityInv /\ [Next]_vars
      => /\ IdentityInv'
         /\ snapshot.next_seq <= snapshot'.next_seq
         /\ SameMessageUnderSeq(snapshot, snapshot')
<1> SUFFICES ASSUME IdentityInv, [Next]_vars
             PROVE  /\ IdentityInv'
                    /\ snapshot.next_seq <= snapshot'.next_seq
                    /\ SameMessageUnderSeq(snapshot, snapshot')
  OBVIOUS
<1>1. BufferInv /\ BufferInv'
  BY BufferStep DEF IdentityInv
<1>2. /\ IsAppState(state) /\ Contiguous(state) /\ HoldsEnough(state)
      /\ IsAppState(snapshot) /\ Contiguous(snapshot)
      /\ snapshot.next_seq \in Nat
  BY <1>1 DEF BufferInv, TypeOK, IsAppState, SnapshotHoldsNewest
<1>3. snapshot.next_seq <= snapshot.next_seq /\ SameMessageUnderSeq(snapshot, snapshot)
  BY <1>2, ContiguousIdentity
<1>4. CASE Recv \/ TryRecv
  <2>1. Head(queue) \in Observation
    BY <1>1, <1>4, TakeType DEF BufferInv, TypeOK, Recv, TryRecv
  <2>2. PICK instant \in Nat : state' = apply(state, Head(queue), instant)
    BY <1>1, <1>4 DEF BufferInv, TypeOK, Recv, TryRecv
  <2>3. /\ snapshot.next_seq <= state'.next_seq
        /\ SameMessageUnderSeq(snapshot, state')
    BY <1>2, <2>1, <2>2, ApplyIdentity DEF IdentityInv
  <2>4. snapshot' = snapshot
    BY <1>4 DEF Recv, TryRecv
  <2>5. QED
    BY <1>1, <1>3, <2>3, <2>4 DEF IdentityInv
<1>5. CASE Publish
  <2>1. /\ snapshot.next_seq <= state'.next_seq
        /\ SameMessageUnderSeq(snapshot, state')
    BY <1>2, <1>5, TrimIdentity DEF IdentityInv, Publish
  <2>2. CASE snapshot' = state'
    <3>1. IsAppState(state') /\ Contiguous(state') /\ state'.next_seq \in Nat
      BY <1>1 DEF BufferInv, TypeOK, IsAppState
    <3>2. SameMessageUnderSeq(state', state') /\ state'.next_seq <= state'.next_seq
      BY <3>1, ContiguousIdentity
    <3>3. QED
      BY <1>1, <2>1, <2>2, <3>2 DEF IdentityInv
  <2>3. CASE snapshot' = snapshot
    BY <1>1, <1>3, <2>1, <2>3 DEF IdentityInv
  <2>4. QED
    BY <1>5, <2>2, <2>3 DEF Publish
<1>6. CASE UNCHANGED <<state, snapshot>>
  BY <1>1, <1>3, <1>6 DEF IdentityInv
<1>7. QED
  BY <1>4, <1>5, <1>6
     DEF Next, Run, Observe, Tick, DropSenders, DropReaders, RecvNone,
         TryRecvEmpty, taskVars, vars

(* From one snapshot to the next, sequence numbers never restart and a     *)
(* number never comes to stand for another message, so that the UI may     *)
(* key its selection on it (push_recent, trim_recent).                     *)
THEOREM SequenceNumbersIdentify == Spec => SeqIsIdentity
<1>1. IdentityInv /\ [Next]_vars
        => [/\ snapshot.next_seq <= snapshot'.next_seq
            /\ SameMessageUnderSeq(snapshot, snapshot')]_snapshot
  BY IdentityStep
<1>2. IdentityInv /\ [Next]_vars => IdentityInv'
  BY IdentityStep
<1>3. QED
  BY <1>1, <1>2, IdentityInitially, PTL DEF Spec, SeqIsIdentity

-----------------------------------------------------------------------------
(* The ledger's figures as sums of functions.                              *)

\* How many messages a Publish carried, and how many a Deliver or Ack moved.
Sizes(log)   == [i \in DOMAIN log |-> Len(log[i].messages)]
Amounts(log) == [i \in DOMAIN log |-> log[i].messages]

Publishes(o, t, key) ==
    o.kind = "Publish" /\ o.topic = t /\ peer_key(o.peer) = key

Moves(o, kind, s) == o.kind = kind /\ o.subscription = s

PublishedAt(log, t, key) == {i \in DOMAIN log : Publishes(log[i], t, key)}

MovedAt(log, kind, s) == {i \in DOMAIN log : Moves(log[i], kind, s)}

\* Messages published to a topic, by key.
ByKey(log, t) == [key \in PeerKeys |-> Ledger!Published(log, t, key)]

(* The library's sum of what was published is a sum in the sense above.    *)
LEMMA PublishedIs ==
    ASSUME NEW log, IsFiniteSet(DOMAIN log), NEW t, NEW key
    PROVE  Ledger!Published(log, t, key) = SumOf(Sizes(log), PublishedAt(log, t, key))
<1> DEFINE T == PublishedAt(log, t, key)
           Rec(f) ==
      f = [u \in SUBSET T |->
             IF u = {} THEN 0
             ELSE Len(log[Some(u)].messages) + f[u \ {Some(u)}]]
<1>1. Ledger!Published(log, t, key) = (CHOOSE f : Rec(f))[T]
  BY DEF Ledger!Published, Ledger!Total, Ledger!Where, Ledger!MapThenSumSet,
         Ledger!MapThenFoldSet, Some, PublishedAt, Publishes
<1>2. IsFiniteSet(T)
  BY FS_Subset DEF PublishedAt
<1>3. ASSUME NEW f PROVE Rec(f) <=> Sums(f, Sizes(log), T)
  <2> DEFINE given(u) == IF u = {} THEN 0
               ELSE Len(log[Some(u)].messages) + f[u \ {Some(u)}]
             summed(u) == IF u = {} THEN 0
               ELSE Sizes(log)[Some(u)] + f[u \ {Some(u)}]
  <2>1. \A u \in SUBSET T : u # {} => Some(u) \in DOMAIN log
    BY DEF Some, PublishedAt
  <2> HIDE DEF T
  <2>2. \A u \in SUBSET T : given(u) = summed(u)
    BY <2>1 DEF Sizes
  <2>3. /\ Rec(f) <=> f = [u \in SUBSET T |-> given(u)]
        /\ Sums(f, Sizes(log), T) <=> f = [u \in SUBSET T |-> summed(u)]
    BY DEF Sums
  <2> HIDE DEF given, summed, Rec
  <2>4. [u \in SUBSET T |-> given(u)] = [u \in SUBSET T |-> summed(u)]
    BY <2>2
  <2>5. QED
    BY <2>3, <2>4
<1> HIDE DEF Rec, T
<1>4. PICK f : Sums(f, Sizes(log), T)
  BY <1>2, SumsExist
<1> DEFINE e == CHOOSE h : Rec(h)
<1>5. Rec(e)
  BY <1>3, <1>4
<1>6. Sums(e, Sizes(log), T)
  BY <1>3, <1>5
<1> HIDE DEF e
<1>7. SumOf(Sizes(log), T) = e[T]
  BY <1>2, <1>6, SumOfSubset
<1>8. QED
  BY <1>1, <1>7 DEF e, T

(* The same for the messages that Deliver or Ack moved.                    *)
LEMMA MovedIs ==
    ASSUME NEW log, IsFiniteSet(DOMAIN log), NEW kind, NEW s
    PROVE  Ledger!Moved(log, kind, s) = SumOf(Amounts(log), MovedAt(log, kind, s))
<1> DEFINE T == MovedAt(log, kind, s)
           Rec(f) ==
      f = [u \in SUBSET T |->
             IF u = {} THEN 0
             ELSE log[Some(u)].messages + f[u \ {Some(u)}]]
<1>1. Ledger!Moved(log, kind, s) = (CHOOSE f : Rec(f))[T]
  BY DEF Ledger!Moved, Ledger!Total, Ledger!Where, Ledger!MapThenSumSet,
         Ledger!MapThenFoldSet, Some, MovedAt, Moves
<1>2. IsFiniteSet(T)
  BY FS_Subset DEF MovedAt
<1>3. ASSUME NEW f PROVE Rec(f) <=> Sums(f, Amounts(log), T)
  <2> DEFINE given(u) == IF u = {} THEN 0
               ELSE log[Some(u)].messages + f[u \ {Some(u)}]
             summed(u) == IF u = {} THEN 0
               ELSE Amounts(log)[Some(u)] + f[u \ {Some(u)}]
  <2>1. \A u \in SUBSET T : u # {} => Some(u) \in DOMAIN log
    BY DEF Some, MovedAt
  <2> HIDE DEF T
  <2>2. \A u \in SUBSET T : given(u) = summed(u)
    BY <2>1 DEF Amounts
  <2>3. /\ Rec(f) <=> f = [u \in SUBSET T |-> given(u)]
        /\ Sums(f, Amounts(log), T) <=> f = [u \in SUBSET T |-> summed(u)]
    BY DEF Sums
  <2> HIDE DEF given, summed, Rec
  <2>4. [u \in SUBSET T |-> given(u)] = [u \in SUBSET T |-> summed(u)]
    BY <2>2
  <2>5. QED
    BY <2>3, <2>4
<1> HIDE DEF Rec, T
<1>4. PICK f : Sums(f, Amounts(log), T)
  BY <1>2, SumsExist
<1> DEFINE e == CHOOSE h : Rec(h)
<1>5. Rec(e)
  BY <1>3, <1>4
<1>6. Sums(e, Amounts(log), T)
  BY <1>3, <1>5
<1> HIDE DEF e
<1>7. SumOf(Amounts(log), T) = e[T]
  BY <1>2, <1>6, SumOfSubset
<1>8. QED
  BY <1>1, <1>7 DEF e, T

(* And for a topic's total over its publishers.                            *)
LEMMA TotalIs ==
    ASSUME IsFiniteSet(PeerKeys), NEW log, NEW t
    PROVE  Ledger!MapThenSumSet(LAMBDA k : Ledger!Published(log, t, k), PeerKeys)
             = SumOf(ByKey(log, t), PeerKeys)
<1> DEFINE T == PeerKeys
           Rec(f) ==
      f = [u \in SUBSET T |->
             IF u = {} THEN 0
             ELSE Ledger!Published(log, t, Some(u)) + f[u \ {Some(u)}]]
<1>1. Ledger!MapThenSumSet(LAMBDA k : Ledger!Published(log, t, k), PeerKeys)
        = (CHOOSE f : Rec(f))[T]
  BY DEF Ledger!MapThenSumSet, Ledger!MapThenFoldSet, Some
<1>2. IsFiniteSet(T)
  OBVIOUS
<1>3. ASSUME NEW f PROVE Rec(f) <=> Sums(f, ByKey(log, t), T)
  <2> DEFINE given(u) == IF u = {} THEN 0
               ELSE Ledger!Published(log, t, Some(u)) + f[u \ {Some(u)}]
             summed(u) == IF u = {} THEN 0
               ELSE ByKey(log, t)[Some(u)] + f[u \ {Some(u)}]
  <2>1. \A u \in SUBSET T : u # {} => Some(u) \in PeerKeys
    BY DEF Some
  <2> HIDE DEF T
  <2>2. \A u \in SUBSET T : given(u) = summed(u)
    BY <2>1 DEF ByKey
  <2>3. /\ Rec(f) <=> f = [u \in SUBSET T |-> given(u)]
        /\ Sums(f, ByKey(log, t), T) <=> f = [u \in SUBSET T |-> summed(u)]
    BY DEF Sums
  <2> HIDE DEF given, summed, Rec
  <2>4. [u \in SUBSET T |-> given(u)] = [u \in SUBSET T |-> summed(u)]
    BY <2>2
  <2>5. QED
    BY <2>3, <2>4
<1> HIDE DEF Rec, T
<1>4. PICK f : Sums(f, ByKey(log, t), T)
  BY <1>2, SumsExist
<1> DEFINE e == CHOOSE h : Rec(h)
<1>5. Rec(e)
  BY <1>3, <1>4
<1>6. Sums(e, ByKey(log, t), T)
  BY <1>3, <1>5
<1> HIDE DEF e
<1>7. SumOf(ByKey(log, t), T) = e[T]
  BY <1>2, <1>6, SumOfSubset
<1>8. QED
  BY <1>1, <1>7 DEF e, T

-----------------------------------------------------------------------------
(* One more observation.                                                   *)

(* The log with one observation more.                                      *)
LEMMA LogGrows ==
    ASSUME NEW log \in Seq(Observation), NEW o \in Observation
    PROVE  /\ Len(log) \in Nat /\ DOMAIN log = 1..Len(log)
           /\ IsFiniteSet(DOMAIN log)
           /\ \A i \in 1..Len(log) : log[i] \in Observation
           /\ Append(log, o) \in Seq(Observation)
           /\ Len(Append(log, o)) = Len(log) + 1
           /\ DOMAIN Append(log, o) = DOMAIN log \cup {Len(log) + 1}
           /\ Len(log) + 1 \notin DOMAIN log
           /\ Append(log, o)[Len(log) + 1] = o
           /\ \A i \in DOMAIN log : Append(log, o)[i] = log[i]
<1>1. Len(log) \in Nat /\ DOMAIN log = 1..Len(log)
  BY LenProperties
<1>2. IsFiniteSet(DOMAIN log)
  BY <1>1, FS_Interval
<1>3. \A i \in 1..Len(log) : log[i] \in Observation
  BY ElementOfSeq
<1>4. /\ Append(log, o) \in Seq(Observation)
      /\ Len(Append(log, o)) = Len(log) + 1
      /\ Append(log, o)[Len(log) + 1] = o
      /\ \A i \in DOMAIN log : Append(log, o)[i] = log[i]
  BY <1>1, AppendProperties
<1>5. DOMAIN Append(log, o) = 1..(Len(log) + 1)
  BY <1>4, LenProperties
<1>6. 1..(Len(log) + 1) = 1..Len(log) \cup {Len(log) + 1}
  BY <1>1
<1>7. Len(log) + 1 \notin 1..Len(log)
  BY <1>1
<1>8. QED
  BY <1>1, <1>2, <1>3, <1>4, <1>5, <1>6, <1>7

(* A Publish adds its messages to its topic and key, and to no other.      *)
LEMMA PublishedGrows ==
    ASSUME NEW log \in Seq(Observation), NEW o \in Observation, NEW t, NEW key
    PROVE  /\ Ledger!Published(log, t, key) \in Nat
           /\ Ledger!Published(Append(log, o), t, key)
                = Ledger!Published(log, t, key)
                    + (IF Publishes(o, t, key) THEN Len(o.messages) ELSE 0)
<1> DEFINE more == Append(log, o)
           n    == Len(log)
           S    == PublishedAt(log, t, key)
<1>1. /\ n \in Nat /\ IsFiniteSet(DOMAIN log)
      /\ \A i \in DOMAIN log : log[i] \in Observation
      /\ more \in Seq(Observation)
      /\ DOMAIN more = DOMAIN log \cup {n + 1} /\ n + 1 \notin DOMAIN log
      /\ more[n + 1] = o
      /\ \A i \in DOMAIN log : more[i] = log[i]
  BY LogGrows
<1> HIDE DEF more, n
<1>2. IsFiniteSet(DOMAIN more)
  BY <1>1, FS_AddElement
<1>3. /\ Ledger!Published(log, t, key) = SumOf(Sizes(log), S)
      /\ Ledger!Published(more, t, key) = SumOf(Sizes(more), PublishedAt(more, t, key))
  BY <1>1, <1>2, PublishedIs
<1>4. PublishedAt(more, t, key) = IF Publishes(o, t, key) THEN S \cup {n + 1} ELSE S
  BY <1>1 DEF PublishedAt
<1>5. ASSUME NEW p \in Observation, Publishes(p, t, key) PROVE Len(p.messages) \in Nat
  BY <1>5, LenProperties DEF Observation, Publishes
<1>6. IsFiniteSet(S) /\ S \subseteq DOMAIN log /\ n + 1 \notin S
  BY <1>1, FS_Subset DEF PublishedAt
<1>7. \A i \in S : Sizes(log)[i] \in Nat /\ Sizes(more)[i] = Sizes(log)[i]
  BY <1>1, <1>5 DEF PublishedAt, Sizes
<1>8. Sizes(more)[n + 1] = Len(o.messages)
  BY <1>1 DEF Sizes
<1> HIDE DEF S
<1>9. CASE Publishes(o, t, key)
  <2>1. Sizes(more)[n + 1] \in Nat
    BY <1>5, <1>8, <1>9
  <2>2. /\ SumOf(Sizes(log), S) \in Nat
        /\ SumOf(Sizes(more), S \cup {n + 1}) = SumOf(Sizes(log), S) + Sizes(more)[n + 1]
    <3>1. SumOf(Sizes(more), S) = SumOf(Sizes(log), S)
      BY <1>6, <1>7, SumSame
    <3> DEFINE g == Sizes(more)
               k == n + 1
    <3>2. \A i \in S : g[i] \in Nat
      BY <1>7
    <3>3. IsFiniteSet(S) /\ k \notin S /\ g[k] \in Nat
      BY <1>6, <2>1
    <3> HIDE DEF g, k
    <3>4. SumOf(g, S) \in Nat /\ SumOf(g, S \cup {k}) = SumOf(g, S) + g[k]
      BY <3>2, <3>3, SumGrows
    <3>5. QED
      BY <3>1, <3>4 DEF g, k
  <2>3. QED
    BY <1>3, <1>4, <1>8, <1>9, <2>2 DEF more
<1>10. CASE ~Publishes(o, t, key)
  <2>1. SumOf(Sizes(more), S) = SumOf(Sizes(log), S)
    BY <1>6, <1>7, SumSame
  <2>2. SumOf(Sizes(log), S) \in Nat
    BY <1>6, <1>7, SumProperties
  <2>3. QED
    BY <1>3, <1>4, <1>10, <2>1, <2>2 DEF more
<1>11. QED
  BY <1>9, <1>10

(* A Deliver or an Ack adds its messages to its subscription's figure.     *)
LEMMA MovedGrows ==
    ASSUME NEW log \in Seq(Observation), NEW o \in Observation,
           NEW kind \in {"Deliver", "Ack"}, NEW s
    PROVE  /\ Ledger!Moved(log, kind, s) \in Nat
           /\ Ledger!Moved(Append(log, o), kind, s)
                = Ledger!Moved(log, kind, s)
                    + (IF Moves(o, kind, s) THEN o.messages ELSE 0)
<1> DEFINE more == Append(log, o)
           n    == Len(log)
           S    == MovedAt(log, kind, s)
<1>1. /\ n \in Nat /\ IsFiniteSet(DOMAIN log)
      /\ \A i \in DOMAIN log : log[i] \in Observation
      /\ more \in Seq(Observation)
      /\ DOMAIN more = DOMAIN log \cup {n + 1} /\ n + 1 \notin DOMAIN log
      /\ more[n + 1] = o
      /\ \A i \in DOMAIN log : more[i] = log[i]
  BY LogGrows
<1> HIDE DEF more, n
<1>2. IsFiniteSet(DOMAIN more)
  BY <1>1, FS_AddElement
<1>3. /\ Ledger!Moved(log, kind, s) = SumOf(Amounts(log), S)
      /\ Ledger!Moved(more, kind, s) = SumOf(Amounts(more), MovedAt(more, kind, s))
  BY <1>1, <1>2, MovedIs
<1>4. MovedAt(more, kind, s) = IF Moves(o, kind, s) THEN S \cup {n + 1} ELSE S
  BY <1>1 DEF MovedAt
<1>5. ASSUME NEW p \in Observation, Moves(p, kind, s) PROVE p.messages \in Nat
  BY <1>5 DEF Observation, Moves
<1>6. IsFiniteSet(S) /\ S \subseteq DOMAIN log /\ n + 1 \notin S
  BY <1>1, FS_Subset DEF MovedAt
<1>7. \A i \in S : Amounts(log)[i] \in Nat /\ Amounts(more)[i] = Amounts(log)[i]
  BY <1>1, <1>5 DEF MovedAt, Amounts
<1>8. Amounts(more)[n + 1] = o.messages
  BY <1>1 DEF Amounts
<1> HIDE DEF S
<1>9. CASE Moves(o, kind, s)
  <2>1. Amounts(more)[n + 1] \in Nat
    BY <1>5, <1>8, <1>9
  <2>2. /\ SumOf(Amounts(log), S) \in Nat
        /\ SumOf(Amounts(more), S \cup {n + 1}) = SumOf(Amounts(log), S) + Amounts(more)[n + 1]
    <3>1. SumOf(Amounts(more), S) = SumOf(Amounts(log), S)
      BY <1>6, <1>7, SumSame
    <3> DEFINE g == Amounts(more)
               k == n + 1
    <3>2. \A i \in S : g[i] \in Nat
      BY <1>7
    <3>3. IsFiniteSet(S) /\ k \notin S /\ g[k] \in Nat
      BY <1>6, <2>1
    <3> HIDE DEF g, k
    <3>4. SumOf(g, S) \in Nat /\ SumOf(g, S \cup {k}) = SumOf(g, S) + g[k]
      BY <3>2, <3>3, SumGrows
    <3>5. QED
      BY <3>1, <3>4 DEF g, k
  <2>3. QED
    BY <1>3, <1>4, <1>8, <1>9, <2>2 DEF more
<1>10. CASE ~Moves(o, kind, s)
  <2>1. SumOf(Amounts(more), S) = SumOf(Amounts(log), S)
    BY <1>6, <1>7, SumSame
  <2>2. SumOf(Amounts(log), S) \in Nat
    BY <1>6, <1>7, SumProperties
  <2>3. QED
    BY <1>3, <1>4, <1>10, <2>1, <2>2 DEF more
<1>11. QED
  BY <1>9, <1>10

(* A topic's total grows by the messages of a Publish to it, whatever the  *)
(* key.                                                                    *)
LEMMA TotalGrows ==
    ASSUME IsFiniteSet(PeerKeys),
           NEW log \in Seq(Observation), NEW o \in Observation, NEW t
    PROVE  /\ SumOf(ByKey(log, t), PeerKeys) \in Nat
           /\ SumOf(ByKey(Append(log, o), t), PeerKeys)
                = SumOf(ByKey(log, t), PeerKeys)
                    + (IF o.kind = "Publish" /\ o.topic = t THEN Len(o.messages) ELSE 0)
<1> DEFINE f == ByKey(log, t)
           g == ByKey(Append(log, o), t)
<1>1. \A key \in PeerKeys :
        /\ f[key] \in Nat
        /\ g[key] = f[key] + (IF Publishes(o, t, key) THEN Len(o.messages) ELSE 0)
  BY PublishedGrows DEF ByKey
<1> HIDE DEF f, g
<1>2. CASE o.kind = "Publish" /\ o.topic = t
  <2> DEFINE k == peer_key(o.peer)
             R == PeerKeys \ {k}
  <2>1. k \in PeerKeys
    BY <1>2 DEF Observation, peer_key, PeerKeys
  <2>2. Len(o.messages) \in Nat
    BY <1>2, LenProperties DEF Observation
  <2>3. /\ g[k] = f[k] + Len(o.messages)
        /\ \A key \in R : g[key] = f[key]
    BY <1>1, <1>2, <2>1 DEF Publishes
  <2>4. g[k] \in Nat /\ f[k] \in Nat
    BY <1>1, <2>1, <2>2, <2>3
  <2>5. IsFiniteSet(R) /\ k \notin R /\ PeerKeys = R \cup {k}
    BY <2>1, FS_Subset
  <2> HIDE DEF R, k
  <2>6. \A key \in R : f[key] \in Nat /\ f[key] = f[key]
    BY <1>1, <2>5
  <2>7. SumOf(g, R) = SumOf(f, R)
    BY <2>3, <2>5, SumSame
  <2>8. /\ SumOf(f, R) \in Nat
        /\ SumOf(f, R \cup {k}) = SumOf(f, R) + f[k]
    BY <2>4, <2>5, <2>6, SumGrows
  <2>9. SumOf(g, R \cup {k}) = SumOf(g, R) + g[k]
    <3>1. \A key \in R : g[key] \in Nat
      BY <2>3, <2>6
    <3>2. QED
      BY <2>4, <2>5, <3>1, SumGrows
  <2>10. QED
    BY <1>2, <2>2, <2>3, <2>4, <2>5, <2>7, <2>8, <2>9, SMTT(60) DEF f, g
<1>3. CASE ~(o.kind = "Publish" /\ o.topic = t)
  <2>1. \A key \in PeerKeys : g[key] = f[key]
    BY <1>1, <1>3 DEF Publishes
  <2>2. SumOf(g, PeerKeys) = SumOf(f, PeerKeys)
    BY <2>1, SumSame
  <2>3. SumOf(f, PeerKeys) \in Nat
    BY <1>1, SumProperties
  <2>4. QED
    BY <1>3, <2>2, <2>3 DEF f, g
<1>4. QED
  BY <1>2, <1>3

-----------------------------------------------------------------------------
(* Live consumers.                                                         *)

Connects(o, kind, s) == o.kind = kind /\ o.subscription = s

ConnectsFrom(log, kind, s, from) ==
    {i \in from..Len(log) : Connects(log[i], kind, s)}

\* What an observation adds to every surplus, and what it makes of a figure.
Adds(o, s) == IF Connects(o, "ConsumerOpen", s) THEN 1
              ELSE IF Connects(o, "ConsumerClose", s) THEN -1 ELSE 0

LiveAfter(m, o, s) == IF m + Adds(o, s) < 0 THEN 0 ELSE m + Adds(o, s)

IsLive(log, s, m) ==
    /\ \E from \in 1..(Len(log) + 1) : Ledger!Surplus(log, s, from) = m
    /\ \A from \in 1..(Len(log) + 1) : m >= Ledger!Surplus(log, s, from)

(* The largest surplus is the ledger's figure.                             *)
LEMMA LiveIs ==
    ASSUME NEW log, NEW s, NEW m, IsLive(log, s, m),
           \A from \in 1..(Len(log) + 1) : Ledger!Surplus(log, s, from) \in Int
    PROVE  Ledger!Live(log, s) = m
<1> DEFINE S == {Ledger!Surplus(log, s, from) : from \in 1..(Len(log) + 1)}
<1>1. S \subseteq Int /\ m \in S /\ \A y \in S : m >= y
  BY DEF IsLive
<1>2. Ledger!Live(log, s) = CHOOSE x \in S : \A y \in S : x >= y
  BY DEF Ledger!Live, Ledger!Max
<1> HIDE DEF S
<1>3. \A x \in S : (\A y \in S : x >= y) => x = m
  BY <1>1
<1>4. QED
  BY <1>1, <1>2, <1>3

(* Opens, or closes, in a suffix of the log.                               *)
LEMMA ConnectsGrow ==
    ASSUME NEW log \in Seq(Observation), NEW o \in Observation,
           NEW kind, NEW s, NEW from \in 1..(Len(log) + 1)
    PROVE  /\ Cardinality(ConnectsFrom(log, kind, s, from)) \in Nat
           /\ Cardinality(ConnectsFrom(Append(log, o), kind, s, from))
                = Cardinality(ConnectsFrom(log, kind, s, from))
                    + (IF Connects(o, kind, s) THEN 1 ELSE 0)
<1> DEFINE more == Append(log, o)
           n    == Len(log)
           S    == ConnectsFrom(log, kind, s, from)
<1>1. /\ n \in Nat /\ DOMAIN log = 1..n
      /\ Len(more) = n + 1 /\ more[n + 1] = o
      /\ \A i \in 1..n : more[i] = log[i]
  BY LogGrows
<1> HIDE DEF more, n
<1>2. from \in Nat /\ from >= 1 /\ from <= n + 1
  BY <1>1 DEF n
<1>3. from..(n + 1) = from..n \cup {n + 1} /\ n + 1 \notin from..n
  BY <1>1, <1>2
<1>4. \A i \in from..n : i \in 1..n
  BY <1>1, <1>2
<1>5. ConnectsFrom(more, kind, s, from)
        = IF Connects(o, kind, s) THEN S \cup {n + 1} ELSE S
  BY <1>1, <1>3, <1>4 DEF ConnectsFrom, n
<1>6. IsFiniteSet(S) /\ n + 1 \notin S
  <2>1. IsFiniteSet(from..n)
    BY <1>1, <1>2, FS_Interval
  <2>2. QED
    BY <1>3, <2>1, FS_Subset DEF ConnectsFrom, n
<1> HIDE DEF S
<1>7. /\ Cardinality(S) \in Nat
      /\ Cardinality(S \cup {n + 1}) = Cardinality(S) + 1
  BY <1>6, FS_CardinalityType, FS_AddElement
<1>8. QED
  BY <1>5, <1>7 DEF more, S

(* One observation adds the same to every surplus, and the empty suffix    *)
(* has none.                                                               *)
LEMMA SurplusGrows ==
    ASSUME NEW log \in Seq(Observation), NEW o \in Observation, NEW s
    PROVE  /\ \A from \in 1..(Len(log) + 1) :
                /\ Ledger!Surplus(log, s, from) \in Int
                /\ Ledger!Surplus(Append(log, o), s, from)
                     = Ledger!Surplus(log, s, from) + Adds(o, s)
           /\ Ledger!Surplus(Append(log, o), s, Len(log) + 2) = 0
<1> DEFINE more == Append(log, o)
           n    == Len(log)
           In(l, from)  == Cardinality(ConnectsFrom(l, "ConsumerOpen", s, from))
           Out(l, from) == Cardinality(ConnectsFrom(l, "ConsumerClose", s, from))
<1>1. \A l, from : Ledger!Surplus(l, s, from) = In(l, from) - Out(l, from)
  BY DEF Ledger!Surplus, Ledger!Cardinality, Cardinality, ConnectsFrom, Connects
<1>2. \A from \in 1..(n + 1) :
        /\ In(log, from) \in Nat
        /\ In(more, from) = In(log, from)
             + (IF Connects(o, "ConsumerOpen", s) THEN 1 ELSE 0)
  BY ConnectsGrow
<1>3. \A from \in 1..(n + 1) :
        /\ Out(log, from) \in Nat
        /\ Out(more, from) = Out(log, from)
             + (IF Connects(o, "ConsumerClose", s) THEN 1 ELSE 0)
  BY ConnectsGrow
<1>4. ~(Connects(o, "ConsumerOpen", s) /\ Connects(o, "ConsumerClose", s))
  BY DEF Connects
<1>5. In(more, n + 2) = 0 /\ Out(more, n + 2) = 0
  <2>1. n \in Nat /\ Len(more) = n + 1
    BY LogGrows
  <2>2. \A kind : ConnectsFrom(more, kind, s, n + 2) = {}
    <3> HIDE DEF more, n
    <3>1. (n + 2)..(n + 1) = {}
      BY <2>1
    <3>2. QED
      BY <2>1, <3>1 DEF ConnectsFrom
  <2>3. QED
    BY <2>2, FS_EmptySet
<1> HIDE DEF In, Out, more, n
<1>6. \A from \in 1..(n + 1) :
        /\ Ledger!Surplus(log, s, from) \in Int
        /\ Ledger!Surplus(more, s, from) = Ledger!Surplus(log, s, from) + Adds(o, s)
  <2> SUFFICES ASSUME NEW from \in 1..(n + 1)
               PROVE  /\ Ledger!Surplus(log, s, from) \in Int
                      /\ Ledger!Surplus(more, s, from)
                           = Ledger!Surplus(log, s, from) + Adds(o, s)
    OBVIOUS
  <2>1. /\ Ledger!Surplus(log, s, from) = In(log, from) - Out(log, from)
        /\ Ledger!Surplus(more, s, from) = In(more, from) - Out(more, from)
    BY <1>1
  <2>2. /\ In(log, from) \in Nat
        /\ In(more, from) = In(log, from)
             + (IF Connects(o, "ConsumerOpen", s) THEN 1 ELSE 0)
        /\ Out(log, from) \in Nat
        /\ Out(more, from) = Out(log, from)
             + (IF Connects(o, "ConsumerClose", s) THEN 1 ELSE 0)
    BY <1>2, <1>3
  <2>3. QED
    BY <1>4, <2>1, <2>2 DEF Adds
<1>7. Ledger!Surplus(more, s, n + 2) = 0
  BY <1>1, <1>5
<1>8. QED
  BY <1>6, <1>7 DEF more, n

(* Surpluses are integers.                                                 *)
LEMMA SurplusType ==
    ASSUME NEW log \in Seq(Observation), NEW s
    PROVE  \A from \in 1..(Len(log) + 1) : Ledger!Surplus(log, s, from) \in Int
<1> SUFFICES ASSUME NEW from \in 1..(Len(log) + 1)
             PROVE  Ledger!Surplus(log, s, from) \in Int
  OBVIOUS
<1>1. IsFiniteSet(from..Len(log))
  BY LenProperties, FS_Interval
<1>2. \A kind : Cardinality(ConnectsFrom(log, kind, s, from)) \in Nat
  BY <1>1, FS_Subset, FS_CardinalityType DEF ConnectsFrom
<1>3. Ledger!Surplus(log, s, from)
        = Cardinality(ConnectsFrom(log, "ConsumerOpen", s, from))
            - Cardinality(ConnectsFrom(log, "ConsumerClose", s, from))
  BY DEF Ledger!Surplus, Ledger!Cardinality, Cardinality, ConnectsFrom, Connects
<1>4. /\ Cardinality(ConnectsFrom(log, "ConsumerOpen", s, from)) \in Nat
      /\ Cardinality(ConnectsFrom(log, "ConsumerClose", s, from)) \in Nat
  BY <1>2
<1>5. QED
  BY <1>3, <1>4

(* The largest surplus follows the counter that does not go below zero:    *)
(* where the counter saturates, the empty suffix takes over.               *)
LEMMA LiveGrows ==
    ASSUME NEW log \in Seq(Observation), NEW o \in Observation, NEW s,
           NEW m \in Nat, IsLive(log, s, m)
    PROVE  IsLive(Append(log, o), s, LiveAfter(m, o, s))
<1> DEFINE more == Append(log, o)
           n    == Len(log)
           d    == Adds(o, s)
           after == LiveAfter(m, o, s)
<1>1. n \in Nat /\ Len(more) = n + 1
  BY LogGrows
<1>2. d \in Int /\ after = IF m + d < 0 THEN 0 ELSE m + d
  BY DEF Adds, LiveAfter
<1>3. /\ \A from \in 1..(n + 1) :
           /\ Ledger!Surplus(log, s, from) \in Int
           /\ Ledger!Surplus(more, s, from) = Ledger!Surplus(log, s, from) + d
      /\ Ledger!Surplus(more, s, n + 2) = 0
  BY SurplusGrows
<1>4. PICK first \in 1..(n + 1) : Ledger!Surplus(log, s, first) = m
  BY DEF IsLive
<1>5. \A from \in 1..(n + 1) : m >= Ledger!Surplus(log, s, from)
  BY DEF IsLive
<1> HIDE DEF more, n, d, after
<1>6. \A from \in 1..(n + 2) : from \in 1..(n + 1) \/ from = n + 2
  BY <1>1
<1>7. first \in 1..(n + 2) /\ n + 2 \in 1..(n + 2) /\ n + 1 + 1 = n + 2
  BY <1>1
<1>8. \E from \in 1..(n + 2) : Ledger!Surplus(more, s, from) = after
  <2>1. CASE m + d < 0
    BY <1>2, <1>3, <1>7, <2>1
  <2>2. CASE ~(m + d < 0)
    <3>1. Ledger!Surplus(more, s, first) = after
      BY <1>2, <1>3, <1>4, <2>2
    <3>2. QED
      BY <1>7, <3>1
  <2>3. QED
    BY <2>1, <2>2
<1>9. ASSUME NEW from \in 1..(n + 2) PROVE after >= Ledger!Surplus(more, s, from)
  <2>1. CASE from \in 1..(n + 1)
    <3>1. /\ Ledger!Surplus(log, s, from) \in Int
          /\ Ledger!Surplus(more, s, from) = Ledger!Surplus(log, s, from) + d
          /\ m >= Ledger!Surplus(log, s, from)
      BY <1>3, <1>5, <2>1
    <3>2. QED
      BY <1>2, <3>1
  <2>2. CASE from = n + 2
    BY <1>2, <1>3, <2>2
  <2>3. QED
    BY <1>6, <2>1, <2>2
<1>10. Len(more) + 1 = n + 2
  BY <1>1
<1>11. QED
  BY <1>8, <1>9, <1>10 DEF IsLive, more, after

-----------------------------------------------------------------------------
(* Admin listings.                                                         *)

IsListing(o) == o.kind = "AdminSnapshot"

ListingsIn(log) == {i \in DOMAIN log : IsListing(log[i])}

NamingIn(log, s) ==
    {i \in DOMAIN log : IsListing(log[i]) /\ s \in DOMAIN log[i].subscriptions}

IsLast(K, i) == i \in K /\ \A j \in K : i >= j

\* What the newest listing lists, nothing when there is none.
LastLists(log, topics, subscriptions) ==
    IF ListingsIn(log) = {}
      THEN topics = {} /\ subscriptions = {}
      ELSE \E i \in DOMAIN log :
             /\ IsLast(ListingsIn(log), i)
             /\ topics = log[i].topics
             /\ subscriptions = DOMAIN log[i].subscriptions

IsParent(log, s, t) ==
    IF NamingIn(log, s) = {}
      THEN t = NoTopic
      ELSE \E i \in DOMAIN log : /\ IsLast(NamingIn(log, s), i)
                                 /\ t = log[i].subscriptions[s]

(* The maximum of a set of numbers.                                        *)
LEMMA LastIsMax ==
    ASSUME NEW K, K \subseteq Nat, NEW i, IsLast(K, i)
    PROVE  Ledger!Max(K) = i
<1>1. Ledger!Max(K) = CHOOSE x \in K : \A y \in K : x >= y
  BY DEF Ledger!Max
<1>2. \A x \in K : (\A y \in K : x >= y) => x = i
  BY DEF IsLast
<1>3. QED
  BY <1>1, <1>2 DEF IsLast

(* What the newest listing lists is what exists.                           *)
LEMMA ExistsIs ==
    ASSUME NEW log \in Seq(Observation), NEW topics, NEW subscriptions,
           LastLists(log, topics, subscriptions),
           topics \subseteq Topics, subscriptions \subseteq Subscriptions
    PROVE  /\ {t \in Topics : Ledger!Exists(log, LAMBDA o : t \in o.topics)} = topics
           /\ {c \in Subscriptions :
                 Ledger!Exists(log, LAMBDA o : c \in DOMAIN o.subscriptions)}
                = subscriptions
<1> DEFINE K == ListingsIn(log)
<1>1. K \subseteq Nat
  BY LenProperties DEF ListingsIn
<1>2. /\ {t \in Topics : Ledger!Exists(log, LAMBDA o : t \in o.topics)}
           = {t \in Topics : K # {} /\ t \in log[Ledger!Max(K)].topics}
      /\ {c \in Subscriptions :
            Ledger!Exists(log, LAMBDA o : c \in DOMAIN o.subscriptions)}
           = {c \in Subscriptions :
                K # {} /\ c \in DOMAIN log[Ledger!Max(K)].subscriptions}
  BY DEF Ledger!Exists, Ledger!Listings, Ledger!Where, ListingsIn, IsListing
<1> DEFINE T == {t \in Topics : Ledger!Exists(log, LAMBDA o : t \in o.topics)}
           C == {c \in Subscriptions :
                   Ledger!Exists(log, LAMBDA o : c \in DOMAIN o.subscriptions)}
<1> HIDE DEF T, C, K
<1>3. SUFFICES T = topics /\ C = subscriptions
  BY DEF T, C
<1>4. CASE K = {}
  BY <1>2, <1>4 DEF LastLists, T, C, K
<1>5. CASE K # {}
  <2>1. PICK i \in DOMAIN log : /\ IsLast(K, i)
                                /\ topics = log[i].topics
                                /\ subscriptions = DOMAIN log[i].subscriptions
    BY <1>5 DEF LastLists, K
  <2>2. Ledger!Max(K) = i
    BY <1>1, <2>1, LastIsMax
  <2>3. QED
    BY <1>2, <1>5, <2>1, <2>2 DEF T, C
<1>6. QED
  BY <1>4, <1>5

(* The parent that the newest listing naming a subscription gives it.      *)
LEMMA ParentIs ==
    ASSUME NEW log \in Seq(Observation), NEW s, NEW t, IsParent(log, s, t)
    PROVE  Ledger!Parent(log, s) = t
<1> DEFINE K == NamingIn(log, s)
<1>1. K \subseteq Nat
  BY LenProperties DEF NamingIn
<1>2. Ledger!Parent(log, s)
        = IF K = {} THEN NoTopic ELSE log[Ledger!Max(K)].subscriptions[s]
  BY DEF Ledger!Parent, Ledger!Listings, Ledger!Where, NamingIn, IsListing
<1>3. CASE K = {}
  BY <1>2, <1>3 DEF IsParent
<1>4. CASE K # {}
  <2>1. PICK i \in DOMAIN log : IsLast(K, i) /\ t = log[i].subscriptions[s]
    BY <1>4 DEF IsParent
  <2>2. Ledger!Max(K) = i
    BY <1>1, <2>1, LastIsMax
  <2>3. QED
    BY <1>2, <1>4, <2>1, <2>2
<1>5. QED
  BY <1>3, <1>4

(* A listing replaces what exists; nothing else touches it.                *)
LEMMA ListingsGrow ==
    ASSUME NEW log \in Seq(Observation), NEW o \in Observation,
           NEW topics, NEW subscriptions, LastLists(log, topics, subscriptions)
    PROVE  IF IsListing(o) THEN LastLists(Append(log, o), o.topics, DOMAIN o.subscriptions)
                           ELSE LastLists(Append(log, o), topics, subscriptions)
<1> DEFINE more == Append(log, o)
           n    == Len(log)
<1>1. /\ n \in Nat /\ DOMAIN log = 1..n
      /\ DOMAIN more = DOMAIN log \cup {n + 1} /\ n + 1 \notin DOMAIN log
      /\ more[n + 1] = o /\ \A i \in DOMAIN log : more[i] = log[i]
  BY LogGrows
<1> HIDE DEF more, n
<1>2. CASE IsListing(o)
  <2>1. ListingsIn(more) = ListingsIn(log) \cup {n + 1} /\ ListingsIn(log) \subseteq 1..n
    BY <1>1, <1>2 DEF ListingsIn
  <2>2. IsLast(ListingsIn(more), n + 1)
    BY <1>1, <2>1 DEF IsLast
  <2>3. QED
    BY <1>1, <1>2, <2>1, <2>2 DEF LastLists, more
<1>3. CASE ~IsListing(o)
  <2>1. ListingsIn(more) = ListingsIn(log)
    BY <1>1, <1>3 DEF ListingsIn
  <2>2. QED
    BY <1>1, <1>3, <2>1 DEF LastLists, more
<1>4. QED
  BY <1>2, <1>3

(* A listing that names a subscription gives it its parent; one that does  *)
(* not leaves it.                                                          *)
LEMMA ParentGrows ==
    ASSUME NEW log \in Seq(Observation), NEW o \in Observation,
           NEW s, NEW t, IsParent(log, s, t)
    PROVE  IsParent(Append(log, o), s,
                    IF IsListing(o) /\ s \in DOMAIN o.subscriptions
                      THEN o.subscriptions[s] ELSE t)
<1> DEFINE more == Append(log, o)
           n    == Len(log)
<1>1. /\ n \in Nat /\ DOMAIN log = 1..n
      /\ DOMAIN more = DOMAIN log \cup {n + 1} /\ n + 1 \notin DOMAIN log
      /\ more[n + 1] = o /\ \A i \in DOMAIN log : more[i] = log[i]
  BY LogGrows
<1> HIDE DEF more, n
<1>2. CASE IsListing(o) /\ s \in DOMAIN o.subscriptions
  <2>1. NamingIn(more, s) = NamingIn(log, s) \cup {n + 1} /\ NamingIn(log, s) \subseteq 1..n
    BY <1>1, <1>2 DEF NamingIn
  <2>2. IsLast(NamingIn(more, s), n + 1)
    BY <1>1, <2>1 DEF IsLast
  <2>3. QED
    BY <1>1, <1>2, <2>1, <2>2 DEF IsParent, more
<1>3. CASE ~(IsListing(o) /\ s \in DOMAIN o.subscriptions)
  <2>1. NamingIn(more, s) = NamingIn(log, s)
    BY <1>1, <1>3 DEF NamingIn
  <2>2. QED
    BY <1>1, <1>3, <2>1 DEF IsParent, more
<1>4. QED
  BY <1>2, <1>3

-----------------------------------------------------------------------------
(* All published messages, in order.                                       *)

Captured == [topic : Topics, message : Messages]

Captures(o) ==
    IF o.kind = "Publish"
      THEN [i \in DOMAIN o.messages |-> [topic |-> o.topic, message |-> o.messages[i]]]
      ELSE <<>>

\* f holds, for each prefix of the log, everything captured in it.
Flattens(f, log) ==
    f = [i \in 1..Len(log) |->
           IF i = 1 THEN Captures(log[1]) ELSE f[i - 1] \o Captures(log[i])]

Everything(log) ==
    IF Len(log) = 0 THEN <<>> ELSE (CHOOSE f : Flattens(f, log))[Len(log)]

(* The captured messages of a prefix do not depend on what follows it.     *)
LEMMA FlattensAgree ==
    ASSUME NEW log, Len(log) \in Nat, NEW more, Len(more) \in Nat, Len(log) <= Len(more),
           \A i \in 1..Len(log) : more[i] = log[i],
           NEW f, Flattens(f, log), NEW g, Flattens(g, more)
    PROVE  \A i \in 1..Len(log) : g[i] = f[i]
<1> DEFINE n   == Len(log)
           bad == {i \in 1..n : g[i] # f[i]}
<1>1. SUFFICES ASSUME bad # {} PROVE FALSE
  OBVIOUS
<1>2. bad \subseteq Nat
  OBVIOUS
<1>3. PICK k \in bad : \A j \in bad : k <= j
  <2> HIDE DEF bad
  <2>1. QED
    BY <1>1, <1>2, LeastNumber
<1>4. k \in 1..n /\ g[k] # f[k] /\ \A j \in 1..n : j < k => g[j] = f[j]
  BY <1>3
<1> HIDE DEF bad
<1>5. \A i \in 1..n : f[i] = IF i = 1 THEN Captures(log[1])
                                      ELSE f[i - 1] \o Captures(log[i])
  BY DEF Flattens
<1>6. \A i \in 1..n : g[i] = IF i = 1 THEN Captures(log[1])
                                      ELSE g[i - 1] \o Captures(log[i])
  <2>1. \A i \in 1..n : i \in 1..Len(more)
    OBVIOUS
  <2>2. \A i \in 1..Len(more) : g[i] = IF i = 1 THEN Captures(more[1])
                                       ELSE g[i - 1] \o Captures(more[i])
    BY DEF Flattens
  <2>3. QED
    BY <2>1, <2>2
<1>7. k = 1 \/ (k - 1 \in 1..n /\ k - 1 < k)
  <2>1. n \in Nat
    OBVIOUS
  <2> HIDE DEF n
  <2>2. QED
    BY <1>4, <2>1
<1> HIDE DEF n
<1>8. QED
  BY <1>4, <1>5, <1>6, <1>7

(* A flattening of a log extends to one observation more.                  *)
LEMMA FlattensMore ==
    ASSUME NEW log \in Seq(Observation), NEW o \in Observation,
           NEW f, Flattens(f, log)
    PROVE  \E g : Flattens(g, Append(log, o))
<1> DEFINE more == Append(log, o)
           n    == Len(log)
           Old(i) == IF i = 1 THEN Captures(log[1]) ELSE f[i - 1] \o Captures(log[i])
           last == IF n = 0 THEN Captures(o) ELSE f[n] \o Captures(o)
           g    == [i \in 1..(n + 1) |-> IF i = n + 1 THEN last ELSE f[i]]
           New(i) == IF i = 1 THEN Captures(more[1]) ELSE g[i - 1] \o Captures(more[i])
<1>1. /\ n \in Nat /\ DOMAIN log = 1..n /\ Len(more) = n + 1
      /\ more[n + 1] = o /\ \A i \in 1..n : more[i] = log[i]
  BY LogGrows
<1>2. f = [i \in 1..n |-> Old(i)]
  BY DEF Flattens
<1>3. \A i \in 1..n : f[i] = Old(i)
  <2> HIDE DEF Old
  <2> QED BY <1>2
<1>4. \A i \in 1..(n + 1) : g[i] = New(i)
  <2> SUFFICES ASSUME NEW i \in 1..(n + 1) PROVE g[i] = New(i)
    OBVIOUS
  <2> HIDE DEF more, n
  <2>1. CASE i = n + 1
    <3>1. g[i] = last
      BY <2>1
    <3>2. n # 0 => i # 1 /\ i - 1 = n /\ n \in 1..(n + 1) /\ n # n + 1
      BY <1>1, <2>1
    <3>3. n = 0 => i = 1
      BY <2>1
    <3>4. QED
      BY <1>1, <2>1, <3>1, <3>2, <3>3
  <2>2. CASE i # n + 1
    <3>1. i \in 1..n
      BY <1>1, <2>2
    <3>2. g[i] = Old(i)
      BY <1>3, <2>2, <3>1
    <3>3. i # 1 => i - 1 \in 1..(n + 1) /\ i - 1 # n + 1
      BY <1>1, <3>1
    <3>4. i # 1 => g[i - 1] = f[i - 1]
      BY <3>3
    <3>5. 1 \in 1..n
      BY <1>1, <3>1
    <3>6. more[1] = log[1] /\ more[i] = log[i]
      BY <1>1, <3>1, <3>5
    <3> HIDE DEF g
    <3>7. QED
      BY <3>2, <3>4, <3>6
  <2>3. QED
    BY <2>1, <2>2
<1>5. g = [i \in 1..(n + 1) |-> New(i)]
  <2> DEFINE entry(i) == IF i = n + 1 THEN last ELSE f[i]
  <2>1. g = [i \in 1..(n + 1) |-> entry(i)]
    OBVIOUS
  <2>2. \A i \in 1..(n + 1) : entry(i) = New(i)
    BY <1>4
  <2> HIDE DEF entry, New
  <2>3. QED
    BY <2>1, <2>2
<1>6. Flattens(g, more)
  <2> HIDE DEF g, more, n
  <2>1. QED
    BY <1>1, <1>5 DEF Flattens
<1>7. QED
  BY <1>6

(* Every log has a flattening, by a shortest log without one.              *)
LEMMA FlattensExist ==
    ASSUME NEW log \in Seq(Observation)
    PROVE  \E f : Flattens(f, log)
<1> DEFINE bad == {n \in Nat : \E l \in Seq(Observation) :
                                 Len(l) = n /\ ~ \E f : Flattens(f, l)}
<1>1. SUFFICES ASSUME bad # {} PROVE FALSE
  BY LenProperties
<1>2. PICK k \in bad : \A j \in bad : k <= j
  <2>1. bad \subseteq Nat
    OBVIOUS
  <2> HIDE DEF bad
  <2>2. QED
    BY <1>1, <2>1, LeastNumber
<1>3. k \in Nat
  OBVIOUS
<1>4. PICK l \in Seq(Observation) : Len(l) = k /\ ~ \E f : Flattens(f, l)
  OBVIOUS
<1>5. CASE l = <<>>
  <2>1. Len(l) = 0
    BY <1>5, EmptySeq
  <2> DEFINE f == [i \in 1..Len(l) |-> Captures(l[i])]
  <2>2. Flattens(f, l)
    BY <2>1 DEF Flattens
  <2>3. QED
    BY <1>4, <2>2
<1>6. CASE l # <<>>
  <2>1. PICK front \in Seq(Observation), o \in Observation : l = Append(front, o)
    BY <1>6, SequenceEmptyOrAppend
  <2>2. Len(front) \in Nat /\ Len(l) = Len(front) + 1
    BY <2>1, LogGrows
  <2>3. Len(front) \notin bad
    BY <1>2, <1>3, <1>4, <2>2
  <2>4. \E f : Flattens(f, front)
    BY <2>2, <2>3
  <2>5. QED
    BY <1>4, <2>1, <2>4, FlattensMore
<1>7. QED
  BY <1>5, <1>6

(* What one observation captures.                                          *)
LEMMA CapturesType ==
    ASSUME NEW o \in Observation
    PROVE  /\ Captures(o) \in Seq(Captured)
           /\ o.kind = "Publish"
                => /\ Len(Captures(o)) = Len(o.messages)
                   /\ \A i \in 1..Len(o.messages) :
                        Captures(o)[i] = [topic |-> o.topic, message |-> o.messages[i]]
           /\ o.kind # "Publish" => Captures(o) = <<>>
<1>1. CASE o.kind = "Publish"
  <2>1. o.topic \in Topics /\ o.messages \in Seq(Messages)
    BY <1>1 DEF Observation
  <2> DEFINE n == Len(o.messages)
             ms == o.messages
  <2>2. n \in Nat /\ DOMAIN ms = 1..n /\ \A i \in 1..n : ms[i] \in Messages
    BY <2>1, LenProperties, ElementOfSeq
  <2>3. Captures(o) = [i \in 1..n |-> [topic |-> o.topic, message |-> ms[i]]]
    BY <1>1, <2>2 DEF Captures
  <2> HIDE DEF n, ms
  <2>4. \A i \in 1..n : [topic |-> o.topic, message |-> ms[i]] \in Captured
    BY <2>1, <2>2 DEF Captured
  <2>5. Captures(o) \in Seq(Captured) /\ Len(Captures(o)) = n
    BY <2>2, <2>3, <2>4, IsASeq, LenProperties
  <2>6. QED
    BY <1>1, <2>3, <2>5 DEF n, ms
<1>2. CASE o.kind # "Publish"
  BY <1>2, EmptySeq DEF Captures
<1>3. QED
  BY <1>1, <1>2

(* Everything captured grows at its end.                                   *)
LEMMA EverythingGrows ==
    ASSUME NEW log \in Seq(Observation), NEW o \in Observation,
           Everything(log) \in Seq(Captured)
    PROVE  /\ Everything(Append(log, o)) = Everything(log) \o Captures(o)
           /\ Everything(Append(log, o)) \in Seq(Captured)
<1> DEFINE more == Append(log, o)
           n    == Len(log)
           f    == CHOOSE h : Flattens(h, log)
           g    == CHOOSE h : Flattens(h, more)
<1>1. /\ n \in Nat /\ DOMAIN log = 1..n /\ Len(more) = n + 1
      /\ more \in Seq(Observation)
      /\ more[n + 1] = o /\ \A i \in 1..n : more[i] = log[i]
  BY LogGrows
<1>2. Flattens(f, log)
  BY FlattensExist
<1>3. Flattens(g, more)
  <2> HIDE DEF more
  <2>1. \E h : Flattens(h, more)
    BY <1>1, FlattensExist
  <2>2. QED
    BY <2>1
<1>4. Everything(more) = g[n + 1] /\ Everything(log) = IF n = 0 THEN <<>> ELSE f[n]
  BY <1>1 DEF Everything
<1> HIDE DEF f, g, more, n
<1>5. /\ n = 0 => g[n + 1] = Captures(o)
      /\ n # 0 => g[n + 1] = g[n] \o Captures(o)
  <2> DEFINE m == n + 1
  <2>1. /\ m \in 1..Len(more) /\ more[m] = o /\ m - 1 = n
        /\ n = 0 => m = 1
        /\ n # 0 => m # 1
    BY <1>1
  <2>2. \A i \in 1..Len(more) : g[i] = IF i = 1 THEN Captures(more[1])
                                       ELSE g[i - 1] \o Captures(more[i])
    BY <1>3 DEF Flattens
  <2> HIDE DEF m
  <2>3. g[m] = IF m = 1 THEN Captures(more[1]) ELSE g[m - 1] \o Captures(more[m])
    BY <2>1, <2>2
  <2>4. (n = 0 => g[m] = Captures(o)) /\ (n # 0 => g[m] = g[n] \o Captures(o))
    BY <2>1, <2>3
  <2>5. QED
    BY <2>4 DEF m
<1>6. Captures(o) \in Seq(Captured)
  BY CapturesType
<1>7. CASE n = 0
  <2>1. Everything(more) = Captures(o) /\ Everything(log) = <<>>
    BY <1>1, <1>4, <1>5, <1>7
  <2>2. <<>> \o Captures(o) = Captures(o)
    BY <1>6, ConcatEmptySeq
  <2>3. QED
    BY <1>6, <2>1, <2>2 DEF more
<1>8. CASE n # 0
  <2>1. n \in 1..n /\ n + 1 # 1 /\ n + 1 - 1 = n
    BY <1>1, <1>8
  <2>2. g[n] = f[n]
    <3>1. \A i \in 1..n : g[i] = f[i]
      BY <1>1, <1>2, <1>3, FlattensAgree DEF n
    <3>2. QED
      BY <2>1, <3>1
  <2>3. Everything(more) = Everything(log) \o Captures(o)
    BY <1>4, <1>5, <1>8, <2>1, <2>2
  <2>4. QED
    BY <1>6, <2>3, ConcatProperties DEF more
<1>9. QED
  BY <1>7, <1>8

(* The ledger's feed is everything captured, numbered from zero.           *)
LEMMA FeedIs ==
    ASSUME NEW log \in Seq(Observation)
    PROVE  Ledger!Feed(log)
             = [i \in DOMAIN Everything(log) |->
                  [seq |-> i - 1, topic |-> Everything(log)[i].topic,
                   message |-> Everything(log)[i].message]]
<1> DEFINE parts == [i \in DOMAIN log |-> Captures(log[i])]
           n == Len(log)
<1>1. Ledger!Feed(log)
        = LET all == Ledger!FlattenSeq(parts)
          IN  [i \in DOMAIN all |-> [seq |-> i - 1, topic |-> all[i].topic,
                                     message |-> all[i].message]]
  BY DEF Ledger!Feed, Captures
<1>2. n \in Nat /\ DOMAIN log = 1..n
  BY LenProperties
<1>3. Len(parts) = n
  BY <1>2, LenProperties, IsASeq
<1>4. Ledger!FlattenSeq(parts) = Everything(log)
  <2> DEFINE Fl(f) == f = [i \in 1..n |-> IF i = 1 THEN parts[i] ELSE f[i - 1] \o parts[i]]
  <2>1. Ledger!FlattenSeq(parts) = IF Len(parts) = 0 THEN parts
                                   ELSE (CHOOSE f : f = [i \in 1..Len(parts) |->
                                            IF i = 1 THEN parts[i] ELSE f[i - 1] \o parts[i]])[Len(parts)]
    BY DEF Ledger!FlattenSeq
  <2>2. Ledger!FlattenSeq(parts) = IF n = 0 THEN parts ELSE (CHOOSE f : Fl(f))[n]
    BY <1>3, <2>1
  <2>3. n = 0 => parts = <<>>
    BY <1>2
  <2>4. ASSUME NEW f PROVE Fl(f) <=> Flattens(f, log)
    <3> DEFINE given(i) == IF i = 1 THEN parts[i] ELSE f[i - 1] \o parts[i]
               summed(i) == IF i = 1 THEN Captures(log[1]) ELSE f[i - 1] \o Captures(log[i])
    <3>1. \A i \in 1..n : given(i) = summed(i)
      BY <1>2
    <3>2. (Fl(f) <=> f = [i \in 1..n |-> given(i)]) /\ (Flattens(f, log) <=> f = [i \in 1..n |-> summed(i)])
      BY DEF Flattens
    <3> HIDE DEF Fl, given, summed, n
    <3>3. [i \in 1..n |-> given(i)] = [i \in 1..n |-> summed(i)]
      BY <3>1
    <3>4. QED
      BY <3>2, <3>3
  <2> HIDE DEF Fl, parts
  <2>5. (CHOOSE f : Fl(f)) = CHOOSE f : Flattens(f, log)
    BY <2>4
  <2>6. QED
    BY <2>2, <2>3, <2>5 DEF Everything
<1> HIDE DEF parts
<1>5. QED
  BY <1>1, <1>4

-----------------------------------------------------------------------------
(* What folding one observation in changes.                                *)

(* What the Publish arm of apply changes, and what it does not.            *)
LEMMA PublishChanges ==
    ASSUME NEW st, IsAppState(st), NEW o \in Observation, o.kind = "Publish",
           NEW now_ \in Nat
    PROVE  LET new == apply(st, o, now_)
               n   == Len(o.messages)
           IN  /\ new.topics = Put(st.topics, o.topic,
                                   CountPublish(topic_mut(st, o.topic), o.peer, n, now_))
               /\ new.subscriptions = st.subscriptions
               /\ new.recent_messages
                    = st.recent_messages \o NewEntries(st, o.topic, o.messages, now_)
               /\ new.next_seq = st.next_seq + n
<1> DEFINE new    == apply(st, o, now_)
           n      == Len(o.messages)
           topics == Put(st.topics, o.topic,
                         CountPublish(topic_mut(st, o.topic), o.peer, n, now_))
           counted == [st EXCEPT !.topics = topics]
<1>1. new = push_recent([st EXCEPT !.topics = Put(@, o.topic,
                CountPublish(topic_mut(st, o.topic), o.peer, n, now_))],
                        o.topic, o.messages, now_)
  BY DEF apply, ApplyPublish
<1>2. new = push_recent(counted, o.topic, o.messages, now_)
  BY <1>1
<1> HIDE DEF topics
<1>3. counted = [topics |-> topics, subscriptions |-> st.subscriptions,
                 recent_messages |-> st.recent_messages,
                 recent_buffer_capacity |-> st.recent_buffer_capacity,
                 next_seq |-> st.next_seq]
  BY DEF IsAppState
<1>4. new = [counted EXCEPT
               !.recent_messages = @ \o NewEntries(counted, o.topic, o.messages, now_),
               !.next_seq = @ + n]
  BY <1>2 DEF push_recent
<1> HIDE DEF counted, new, n
<1>5. NewEntries(counted, o.topic, o.messages, now_)
        = NewEntries(st, o.topic, o.messages, now_)
  BY <1>3 DEF NewEntries
<1>6. /\ new.topics = topics /\ new.subscriptions = st.subscriptions
      /\ new.recent_messages
           = st.recent_messages \o NewEntries(counted, o.topic, o.messages, now_)
      /\ new.next_seq = st.next_seq + n
  BY <1>3, <1>4
<1>7. QED
  BY <1>5, <1>6 DEF new, n, topics

Moving == {"Deliver", "Ack", "ConsumerOpen", "ConsumerClose"}

\* The subscription that a movement or a connection leaves behind.
Touched(sub, o) ==
    CASE o.kind = "Deliver"       -> [sub EXCEPT !.delivered = @ + o.messages]
      [] o.kind = "Ack"           -> [sub EXCEPT !.acked = @ + o.messages]
      [] o.kind = "ConsumerOpen"  -> [sub EXCEPT !.live_consumers = @ + 1]
      [] o.kind = "ConsumerClose" ->
            [sub EXCEPT !.live_consumers = IF @ = 0 THEN 0 ELSE @ - 1]

(* What the arms for movements and connections change.                     *)
LEMMA MovementChanges ==
    ASSUME NEW st, IsAppState(st), NEW o \in Observation, o.kind \in Moving, NEW now_
    PROVE  LET new == apply(st, o, now_)
           IN  /\ new.topics = st.topics
               /\ new.subscriptions
                    = Put(st.subscriptions, o.subscription,
                          Touched(subscription_mut(st, o.subscription), o))
               /\ new.recent_messages = st.recent_messages
               /\ new.next_seq = st.next_seq
<1> DEFINE new == apply(st, o, now_)
           subs == Put(st.subscriptions, o.subscription,
                       Touched(subscription_mut(st, o.subscription), o))
<1>1. new = [st EXCEPT !.subscriptions = subs]
  <2>1. CASE o.kind = "Deliver"
    BY <2>1 DEF apply, ApplyDeliver, SetSubscription, Touched
  <2>2. CASE o.kind = "Ack"
    BY <2>2 DEF apply, ApplyAck, SetSubscription, Touched
  <2>3. CASE o.kind = "ConsumerOpen"
    BY <2>3 DEF apply, ApplyConsumerOpen, SetSubscription, Touched
  <2>4. CASE o.kind = "ConsumerClose"
    BY <2>4 DEF apply, ApplyConsumerClose, SetSubscription, Touched
  <2>5. QED
    BY <2>1, <2>2, <2>3, <2>4 DEF Moving
<1> HIDE DEF new, subs
<1>2. /\ new.topics = st.topics /\ new.subscriptions = subs
      /\ new.recent_messages = st.recent_messages /\ new.next_seq = st.next_seq
  BY <1>1 DEF IsAppState
<1>3. QED
  BY <1>2 DEF new, subs

\* The maps that a listing leaves behind.
ListedTopics(st, o) ==
    [t \in DOMAIN st.topics \cup o.topics |->
       [topic_mut(st, t) EXCEPT !.exists = t \in o.topics]]

ListedSubscriptions(st, o) ==
    [s \in DOMAIN st.subscriptions \cup DOMAIN o.subscriptions |->
       [subscription_mut(st, s) EXCEPT
          !.exists = s \in DOMAIN o.subscriptions,
          !.topic = EntryOr(o.subscriptions, s, @)]]

(* What apply_admin changes.                                               *)
LEMMA ListingChanges ==
    ASSUME NEW st, IsAppState(st), NEW o \in Observation, IsListing(o), NEW now_
    PROVE  LET new == apply(st, o, now_)
           IN  /\ new.topics = ListedTopics(st, o)
               /\ new.subscriptions = ListedSubscriptions(st, o)
               /\ new.recent_messages = st.recent_messages
               /\ new.next_seq = st.next_seq
<1> DEFINE new    == apply(st, o, now_)
           topics == ListedTopics(st, o)
           subs   == ListedSubscriptions(st, o)
<1>1. new = [st EXCEPT !.topics = topics, !.subscriptions = subs]
  BY DEF apply, apply_admin, IsListing, ListedTopics, ListedSubscriptions
<1> HIDE DEF new, topics, subs
<1>2. /\ new.topics = topics /\ new.subscriptions = subs
      /\ new.recent_messages = st.recent_messages /\ new.next_seq = st.next_seq
  BY <1>1 DEF IsAppState
<1>3. QED
  BY <1>2 DEF new, topics, subs

PublishedOf(st, t, key) ==
    EntryOr(topic_mut(st, t).publishers, key, [published |-> 0]).published

(* Counting a Publish adds to one publisher, new or known, and to the      *)
(* total.                                                                  *)
LEMMA CountPublishIs ==
    ASSUME NEW entry, IsTopic(entry), NEW peer, NEW n, NEW now_
    PROVE  LET new == CountPublish(entry, peer, n, now_)
               key == peer_key(peer)
           IN  /\ new.exists = entry.exists
               /\ new.publish_count = entry.publish_count + n
               /\ \A k : EntryOr(new.publishers, k, [published |-> 0]).published
                    = IF k = key
                        THEN EntryOr(entry.publishers, key, [published |-> 0]).published + n
                        ELSE EntryOr(entry.publishers, k, [published |-> 0]).published
<1> DEFINE new == CountPublish(entry, peer, n, now_)
           key == peer_key(peer)
           before == EntryOr(entry.publishers, key,
                             [published |-> 0, last_seen |-> now_]).published
           publishers == Put(entry.publishers, key,
                             [published |-> before + n, last_seen |-> now_])
<1>1. new = [entry EXCEPT !.publish_count = @ + n, !.publishers = publishers]
  BY DEF CountPublish
<1>2. before = EntryOr(entry.publishers, key, [published |-> 0]).published
  BY DEF EntryOr
<1> HIDE DEF before, key
<1>3. \A k : EntryOr(publishers, k, [published |-> 0])
               = IF k = key THEN [published |-> before + n, last_seen |-> now_]
                 ELSE EntryOr(entry.publishers, k, [published |-> 0])
  BY DEF EntryOr, Put
<1> HIDE DEF publishers, new
<1>4. /\ new.exists = entry.exists /\ new.publish_count = entry.publish_count + n
      /\ new.publishers = publishers
  BY <1>1 DEF IsTopic
<1>5. ASSUME NEW k
      PROVE  EntryOr(new.publishers, k, [published |-> 0]).published
                    = IF k = key
                        THEN EntryOr(entry.publishers, key, [published |-> 0]).published + n
                        ELSE EntryOr(entry.publishers, k, [published |-> 0]).published
  <2>1. CASE k = key
    <3>1. EntryOr(publishers, k, [published |-> 0])
            = [published |-> before + n, last_seen |-> now_]
      BY <1>3, <2>1
    <3>2. QED
      BY <1>2, <1>4, <2>1, <3>1
  <2>2. CASE k # key
    <3>1. EntryOr(publishers, k, [published |-> 0])
            = EntryOr(entry.publishers, k, [published |-> 0])
      BY <1>3, <2>2
    <3>2. QED
      BY <1>4, <2>2, <3>1
  <2>3. QED
    BY <2>1, <2>2
<1>6. QED
  BY <1>4, <1>5 DEF new, key

(* What one observation makes of a topic's figures, known or not.          *)
LEMMA TopicsChange ==
    ASSUME NEW st, IsAppState(st), NEW o \in Observation, NEW now_ \in Nat,
           NEW t
    PROVE  LET new == apply(st, o, now_)
           IN  /\ \A key : PublishedOf(new, t, key)
                    = IF Publishes(o, t, key)
                        THEN PublishedOf(st, t, key) + Len(o.messages)
                        ELSE PublishedOf(st, t, key)
               /\ topic_mut(new, t).publish_count
                    = IF o.kind = "Publish" /\ o.topic = t
                        THEN topic_mut(st, t).publish_count + Len(o.messages)
                        ELSE topic_mut(st, t).publish_count
               /\ topic_mut(new, t).exists
                    = IF IsListing(o) THEN t \in o.topics ELSE topic_mut(st, t).exists
<1> DEFINE new == apply(st, o, now_)
           n   == Len(o.messages)
<1>1. CASE o.kind = "Publish"
  <2> DEFINE entry   == topic_mut(st, o.topic)
             counted == CountPublish(entry, o.peer, n, now_)
  <2>1. new.topics = Put(st.topics, o.topic, counted)
    BY <1>1, PublishChanges
  <2>2. topic_mut(new, t) = IF t = o.topic THEN counted ELSE topic_mut(st, t)
    <3> HIDE DEF new, counted
    <3> QED BY <2>1 DEF topic_mut, EntryOr, Put
  <2>3. IsTopic(entry)
    BY TopicMutType
  <2>4. /\ counted.exists = entry.exists
        /\ counted.publish_count = entry.publish_count + n
        /\ \A k : EntryOr(counted.publishers, k, [published |-> 0]).published
             = IF k = peer_key(o.peer)
                 THEN EntryOr(entry.publishers, peer_key(o.peer),
                              [published |-> 0]).published + n
                 ELSE EntryOr(entry.publishers, k, [published |-> 0]).published
    <3> HIDE DEF entry, n
    <3> QED BY <2>3, CountPublishIs
  <2>5. ~IsListing(o)
    BY <1>1 DEF IsListing
  <2> HIDE DEF new, counted, n
  <2>6. CASE t = o.topic
    <3>1. topic_mut(new, t) = counted /\ topic_mut(st, t) = entry
      BY <2>2, <2>6
    <3> HIDE DEF entry
    <3>2. \A key : PublishedOf(new, t, key)
                    = IF Publishes(o, t, key)
                        THEN PublishedOf(st, t, key) + n ELSE PublishedOf(st, t, key)
      BY <1>1, <2>4, <2>6, <3>1 DEF PublishedOf, Publishes
    <3>3. QED
      BY <1>1, <2>4, <2>5, <2>6, <3>1, <3>2 DEF new, n
  <2>7. CASE t # o.topic
    <3>1. topic_mut(new, t) = topic_mut(st, t)
      BY <2>2, <2>7
    <3>2. QED
      BY <2>5, <2>7, <3>1 DEF PublishedOf, Publishes, new, n
  <2>8. QED
    BY <2>6, <2>7
<1>2. CASE o.kind \in Moving
  <2>1. new.topics = st.topics
    BY <1>2, MovementChanges
  <2>2. o.kind # "Publish" /\ ~IsListing(o)
    BY <1>2 DEF Moving, IsListing
  <2> HIDE DEF new, n
  <2>3. topic_mut(new, t) = topic_mut(st, t)
    BY <2>1 DEF topic_mut
  <2>4. QED
    BY <2>2, <2>3 DEF PublishedOf, Publishes, new, n
<1>3. CASE IsListing(o)
  <2>1. new.topics = ListedTopics(st, o)
    BY <1>3, ListingChanges
  <2>2. o.kind # "Publish"
    BY <1>3 DEF IsListing
  <2>3. IsTopic(topic_mut(st, t))
    BY TopicMutType
  <2> HIDE DEF new, n
  <2>4. /\ topic_mut(new, t).exists = (t \in o.topics)
        /\ topic_mut(new, t).publish_count = topic_mut(st, t).publish_count
        /\ topic_mut(new, t).publishers = topic_mut(st, t).publishers
    <3>1. CASE t \in DOMAIN st.topics \cup o.topics
      <4>1. topic_mut(new, t) = [topic_mut(st, t) EXCEPT !.exists = t \in o.topics]
        BY <2>1, <3>1 DEF topic_mut, EntryOr, ListedTopics
      <4> DEFINE old == topic_mut(st, t)
                 now2 == topic_mut(new, t)
      <4> HIDE DEF old, now2
      <4>2. now2 = [old EXCEPT !.exists = t \in o.topics] /\ IsTopic(old)
        BY <2>3, <4>1 DEF old, now2
      <4>3. /\ now2.exists = (t \in o.topics) /\ now2.publish_count = old.publish_count
            /\ now2.publishers = old.publishers
        BY <4>2 DEF IsTopic
      <4>4. QED
        BY <4>3 DEF old, now2
    <3>2. CASE t \notin DOMAIN st.topics \cup o.topics
      <4>1. topic_mut(new, t) = DefaultTopic /\ topic_mut(st, t) = DefaultTopic
        BY <2>1, <3>2 DEF topic_mut, EntryOr, ListedTopics
      <4>2. (t \in o.topics) = FALSE
        BY <3>2
      <4>3. DefaultTopic.exists = FALSE
        BY DEF DefaultTopic
      <4>4. QED
        BY <4>1, <4>2, <4>3, Zenon
    <3>3. QED
      BY <3>1, <3>2
  <2>5. QED
    BY <1>3, <2>2, <2>4 DEF PublishedOf, Publishes, new, n
<1>4. QED
  BY <1>1, <1>2, <1>3 DEF Observation, Moving, IsListing

(* What one observation makes of a subscription's figures, known or not.   *)
LEMMA SubscriptionsChange ==
    ASSUME NEW st, IsAppState(st), NEW o \in Observation, NEW now_ \in Nat, NEW c
    PROVE  LET new == subscription_mut(apply(st, o, now_), c)
               old == subscription_mut(st, c)
           IN  /\ new.delivered = IF Moves(o, "Deliver", c)
                                    THEN old.delivered + o.messages ELSE old.delivered
               /\ new.acked = IF Moves(o, "Ack", c)
                                THEN old.acked + o.messages ELSE old.acked
               /\ new.live_consumers = LiveAfter(old.live_consumers, o, c)
               /\ new.topic = IF IsListing(o) /\ c \in DOMAIN o.subscriptions
                                THEN o.subscriptions[c] ELSE old.topic
               /\ new.exists = IF IsListing(o) THEN c \in DOMAIN o.subscriptions
                                               ELSE old.exists
<1> DEFINE after == apply(st, o, now_)
           new == subscription_mut(after, c)
           old == subscription_mut(st, c)
<1>1. old \in Subscription
  BY SubscriptionMutType
<1>2. old.live_consumers \in Nat
  BY <1>1 DEF Subscription
<1>3. ASSUME ~Connects(o, "ConsumerOpen", c), ~Connects(o, "ConsumerClose", c)
      PROVE  LiveAfter(old.live_consumers, o, c) = old.live_consumers
  BY <1>2, <1>3 DEF LiveAfter, Adds
<1>4. CASE o.kind = "Publish"
  <2>1. after.subscriptions = st.subscriptions
    BY <1>4, PublishChanges
  <2> HIDE DEF after
  <2>2. new = old
    BY <2>1 DEF subscription_mut
  <2>3. /\ ~Connects(o, "ConsumerOpen", c) /\ ~Connects(o, "ConsumerClose", c)
        /\ ~IsListing(o) /\ ~Moves(o, "Deliver", c) /\ ~Moves(o, "Ack", c)
    BY <1>4 DEF Connects, IsListing, Moves
  <2> HIDE DEF new, old
  <2>4. LiveAfter(old.live_consumers, o, c) = old.live_consumers
    BY <1>3, <2>3
  <2>5. QED
    BY <2>2, <2>3, <2>4 DEF new, old, after
<1>5. CASE o.kind \in Moving
  <2> DEFINE sub == subscription_mut(st, o.subscription)
  <2>1. after.subscriptions = Put(st.subscriptions, o.subscription, Touched(sub, o))
    BY <1>5, MovementChanges
  <2> HIDE DEF after, sub
  <2>2. new = IF c = o.subscription THEN Touched(sub, o) ELSE old
    BY <2>1 DEF subscription_mut, EntryOr, Put
  <2>3. ~IsListing(o)
    BY <1>5 DEF Moving, IsListing
  <2> HIDE DEF new
  <2>4. CASE c # o.subscription
    <3>1. /\ ~Connects(o, "ConsumerOpen", c) /\ ~Connects(o, "ConsumerClose", c)
          /\ ~Moves(o, "Deliver", c) /\ ~Moves(o, "Ack", c)
      BY <2>4 DEF Connects, Moves
    <3> HIDE DEF old
    <3>2. LiveAfter(old.live_consumers, o, c) = old.live_consumers
      BY <1>3, <3>1
    <3>3. QED
      BY <2>2, <2>3, <2>4, <3>1, <3>2 DEF new, old, after
  <2>5. CASE c = o.subscription
    <3>1. sub = old /\ new = Touched(old, o)
      BY <2>2, <2>5 DEF sub
    <3> HIDE DEF old
    <3>2. CASE o.kind = "Deliver"
      <4>1. new = [old EXCEPT !.delivered = @ + o.messages]
        BY <3>1, <3>2 DEF Touched
      <4>2. /\ ~Connects(o, "ConsumerOpen", c) /\ ~Connects(o, "ConsumerClose", c)
            /\ Moves(o, "Deliver", c) /\ ~Moves(o, "Ack", c)
        BY <2>5, <3>2 DEF Connects, Moves
      <4>3. LiveAfter(old.live_consumers, o, c) = old.live_consumers
        BY <1>3, <4>2
      <4>4. /\ new.delivered = old.delivered + o.messages /\ new.acked = old.acked
            /\ new.live_consumers = old.live_consumers
            /\ new.topic = old.topic /\ new.exists = old.exists
        BY <1>1, <4>1 DEF Subscription
      <4>5. QED
        BY <2>3, <4>2, <4>3, <4>4 DEF new, old, after
    <3>3. CASE o.kind = "Ack"
      <4>1. new = [old EXCEPT !.acked = @ + o.messages]
        BY <3>1, <3>3 DEF Touched
      <4>2. /\ ~Connects(o, "ConsumerOpen", c) /\ ~Connects(o, "ConsumerClose", c)
            /\ ~Moves(o, "Deliver", c) /\ Moves(o, "Ack", c)
        BY <2>5, <3>3 DEF Connects, Moves
      <4>3. LiveAfter(old.live_consumers, o, c) = old.live_consumers
        BY <1>3, <4>2
      <4>4. /\ new.delivered = old.delivered /\ new.acked = old.acked + o.messages
            /\ new.live_consumers = old.live_consumers
            /\ new.topic = old.topic /\ new.exists = old.exists
        BY <1>1, <4>1 DEF Subscription
      <4>5. QED
        BY <2>3, <4>2, <4>3, <4>4 DEF new, old, after
    <3>4. CASE o.kind = "ConsumerOpen"
      <4>1. new = [old EXCEPT !.live_consumers = @ + 1]
        BY <3>1, <3>4 DEF Touched
      <4>2. /\ Connects(o, "ConsumerOpen", c)
            /\ ~Moves(o, "Deliver", c) /\ ~Moves(o, "Ack", c)
        BY <2>5, <3>4 DEF Connects, Moves
      <4>3. LiveAfter(old.live_consumers, o, c) = old.live_consumers + 1
        BY <1>2, <4>2 DEF LiveAfter, Adds
      <4>4. /\ new.delivered = old.delivered /\ new.acked = old.acked
            /\ new.live_consumers = old.live_consumers + 1
            /\ new.topic = old.topic /\ new.exists = old.exists
        BY <1>1, <4>1 DEF Subscription
      <4>5. QED
        BY <2>3, <4>2, <4>3, <4>4 DEF new, old, after
    <3>5. CASE o.kind = "ConsumerClose"
      <4>1. new = [old EXCEPT !.live_consumers = IF @ = 0 THEN 0 ELSE @ - 1]
        BY <3>1, <3>5 DEF Touched
      <4>2. /\ ~Connects(o, "ConsumerOpen", c) /\ Connects(o, "ConsumerClose", c)
            /\ ~Moves(o, "Deliver", c) /\ ~Moves(o, "Ack", c)
        BY <2>5, <3>5 DEF Connects, Moves
      <4>3. LiveAfter(old.live_consumers, o, c)
              = IF old.live_consumers = 0 THEN 0 ELSE old.live_consumers - 1
        BY <1>2, <4>2 DEF LiveAfter, Adds
      <4>4. /\ new.delivered = old.delivered /\ new.acked = old.acked
            /\ new.live_consumers
                 = IF old.live_consumers = 0 THEN 0 ELSE old.live_consumers - 1
            /\ new.topic = old.topic /\ new.exists = old.exists
        BY <1>1, <4>1 DEF Subscription
      <4>5. QED
        BY <2>3, <4>2, <4>3, <4>4 DEF new, old, after
    <3>6. QED
      BY <1>5, <3>2, <3>3, <3>4, <3>5 DEF Moving
  <2>6. QED
    BY <2>4, <2>5
<1>6. CASE IsListing(o)
  <2>1. after.subscriptions = ListedSubscriptions(st, o)
    BY <1>6, ListingChanges
  <2> HIDE DEF after
  <2>2. /\ ~Connects(o, "ConsumerOpen", c) /\ ~Connects(o, "ConsumerClose", c)
        /\ ~Moves(o, "Deliver", c) /\ ~Moves(o, "Ack", c)
    BY <1>6 DEF Connects, IsListing, Moves
  <2>3. CASE c \in DOMAIN st.subscriptions \cup DOMAIN o.subscriptions
    <3>1. new = [old EXCEPT !.exists = c \in DOMAIN o.subscriptions,
                            !.topic = EntryOr(o.subscriptions, c, @)]
      BY <2>1, <2>3 DEF subscription_mut, EntryOr, ListedSubscriptions
    <3> HIDE DEF new, old
    <3>2. LiveAfter(old.live_consumers, o, c) = old.live_consumers
      BY <1>3, <2>2
    <3>3. /\ new.delivered = old.delivered /\ new.acked = old.acked
          /\ new.live_consumers = old.live_consumers
          /\ new.topic = EntryOr(o.subscriptions, c, old.topic)
          /\ new.exists = (c \in DOMAIN o.subscriptions)
      BY <1>1, <3>1 DEF Subscription
    <3>4. QED
      BY <1>6, <2>2, <3>2, <3>3 DEF new, old, after, EntryOr
  <2>4. CASE c \notin DOMAIN st.subscriptions \cup DOMAIN o.subscriptions
    <3>1. new = DefaultSubscription /\ old = DefaultSubscription
      BY <2>1, <2>4 DEF subscription_mut, EntryOr, ListedSubscriptions
    <3> HIDE DEF new, old
    <3>2. LiveAfter(old.live_consumers, o, c) = old.live_consumers
      BY <1>3, <2>2
    <3>3. (c \in DOMAIN o.subscriptions) = FALSE
      BY <2>4
    <3>4. DefaultSubscription.exists = FALSE
      BY DEF DefaultSubscription
    <3>5. new.exists = (c \in DOMAIN o.subscriptions)
      BY <3>1, <3>3, <3>4, Zenon
    <3>6. QED
      BY <1>6, <2>2, <2>4, <3>1, <3>2, <3>5 DEF new, old, after
  <2>5. QED
    BY <2>3, <2>4
<1>7. QED
  BY <1>4, <1>5, <1>6 DEF Observation, Moving, IsListing

\* The entries of the recent-messages view are the last of everything.
RecentAgrees(st, all) ==
    /\ st.next_seq = Len(all)
    /\ \A i \in 1..Len(st.recent_messages) :
         LET j == st.next_seq - Len(st.recent_messages) + i
         IN  /\ st.recent_messages[i].topic = all[j].topic
             /\ st.recent_messages[i].message = all[j].message

(* The buffer keeps agreeing with the end of everything captured.          *)
LEMMA RecentGrows ==
    ASSUME NEW st, IsAppState(st), Contiguous(st), NEW o \in Observation,
           NEW now_ \in Nat, NEW all \in Seq(Captured), RecentAgrees(st, all)
    PROVE  RecentAgrees(apply(st, o, now_), all \o Captures(o))
<1> DEFINE new  == apply(st, o, now_)
           old  == st.recent_messages
           more == all \o Captures(o)
           a    == Len(all)
           b    == Len(old)
<1>1. /\ old \in Seq(RecentMessage) /\ b \in Nat /\ a \in Nat
      /\ a = st.next_seq /\ b <= a
  BY LenProperties DEF IsAppState, RecentAgrees, Contiguous
<1>2. CASE o.kind = "Publish"
  <2> DEFINE n       == Len(o.messages)
             entries == NewEntries(st, o.topic, o.messages, now_)
  <2>1. o.topic \in Topics /\ o.messages \in Seq(Messages) /\ n \in Nat
    BY <1>2, LenProperties DEF Observation
  <2>2. entries \in Seq(RecentMessage) /\ Len(entries) = n
    BY <2>1, NewEntriesProperties
  <2>3. \A i \in 1..n : entries[i].topic = o.topic /\ entries[i].message = o.messages[i]
    BY DEF NewEntries
  <2>4. /\ Captures(o) \in Seq(Captured) /\ Len(Captures(o)) = n
        /\ \A i \in 1..n : Captures(o)[i] = [topic |-> o.topic, message |-> o.messages[i]]
    BY <1>2, CapturesType
  <2>5. new.recent_messages = old \o entries /\ new.next_seq = st.next_seq + n
    BY <1>2, PublishChanges
  <2> HIDE DEF new, entries, n, old
  <2>6. /\ Len(old \o entries) = b + n
        /\ \A i \in 1..(b + n) : (old \o entries)[i] = IF i <= b THEN old[i] ELSE entries[i - b]
    BY <1>1, <2>2, ConcatProperties
  <2>7. /\ Len(more) = a + n
        /\ \A i \in 1..(a + n) : more[i] = IF i <= a THEN all[i] ELSE Captures(o)[i - a]
    BY <2>4, ConcatProperties
  <2> HIDE DEF more, a, b
  <2>8. ASSUME NEW i \in 1..(b + n)
        PROVE  /\ new.recent_messages[i].topic = more[a - b + i].topic
               /\ new.recent_messages[i].message = more[a - b + i].message
    <3>1. a - b + i \in 1..(a + n)
      BY <1>1, <2>1, SMTT(60)
    <3>2. CASE i <= b
      <4>1. i \in 1..b /\ a - b + i <= a
        BY <1>1, <2>1, <3>2
      <4>2. new.recent_messages[i] = old[i] /\ more[a - b + i] = all[a - b + i]
        BY <2>5, <2>6, <2>7, <3>1, <3>2, <4>1
      <4>3. old[i].topic = all[a - b + i].topic /\ old[i].message = all[a - b + i].message
        BY <1>1, <4>1 DEF RecentAgrees, old, b
      <4>4. QED
        BY <4>2, <4>3
    <3>3. CASE ~(i <= b)
      <4>1. /\ i - b \in 1..n /\ ~(a - b + i <= a) /\ (a - b + i) - a = i - b
        BY <1>1, <2>1, <3>3
      <4>2. new.recent_messages[i] = entries[i - b] /\ more[a - b + i] = Captures(o)[i - b]
        BY <2>5, <2>6, <2>7, <3>1, <3>3, <4>1
      <4>3. Captures(o)[i - b] = [topic |-> o.topic, message |-> o.messages[i - b]]
        BY <2>4, <4>1
      <4>4. entries[i - b].topic = o.topic /\ entries[i - b].message = o.messages[i - b]
        BY <2>3, <4>1
      <4>5. QED
        BY <4>2, <4>3, <4>4
    <3>4. QED
      BY <3>2, <3>3
  <2>9. new.next_seq = a + n /\ Len(new.recent_messages) = b + n /\ (a + n) - (b + n) = a - b
    BY <1>1, <2>1, <2>5, <2>6
  <2>10. RecentAgrees(new, more)
    <3>1. ASSUME NEW i \in 1..Len(new.recent_messages)
          PROVE  LET j == new.next_seq - Len(new.recent_messages) + i
                 IN  /\ new.recent_messages[i].topic = more[j].topic
                     /\ new.recent_messages[i].message = more[j].message
      BY <2>8, <2>9
    <3>2. QED
      BY <2>7, <2>9, <3>1 DEF RecentAgrees
  <2>11. QED
    BY <2>10 DEF new, more
<1>3. CASE o.kind # "Publish"
  <2>1. Captures(o) = <<>>
    BY <1>3, CapturesType
  <2>2. more = all
    BY <2>1, ConcatEmptySeq
  <2>3. new.recent_messages = old /\ new.next_seq = st.next_seq
    <3>1. o.kind \in Moving \/ IsListing(o)
      BY <1>3 DEF Observation, Moving, IsListing
    <3>2. QED
      BY <3>1, MovementChanges, ListingChanges
  <2> HIDE DEF new, more
  <2>4. RecentAgrees(new, all)
    BY <2>3 DEF RecentAgrees
  <2>5. QED
    BY <2>2, <2>4 DEF new, more
<1>4. QED
  BY <1>2, <1>3

-----------------------------------------------------------------------------
(* The task's state is the log, folded.                                    *)

ExistingSubscriptions(st) ==
    {c \in DOMAIN st.subscriptions : st.subscriptions[c].exists}

TopicsFolded(log, st) ==
    \A t \in Topics :
        /\ \A key \in PeerKeys : PublishedOf(st, t, key) = Ledger!Published(log, t, key)
        /\ topic_mut(st, t).publish_count = SumOf(ByKey(log, t), PeerKeys)

SubscriptionsFolded(log, st) ==
    \A c \in Subscriptions :
        /\ subscription_mut(st, c).delivered = Ledger!Moved(log, "Deliver", c)
        /\ subscription_mut(st, c).acked = Ledger!Moved(log, "Ack", c)
        /\ IsLive(log, c, subscription_mut(st, c).live_consumers)
        /\ IsParent(log, c, subscription_mut(st, c).topic)

Folded(log, st) ==
    /\ TopicsFolded(log, st)
    /\ SubscriptionsFolded(log, st)
    /\ LastLists(log, ExistingTopics(st), ExistingSubscriptions(st))
    /\ Everything(log) \in Seq(Captured)
    /\ RecentAgrees(st, Everything(log))

(* What exists, told from the entries that topic_mut and subscription_mut  *)
(* give.                                                                   *)
LEMMA ExistingAre ==
    ASSUME NEW st, IsAppState(st)
    PROVE  /\ ExistingTopics(st) = {t \in Topics : topic_mut(st, t).exists}
           /\ ExistingSubscriptions(st)
                = {c \in Subscriptions : subscription_mut(st, c).exists}
<1>1. DOMAIN st.topics \subseteq Topics /\ DOMAIN st.subscriptions \subseteq Subscriptions
  BY DEF IsAppState, IsMap
<1>2. DefaultTopic.exists = FALSE /\ DefaultSubscription.exists = FALSE
  BY DEF DefaultTopic, DefaultSubscription
<1>3. \A t : topic_mut(st, t) = IF t \in DOMAIN st.topics THEN st.topics[t] ELSE DefaultTopic
  BY DEF topic_mut, EntryOr
<1>4. \A c : subscription_mut(st, c) = IF c \in DOMAIN st.subscriptions
                                         THEN st.subscriptions[c] ELSE DefaultSubscription
  BY DEF subscription_mut, EntryOr
<1>5. ExistingTopics(st) = {t \in Topics : topic_mut(st, t).exists}
  BY <1>1, <1>2, <1>3 DEF ExistingTopics
<1>6. ExistingSubscriptions(st) = {c \in Subscriptions : subscription_mut(st, c).exists}
  BY <1>1, <1>2, <1>4 DEF ExistingSubscriptions
<1>7. QED
  BY <1>5, <1>6

(* The default state is the empty log, folded.                             *)
LEMMA FoldedNothing ==
    ASSUME IsFiniteSet(PeerKeys), NEW st,
           st.topics = EmptyMap, st.subscriptions = EmptyMap,
           st.recent_messages = <<>>, st.next_seq = 0
    PROVE  Folded(<<>>, st)
<1>1. Len(<<>>) = 0 /\ DOMAIN <<>> = {} /\ IsFiniteSet(DOMAIN <<>>) /\ <<>> \in Seq(Captured)
  <2>1. Len(<<>>) = 0 /\ <<>> \in Seq(Captured)
    BY EmptySeq
  <2>2. DOMAIN <<>> = {}
    BY <2>1, LenProperties
  <2>3. QED
    BY <2>1, <2>2, FS_EmptySet
<1>2. \A x : /\ topic_mut(st, x) = DefaultTopic
             /\ subscription_mut(st, x) = DefaultSubscription
  BY DEF topic_mut, subscription_mut, EntryOr, EmptyMap
<1>3. \A t, key : Ledger!Published(<<>>, t, key) = 0
  <2> SUFFICES ASSUME NEW t, NEW key PROVE Ledger!Published(<<>>, t, key) = 0
    OBVIOUS
  <2>1. PublishedAt(<<>>, t, key) = {}
    BY <1>1 DEF PublishedAt
  <2>2. Ledger!Published(<<>>, t, key) = SumOf(Sizes(<<>>), PublishedAt(<<>>, t, key))
    BY <1>1, PublishedIs, Zenon
  <2>3. SumOf(Sizes(<<>>), {}) = 0
    BY SumOfNone, Zenon
  <2>4. QED
    BY <2>1, <2>2, <2>3, Zenon
<1>4. TopicsFolded(<<>>, st)
  <2>1. \A t : SumOf(ByKey(<<>>, t), PeerKeys) = 0
    BY <1>3, SumOfZeros DEF ByKey
  <2>2. \A t, key : PublishedOf(st, t, key) = 0
    BY <1>2 DEF PublishedOf, DefaultTopic, EntryOr, EmptyMap
  <2>3. DefaultTopic.publish_count = 0
    BY DEF DefaultTopic
  <2>4. QED
    BY <1>2, <1>3, <2>1, <2>2, <2>3 DEF TopicsFolded
<1>5. SubscriptionsFolded(<<>>, st)
  <2> SUFFICES ASSUME NEW c \in Subscriptions
               PROVE  /\ Ledger!Moved(<<>>, "Deliver", c) = 0
                      /\ Ledger!Moved(<<>>, "Ack", c) = 0
                      /\ IsLive(<<>>, c, 0)
                      /\ IsParent(<<>>, c, NoTopic)
    BY <1>2 DEF SubscriptionsFolded, DefaultSubscription
  <2>1. \A kind : Ledger!Moved(<<>>, kind, c) = 0
    <3> SUFFICES ASSUME NEW kind PROVE Ledger!Moved(<<>>, kind, c) = 0
      OBVIOUS
    <3>1. MovedAt(<<>>, kind, c) = {}
      BY <1>1 DEF MovedAt
    <3>2. Ledger!Moved(<<>>, kind, c) = SumOf(Amounts(<<>>), MovedAt(<<>>, kind, c))
      BY <1>1, MovedIs, Zenon
    <3>3. SumOf(Amounts(<<>>), {}) = 0
      BY SumOfNone, Zenon
    <3>4. QED
      BY <3>1, <3>2, <3>3, Zenon
  <2>2. IsLive(<<>>, c, 0)
    <3>1. \A kind : ConnectsFrom(<<>>, kind, c, 1) = {}
      BY <1>1 DEF ConnectsFrom
    <3>2. Ledger!Surplus(<<>>, c, 1)
            = Cardinality(ConnectsFrom(<<>>, "ConsumerOpen", c, 1))
                - Cardinality(ConnectsFrom(<<>>, "ConsumerClose", c, 1))
      BY DEF Ledger!Surplus, Ledger!Cardinality, Cardinality, ConnectsFrom, Connects
    <3>3. Ledger!Surplus(<<>>, c, 1) = 0
      <4>1. \A kind : Cardinality(ConnectsFrom(<<>>, kind, c, 1)) = 0
        BY <3>1, FS_EmptySet, Zenon
      <4>2. /\ Cardinality(ConnectsFrom(<<>>, "ConsumerOpen", c, 1)) = 0
            /\ Cardinality(ConnectsFrom(<<>>, "ConsumerClose", c, 1)) = 0
        BY <4>1, Zenon
      <4>3. Ledger!Surplus(<<>>, c, 1) = 0 - 0
        BY <3>2, <4>2, Zenon
      <4>4. QED
        BY <4>3
    <3>4. \A from \in 1..(Len(<<>>) + 1) : from = 1
      BY <1>1
    <3>5. 1 \in 1..(Len(<<>>) + 1)
      BY <1>1
    <3>6. QED
      BY <3>3, <3>4, <3>5 DEF IsLive
  <2>3. IsParent(<<>>, c, NoTopic)
    BY <1>1 DEF IsParent, NamingIn
  <2>4. QED
    BY <2>1, <2>2, <2>3
<1>6. LastLists(<<>>, ExistingTopics(st), ExistingSubscriptions(st))
  BY <1>1 DEF LastLists, ListingsIn, ExistingTopics, ExistingSubscriptions, EmptyMap
<1>7. Everything(<<>>) = <<>>
  BY <1>1 DEF Everything
<1>8. RecentAgrees(st, <<>>)
  BY <1>1 DEF RecentAgrees
<1>9. QED
  BY <1>1, <1>4, <1>5, <1>6, <1>7, <1>8 DEF Folded

(* apply folds one observation more.                                       *)
LEMMA FoldedGrows ==
    ASSUME IsFiniteSet(PeerKeys), NEW log \in Seq(Observation),
           NEW st, IsAppState(st), Contiguous(st), Folded(log, st),
           NEW o \in Observation, NEW now_ \in Nat
    PROVE  Folded(Append(log, o), apply(st, o, now_))
<1> DEFINE more == Append(log, o)
           new  == apply(st, o, now_)
<1>1. IsAppState(new)
  BY ApplyType
<1>2. TopicsFolded(more, new)
  <2> SUFFICES ASSUME NEW t \in Topics
               PROVE  /\ \A key \in PeerKeys :
                           PublishedOf(new, t, key) = Ledger!Published(more, t, key)
                      /\ topic_mut(new, t).publish_count = SumOf(ByKey(more, t), PeerKeys)
    BY DEF TopicsFolded
  <2>1. /\ \A key \in PeerKeys : PublishedOf(st, t, key) = Ledger!Published(log, t, key)
        /\ topic_mut(st, t).publish_count = SumOf(ByKey(log, t), PeerKeys)
    BY DEF Folded, TopicsFolded
  <2>2. /\ \A key : PublishedOf(new, t, key)
                    = IF Publishes(o, t, key)
                        THEN PublishedOf(st, t, key) + Len(o.messages)
                        ELSE PublishedOf(st, t, key)
        /\ topic_mut(new, t).publish_count
                    = IF o.kind = "Publish" /\ o.topic = t
                        THEN topic_mut(st, t).publish_count + Len(o.messages)
                        ELSE topic_mut(st, t).publish_count
    BY TopicsChange
  <2>3. \A key : /\ Ledger!Published(log, t, key) \in Nat
                 /\ Ledger!Published(more, t, key)
                      = Ledger!Published(log, t, key)
                          + (IF Publishes(o, t, key) THEN Len(o.messages) ELSE 0)
    BY PublishedGrows
  <2>4. /\ SumOf(ByKey(log, t), PeerKeys) \in Nat
        /\ SumOf(ByKey(more, t), PeerKeys)
             = SumOf(ByKey(log, t), PeerKeys)
                 + (IF o.kind = "Publish" /\ o.topic = t THEN Len(o.messages) ELSE 0)
    BY TotalGrows
  <2> HIDE DEF new, more
  <2>5. ASSUME NEW key \in PeerKeys
        PROVE  PublishedOf(new, t, key) = Ledger!Published(more, t, key)
    <3>1. PublishedOf(st, t, key) = Ledger!Published(log, t, key)
      BY <2>1
    <3>2. QED
      BY <2>2, <2>3, <3>1
  <2>6. topic_mut(new, t).publish_count = SumOf(ByKey(more, t), PeerKeys)
    BY <2>1, <2>2, <2>4
  <2>7. QED
    BY <2>5, <2>6
<1>3. SubscriptionsFolded(more, new)
  <2> SUFFICES ASSUME NEW c \in Subscriptions
               PROVE  /\ subscription_mut(new, c).delivered = Ledger!Moved(more, "Deliver", c)
                      /\ subscription_mut(new, c).acked = Ledger!Moved(more, "Ack", c)
                      /\ IsLive(more, c, subscription_mut(new, c).live_consumers)
                      /\ IsParent(more, c, subscription_mut(new, c).topic)
    BY DEF SubscriptionsFolded
  <2> DEFINE old == subscription_mut(st, c)
             sub == subscription_mut(new, c)
  <2>1. /\ old.delivered = Ledger!Moved(log, "Deliver", c)
        /\ old.acked = Ledger!Moved(log, "Ack", c)
        /\ IsLive(log, c, old.live_consumers)
        /\ IsParent(log, c, old.topic)
    BY DEF Folded, SubscriptionsFolded
  <2>2. /\ sub.delivered = IF Moves(o, "Deliver", c)
                             THEN old.delivered + o.messages ELSE old.delivered
        /\ sub.acked = IF Moves(o, "Ack", c) THEN old.acked + o.messages ELSE old.acked
        /\ sub.live_consumers = LiveAfter(old.live_consumers, o, c)
        /\ sub.topic = IF IsListing(o) /\ c \in DOMAIN o.subscriptions
                         THEN o.subscriptions[c] ELSE old.topic
    BY SubscriptionsChange
  <2>3. /\ Ledger!Moved(log, "Deliver", c) \in Nat
        /\ Ledger!Moved(more, "Deliver", c)
             = Ledger!Moved(log, "Deliver", c)
                 + (IF Moves(o, "Deliver", c) THEN o.messages ELSE 0)
    BY MovedGrows
  <2>4. /\ Ledger!Moved(log, "Ack", c) \in Nat
        /\ Ledger!Moved(more, "Ack", c)
             = Ledger!Moved(log, "Ack", c) + (IF Moves(o, "Ack", c) THEN o.messages ELSE 0)
    BY MovedGrows
  <2>5. old.live_consumers \in Nat
    BY SubscriptionMutType DEF Subscription
  <2> HIDE DEF old, sub
  <2>6. IsLive(more, c, LiveAfter(old.live_consumers, o, c))
    BY <2>1, <2>5, LiveGrows
  <2>7. IsParent(more, c, IF IsListing(o) /\ c \in DOMAIN o.subscriptions
                            THEN o.subscriptions[c] ELSE old.topic)
    BY <2>1, ParentGrows
  <2> HIDE DEF new, more
  <2>8. sub.delivered = Ledger!Moved(more, "Deliver", c)
    BY <2>1, <2>2, <2>3
  <2>9. sub.acked = Ledger!Moved(more, "Ack", c)
    BY <2>1, <2>2, <2>4
  <2>10. IsLive(more, c, sub.live_consumers) /\ IsParent(more, c, sub.topic)
    BY <2>2, <2>6, <2>7
  <2>11. QED
    BY <2>8, <2>9, <2>10 DEF sub
<1>4. LastLists(more, ExistingTopics(new), ExistingSubscriptions(new))
  <2>1. LastLists(log, ExistingTopics(st), ExistingSubscriptions(st))
    BY DEF Folded
  <2>2. \A t : topic_mut(new, t).exists
                 = IF IsListing(o) THEN t \in o.topics ELSE topic_mut(st, t).exists
    BY TopicsChange
  <2>3. \A c : subscription_mut(new, c).exists
                 = IF IsListing(o) THEN c \in DOMAIN o.subscriptions
                                   ELSE subscription_mut(st, c).exists
    BY SubscriptionsChange
  <2>4. IsListing(o) => o.topics \subseteq Topics /\ DOMAIN o.subscriptions \subseteq Subscriptions
    BY DEF IsListing, Observation, MapOf
  <2> HIDE DEF new
  <2>5. /\ ExistingTopics(new) = {t \in Topics : topic_mut(new, t).exists}
        /\ ExistingSubscriptions(new)
             = {c \in Subscriptions : subscription_mut(new, c).exists}
        /\ ExistingTopics(st) = {t \in Topics : topic_mut(st, t).exists}
        /\ ExistingSubscriptions(st)
             = {c \in Subscriptions : subscription_mut(st, c).exists}
    BY <1>1, ExistingAre
  <2>6. CASE IsListing(o)
    <3>1. ExistingTopics(new) = o.topics /\ ExistingSubscriptions(new) = DOMAIN o.subscriptions
      BY <2>2, <2>3, <2>4, <2>5, <2>6
    <3>2. LastLists(more, o.topics, DOMAIN o.subscriptions)
      BY <2>1, <2>6, ListingsGrow
    <3>3. QED
      BY <3>1, <3>2
  <2>7. CASE ~IsListing(o)
    <3>1. /\ ExistingTopics(new) = ExistingTopics(st)
          /\ ExistingSubscriptions(new) = ExistingSubscriptions(st)
      BY <2>2, <2>3, <2>5, <2>7
    <3>2. LastLists(more, ExistingTopics(st), ExistingSubscriptions(st))
      BY <2>1, <2>7, ListingsGrow
    <3>3. QED
      BY <3>1, <3>2
  <2>8. QED
    BY <2>6, <2>7
<1>5. /\ Everything(more) = Everything(log) \o Captures(o)
      /\ Everything(more) \in Seq(Captured)
  BY EverythingGrows DEF Folded
<1>6. RecentAgrees(new, Everything(log) \o Captures(o))
  BY RecentGrows DEF Folded
<1>7. QED
  <2> HIDE DEF new, more
  <2> QED BY <1>2, <1>3, <1>4, <1>5, <1>6 DEF Folded, new, more

(* Trimming the buffer loses no figure.                                    *)
LEMMA FoldedTrimmed ==
    ASSUME NEW log, NEW st, IsAppState(st), Contiguous(st), Folded(log, st)
    PROVE  Folded(log, trim_recent(st, RecentBuffer))
<1> DEFINE new == trim_recent(st, RecentBuffer)
           b   == Len(st.recent_messages)
           k   == Len(new.recent_messages)
           N   == st.next_seq
           all == Everything(log)
<1>1. RecentBuffer \in Nat
  BY ObserverAssumption
<1>2. new.topics = st.topics /\ new.subscriptions = st.subscriptions
  BY DEF trim_recent, IsAppState
<1>3. /\ IsAppState(new) /\ new.next_seq = N
      /\ k = IF b > RecentBuffer THEN RecentBuffer ELSE b
      /\ \A i \in 1..k : new.recent_messages[i] = st.recent_messages[b - k + i]
  BY <1>1, TrimRecentProperties
<1>4. b \in Nat /\ N \in Nat
  BY LenProperties DEF IsAppState
<1>5. /\ N = Len(all)
      /\ \A i \in 1..b : /\ st.recent_messages[i].topic = all[N - b + i].topic
                         /\ st.recent_messages[i].message = all[N - b + i].message
  BY DEF Folded, RecentAgrees
<1> HIDE DEF new, b, k, N, all
<1>6. ASSUME NEW i \in 1..k
      PROVE  /\ new.recent_messages[i].topic = all[N - k + i].topic
             /\ new.recent_messages[i].message = all[N - k + i].message
  <2>1. b - k + i \in 1..b /\ N - b + (b - k + i) = N - k + i
    BY <1>1, <1>3, <1>4
  <2>2. new.recent_messages[i] = st.recent_messages[b - k + i]
    BY <1>3
  <2>3. /\ st.recent_messages[b - k + i].topic = all[N - b + (b - k + i)].topic
        /\ st.recent_messages[b - k + i].message = all[N - b + (b - k + i)].message
    BY <1>5, <2>1
  <2>4. QED
    BY <2>1, <2>2, <2>3
<1>7. RecentAgrees(new, all)
  BY <1>3, <1>5, <1>6 DEF RecentAgrees, k
<1>8. TopicsFolded(log, new)
  <2>1. TopicsFolded(log, st)
    BY DEF Folded
  <2>2. \A t : topic_mut(new, t) = topic_mut(st, t)
    BY <1>2 DEF topic_mut
  <2>3. QED
    BY <2>1, <2>2 DEF TopicsFolded, PublishedOf
<1>9. SubscriptionsFolded(log, new)
  <2>1. SubscriptionsFolded(log, st)
    BY DEF Folded
  <2>2. \A c : subscription_mut(new, c) = subscription_mut(st, c)
    BY <1>2 DEF subscription_mut
  <2>3. QED
    BY <2>1, <2>2 DEF SubscriptionsFolded
<1>10. LastLists(log, ExistingTopics(new), ExistingSubscriptions(new))
  <2>1. /\ ExistingTopics(new) = ExistingTopics(st)
        /\ ExistingSubscriptions(new) = ExistingSubscriptions(st)
    BY <1>2 DEF ExistingTopics, ExistingSubscriptions
  <2>2. QED
    BY <2>1 DEF Folded
<1>11. all \in Seq(Captured)
  BY DEF Folded, all
<1>12. QED
  BY <1>7, <1>8, <1>9, <1>10, <1>11 DEF Folded, new, all

(* A trimmed buffer is the end of the ledger's feed.                       *)
LEMMA RecentIsNewest ==
    ASSUME NEW log \in Seq(Observation), NEW st, IsAppState(st), Contiguous(st),
           Len(st.recent_messages) = AtMost(RecentBuffer, st.next_seq),
           Everything(log) \in Seq(Captured), RecentAgrees(st, Everything(log))
    PROVE  Ledger!Newest(Ledger!Feed(log))
             = [i \in DOMAIN st.recent_messages |->
                  [seq     |-> st.recent_messages[i].seq,
                   topic   |-> st.recent_messages[i].topic,
                   message |-> st.recent_messages[i].message]]
<1> DEFINE all  == Everything(log)
           feed == Ledger!Feed(log)
           rs   == st.recent_messages
           k    == Len(rs)
           N    == st.next_seq
           D    == RecentBuffer
           Entry(j) == [seq |-> j - 1, topic |-> all[j].topic, message |-> all[j].message]
           Row(i)   == [seq |-> rs[i].seq, topic |-> rs[i].topic, message |-> rs[i].message]
<1>1. /\ D \in Nat /\ N \in Nat /\ k \in Nat /\ DOMAIN rs = 1..k
      /\ k = IF D <= N THEN D ELSE N
  BY ObserverAssumption, LenProperties DEF IsAppState, AtMost
<1>2. N = Len(all) /\ DOMAIN all = 1..N
  BY LenProperties DEF RecentAgrees
<1>3. feed = [j \in 1..N |-> Entry(j)]
  <2>1. feed = [j \in DOMAIN all |-> Entry(j)]
    BY FeedIs
  <2> HIDE DEF feed, Entry, all, N
  <2>2. QED
    BY <1>2, <2>1
<1>4. \A i \in 1..k : rs[i].seq = N - k + i - 1
  BY DEF Contiguous
<1>5. \A i \in 1..k : /\ rs[i].topic = all[N - k + i].topic
                      /\ rs[i].message = all[N - k + i].message
  BY DEF RecentAgrees
<1> HIDE DEF feed, all, k, N, D
<1>6. \A i \in 1..k : Row(i) = Entry(N - k + i)
  <2> SUFFICES ASSUME NEW i \in 1..k PROVE Row(i) = Entry(N - k + i)
    OBVIOUS
  <2>1. /\ rs[i].seq = (N - k + i) - 1 /\ rs[i].topic = all[N - k + i].topic
        /\ rs[i].message = all[N - k + i].message
    BY <1>1, <1>4, <1>5
  <2>2. QED
    BY <2>1
<1>7. Ledger!Newest(feed) = [i \in 1..k |-> feed[N - k + i]]
  <2>1. Len(feed) = N
    <3> HIDE DEF Entry
    <3> QED BY <1>1, <1>3
  <2> DEFINE from == IF N > D THEN N - D + 1 ELSE 1
  <2>2. Ledger!Newest(feed) = SubSeq(feed, from, N)
    BY <2>1 DEF Ledger!Newest, D
  <2>3. from = N - k + 1 /\ from \in Nat
    BY <1>1
  <2> DEFINE S    == {feed[j] : j \in from..N}
             last == SubSeq(feed, from, N)
  <2>4. /\ last \in Seq(S)
        /\ Len(last) = IF from <= N THEN N - from + 1 ELSE 0
        /\ \A i \in 1..(N - from + 1) : last[i] = feed[from + i - 1]
    <3>1. \A i \in from..N : feed[i] \in S
      OBVIOUS
    <3> HIDE DEF S, from
    <3>2. QED
      BY <1>1, <2>3, <3>1, SubSeqProperties
  <2>5. N - from + 1 = k /\ (IF from <= N THEN N - from + 1 ELSE 0) = k
    BY <1>1, <2>3
  <2>6. \A i \in 1..k : from + i - 1 = N - k + i
    BY <1>1, <2>3
  <2> HIDE DEF from, S, last
  <2>7. Len(last) = k /\ \A i \in 1..k : last[i] = feed[N - k + i]
    BY <2>4, <2>5, <2>6
  <2>8. last = [i \in 1..k |-> last[i]]
    BY <2>4, <2>7, LenProperties
  <2>9. QED
    BY <2>2, <2>7, <2>8 DEF last
<1>8. \A i \in 1..k : feed[N - k + i] = Row(i)
  <2> SUFFICES ASSUME NEW i \in 1..k PROVE feed[N - k + i] = Row(i)
    OBVIOUS
  <2>1. N - k + i \in 1..N
    BY <1>1
  <2>2. feed[N - k + i] = Entry(N - k + i)
    <3> HIDE DEF Entry
    <3> QED BY <1>3, <2>1
  <2> HIDE DEF Entry, Row
  <2>3. QED
    BY <1>6, <2>2
<1>9. [i \in 1..k |-> feed[N - k + i]] = [i \in 1..k |-> Row(i)]
  <2> HIDE DEF Row
  <2> QED BY <1>8
<1>10. Ledger!Newest(feed) = [i \in DOMAIN rs |-> Row(i)]
  <2> HIDE DEF Row, rs
  <2> QED BY <1>1, <1>7, <1>9
<1>11. QED
  BY <1>10 DEF feed

(* A state into which the log was folded, and whose buffer was trimmed,    *)
(* shows the log's summary.                                                *)
LEMMA FoldedShows ==
    ASSUME IsFiniteSet(PeerKeys), NEW log \in Seq(Observation),
           NEW st, IsAppState(st), Contiguous(st),
           Len(st.recent_messages) = AtMost(RecentBuffer, st.next_seq),
           Folded(log, st)
    PROVE  View(st) = Ledger!Summary(log)
<1> DEFINE published == [t \in Topics |-> [k \in PeerKeys |-> PublishedOf(st, t, k)]]
           Published_ == [t \in Topics |-> [k \in PeerKeys |-> Ledger!Published(log, t, k)]]
           total     == [t \in Topics |-> topic_mut(st, t).publish_count]
           Total_    == [t \in Topics |->
                           Ledger!MapThenSumSet(LAMBDA k : Ledger!Published(log, t, k), PeerKeys)]
           delivered == [c \in Subscriptions |-> subscription_mut(st, c).delivered]
           Delivered_ == [c \in Subscriptions |-> Ledger!Moved(log, "Deliver", c)]
           acked     == [c \in Subscriptions |-> subscription_mut(st, c).acked]
           Acked_    == [c \in Subscriptions |-> Ledger!Moved(log, "Ack", c)]
           live      == [c \in Subscriptions |-> subscription_mut(st, c).live_consumers]
           Live_     == [c \in Subscriptions |-> Ledger!Live(log, c)]
           parent    == [c \in Subscriptions |-> subscription_mut(st, c).topic]
           Parent_   == [c \in Subscriptions |-> Ledger!Parent(log, c)]
           recent    == [i \in DOMAIN st.recent_messages |->
                           [seq     |-> st.recent_messages[i].seq,
                            topic   |-> st.recent_messages[i].topic,
                            message |-> st.recent_messages[i].message]]
           Recent_   == Ledger!Newest(Ledger!Feed(log))
           topics    == ExistingTopics(st)
           Topics_   == {t \in Topics : Ledger!Exists(log, LAMBDA o : t \in o.topics)}
           subs      == ExistingSubscriptions(st)
           Subs_     == {c \in Subscriptions :
                           Ledger!Exists(log, LAMBDA o : c \in DOMAIN o.subscriptions)}
<1>1. View(st) = [published |-> published, total |-> total, delivered |-> delivered,
                  acked |-> acked, live |-> live, topics |-> topics,
                  subscriptions |-> subs, parent |-> parent, recent |-> recent]
  BY DEF View, PublishedOf, ExistingSubscriptions
<1>2. Ledger!Summary(log)
        = [published |-> Published_, total |-> Total_, delivered |-> Delivered_,
           acked |-> Acked_, live |-> Live_, topics |-> Topics_,
           subscriptions |-> Subs_, parent |-> Parent_, recent |-> Recent_]
  BY DEF Ledger!Summary
<1>3. published = Published_
  BY DEF Folded, TopicsFolded
<1>4. total = Total_
  <2> DEFINE is(t)  == topic_mut(st, t).publish_count
             due(t) == Ledger!MapThenSumSet(LAMBDA k : Ledger!Published(log, t, k), PeerKeys)
  <2>1. \A t \in Topics : is(t) = due(t)
    BY TotalIs DEF Folded, TopicsFolded
  <2> HIDE DEF is, due
  <2>2. [t \in Topics |-> is(t)] = [t \in Topics |-> due(t)]
    BY <2>1
  <2>3. QED
    BY <2>2 DEF is, due
<1>5. delivered = Delivered_ /\ acked = Acked_
  BY DEF Folded, SubscriptionsFolded
<1>6. live = Live_
  <2>1. ASSUME NEW c \in Subscriptions
        PROVE  subscription_mut(st, c).live_consumers = Ledger!Live(log, c)
    <3>1. IsLive(log, c, subscription_mut(st, c).live_consumers)
      BY DEF Folded, SubscriptionsFolded
    <3>2. \A from \in 1..(Len(log) + 1) : Ledger!Surplus(log, c, from) \in Int
      BY SurplusType
    <3>3. QED
      BY <3>1, <3>2, LiveIs
  <2>2. QED
    BY <2>1
<1>7. parent = Parent_
  <2>1. \A c \in Subscriptions : subscription_mut(st, c).topic = Ledger!Parent(log, c)
    BY ParentIs DEF Folded, SubscriptionsFolded
  <2>2. QED
    BY <2>1
<1>8. recent = Recent_
  BY RecentIsNewest DEF Folded
<1>9. topics = Topics_ /\ subs = Subs_
  <2>1. LastLists(log, topics, subs)
    BY DEF Folded
  <2>2. topics \subseteq Topics /\ subs \subseteq Subscriptions
    BY DEF IsAppState, IsMap, ExistingTopics, ExistingSubscriptions
  <2> HIDE DEF topics, subs
  <2>3. QED
    BY <2>1, <2>2, ExistsIs
<1> HIDE DEF published, Published_, total, Total_, delivered, Delivered_, acked, Acked_,
             live, Live_, parent, Parent_, recent, Recent_, topics, Topics_, subs, Subs_
<1>10. QED
  BY <1>1, <1>2, <1>3, <1>4, <1>5, <1>6, <1>7, <1>8, <1>9

-----------------------------------------------------------------------------
(* The display is the summary of a prefix of the ledger.                   *)

(* A prefix stays when something is appended.                              *)
LEMMA PrefixKept ==
    ASSUME NEW S, NEW s \in Seq(S), NEW t \in Seq(S), NEW n \in 0..Len(s)
    PROVE  SubSeq(s \o t, 1, n) = SubSeq(s, 1, n)
<1>1. Len(s) \in Nat /\ Len(t) \in Nat /\ s \o t \in Seq(S)
  BY LenProperties, ConcatProperties
<1>2. CASE n = 0
  <2>1. SubSeq(s, 1, 0) = <<>> /\ SubSeq(s \o t, 1, 0) = <<>>
    BY SubSeqEmpty
  <2>2. QED
    BY <1>2, <2>1
<1>3. CASE n # 0
  <2>1. n \in 1..Len(s) /\ 1 \in 1..Len(s)
    BY <1>1, <1>3
  <2>2. QED
    BY <2>1, SubSeqOfConcat1
<1>4. QED
  BY <1>2, <1>3

(* Moving the head of a queue to the end of what precedes the queue.       *)
LEMMA HeadMoves ==
    ASSUME NEW S, NEW s \in Seq(S), NEW q \in Seq(S), q # <<>>
    PROVE  Append(s, Head(q)) \o Tail(q) = s \o q
<1> DEFINE x    == Head(q)
           rest == Tail(q)
<1>1. x \in S /\ rest \in Seq(S) /\ Len(rest) = Len(q) - 1
      /\ \A i \in 1..Len(rest) : rest[i] = q[i + 1]
  BY HeadTailProperties
<1>2. x = q[1] /\ Len(q) \in Nat /\ Len(s) \in Nat /\ Len(q) # 0
  BY EmptySeq, LenProperties
<1>3. /\ Append(s, x) \in Seq(S) /\ Len(Append(s, x)) = Len(s) + 1
      /\ \A i \in 1..Len(s) : Append(s, x)[i] = s[i]
      /\ Append(s, x)[Len(s) + 1] = x
  BY <1>1, AppendProperties
<1> HIDE DEF x, rest
<1> DEFINE a == Append(s, x)
<1> HIDE DEF a
<1>4. /\ a \o rest \in Seq(S) /\ Len(a \o rest) = Len(a) + Len(rest)
      /\ \A i \in 1..(Len(a) + Len(rest)) :
           (a \o rest)[i] = IF i <= Len(a) THEN a[i] ELSE rest[i - Len(a)]
  BY <1>1, <1>3, ConcatProperties DEF a
<1>5. /\ s \o q \in Seq(S) /\ Len(s \o q) = Len(s) + Len(q)
      /\ \A i \in 1..(Len(s) + Len(q)) :
           (s \o q)[i] = IF i <= Len(s) THEN s[i] ELSE q[i - Len(s)]
  BY ConcatProperties
<1>6. /\ Len(a) = Len(s) + 1 /\ a[Len(s) + 1] = x
      /\ \A i \in 1..Len(s) : a[i] = s[i]
  BY <1>3 DEF a
<1>7. ASSUME NEW i \in 1..(Len(s) + Len(q)) PROVE (a \o rest)[i] = (s \o q)[i]
  <2>1. i \in 1..(Len(a) + Len(rest))
    BY <1>1, <1>2, <1>6
  <2>2. CASE i <= Len(s)
    <3>1. i \in 1..Len(s) /\ i <= Len(a)
      BY <1>2, <1>6, <2>2
    <3>2. QED
      BY <1>4, <1>5, <1>6, <2>1, <2>2, <3>1
  <2>3. CASE i = Len(s) + 1
    <3>1. i <= Len(a) /\ ~(i <= Len(s)) /\ i - Len(s) = 1
      BY <1>2, <1>6, <2>3
    <3>2. (a \o rest)[i] = x
      BY <1>4, <1>6, <2>1, <2>3, <3>1
    <3>3. (s \o q)[i] = q[1]
      BY <1>5, <3>1
    <3>4. QED
      BY <1>2, <3>2, <3>3
  <2>4. CASE i > Len(s) + 1
    <3>1. /\ ~(i <= Len(a)) /\ ~(i <= Len(s))
          /\ i - Len(a) \in 1..Len(rest) /\ (i - Len(a)) + 1 = i - Len(s)
      BY <1>1, <1>2, <1>6, <2>4
    <3>2. (a \o rest)[i] = rest[i - Len(a)]
      BY <1>4, <2>1, <3>1
    <3>3. rest[i - Len(a)] = q[i - Len(s)]
      BY <1>1, <3>1
    <3>4. QED
      BY <1>5, <3>1, <3>2, <3>3
  <2>5. i <= Len(s) \/ i = Len(s) + 1 \/ i > Len(s) + 1
    BY <1>2
  <2>6. QED
    BY <2>2, <2>3, <2>4, <2>5
<1>8. Len(a \o rest) = Len(s) + Len(q)
  BY <1>1, <1>2, <1>4, <1>6
<1>9. a \o rest = s \o q
  BY <1>4, <1>5, <1>7, <1>8, SeqEqual
<1>10. QED
  BY <1>9 DEF a, x, rest

(***************************************************************************)
(* As long as the task runs, what it folded in (handled) and what is still *)
(* queued make up all that was admitted; what is on display was folded in  *)
(* before.                                                                 *)
(***************************************************************************)
LedgerInv ==
    /\ BufferInv
    /\ admitted \in Seq(Observation)
    /\ shown \in 0..Len(admitted)
    /\ pc # "stopped" => receiving
    /\ receiving => \E handled \in Seq(Observation) :
                      /\ admitted = handled \o queue
                      /\ shown <= Len(handled)
                      /\ Folded(handled, state)
    /\ View(snapshot) = Ledger!Summary(SubSeq(admitted, 1, shown))

(* A step of the task with its history is a step of the task.              *)
LEMMA HistoryIsObserver ==
    /\ HistoryInit => Init
    /\ [HistoryNext]_historyVars => [Next]_vars
BY DEF HistoryInit, HistoryNext, HistoryObserve, HistoryRun, HistoryPublish,
       Next, Run, historyVars, vars

(* The invariant holds when the task starts, and the display is that of an *)
(* empty ledger.                                                           *)
LEMMA LedgerInitially ==
    ASSUME IsFiniteSet(Peers), HistoryInit
    PROVE  LedgerInv /\ Ledger!Init
<1>1. IsFiniteSet(PeerKeys)
  BY FS_AddElement DEF PeerKeys
<1>2. Init /\ BufferInv
  BY BufferInitially, HistoryIsObserver
<1>3. /\ state = [DefaultState EXCEPT !.recent_buffer_capacity = RecentBuffer]
      /\ snapshot = DefaultState /\ queue = <<>> /\ receiving = TRUE
      /\ admitted = <<>> /\ shown = 0
  BY <1>2 DEF HistoryInit, Init, SinkInit
<1>4. <<>> \in Seq(Observation) /\ Len(<<>>) = 0 /\ <<>> \o <<>> = <<>>
  BY EmptySeq, ConcatEmptySeq
<1>5. Folded(<<>>, state)
  <2>1. /\ state.topics = EmptyMap /\ state.subscriptions = EmptyMap
        /\ state.recent_messages = <<>> /\ state.next_seq = 0
    BY <1>3 DEF DefaultState
  <2>2. QED
    BY <1>1, <2>1, FoldedNothing
<1>6. Folded(<<>>, snapshot)
  <2>1. /\ snapshot.topics = EmptyMap /\ snapshot.subscriptions = EmptyMap
        /\ snapshot.recent_messages = <<>> /\ snapshot.next_seq = 0
    BY <1>3 DEF DefaultState
  <2>2. QED
    BY <1>1, <2>1, FoldedNothing
<1>7. /\ IsAppState(snapshot) /\ Contiguous(snapshot)
      /\ Len(snapshot.recent_messages) = AtMost(RecentBuffer, snapshot.next_seq)
  BY <1>2 DEF BufferInv, TypeOK, SnapshotHoldsNewest
<1>8. View(snapshot) = Ledger!Summary(<<>>)
  BY <1>1, <1>4, <1>6, <1>7, FoldedShows
<1>9. SubSeq(<<>>, 1, 0) = <<>>
  BY SubSeqEmpty
<1>10. View(snapshot) = Ledger!Summary(SubSeq(admitted, 1, shown))
  BY <1>3, <1>8, <1>9
<1>11. \E handled \in Seq(Observation) :
          /\ admitted = handled \o queue
          /\ shown <= Len(handled)
          /\ Folded(handled, state)
  <2>1. admitted = <<>> \o queue /\ shown <= Len(<<>>)
    BY <1>3, <1>4
  <2>2. QED
    BY <1>4, <1>5, <2>1, Zenon
<1>12. LedgerInv
  BY <1>2, <1>3, <1>4, <1>10, <1>11 DEF LedgerInv
<1>13. Ledger!Init
  BY <1>3, <1>8 DEF Ledger!Init
<1>14. QED
  BY <1>12, <1>13

(* Every step preserves it: admitted observations pass through the queue   *)
(* into the state, and the display only takes over states.                 *)
LEMMA LedgerStep ==
    ASSUME IsFiniteSet(Peers), LedgerInv, [HistoryNext]_historyVars
    PROVE  LedgerInv'
<1>1. IsFiniteSet(PeerKeys)
  BY FS_AddElement DEF PeerKeys
<1>2. BufferInv /\ BufferInv' /\ TypeOK /\ TypeOK'
  BY BufferStep, HistoryIsObserver DEF LedgerInv, BufferInv
<1>3. /\ queue \in Seq(Observation) /\ IsAppState(state) /\ Contiguous(state)
      /\ admitted \in Seq(Observation) /\ Len(admitted) \in Nat
      /\ shown \in 0..Len(admitted)
      /\ View(snapshot) = Ledger!Summary(SubSeq(admitted, 1, shown))
  BY <1>2, LenProperties DEF LedgerInv, BufferInv, TypeOK, SinkTypeOK
<1>4. ASSUME NEW o \in Offered, HistoryObserve(o) PROVE LedgerInv'
  <2>1. o \in Observation
    BY ObserverAssumption
  <2>2. UNCHANGED <<receiving, pc, state, snapshot, shown>>
    BY <1>4 DEF HistoryObserve, Observe, observe, taskVars
  <2>3. CASE Accepts
    <3>1. admitted' = Append(admitted, o) /\ queue' = Append(queue, o) /\ receiving
      BY <1>4, <2>3 DEF HistoryObserve, Observe, observe, Accepts
    <3>2. PICK handled \in Seq(Observation) :
                 /\ admitted = handled \o queue
                 /\ shown <= Len(handled)
                 /\ Folded(handled, state)
      BY <3>1 DEF LedgerInv
    <3>3. <<o>> \in Seq(Observation)
      BY <2>1
    <3>4. admitted' = admitted \o <<o>> /\ queue' = queue \o <<o>>
      BY <1>3, <2>1, <3>1, AppendIsConcat
    <3>5. admitted' = handled \o queue'
      BY <1>3, <3>2, <3>3, <3>4, ConcatAssociative, SMTT(60)
    <3>6. admitted' \in Seq(Observation) /\ shown \in 0..Len(admitted')
      <4>1. admitted' \in Seq(Observation) /\ Len(admitted') = Len(admitted) + 1
        BY <1>3, <2>1, <3>1, AppendProperties
      <4>2. QED
        BY <1>3, <4>1
    <3>7. SubSeq(admitted', 1, shown) = SubSeq(admitted, 1, shown)
      BY <1>3, <3>3, <3>4, PrefixKept
    <3>8. View(snapshot') = Ledger!Summary(SubSeq(admitted', 1, shown'))
      BY <1>3, <2>2, <3>7
    <3>9. QED
      BY <1>2, <2>2, <3>2, <3>5, <3>6, <3>8 DEF LedgerInv
  <2>4. CASE ~Accepts
    <3>1. UNCHANGED <<admitted, queue>>
      BY <1>4, <2>4 DEF HistoryObserve, Observe, observe
    <3>2. QED
      BY <1>2, <2>2, <3>1 DEF LedgerInv
  <2>5. QED
    BY <2>3, <2>4
<1>5. CASE (Tick \/ DropSenders \/ DropReaders \/ TryRecvEmpty) /\ UNCHANGED <<admitted, shown>>
  <2>1. UNCHANGED <<queue, receiving, state, snapshot, admitted, shown>>
    BY <1>5 DEF Tick, DropSenders, DropReaders, TryRecvEmpty, sinkVars, taskVars
  <2>2. pc' # "stopped" => receiving
    BY <1>5 DEF Tick, DropSenders, DropReaders, TryRecvEmpty, taskVars, LedgerInv
  <2>3. QED
    BY <1>2, <2>1, <2>2 DEF LedgerInv
<1>6. CASE RecvNone /\ UNCHANGED <<admitted, shown>>
  BY <1>2, <1>6 DEF LedgerInv, RecvNone, closeReceiver
<1>7. CASE (Recv \/ TryRecv) /\ UNCHANGED <<admitted, shown>>
  <2>1. /\ receiving /\ receiving' /\ queue # <<>> /\ queue' = Tail(queue)
        /\ UNCHANGED snapshot
    BY <1>7 DEF Recv, TryRecv, take
  <2>2. Head(queue) \in Observation /\ Tail(queue) \in Seq(Observation)
    BY <1>3, <2>1, HeadTailProperties
  <2>3. PICK instant \in Nat : state' = apply(state, Head(queue), instant)
    BY <1>2, <1>7 DEF TypeOK, Recv, TryRecv
  <2>4. PICK handled \in Seq(Observation) :
               /\ admitted = handled \o queue
               /\ shown <= Len(handled)
               /\ Folded(handled, state)
    BY <2>1 DEF LedgerInv
  <2> DEFINE more == Append(handled, Head(queue))
  <2>5. Folded(more, state')
    BY <1>1, <1>3, <2>2, <2>3, <2>4, FoldedGrows
  <2>6. admitted' = more \o queue'
    BY <1>3, <1>7, <2>1, <2>4, HeadMoves
  <2>7. more \in Seq(Observation) /\ shown' <= Len(more)
    <3>1. more \in Seq(Observation) /\ Len(more) = Len(handled) + 1
      BY <2>2, AppendProperties
    <3>2. Len(handled) \in Nat
      BY LenProperties
    <3>3. QED
      BY <1>3, <1>7, <2>4, <3>1, <3>2
  <2> HIDE DEF more
  <2>8. \E h \in Seq(Observation) :
          admitted' = h \o queue' /\ shown' <= Len(h) /\ Folded(h, state')
    BY <2>5, <2>6, <2>7
  <2>9. QED
    BY <1>2, <1>3, <1>7, <2>1, <2>8 DEF LedgerInv
<1>8. CASE HistoryPublish
  <2>1. /\ pc = "publish" /\ UNCHANGED admitted
        /\ state' = trim_recent(state, RecentBuffer)
    BY <1>8 DEF HistoryPublish, Publish
  <2>2. receiving
    BY <2>1 DEF LedgerInv
  <2>3. PICK handled \in Seq(Observation) :
               /\ admitted = handled \o queue
               /\ shown <= Len(handled)
               /\ Folded(handled, state)
    BY <2>2 DEF LedgerInv
  <2>4. /\ Len(handled) \in Nat /\ Len(queue) \in Nat
        /\ Len(admitted) = Len(handled) + Len(queue)
    BY <1>3, <2>3, LenProperties, ConcatProperties
  <2>5. Folded(handled, state')
    BY <1>3, <2>1, <2>3, FoldedTrimmed
  <2>6. CASE readers
    <3>1. /\ snapshot' = state' /\ UNCHANGED <<queue, receiving>>
          /\ shown' = Len(admitted) - Len(queue)
      BY <1>8, <2>6 DEF HistoryPublish, Publish, sinkVars
    <3>2. shown' = Len(handled) /\ shown' \in 0..Len(admitted) /\ shown' <= Len(handled)
      BY <2>4, <3>1
    <3>3. SubSeq(admitted, 1, Len(handled)) = handled
      <4>1. Len(handled) \in 0..Len(handled)
        BY <2>4
      <4>2. SubSeq(handled \o queue, 1, Len(handled)) = SubSeq(handled, 1, Len(handled))
        BY <1>3, <4>1, PrefixKept
      <4>3. QED
        BY <2>3, <4>2, SubSeqFull
    <3>4. /\ IsAppState(snapshot') /\ Contiguous(snapshot')
          /\ Len(snapshot'.recent_messages) = AtMost(RecentBuffer, snapshot'.next_seq)
      BY <1>2 DEF BufferInv, TypeOK, SnapshotHoldsNewest
    <3>5. View(snapshot') = Ledger!Summary(handled)
      BY <1>1, <2>5, <3>1, <3>4, FoldedShows
    <3>6. View(snapshot') = Ledger!Summary(SubSeq(admitted', 1, shown'))
      BY <2>1, <3>2, <3>3, <3>5
    <3>7. \E h \in Seq(Observation) :
            admitted' = h \o queue' /\ shown' <= Len(h) /\ Folded(h, state')
      BY <2>1, <2>3, <2>5, <3>1, <3>2
    <3>8. QED
      BY <1>2, <1>3, <2>1, <2>2, <3>1, <3>2, <3>6, <3>7 DEF LedgerInv
  <2>7. CASE ~readers
    <3>1. /\ UNCHANGED <<snapshot, shown>> /\ ~receiving' /\ pc' = "stopped"
      BY <1>8, <2>7 DEF HistoryPublish, Publish, closeReceiver
    <3>2. QED
      BY <1>2, <1>3, <2>1, <3>1 DEF LedgerInv
  <2>8. QED
    BY <2>6, <2>7
<1>9. CASE UNCHANGED historyVars
  BY <1>2, <1>9 DEF LedgerInv, historyVars
<1>10. QED
  BY <1>4, <1>5, <1>6, <1>7, <1>8, <1>9 DEF HistoryNext, HistoryRun

(* Every step accepts an observation, shows a longer prefix, or changes    *)
(* nothing that the ledger sees.                                           *)
LEMMA StepShows ==
    ASSUME LedgerInv, LedgerInv', [HistoryNext]_historyVars
    PROVE  [Ledger!Next]_(Ledger!ledgerVars)
<1>1. ASSUME NEW o \in Offered, HistoryObserve(o)
      PROVE  [Ledger!Next]_(Ledger!ledgerVars)
  <2>1. UNCHANGED <<snapshot, shown>>
    BY <1>1 DEF HistoryObserve, Observe, taskVars
  <2>2. UNCHANGED View(snapshot)
    BY <2>1 DEF View
  <2>3. admitted' = Append(admitted, o) \/ UNCHANGED admitted
    BY <1>1 DEF HistoryObserve
  <2>4. CASE admitted' = Append(admitted, o)
    BY <2>1, <2>2, <2>4 DEF Ledger!Next, Ledger!Accept
  <2>5. CASE UNCHANGED admitted
    BY <2>1, <2>2, <2>5 DEF Ledger!ledgerVars
  <2>6. QED
    BY <2>3, <2>4, <2>5
<1>2. CASE HistoryPublish
  <2>1. UNCHANGED admitted
    BY <1>2 DEF HistoryPublish
  <2>2. /\ View(snapshot) = Ledger!Summary(SubSeq(admitted, 1, shown))
        /\ View(snapshot') = Ledger!Summary(SubSeq(admitted', 1, shown'))
        /\ shown' \in 0..Len(admitted') /\ Len(admitted) \in Nat
    BY LenProperties DEF LedgerInv
  <2>3. CASE shown' = shown
    BY <2>1, <2>2, <2>3 DEF Ledger!ledgerVars
  <2>4. CASE shown' # shown
    <3>1. readers /\ shown' = Len(admitted) - Len(queue) /\ pc = "publish"
      BY <1>2, <2>4 DEF HistoryPublish, Publish
    <3>2. PICK handled \in Seq(Observation) :
                 admitted = handled \o queue /\ shown <= Len(handled)
      BY <3>1 DEF LedgerInv
    <3>3. queue \in Seq(Observation)
      BY DEF LedgerInv, BufferInv, TypeOK, SinkTypeOK
    <3>4. /\ Len(handled) \in Nat /\ Len(queue) \in Nat
          /\ Len(admitted) = Len(handled) + Len(queue)
      BY <3>2, <3>3, LenProperties, ConcatProperties
    <3>5. shown' \in (shown + 1)..Len(admitted)
      <4>1. shown \in Nat /\ shown' \in Nat /\ shown <= shown'
        BY <3>1, <3>2, <3>4 DEF LedgerInv
      <4>2. QED
        BY <2>1, <2>2, <2>4, <4>1
    <3>6. Ledger!Show(shown')
      BY <2>1, <2>2 DEF Ledger!Show
    <3>7. QED
      BY <3>5, <3>6 DEF Ledger!Next
  <2>5. QED
    BY <2>3, <2>4
<1>3. CASE /\ Tick \/ DropSenders \/ DropReaders \/ Recv \/ RecvNone \/ TryRecv \/ TryRecvEmpty
           /\ UNCHANGED <<admitted, shown>>
  <2>1. UNCHANGED snapshot
    BY <1>3 DEF Tick, DropSenders, DropReaders, Recv, RecvNone, TryRecv,
                TryRecvEmpty, taskVars
  <2>2. UNCHANGED View(snapshot)
    BY <2>1 DEF View
  <2>3. QED
    BY <1>3, <2>2 DEF Ledger!ledgerVars
<1>4. CASE UNCHANGED historyVars
  <2>1. UNCHANGED View(snapshot)
    BY <1>4 DEF View, historyVars
  <2>2. QED
    BY <1>4, <2>1 DEF Ledger!ledgerVars, historyVars
<1>5. QED
  BY <1>1, <1>2, <1>3, <1>4 DEF HistoryNext, HistoryRun

(***************************************************************************)
(* Whatever the interleaving of handlers with the task's bursts, and for   *)
(* every amount of traffic, channel capacity and buffer size, every        *)
(* snapshot published is the ledger's summary of a prefix of the accepted  *)
(* observations, computed from scratch: no observation is skipped, counted *)
(* twice or undone by a listing, and a later snapshot accounts for no      *)
(* less.                                                                   *)
(***************************************************************************)
THEOREM DisplayShowsLedger ==
    ASSUME IsFiniteSet(Peers)
    PROVE  HistorySpec => DisplayIsLedger
<1>1. HistoryInit => LedgerInv /\ Ledger!Init
  BY LedgerInitially
<1>2. LedgerInv /\ [HistoryNext]_historyVars
        => LedgerInv' /\ [Ledger!Next]_(Ledger!ledgerVars)
  BY LedgerStep, StepShows
<1>3. QED
  BY <1>1, <1>2, PTL DEF HistorySpec, DisplayIsLedger, Ledger!Spec
=============================================================================
