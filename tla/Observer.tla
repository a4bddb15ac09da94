------------------------------ MODULE Observer ------------------------------
(***************************************************************************)
(* The state-owning task (observe::start and run, src/src/observe/         *)
(* state.rs): it folds observations into its AppState one at a time,       *)
(* coalesces whatever else is already queued, trims the recent-messages    *)
(* buffer once per burst, and publishes a snapshot on a watch channel.     *)
(*                                                                         *)
(* The task runs on a multi-threaded runtime, so a handler may call        *)
(* observe between any two of its steps: each recv, try_recv and the       *)
(* publication is an action of its own.                                    *)
(***************************************************************************)
EXTENDS AppState

CONSTANTS Offered,          \* observations the environment may emit
          RecentBuffer,     \* --recent-buffer
          MaxTime           \* bound: the clock stops here

ASSUME ObserverAssumption ==
    /\ Offered \subseteq Observation
    /\ RecentBuffer \in Nat
    /\ MaxTime \in Nat

VARIABLES
    pc,         \* where run() is: at recv, in the try_recv loop, ...
    now,        \* the instant of the burst being folded
    state,      \* the task's own AppState
    snapshot,   \* the value of the watch channel
    readers,    \* whether some watch::Receiver is alive
    senders,    \* whether some ObservationSink is alive
    clock       \* Instant::now()

taskVars == <<pc, now, state, snapshot>>
vars == <<queue, receiving, pc, now, state, snapshot, readers, senders, clock>>

TypeOK ==
    /\ SinkTypeOK
    /\ pc \in {"recv", "drain", "publish", "stopped"}
    /\ now \in Nat
    /\ IsAppState(state)
    /\ IsAppState(snapshot)
    /\ readers \in BOOLEAN
    /\ senders \in BOOLEAN
    /\ clock \in Nat

(***************************************************************************)
(* start(): the watch channel holds AppState::default() until the first    *)
(* burst, so its recent_buffer_capacity reads 0 although run's state has   *)
(* the configured one.                                                     *)
(***************************************************************************)
Init ==
    /\ SinkInit
    /\ pc = "recv"
    /\ now = 0
    /\ state = [DefaultState EXCEPT !.recent_buffer_capacity = RecentBuffer]
    /\ snapshot = DefaultState
    /\ readers = TRUE
    /\ senders = TRUE
    /\ clock = 0

-----------------------------------------------------------------------------
(* The environment: handlers, the poller, time and the handles' owners.    *)

Observe(o) ==
    /\ senders
    /\ observe(o)
    /\ UNCHANGED <<taskVars, readers, senders, clock>>

Tick ==
    /\ clock < MaxTime
    /\ clock' = clock + 1
    /\ UNCHANGED <<sinkVars, taskVars, readers, senders>>

DropSenders ==
    /\ senders
    /\ senders' = FALSE
    /\ UNCHANGED <<sinkVars, taskVars, readers, clock>>

DropReaders ==
    /\ readers
    /\ readers' = FALSE
    /\ UNCHANGED <<sinkVars, taskVars, senders, clock>>

-----------------------------------------------------------------------------
(* run().                                                                  *)

\* The first observation of a burst fixes `now` for the whole burst.
Recv ==
    /\ pc = "recv"
    /\ take
    /\ now' = clock
    /\ state' = apply(state, Head(queue), clock)
    /\ pc' = "drain"
    /\ UNCHANGED <<snapshot, readers, senders, clock>>

\* recv returns None: every sink is gone and the channel is drained.
RecvNone ==
    /\ pc = "recv"
    /\ queue = <<>>
    /\ ~senders
    /\ closeReceiver
    /\ pc' = "stopped"
    /\ UNCHANGED <<now, state, snapshot, readers, senders, clock>>

TryRecv ==
    /\ pc = "drain"
    /\ take
    /\ state' = apply(state, Head(queue), now)
    /\ UNCHANGED <<pc, now, snapshot, readers, senders, clock>>

\* Mutation of TryRecvEmpty: back to recv without publishing.
DrainWithoutPublishing ==
    /\ pc = "drain"
    /\ queue = <<>>
    /\ pc' = "recv"
    /\ UNCHANGED <<sinkVars, now, state, snapshot, readers, senders, clock>>

TryRecvEmpty ==
    /\ pc = "drain"
    /\ queue = <<>>
    /\ pc' = "publish"
    /\ UNCHANGED <<sinkVars, now, state, snapshot, readers, senders, clock>>

\* Trim, then send; send fails, changing nothing, when no reader is left.
Publish ==
    /\ pc = "publish"
    /\ state' = trim_recent(state, RecentBuffer)
    /\ IF readers
          THEN /\ snapshot' = state'
               /\ pc' = "recv"
               /\ UNCHANGED sinkVars
          ELSE /\ pc' = "stopped"
               /\ closeReceiver
               /\ UNCHANGED snapshot
    /\ UNCHANGED <<now, readers, senders, clock>>

Run == Recv \/ RecvNone \/ TryRecv \/ TryRecvEmpty \/ Publish

Next ==
    \/ \E o \in Offered : Observe(o)
    \/ Tick
    \/ DropSenders
    \/ DropReaders
    \/ Run

Spec == Init /\ [][Next]_vars

(***************************************************************************)
(* The runtime keeps polling a task that can make progress.  Nothing makes *)
(* clients send traffic.                                                   *)
(***************************************************************************)
FairSpec == Spec /\ WF_vars(Run)

-----------------------------------------------------------------------------
(***************************************************************************)
(* Properties that need only the task's own state.                         *)
(***************************************************************************)

(* The recent-messages view holds an unbroken run of sequence numbers that *)
(* ends at the newest message folded in.                                   *)
Contiguous(s) ==
    /\ Len(s.recent_messages) <= s.next_seq
    /\ \A i \in 1..Len(s.recent_messages) :
         s.recent_messages[i].seq
            = s.next_seq - Len(s.recent_messages) + i - 1

AtMost(a, b) == IF a <= b THEN a ELSE b

(* Every published snapshot holds exactly the newest RecentBuffer messages *)
(* observed so far (all of them while there are fewer), without a gap:     *)
(* trim_recent runs once per burst, so a burst of any length, or an        *)
(* eviction mid-list, must not leave fewer or older ones.                  *)
SnapshotHoldsNewest ==
    /\ Contiguous(snapshot)
    /\ Len(snapshot.recent_messages) = AtMost(RecentBuffer, snapshot.next_seq)

(* A sequence number is a stable identity: two consecutive snapshots that  *)
(* both show number n show the same message under it, and numbers never    *)
(* restart.  The UI keys its selection on seq (push_recent, "stable list   *)
(* identity").                                                             *)
SameMessageUnderSeq(s, t) ==
    \A i \in 1..Len(s.recent_messages), j \in 1..Len(t.recent_messages) :
        s.recent_messages[i].seq = t.recent_messages[j].seq
            => s.recent_messages[i] = t.recent_messages[j]

SeqIsIdentity ==
    [][/\ snapshot.next_seq <= snapshot'.next_seq
       /\ SameMessageUnderSeq(snapshot, snapshot')]_snapshot
=============================================================================
