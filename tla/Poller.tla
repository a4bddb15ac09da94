------------------------------- MODULE Poller -------------------------------
(***************************************************************************)
(* The admin poller (src/src/poller.rs).  Once per tick it lists the       *)
(* topics, then the subscriptions, then asks for the parent topic of each  *)
(* subscription in turn, and sends one AdminSnapshot to the sink.  The     *)
(* server's topics and subscriptions change between those requests, every  *)
(* request can fail, and the observer folds the snapshot in later.         *)
(***************************************************************************)
EXTENDS AppState

CONSTANTS MaxChanges,       \* bound: creations and deletions at the server
          MaxFailures       \* bound: failed requests

ASSUME PollerAssumption ==
    /\ MaxChanges \in Nat
    /\ MaxFailures \in Nat

VARIABLES
    topics,         \* the topics the server has
    parents,        \* the parent topic of each subscription the server has
    pollerPc,       \* where the poller is
    listed,         \* the topics this poll has listed
    toAsk,          \* listed subscriptions whose parent is still to be asked
    configured,     \* the parents this poll has been told
    state,          \* the observer's state
    changes,        \* creations and deletions so far
    failures,       \* failed requests so far
    deleted         \* topics deleted at some time (history)

pollVars == <<listed, toAsk, configured>>
serverVars == <<topics, parents, changes, deleted>>
pollerVars == <<queue, receiving, topics, parents, pollerPc, listed, toAsk,
                configured, state, changes, failures, deleted>>

PollerTypeOK ==
    /\ SinkTypeOK
    /\ topics \in SUBSET Topics
    /\ parents \in MapOf(Subscriptions, Topics)
    /\ pollerPc \in {"connect", "tick", "topics", "subscriptions", "config",
                     "emit"}
    /\ listed \in SUBSET Topics
    /\ toAsk \in SUBSET Subscriptions
    /\ configured \in MapOf(Subscriptions, Topics)
    /\ IsAppState(state)
    /\ changes \in 0..MaxChanges
    /\ failures \in 0..MaxFailures

PollerInit ==
    /\ SinkInit
    /\ topics = {}
    /\ parents = EmptyMap
    /\ pollerPc = "connect"
    /\ listed = {}
    /\ toAsk = {}
    /\ configured = EmptyMap
    /\ state = DefaultState
    /\ changes = 0
    /\ failures = 0
    /\ deleted = {}

-----------------------------------------------------------------------------
(* The server, changed by its clients.                                     *)

Change ==
    /\ changes < MaxChanges
    /\ changes' = changes + 1
    /\ UNCHANGED <<sinkVars, pollerPc, pollVars, state, failures>>

CreateTopic(t) ==
    /\ Change
    /\ t \notin topics
    /\ topics' = topics \cup {t}
    /\ UNCHANGED <<parents, deleted>>

\* Its subscriptions stay; each keeps naming it as its parent.
DeleteTopic(t) ==
    /\ Change
    /\ t \in topics
    /\ topics' = topics \ {t}
    /\ deleted' = deleted \cup {t}
    /\ UNCHANGED parents

CreateSubscription(s, t) ==
    /\ Change
    /\ s \notin DOMAIN parents
    /\ t \in topics
    /\ parents' = Put(parents, s, t)
    /\ UNCHANGED <<topics, deleted>>

DeleteSubscription(s) ==
    /\ Change
    /\ s \in DOMAIN parents
    /\ parents' = [x \in DOMAIN parents \ {s} |-> parents[x]]
    /\ UNCHANGED <<topics, deleted>>

-----------------------------------------------------------------------------
(* The poller.                                                             *)

Failing == failures < MaxFailures /\ failures' = failures + 1

\* connect_with_retry: a failure only costs a delay.
Connect ==
    /\ pollerPc = "connect"
    /\ \/ pollerPc' = "tick" /\ UNCHANGED failures
       \/ pollerPc' = "connect" /\ Failing
    /\ UNCHANGED <<sinkVars, serverVars, pollVars, state>>

Tick ==
    /\ pollerPc = "tick"
    /\ pollerPc' = "topics"
    /\ UNCHANGED <<sinkVars, serverVars, pollVars, state, failures>>

GetTopics ==
    /\ pollerPc = "topics"
    /\ listed' = topics
    /\ pollerPc' = "subscriptions"
    /\ UNCHANGED <<sinkVars, serverVars, toAsk, configured, state, failures>>

GetSubscriptions ==
    /\ pollerPc = "subscriptions"
    /\ toAsk' = DOMAIN parents
    /\ configured' = EmptyMap
    /\ pollerPc' = "config"
    /\ UNCHANGED <<sinkVars, serverVars, listed, state, failures>>

\* Mutation of ListingFails: a failed listing counts as an empty one.
FailureIsEmpty ==
    /\ pollerPc = "topics"
    /\ Failing
    /\ listed' = {}
    /\ pollerPc' = "subscriptions"
    /\ UNCHANGED <<sinkVars, serverVars, toAsk, configured, state>>

\* A failed listing abandons the poll: nothing is sent, the next tick tries
\* again.
ListingFails ==
    /\ pollerPc \in {"topics", "subscriptions"}
    /\ Failing
    /\ pollerPc' = "tick"
    /\ UNCHANGED <<sinkVars, serverVars, pollVars, state>>

\* Mutation of GetConfig: a subscription whose config cannot be had is sent
\* with no parent.
OrphanIsSent(s) ==
    /\ pollerPc = "config"
    /\ s \in toAsk
    /\ toAsk' = toAsk \ {s}
    /\ configured' = Put(configured, s,
                         IF s \in DOMAIN parents THEN parents[s] ELSE NoTopic)
    /\ UNCHANGED <<sinkVars, serverVars, pollerPc, listed, state, failures>>

\* A subscription whose config cannot be had, because the request fails or
\* the subscription is gone by now, is left out of the snapshot.
GetConfig(s) ==
    /\ pollerPc = "config"
    /\ s \in toAsk
    /\ toAsk' = toAsk \ {s}
    /\ \/ /\ s \in DOMAIN parents
          /\ configured' = Put(configured, s, parents[s])
          /\ UNCHANGED failures
       \/ /\ s \notin DOMAIN parents
          /\ UNCHANGED <<configured, failures>>
       \/ /\ Failing
          /\ UNCHANGED configured
    /\ UNCHANGED <<sinkVars, serverVars, pollerPc, listed, state>>

Emit ==
    /\ pollerPc = "config"
    /\ toAsk = {}
    /\ observe([kind |-> "AdminSnapshot", topics |-> listed,
                subscriptions |-> configured])
    /\ pollerPc' = "tick"
    /\ UNCHANGED <<serverVars, pollVars, state, failures>>

Poll ==
    \/ Connect \/ Tick \/ GetTopics \/ GetSubscriptions \/ ListingFails
    \/ \E s \in Subscriptions : GetConfig(s)
    \/ Emit

\* The observer folds the next snapshot in (module Observer in the large).
Fold ==
    /\ take
    /\ state' = apply(state, Head(queue), 0)
    /\ UNCHANGED <<serverVars, pollerPc, pollVars, failures>>

PollerNext ==
    \/ \E t \in Topics : CreateTopic(t) \/ DeleteTopic(t)
    \/ \E s \in Subscriptions, t \in Topics : CreateSubscription(s, t)
    \/ \E s \in Subscriptions : DeleteSubscription(s)
    \/ Poll
    \/ Fold

PollerSpec == PollerInit /\ [][PollerNext]_pollerVars

(***************************************************************************)
(* The ticker keeps ticking and requests get an answer or an error; the    *)
(* observer keeps folding.                                                 *)
(***************************************************************************)
FairPollerSpec == PollerSpec /\ WF_pollerVars(Poll) /\ WF_pollerVars(Fold)

-----------------------------------------------------------------------------
(* A topic on display never vanishes from it because a poll failed or      *)
(* raced with changes: only a topic that was deleted at the server does.   *)
NoFalseDisappearance ==
    [][\A t \in ExistingTopics(state) \ ExistingTopics(state') :
          t \in deleted]_state

(* What the display says exists.                                           *)
Reconciled ==
    /\ ExistingTopics(state) = topics
    /\ {s \in DOMAIN state.subscriptions : state.subscriptions[s].exists}
         = DOMAIN parents
    /\ \A s \in DOMAIN parents : state.subscriptions[s].topic = parents[s]

(* Once the server stops changing and requests stop failing, the display   *)
(* comes to agree with the server for good, in spite of polls that mixed   *)
(* two states of the server and of snapshots still queued or dropped.      *)
EventuallyReconciled == <>[]Reconciled
=============================================================================
