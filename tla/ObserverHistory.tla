-------------------------- MODULE ObserverHistory --------------------------
(***************************************************************************)
(* Observer with two history variables, for the properties that relate     *)
(* what is displayed to everything that was ever observed.  The history    *)
(* variables are written only, so the behaviours of the task are exactly   *)
(* Observer's.                                                             *)
(***************************************************************************)
EXTENDS Observer

CONSTANT MaxObservations    \* bound: observations the channel accepts in all

VARIABLES
    admitted,   \* every observation the channel accepted, in order
    shown       \* how many of them the current snapshot accounts for

historyVars == <<queue, receiving, pc, now, state, snapshot, readers, senders,
                 clock, admitted, shown>>

HistoryInit ==
    /\ Init
    /\ admitted = <<>>
    /\ shown = 0

HistoryObserve(o) ==
    /\ Accepts => Len(admitted) < MaxObservations
    /\ Observe(o)
    /\ admitted' = IF Accepts THEN Append(admitted, o) ELSE admitted
    /\ UNCHANGED shown

HistoryPublish ==
    /\ Publish
    /\ shown' = IF readers THEN Len(admitted) - Len(queue) ELSE shown
    /\ UNCHANGED admitted

HistoryRun ==
    \/ HistoryPublish
    \/ /\ Recv \/ RecvNone \/ TryRecv \/ TryRecvEmpty
       /\ UNCHANGED <<admitted, shown>>

HistoryNext ==
    \/ \E o \in Offered : HistoryObserve(o)
    \/ /\ Tick \/ DropSenders \/ DropReaders
       /\ UNCHANGED <<admitted, shown>>
    \/ HistoryRun

HistorySpec == HistoryInit /\ [][HistoryNext]_historyVars

FairHistorySpec == HistorySpec /\ WF_historyVars(HistoryRun)

-----------------------------------------------------------------------------
(* The figures a snapshot puts on display, in the ledger's terms.          *)
View(s) ==
    [published |-> [t \in Topics |-> [k \in PeerKeys |->
                      EntryOr(topic_mut(s, t).publishers, k,
                              [published |-> 0]).published]],
     total     |-> [t \in Topics |-> topic_mut(s, t).publish_count],
     delivered |-> [c \in Subscriptions |-> subscription_mut(s, c).delivered],
     acked     |-> [c \in Subscriptions |-> subscription_mut(s, c).acked],
     live      |-> [c \in Subscriptions |-> subscription_mut(s, c).live_consumers],
     topics    |-> ExistingTopics(s),
     subscriptions |->
         {c \in DOMAIN s.subscriptions : s.subscriptions[c].exists},
     parent    |-> [c \in Subscriptions |-> subscription_mut(s, c).topic],
     recent    |-> [i \in DOMAIN s.recent_messages |->
                      [seq     |-> s.recent_messages[i].seq,
                       topic   |-> s.recent_messages[i].topic,
                       message |-> s.recent_messages[i].message]]]

Ledger == INSTANCE TrafficLedger WITH
            accepted <- admitted, upto <- shown, view <- View(snapshot),
            KeyOf <- peer_key, Depth <- RecentBuffer

(* Whatever the interleaving of handlers with the task's bursts, every     *)
(* snapshot is the summary of a prefix of the accepted observations: no    *)
(* accepted observation is skipped, counted twice, or undone by an admin   *)
(* listing, and a later snapshot never accounts for less.                  *)
DisplayIsLedger == Ledger!Spec

(* An accepted observation is eventually on display, once traffic pauses,  *)
(* unless the task's readers are gone (run's only other way out is a       *)
(* closed and drained channel).                                            *)
EventuallyShown ==
    (shown < Len(admitted)) ~> (shown = Len(admitted) \/ ~readers)
=============================================================================
