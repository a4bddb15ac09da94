-------------------------- MODULE ConsumerPipeline --------------------------
(***************************************************************************)
(* Streaming consumers and the observer together.  The consumers are those *)
(* of module Consumer, which StreamingPull implements; every observation   *)
(* they make goes through the one bounded sink into the one state-owning   *)
(* task, so streams contend for the channel's slots and their reports      *)
(* interleave.  Observer's other producers are left out.                   *)
(***************************************************************************)
EXTENDS Consumer, SequencesExt

CONSTANTS Topics, NoTopic, Peers, NoPeer, Messages,
          ChannelCapacity, RecentBuffer,
          MaxReports        \* bound: reports of a stream, its close aside

\* What Observer assumes of its constants.
ASSUME PipelineAssumption ==
    /\ {NoPeer, "unknown"} \cap Peers = {}
    /\ ChannelCapacity \in Nat \ {0}
    /\ NoTopic \notin Topics
    /\ RecentBuffer \in Nat

VARIABLES
    queue, receiving, pc, now, state, snapshot, readers, senders, clock,
    lost        \* how many observations the sink dropped (history)

Obs == INSTANCE Observer WITH Offered <- {}, MaxTime <- 0

observerVars == <<queue, receiving, pc, now, state, snapshot, readers, senders,
                  clock>>

pipelineVars == <<consumerVars, observerVars, lost>>

PipelineInit == Init /\ Obs!Init /\ lost = 0

\* A step of a stream; what it reports goes to the sink in the same step.
Report(c) ==
    /\ ConsumerStep(c)
    /\ phase'[c] = "over" \/ Len(emitted'[c]) <= MaxReports
    /\ IF emitted'[c] = emitted[c]
          THEN UNCHANGED <<observerVars, lost>>
          ELSE /\ Obs!Observe(Last(emitted'[c]))
               /\ lost' = IF Obs!Accepts THEN lost ELSE lost + 1

ObserverStep == Obs!Run /\ UNCHANGED <<consumerVars, lost>>

PipelineNext == (\E c \in Streams : Report(c)) \/ ObserverStep

PipelineSpec == PipelineInit /\ [][PipelineNext]_pipelineVars

-----------------------------------------------------------------------------
\* Streams whose consumer is connected, and what the display says of them.
Connected(s) ==
    {c \in Streams : phase[c] = "open" /\ attached[c] = s}

Stats == INSTANCE Statistics

Displayed(s) == Obs!subscription_mut(snapshot, s).live_consumers

\* Nothing observed is on its way to the display.
Settled == pc = "recv" /\ queue = <<>>

(* Once the observer has caught up, a subscription's live_consumers is the *)
(* number of streams that are still open, and the panel's "Consumers       *)
(* (live)" that of all streams: for every interleaving of the streams'     *)
(* tasks with the observer's bursts, provided that the sink has dropped    *)
(* nothing.                                                                *)
LiveIsConnected ==
    (Settled /\ lost = 0)
        => /\ \A s \in Subscriptions : Displayed(s) = Cardinality(Connected(s))
           /\ Stats!connected_consumers(snapshot)
                = Cardinality(UNION {Connected(s) : s \in Subscriptions})

(* events.rs: "Dropped observations only ever cost a little accuracy in    *)
(* the displayed counters".  Each drop puts the figure out by at most one  *)
(* in either direction: the saturating close never makes it worse.         *)
DriftIsBounded ==
    Settled => \A s \in Subscriptions :
                 /\ Displayed(s) <= Cardinality(Connected(s)) + lost
                 /\ Cardinality(Connected(s)) <= Displayed(s) + lost
=============================================================================
