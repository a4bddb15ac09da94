---------------------------- MODULE MonitorLink ----------------------------
(***************************************************************************)
(* The network boundary between the monitor and its UIs                    *)
(* (src/src/monitor/server.rs, client.rs): each connection has its own     *)
(* cursor on the observer's watch channel; each UI supervises one          *)
(* connection and feeds a local watch channel from it.  Monitors crash and *)
(* restart empty, connections break or go silently dead, keepalive finds   *)
(* the dead ones, and the UI reconnects after a delay.  A snapshot carries *)
(* the whole buffer of captured messages, and the UI's decoder refuses a   *)
(* snapshot above a limit.                                                 *)
(*                                                                         *)
(* The monitor's process (src/src/bin/pub-sub-monitor.rs) runs the proxy,  *)
(* the poller and the observer as tasks of their own beside the state      *)
(* server, and ends when the state server does.  The proxy's server may    *)
(* end, or fail to start, by itself.                                       *)
(***************************************************************************)
EXTENDS Convert, FiniteSetsExt

CONSTANTS
    UIs,                \* pub-sub-tui processes
    ClockOffset,        \* how far each UI host's clock is from the monitor's
    Observed,           \* observations the monitor may fold in
    RecentBuffer,       \* --recent-buffer
    PayloadSize,        \* the captured bytes of each message
    DecodeLimit,        \* the largest message the UI's client decodes
    InFlight,           \* snapshots a connection holds in transit
    MaxVersions,        \* bound: snapshots published in one life of the monitor
    MaxCrashes,         \* bound: crashes of the monitor
    MaxFaults,          \* bound: connections lost other than by a crash
    MaxTime             \* bound: the clock stops here

ASSUME LinkAssumption ==
    /\ ClockOffset \in [UIs -> Int]
    /\ Observed \subseteq Observation
    /\ RecentBuffer \in Nat
    /\ PayloadSize \in [Messages -> Nat] /\ DecodeLimit \in Nat
    /\ InFlight \in Nat \ {0}
    /\ MaxVersions \in Nat /\ MaxCrashes \in Nat
    /\ MaxFaults \in Nat /\ MaxTime \in Nat

VARIABLES
    up,         \* whether the monitor runs
    crashes,    \* how often it has ended: the number of the current life
    proxying,   \* whether its proxy's server runs
    current,    \* the value of the observer's watch channel
    version,    \* how many values that channel has had in this life
    clock,      \* the monitor host's clock
    faults,     \* connections lost so far
    pc,         \* where each UI's supervisor is
    link,       \* the state of its connection
    cursor,     \* the version its WatchStream yielded last; -1 for none
    wire,       \* snapshots in transit to it
    local,      \* the UI's watch channel of states
    connected,  \* the UI's watch channel of connection status
    open,       \* whether the UI still holds its receivers
    origin      \* where local came from (history)

monitorVars == <<up, crashes, proxying, current, version>>
linkVars == <<queue, receiving, monitorVars, clock, faults, pc, link, cursor,
              wire, local, connected, open, origin>>

UiNow(u) == clock + ClockOffset[u]

NoOrigin == [life |-> 0, version |-> -1, state |-> DefaultState, sent |-> 0,
             received |-> 0]

(***************************************************************************)
(* Whether tonic decodes a snapshot, or the state it is made from: its     *)
(* size is that of the payloads it carries, beside which the rest is small.*)
(***************************************************************************)
Decodable(s) ==
    MapThenSumSet(LAMBDA i : PayloadSize[s.recent_messages[i].message],
                  DOMAIN s.recent_messages) <= DecodeLimit

LinkTypeOK ==
    /\ up \in BOOLEAN
    /\ crashes \in 0..MaxCrashes
    /\ proxying \in BOOLEAN
    /\ IsAppState(current)
    /\ version \in 0..MaxVersions
    /\ clock \in 0..MaxTime
    /\ pc \in [UIs -> {"connect", "subscribe", "pump", "backoff", "stopped"}]
    /\ link \in [UIs -> {"none", "open", "dead", "broken"}]
    /\ cursor \in [UIs -> -1..MaxVersions]
    /\ \A u \in UIs : Len(wire[u]) <= InFlight
    /\ \A u \in UIs : DOMAIN local[u] = DOMAIN DefaultState
    /\ connected \in [UIs -> BOOLEAN]
    /\ open \in [UIs -> BOOLEAN]

\* The sink plays no part here.
LinkInit ==
    /\ SinkInit
    /\ up = TRUE
    /\ crashes = 0
    /\ proxying \in BOOLEAN
    /\ current = DefaultState
    /\ version = 0
    /\ clock = 0
    /\ faults = 0
    /\ pc = [u \in UIs |-> "connect"]
    /\ link = [u \in UIs |-> "none"]
    /\ cursor = [u \in UIs |-> -1]
    /\ wire = [u \in UIs |-> <<>>]
    /\ local = [u \in UIs |-> DefaultState]
    /\ connected = [u \in UIs |-> FALSE]
    /\ open = [u \in UIs |-> TRUE]
    /\ origin = [u \in UIs |-> NoOrigin]

-----------------------------------------------------------------------------
(* The monitor and the network.                                            *)

(***************************************************************************)
(* The observer publishes a new snapshot (module Observer in the large).   *)
(* What it folds in comes from the proxy, or from the poller's listings.   *)
(* The first snapshot is the first to carry the buffer's capacity.         *)
(***************************************************************************)
Update(o) ==
    /\ up
    /\ o.kind # "AdminSnapshot" => proxying
    /\ version < MaxVersions
    /\ current' = trim_recent(
            apply([current EXCEPT !.recent_buffer_capacity = RecentBuffer],
                  o, clock), RecentBuffer)
    /\ version' = version + 1
    /\ UNCHANGED <<sinkVars, up, crashes, proxying, clock, faults, pc, link,
                   cursor, wire, local, connected, open, origin>>

\* Its port is taken, or it fails later: the error is logged, no more.
ProxyStops ==
    /\ up
    /\ proxying
    /\ proxying' = FALSE
    /\ UNCHANGED <<sinkVars, up, crashes, current, version, clock, faults, pc,
                   link, cursor, wire, local, connected, open, origin>>

\* main ends: the state server stopped, Ctrl-C, or a crash.  Each connection
\* is reset, or just goes quiet when the host vanishes.
Crash ==
    /\ up
    /\ crashes < MaxCrashes
    /\ up' = FALSE
    /\ crashes' = crashes + 1
    /\ proxying' = FALSE
    /\ \E how \in {"dead", "broken"} :
         link' = [u \in UIs |-> IF link[u] = "open" THEN how ELSE link[u]]
    /\ UNCHANGED <<sinkVars, current, version, clock, faults, pc, cursor, wire,
                   local, connected, open, origin>>

\* main, with an empty observer.
Restart ==
    /\ ~up
    /\ up' = TRUE
    /\ proxying' \in BOOLEAN
    /\ current' = DefaultState
    /\ version' = 0
    /\ UNCHANGED <<sinkVars, crashes, clock, faults, pc, link, cursor, wire,
                   local, connected, open, origin>>

Lose(u) ==
    /\ link[u] = "open"
    /\ faults < MaxFaults
    /\ faults' = faults + 1
    /\ \E how \in {"dead", "broken"} : link' = [link EXCEPT ![u] = how]
    /\ UNCHANGED <<sinkVars, monitorVars, clock, pc, cursor, wire, local,
                   connected, open, origin>>

Tick ==
    /\ clock < MaxTime
    /\ clock' = clock + 1
    /\ UNCHANGED <<sinkVars, monitorVars, faults, pc, link, cursor, wire, local,
                   connected, open, origin>>

\* Mutation of ServerSend: nothing holds the server back.
SendWithoutFlowControl(u) ==
    /\ up
    /\ pc[u] = "pump"
    /\ link[u] = "open"
    /\ wire' = [wire EXCEPT ![u] = Append(@,
            [life |-> crashes, version |-> version, state |-> current,
             sent |-> clock, snapshot |-> to_wire(current, clock)])]
    /\ cursor' = [cursor EXCEPT ![u] = version]
    /\ UNCHANGED <<sinkVars, monitorVars, clock, faults, pc, link, local,
                   connected, open, origin>>

(***************************************************************************)
(* WatchStream: the current value at once, then the newest value whenever  *)
(* it has changed since; values in between are skipped.                    *)
(***************************************************************************)
ServerSend(u) ==
    /\ up
    /\ pc[u] = "pump"
    /\ link[u] = "open"
    /\ cursor[u] # version
    /\ Len(wire[u]) < InFlight
    /\ wire' = [wire EXCEPT ![u] = Append(@,
            [life |-> crashes, version |-> version, state |-> current,
             sent |-> clock, snapshot |-> to_wire(current, clock)])]
    /\ cursor' = [cursor EXCEPT ![u] = version]
    /\ UNCHANGED <<sinkVars, monitorVars, clock, faults, pc, link, local,
                   connected, open, origin>>

-----------------------------------------------------------------------------
(* The UI's supervisor.                                                    *)

\* stream_once returned: the status falls, and the task ends or backs off.
EndOfConnection(u) ==
    /\ link' = [link EXCEPT ![u] = "none"]
    /\ wire' = [wire EXCEPT ![u] = <<>>]
    /\ cursor' = [cursor EXCEPT ![u] = -1]
    /\ connected' = [connected EXCEPT ![u] = FALSE]
    /\ pc' = [pc EXCEPT ![u] = IF open[u] THEN "backoff" ELSE "stopped"]
    /\ UNCHANGED <<sinkVars, monitorVars, clock, faults, open>>

\* The status rises once the connection is up, before the call is made.
\* (A UI's host has booted before its UI runs.)
Connect(u) ==
    /\ pc[u] = "connect"
    /\ UiNow(u) >= EarliestInstant
    /\ up
    /\ link' = [link EXCEPT ![u] = "open"]
    /\ connected' = [connected EXCEPT ![u] = TRUE]
    /\ pc' = [pc EXCEPT ![u] = "subscribe"]
    /\ UNCHANGED <<sinkVars, monitorVars, clock, faults, cursor, wire, local,
                   open, origin>>

ConnectFails(u) ==
    /\ pc[u] = "connect"
    /\ ~up
    /\ EndOfConnection(u)
    /\ UNCHANGED <<local, origin>>

\* Mutation of Subscribe: WatchStream::from_changes, without the current value.
SubscribeToChanges(u) ==
    /\ pc[u] = "subscribe"
    /\ link[u] = "open"
    /\ cursor' = [cursor EXCEPT ![u] = version]
    /\ pc' = [pc EXCEPT ![u] = "pump"]
    /\ UNCHANGED <<sinkVars, monitorVars, clock, faults, link, wire, local,
                   connected, open, origin>>

\* stream_state: a fresh WatchStream for this connection.
Subscribe(u) ==
    /\ pc[u] = "subscribe"
    /\ link[u] = "open"
    /\ cursor' = [cursor EXCEPT ![u] = -1]
    /\ pc' = [pc EXCEPT ![u] = "pump"]
    /\ UNCHANGED <<sinkVars, monitorVars, clock, faults, link, wire, local,
                   connected, open, origin>>

\* Mutation of Receive: the newest frame first, the older ones after it.
ReceiveNewestFirst(u) ==
    /\ pc[u] = "pump"
    /\ wire[u] # <<>>
    /\ Decodable(Head(wire[u]).snapshot)
    /\ open[u]
    /\ LET frame == wire[u][Len(wire[u])]
       IN  /\ local' = [local EXCEPT ![u] = from_wire(frame.snapshot, UiNow(u))]
           /\ origin' = [origin EXCEPT ![u] =
                [life |-> frame.life, version |-> frame.version,
                 state |-> frame.state, sent |-> frame.sent,
                 received |-> clock]]
    /\ wire' = [wire EXCEPT ![u] = SubSeq(@, 1, Len(@) - 1)]
    /\ UNCHANGED <<sinkVars, monitorVars, clock, faults, pc, link, cursor,
                   connected, open>>

Receive(u) ==
    /\ pc[u] = "pump"
    /\ wire[u] # <<>>
    /\ Decodable(Head(wire[u]).snapshot)
    /\ open[u]
    /\ LET frame == Head(wire[u])
       IN  /\ local' = [local EXCEPT ![u] = from_wire(frame.snapshot, UiNow(u))]
           /\ origin' = [origin EXCEPT ![u] =
                [life |-> frame.life, version |-> frame.version,
                 state |-> frame.state, sent |-> frame.sent,
                 received |-> clock]]
    /\ wire' = [wire EXCEPT ![u] = Tail(@)]
    /\ UNCHANGED <<sinkVars, monitorVars, clock, faults, pc, link, cursor,
                   connected, open>>

\* tx.send fails: the UI is gone.
ReceiveUnwanted(u) ==
    /\ pc[u] = "pump"
    /\ wire[u] # <<>>
    /\ Decodable(Head(wire[u]).snapshot)
    /\ ~open[u]
    /\ EndOfConnection(u)
    /\ UNCHANGED <<local, origin>>

\* message() fails on a frame above the client's limit, and its error ends a
\* connection that has nothing wrong with it.
ReceiveTooLarge(u) ==
    /\ pc[u] = "pump"
    /\ wire[u] # <<>>
    /\ ~Decodable(Head(wire[u]).snapshot)
    /\ EndOfConnection(u)
    /\ UNCHANGED <<local, origin>>

\* Mutation of KeepAlive: no pings on a connection whose stream is idle.
NoPingWhileIdle(u) ==
    /\ link[u] = "dead"
    /\ pc[u] # "pump"
    /\ link' = [link EXCEPT ![u] = "broken"]
    /\ UNCHANGED <<sinkVars, monitorVars, clock, faults, pc, cursor, wire,
                   local, connected, open, origin>>

\* An HTTP/2 ping goes unanswered.
KeepAlive(u) ==
    /\ link[u] = "dead"
    /\ link' = [link EXCEPT ![u] = "broken"]
    /\ UNCHANGED <<sinkVars, monitorVars, clock, faults, pc, cursor, wire,
                   local, connected, open, origin>>

\* The call or the stream reports that the connection is gone; what was in
\* transit is lost.  (The stream's other error is ReceiveTooLarge.)
Disconnect(u) ==
    /\ pc[u] \in {"subscribe", "pump"}
    /\ link[u] = "broken"
    /\ EndOfConnection(u)
    /\ UNCHANGED <<local, origin>>

Reconnect(u) ==
    /\ pc[u] = "backoff"
    /\ pc' = [pc EXCEPT ![u] = "connect"]
    /\ UNCHANGED <<sinkVars, monitorVars, clock, faults, link, cursor, wire,
                   local, connected, open, origin>>

CloseUI(u) ==
    /\ open[u]
    /\ open' = [open EXCEPT ![u] = FALSE]
    /\ UNCHANGED <<sinkVars, monitorVars, clock, faults, pc, link, cursor, wire,
                   local, connected, origin>>

Supervise(u) ==
    \/ Connect(u) \/ ConnectFails(u) \/ Subscribe(u) \/ Receive(u)
    \/ ReceiveUnwanted(u) \/ ReceiveTooLarge(u) \/ Disconnect(u)
    \/ Reconnect(u)

LinkNext ==
    \/ \E o \in Observed : Update(o)
    \/ ProxyStops \/ Crash \/ Restart \/ Tick
    \/ \E u \in UIs :
         \/ Lose(u) \/ ServerSend(u) \/ KeepAlive(u) \/ CloseUI(u)
         \/ Supervise(u)

LinkSpec == LinkInit /\ [][LinkNext]_linkVars

(***************************************************************************)
(* Fairness: time passes, both runtimes run their tasks, the timers of     *)
(* keepalive and back-off fire.  Nothing makes a crashed monitor restart.  *)
(***************************************************************************)
FairLinkSpec ==
    /\ LinkSpec
    /\ WF_linkVars(Tick)
    /\ \A u \in UIs : /\ WF_linkVars(ServerSend(u))
                      /\ WF_linkVars(KeepAlive(u))
                      /\ WF_linkVars(Supervise(u))

-----------------------------------------------------------------------------
(***************************************************************************)
(* When a UI, by its own clock, is to take something for last seen that    *)
(* the monitor saw at the given instant: the true age less the time that   *)
(* the snapshot was under way, whatever the difference of the clocks       *)
(* (architecture.md: "with only the sub-second stream latency as skew").   *)
(* An instant that the UI's host cannot express becomes that of receipt.   *)
(***************************************************************************)
ShownInstant(u, seen) ==
    LET g    == origin[u]
        then == seen + ClockOffset[u] + (g.received - g.sent)
    IN  IF then >= EarliestInstant THEN then ELSE g.received + ClockOffset[u]

ShownPublisher(u, p) == [p EXCEPT !.last_seen = ShownInstant(u, @)]

ShownTopic(u, topic) ==
    [topic EXCEPT !.publishers =
        [p \in DOMAIN @ |-> ShownPublisher(u, @[p])]]

ShownMessage(u, m) == [m EXCEPT !.seen = ShownInstant(u, @)]

(* What a UI holds is, in every field, what the monitor published: the     *)
(* topics with their existence, counts and publishers, the subscriptions,  *)
(* the captured messages in order, the capacity.  Only instants differ, as *)
(* above, and next_seq, which does not travel.                             *)
LocalMirrors ==
    \A u \in UIs :
        LET original == origin[u].state
        IN  local[u] =
              [original EXCEPT
                 !.topics = [t \in DOMAIN @ |-> ShownTopic(u, @[t])],
                 !.recent_messages =
                     [i \in DOMAIN @ |-> ShownMessage(u, @[i])],
                 !.next_seq = 0]

(* Across lost connections, reconnections and skipped snapshots, a UI      *)
(* never goes back to an older snapshot of the same life of the monitor,   *)
(* nor to an earlier life.                                                 *)
NeverBackwards ==
    [][\A u \in UIs :
          \/ origin[u].life < origin'[u].life
          \/ /\ origin[u].life = origin'[u].life
             /\ origin[u].version <= origin'[u].version]_origin

(* "Whether the supervised connection to the monitor is currently up": a   *)
(* lost connection, even a silently dead one, is eventually reported.      *)
LossIsReported ==
    \A u \in UIs : (link[u] \in {"dead", "broken"}) ~> ~connected[u]

Synced(u) ==
    connected[u] /\ origin[u].life = crashes /\ origin[u].version = version

(* A UI that is watched comes to show the monitor's latest snapshot, if    *)
(* the monitor stays up, connections stop being lost and the snapshot is   *)
(* within the client's limit: even when the UI was started before the      *)
(* monitor, the monitor was restarted meanwhile, or snapshots in between   *)
(* were too large.                                                         *)
EventuallySynced ==
    \A u \in UIs : <>[](up /\ open[u] /\ Decodable(current)) => <>[]Synced(u)

(* The same whatever the size of the snapshot (server.rs: "each connecting *)
(* UI gets the current snapshot immediately, then a fresh snapshot every   *)
(* time the observed state changes").  It does not hold: the client keeps  *)
(* tonic's default limit, and a buffer of the default size may exceed it.  *)
SyncedWhateverTheSize ==
    \A u \in UIs : <>[](up /\ open[u]) => <>[]Synced(u)
=============================================================================
