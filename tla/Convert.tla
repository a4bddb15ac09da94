------------------------------ MODULE Convert ------------------------------
(***************************************************************************)
(* The wire form of a snapshot (src/src/monitor/convert.rs).  Instants do  *)
(* not survive the trip between hosts, so they travel as ages and are      *)
(* rebuilt against the receiver's clock.  next_seq does not travel.        *)
(***************************************************************************)
EXTENDS AppState, Integers

CONSTANT EarliestInstant    \* the first instant the receiving host can express

ASSUME ConvertAssumption == EarliestInstant \in Int

Age(now, instant) == IF now >= instant THEN now - instant ELSE 0

\* Mutation of Rebuilt: everything was last seen when it was received.
SeenOnReceipt(now, age) == now

\* checked_sub(age).unwrap_or(now)
Rebuilt(now, age) == IF now - age >= EarliestInstant THEN now - age ELSE now

topic_to_wire(topic, now) ==
    [exists |-> topic.exists, publish_count |-> topic.publish_count,
     publishers |->
        [p \in DOMAIN topic.publishers |->
            [published |-> topic.publishers[p].published,
             millis_since_last_seen |-> Age(now, topic.publishers[p].last_seen)]]]

topic_from_wire(topic, now) ==
    [exists |-> topic.exists, publish_count |-> topic.publish_count,
     publishers |->
        [p \in DOMAIN topic.publishers |->
            [published |-> topic.publishers[p].published,
             last_seen |->
                Rebuilt(now, topic.publishers[p].millis_since_last_seen)]]]

message_to_wire(m, now) ==
    [seq |-> m.seq, topic |-> m.topic, message |-> m.message,
     millis_since_seen |-> Age(now, m.seen)]

message_from_wire(m, now) ==
    [seq |-> m.seq, topic |-> m.topic, message |-> m.message,
     seen |-> Rebuilt(now, m.millis_since_seen)]

to_wire(state, now) ==
    [topics |-> [t \in DOMAIN state.topics |->
                    topic_to_wire(state.topics[t], now)],
     subscriptions |-> state.subscriptions,
     recent_messages |-> [i \in DOMAIN state.recent_messages |->
                            message_to_wire(state.recent_messages[i], now)],
     recent_buffer_capacity |-> state.recent_buffer_capacity]

from_wire(wire, now) ==
    [topics |-> [t \in DOMAIN wire.topics |->
                    topic_from_wire(wire.topics[t], now)],
     subscriptions |-> wire.subscriptions,
     recent_messages |-> [i \in DOMAIN wire.recent_messages |->
                            message_from_wire(wire.recent_messages[i], now)],
     recent_buffer_capacity |-> wire.recent_buffer_capacity,
     next_seq |-> 0]
=============================================================================
