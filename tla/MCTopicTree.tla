---------------------------- MODULE MCTopicTree ----------------------------
(***************************************************************************)
(* Topics a, a.a.b and a.b of one project and a.b of another: a is a group *)
(* before it is a topic, a.a a group in a group of the same segment.       *)
(***************************************************************************)
EXTENDS TopicTree

CONSTANTS a, aab, ab, ab2, s1, p1, m1

Path == [t \in Topics |-> CASE t = a   -> <<1>>
                            [] t = aab -> <<1, 1, 2>>
                            [] OTHER   -> <<1, 2>>]

Owner == [t \in Topics |-> IF t = ab2 THEN 2 ELSE 1]

Traffic ==
    {[kind |-> "Publish", topic |-> t, peer |-> p1, messages |-> <<m1>>] : t \in Topics}
    \cup {[kind |-> "Ack", subscription |-> s1, peer |-> p1, messages |-> 1],
          [kind |-> "AdminSnapshot", topics |-> {ab},
           subscriptions |-> [c \in {s1} |-> ab]]}
=============================================================================
