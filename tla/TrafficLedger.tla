--------------------------- MODULE TrafficLedger ---------------------------
(***************************************************************************)
(* What the observe component promises, without tasks, channels or maps.   *)
(* Observations are accepted into a ledger.  The display is at all times   *)
(* the summary of a prefix of the ledger, and the prefix only ever grows.  *)
(*                                                                         *)
(* The summary is a reference definition: every figure is computed from    *)
(* scratch out of the whole prefix, never from an earlier figure.          *)
(***************************************************************************)
EXTENDS Naturals, Sequences, FiniteSets, FiniteSetsExt, SequencesExt

CONSTANTS Topics, Subscriptions, PeerKeys, NoTopic,
          Offered,          \* the observations that may be accepted
          KeyOf(_),         \* the identity under which a peer is counted
          Depth             \* how many of the newest messages are on display

VARIABLES accepted, upto, view

ledgerVars == <<accepted, upto, view>>

\* Positions of the ledger that satisfy P, and the sum of a figure over them.
Where(log, P(_)) == {i \in DOMAIN log : P(log[i])}

Total(log, P(_), figure(_)) == MapThenSumSet(LAMBDA i : figure(log[i]),
                                             Where(log, P))

Published(log, t, key) ==
    Total(log, LAMBDA o : /\ o.kind = "Publish" /\ o.topic = t
                          /\ KeyOf(o.peer) = key,
               LAMBDA o : Len(o.messages))

Moved(log, kind, s) ==
    Total(log, LAMBDA o : o.kind = kind /\ o.subscription = s,
               LAMBDA o : o.messages)

(***************************************************************************)
(* Live consumers.  A close with no live consumer is ignored, so the       *)
(* figure is the largest surplus of opens over closes in any suffix of the *)
(* ledger (the empty one included).                                        *)
(***************************************************************************)
Surplus(log, s, from) ==
      Cardinality({i \in from..Len(log) :
                      log[i].kind = "ConsumerOpen" /\ log[i].subscription = s})
    - Cardinality({i \in from..Len(log) :
                      log[i].kind = "ConsumerClose" /\ log[i].subscription = s})

Live(log, s) == Max({Surplus(log, s, from) : from \in 1..(Len(log) + 1)})

\* The admin listings, and the newest one satisfying P when there is one.
Listings(log, P(_)) ==
    Where(log, LAMBDA o : o.kind = "AdminSnapshot" /\ P(o))

Exists(log, P(_)) ==
    LET all == Listings(log, LAMBDA o : TRUE)
    IN  all # {} /\ P(log[Max(all)])

Parent(log, s) ==
    LET naming == Listings(log, LAMBDA o : s \in DOMAIN o.subscriptions)
    IN  IF naming = {} THEN NoTopic ELSE log[Max(naming)].subscriptions[s]

\* All published messages in order, each with its topic and its number.
Feed(log) ==
    LET messagesOf(o) == IF o.kind = "Publish"
                           THEN [i \in DOMAIN o.messages |->
                                    [topic |-> o.topic, message |-> o.messages[i]]]
                           ELSE <<>>
        all == FlattenSeq([i \in DOMAIN log |-> messagesOf(log[i])])
    IN  [i \in DOMAIN all |-> [seq |-> i - 1, topic |-> all[i].topic,
                               message |-> all[i].message]]

Newest(feed) ==
    SubSeq(feed, IF Len(feed) > Depth THEN Len(feed) - Depth + 1 ELSE 1, Len(feed))

Summary(log) ==
    [published |-> [t \in Topics |-> [k \in PeerKeys |-> Published(log, t, k)]],
     total     |-> [t \in Topics |->
                      MapThenSumSet(LAMBDA k : Published(log, t, k), PeerKeys)],
     delivered |-> [s \in Subscriptions |-> Moved(log, "Deliver", s)],
     acked     |-> [s \in Subscriptions |-> Moved(log, "Ack", s)],
     live      |-> [s \in Subscriptions |-> Live(log, s)],
     topics    |-> {t \in Topics : Exists(log, LAMBDA o : t \in o.topics)},
     subscriptions |->
         {s \in Subscriptions :
             Exists(log, LAMBDA o : s \in DOMAIN o.subscriptions)},
     parent    |-> [s \in Subscriptions |-> Parent(log, s)],
     recent    |-> Newest(Feed(log))]

-----------------------------------------------------------------------------
Init ==
    /\ accepted = <<>>
    /\ upto = 0
    /\ view = Summary(<<>>)

Accept(o) ==
    /\ accepted' = Append(accepted, o)
    /\ UNCHANGED <<upto, view>>

Show(n) ==
    /\ upto' = n
    /\ view' = Summary(SubSeq(accepted, 1, n))
    /\ UNCHANGED accepted

Next ==
    \/ \E o \in Offered : Accept(o)
    \/ \E n \in (upto + 1)..Len(accepted) : Show(n)

Spec == Init /\ [][Next]_ledgerVars
=============================================================================
