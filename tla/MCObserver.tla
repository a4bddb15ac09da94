----------------------------- MODULE MCObserver -----------------------------
(***************************************************************************)
(* The observer on a small instance: one observation of every shape that   *)
(* the proxy and the poller emit, over two topics and two subscriptions.   *)
(***************************************************************************)
EXTENDS ObserverHistory

CONSTANTS t1, t2, s1, s2, p1, m1, m2

Publication(t, p, ms) ==
    [kind |-> "Publish", topic |-> t, peer |-> p, messages |-> ms]

Movement(kind, s, n) ==
    [kind |-> kind, subscription |-> s, peer |-> p1, messages |-> n]

Connection(kind, s) == [kind |-> kind, subscription |-> s, peer |-> p1]

Listing(ts, subs) ==
    [kind |-> "AdminSnapshot", topics |-> ts, subscriptions |-> subs]

\* A batch of two, an empty Publish from a peer with no address, and a
\* second topic; movements; an open and a close; two differing listings.
Traffic ==
    {Publication(t1, p1, <<m1, m2>>), Publication(t1, NoPeer, <<>>),
     Publication(t2, p1, <<m2>>),
     Movement("Deliver", s1, 2), Movement("Ack", s1, 1),
     Connection("ConsumerOpen", s1), Connection("ConsumerClose", s1),
     Listing({t1}, [s \in {s1} |-> t1]),
     Listing({t2}, [s \in {s2} |-> t2])}
=============================================================================
