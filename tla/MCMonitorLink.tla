--------------------------- MODULE MCMonitorLink ---------------------------
(* One UI, whose connection shares nothing with those of others.           *)
EXTENDS MonitorLink

CONSTANTS u1, t1, p1, m1, m2

\* With EarliestInstant = 0, the UI's host was booted one tick after the
\* monitor's, and can express no earlier instant.
Offset == [u \in UIs |-> -1]

Published(messages) ==
    [kind |-> "Publish", topic |-> t1, peer |-> p1, messages |-> messages]

Listed == [kind |-> "AdminSnapshot", topics |-> {t1}, subscriptions |-> EmptyMap]

\* From the proxy and from the poller.
OneOfEach == {Published(<<m1>>), Published(<<m2>>), Listed}

OneByOne == {Published(<<m1>>), Listed}

\* A snapshot that carries m2 is above the limit of 1, until another message
\* takes its place in the buffer.
OneTooLarge == [m \in Messages |-> IF m = m2 THEN 2 ELSE 1]

\* A buffer of two such messages is above the limit of 1, as 200 of 64 KiB are
\* above one of 4 MiB.
AllAlike == [m \in Messages |-> 1]
=============================================================================
