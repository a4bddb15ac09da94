----------------------------- MODULE Statistics -----------------------------
(***************************************************************************)
(* The totals of the statistics panel (src/src/ui/widgets.rs, statistics)  *)
(* that are sums over an AppState; topic_count is in AppState.             *)
(***************************************************************************)
EXTENDS AppState, SequencesExt

\* "Messages published".
total_published(s) ==
    MapThenSumSet(LAMBDA t : s.topics[t].publish_count, DOMAIN s.topics)

\* "Messages consumed".
total_consumed(s) ==
    MapThenSumSet(LAMBDA c : s.subscriptions[c].acked, DOMAIN s.subscriptions)

\* "Consumers (live)".
connected_consumers(s) ==
    MapThenSumSet(LAMBDA c : s.subscriptions[c].live_consumers,
                  DOMAIN s.subscriptions)
=============================================================================
