----------------------------- MODULE TopicTree -----------------------------
(***************************************************************************)
(* The topic tree (src/src/ui/tree.rs) and the cursor kept in it           *)
(* (src/src/ui/app.rs, handle_tree_key).  The tree is rebuilt from every   *)
(* snapshot; which row is selected and which are open is remembered by the *)
(* identifiers of the rows from the root down, in the tree widget's        *)
(* TreeState.                                                              *)
(*                                                                         *)
(* A name is a project and the dot-separated segments of its last part; a  *)
(* segment is a number, in the order of the strings.  A trie node is the   *)
(* sequence of segments that leads to it.                                  *)
(***************************************************************************)
EXTENDS Statistics

CONSTANTS Project,          \* a topic's project, in the order of the strings
          Segments,         \* the segments of its short name
          Offered,          \* observations the monitor may fold in
          MaxFolded,        \* bound: observations in one life of the monitor
          MaxRestarts,      \* bound: restarts of the monitor
          MaxOpen           \* bound: identifiers in TreeState's open set

ASSUME TreeAssumption ==
    /\ Project \in [Topics -> Nat]
    /\ \A t \in Topics : Segments[t] \in Seq(Nat) /\ Segments[t] # <<>>
    /\ \A t, u \in Topics :
          Project[t] = Project[u] /\ Segments[t] = Segments[u] => t = u
    /\ Offered \subseteq Observation
    /\ \A o \in Offered : o.kind = "AdminSnapshot" =>
          IsFiniteSet(o.topics) /\ IsFiniteSet(DOMAIN o.subscriptions)
    /\ MaxFolded \in Nat /\ MaxRestarts \in Nat /\ MaxOpen \in Nat

-----------------------------------------------------------------------------
(* build: the trie.                                                        *)

Listed(s) == {t \in DOMAIN s.topics : s.topics[t].publish_count > 0}

Nodes(s) ==
    UNION {{SubSeq(Segments[t], 1, n) : n \in 1..Len(Segments[t])} : t \in Listed(s)}

children(s, node) ==
    {n \in Nodes(s) : Len(n) = Len(node) + 1 /\ IsPrefix(node, n)}

\* The last of several names that end at a node is the one it keeps.
node_topic(s, node) ==
    LET here == {t \in Listed(s) : Segments[t] = node}
    IN  IF here = {} THEN NoTopic
        ELSE CHOOSE t \in here : \A u \in here : Project[u] <= Project[t]

first_topic(s) ==
    LET FirstChild(node) ==
            CHOOSE n \in children(s, node) :
                \A other \in children(s, node) : Last(n) <= Last(other)
        first[node \in Nodes(s)] ==
            IF node_topic(s, node) # NoTopic THEN node_topic(s, node)
            ELSE first[FirstChild(node)]
    IN  first

OwnMessages(s, node) ==
    IF node_topic(s, node) = NoTopic THEN 0
    ELSE s.topics[node_topic(s, node)].publish_count

\* Mutation of subtree_messages: a group's topics, not the groups below it.
ChildTopicsOnly(s) ==
    [node \in Nodes(s) |->
        OwnMessages(s, node)
          + MapThenSumSet(LAMBDA n : OwnMessages(s, n), children(s, node))]

subtree_messages(s) ==
    LET sum[node \in Nodes(s)] ==
            OwnMessages(s, node) + MapThenSumSet(LAMBDA n : sum[n], children(s, node))
    IN  sum

\* topic_line and group_line: the figure on a node's line.
figure(s, node) ==
    IF node_topic(s, node) # NoTopic THEN OwnMessages(s, node)
    ELSE subtree_messages(s)[node]

-----------------------------------------------------------------------------
(* item_for: rows and their identifiers.                                   *)

\* Mutation of item_id: a row's place among its siblings.
PlaceAmongSiblings(s, node) ==
    <<"row", Cardinality({n \in children(s, Front(node)) : Last(n) < Last(node)})>>

item_id(s, node) ==
    IF node_topic(s, node) # NoTopic THEN <<"topic", node_topic(s, node)>>
    ELSE <<"group", first_topic(s)[node], Last(node)>>

active_consumers_of(s, topic) ==
    {c \in DOMAIN s.subscriptions :
        s.subscriptions[c].topic = topic /\ s.subscriptions[c].acked > 0}

leaves_for_topic(s, topic) ==
    {<<"pub", p>> : p \in {q \in DOMAIN s.topics[topic].publishers :
                              s.topics[topic].publishers[q].published > 0}}
    \cup {<<"sub", c>> : c \in active_consumers_of(s, topic)}

\* A row is a node, or a leaf below a node that is a topic.
NoLeaf == <<>>
Row(node, leaf) == [node |-> node, leaf |-> leaf]

Rows(s) ==
    {Row(n, NoLeaf) : n \in Nodes(s)}
    \cup UNION {{Row(n, leaf) : leaf \in leaves_for_topic(s, node_topic(s, n))} :
                n \in {m \in Nodes(s) : node_topic(s, m) # NoTopic}}

\* The identifiers from the root down to a row.
Identifier(s, row) ==
    LET path == [i \in DOMAIN row.node |-> item_id(s, SubSeq(row.node, 1, i))]
    IN  IF row.leaf = NoLeaf THEN path
        ELSE Append(path, <<row.leaf[1], node_topic(s, row.node), row.leaf[2]>>)

-----------------------------------------------------------------------------
VARIABLES
    latest,     \* the monitor's latest snapshot
    folded,     \* observations in it
    restarts,   \* restarts of the monitor so far
    shown,      \* the snapshot last drawn
    opened,     \* TreeState: identifiers of open rows
    selected,   \* TreeState: identifier of the selected row, or empty
    meant       \* history: the row that was selected

treeVars == <<queue, receiving, latest, folded, restarts, shown, opened,
              selected, meant>>

Root == Row(<<>>, NoLeaf)

TreeInit ==
    /\ SinkInit
    /\ latest = DefaultState
    /\ folded = 0
    /\ restarts = 0
    /\ shown = DefaultState
    /\ opened = {}
    /\ selected = <<>>
    /\ meant = Root

FoldIn(o) ==
    /\ folded < MaxFolded
    /\ latest' = trim_recent(apply(latest, o, 0), 0)
    /\ folded' = folded + 1
    /\ UNCHANGED <<sinkVars, restarts, shown, opened, selected, meant>>

Restart ==
    /\ restarts < MaxRestarts
    /\ restarts' = restarts + 1
    /\ latest' = DefaultState
    /\ folded' = 0
    /\ UNCHANGED <<sinkVars, shown, opened, selected, meant>>

\* The widget's state survives from one rebuilt tree to the next.
Draw ==
    /\ shown # latest
    /\ shown' = latest
    /\ UNCHANGED <<sinkVars, latest, folded, restarts, opened, selected, meant>>

-----------------------------------------------------------------------------
(* handle_tree_key, and what the widget does for it.                       *)

\* flatten: the rows all of whose ancestors are open.
Visible(s) ==
    {row \in Rows(s) :
        \A n \in 1..(Len(Identifier(s, row)) - 1) :
            SubSeq(Identifier(s, row), 1, n) \in opened}

\* Up, Down, Home and End select some row on the screen.
Move ==
    /\ \E row \in Visible(shown) :
          /\ selected' = Identifier(shown, row)
          /\ meant' = row
    /\ UNCHANGED <<sinkVars, latest, folded, restarts, shown, opened>>

OpenSelected ==
    /\ selected # <<>>
    /\ Cardinality(opened \cup {selected}) <= MaxOpen
    /\ opened' = opened \cup {selected}
    /\ UNCHANGED <<sinkVars, latest, folded, restarts, shown, selected, meant>>

CloseSelected ==
    /\ selected \in opened
    /\ opened' = opened \ {selected}
    /\ UNCHANGED <<sinkVars, latest, folded, restarts, shown, selected, meant>>

\* Left on a row that is not open goes to its parent.
GoToParent ==
    /\ selected # <<>>
    /\ selected \notin opened
    /\ selected' = Front(selected)
    /\ meant' = IF meant.leaf = NoLeaf THEN Row(Front(meant.node), NoLeaf)
                ELSE Row(meant.node, NoLeaf)
    /\ UNCHANGED <<sinkVars, latest, folded, restarts, shown, opened>>

handle_tree_key ==
    \/ Move
    \/ OpenSelected         \* Right, and Enter on a closed row
    \/ CloseSelected        \* Left and Enter on an open one
    \/ GoToParent

TreeNext ==
    \/ \E o \in Offered : FoldIn(o)
    \/ Restart
    \/ Draw
    \/ handle_tree_key

TreeSpec == TreeInit /\ [][TreeNext]_treeVars

-----------------------------------------------------------------------------
(* The cursor never comes to stand on a row the user did not put it on:    *)
(* whatever topics appear, and although a restart of the monitor takes all *)
(* of them away and traffic brings them back in another order, the         *)
(* remembered identifier names the selected row or none (group_id,         *)
(* "uniquely locates the group within the tree").                          *)
CursorKeepsItsRow ==
    \A row \in Rows(shown) : Identifier(shown, row) = selected => row = meant

(* The tree accounts for the panel's totals.  With every topic's row open  *)
(* and every group's closed, the figures add up to "Messages published",   *)
(* but for topics whose node shows another project's topic of their short  *)
(* name: a topic that is a group as well shows only its own messages       *)
(* (topic_line), a group all below it (subtree_messages), each one once.   *)
(* The consumers' lines add up to "Messages consumed", but for those       *)
(* subscriptions whose topic has no line or is not known yet.              *)
InOpenTopics(s) ==
    {node \in Nodes(s) :
        \A n \in 1..(Len(node) - 1) : node_topic(s, SubSeq(node, 1, n)) # NoTopic}

Shadowed(s) == {t \in Listed(s) : node_topic(s, Segments[t]) # t}

ConsumerRows(s) == {row \in Rows(s) : row.leaf # NoLeaf /\ row.leaf[1] = "sub"}

Homeless(s) ==
    {c \in DOMAIN s.subscriptions :
        s.subscriptions[c].topic \notin Listed(s) \ Shadowed(s)}

TreeAddsUp ==
    /\ MapThenSumSet(LAMBDA n : figure(shown, n), InOpenTopics(shown))
         + MapThenSumSet(LAMBDA t : shown.topics[t].publish_count, Shadowed(shown))
         = total_published(shown)
    /\ MapThenSumSet(LAMBDA row : shown.subscriptions[row.leaf[2]].acked,
                     ConsumerRows(shown))
         + MapThenSumSet(LAMBDA c : shown.subscriptions[c].acked, Homeless(shown))
         = total_consumed(shown)

(* tree.rs: "Identifiers are stable across rebuilds so the open/selected   *)
(* state in TreeState is preserved".  A row that is open stays open when   *)
(* traffic only adds to the tree.                                          *)
OpenRowsStayOpen ==
    [][Draw => \A row \in Rows(shown) \cap Rows(shown') :
                  Identifier(shown, row) \in opened
                      => Identifier(shown', row) \in opened']_treeVars
=============================================================================
