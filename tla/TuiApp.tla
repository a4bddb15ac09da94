------------------------------- MODULE TuiApp -------------------------------
(***************************************************************************)
(* The UI's view-model and render loop (src/src/ui/app.rs, ui/mod.rs): the *)
(* focus, the selection in the recent-messages panel, the detail view, and *)
(* the loop that handles one key or one snapshot at a time and redraws     *)
(* after each (the tick and the connection indicator only redraw).  Keys   *)
(* wait in a channel of their own, so a snapshot may come between the      *)
(* frame the user reacted to and the key's handling.                       *)
(*                                                                         *)
(* A snapshot is reduced to its recent messages.  The monitor numbers them *)
(* from zero in each of its lives and shows the newest RecentBuffer        *)
(* (Observer, SnapshotHoldsNewest), so a snapshot is a life of the monitor *)
(* and the number of messages published in it.  The topic tree's cursor is *)
(* the subject of TopicTree; its keys change nothing else.                 *)
(***************************************************************************)
EXTENDS MessageView

CONSTANTS RecentBuffer,     \* --recent-buffer
          Contents,         \* payload and attributes of the n-th message
          MaxRestarts,      \* bound: restarts of the monitor
          MaxPending,       \* bound: keys pressed and not yet handled
          MaxAhead          \* bound: a key pressed behind so many is Esc

\* Bound: messages in one life of the monitor.
MaxMessages == Len(Contents)

ASSUME TuiAssumption ==
    /\ RecentBuffer \in Nat
    /\ Contents \in Seq([data : Payload, attributes : Nat])
    /\ MaxRestarts \in Nat
    /\ MaxPending \in Nat \ {0} /\ MaxAhead \in Nat

Message == [life : 0..MaxRestarts, seq : 0..(MaxMessages - 1)]
Snapshot == [life : 0..MaxRestarts, next_seq : 0..MaxMessages]

NoSeq == -1                 \* selected_seq: None
NoMessage == [life |-> -1, seq |-> -1]

recent_messages(s) ==
    LET len == IF s.next_seq < RecentBuffer THEN s.next_seq ELSE RecentBuffer
    IN  [i \in 1..len |-> [life |-> s.life, seq |-> s.next_seq - len + i - 1]]

List == [kind |-> "List"]
Detail(message, scroll) ==
    [kind |-> "Detail", message |-> message, scroll |-> scroll]

U16 == 65536

\* Topic, age, size and format; the attributes; a rule; the body.
detail_lines(message) ==
    LET content == Contents[message.seq + 1]
    IN  4 + (IF content.attributes > 0 THEN 1 + content.attributes ELSE 0)
          + 1 + render_body(content.data).lines

\* Mutation of LastScroll: the line count itself.
OnePastTheEnd(message) == detail_lines(message) % U16

\* `detail_lines(..).len() as u16`, then saturating_sub(1).
LastScroll(message) ==
    LET max == detail_lines(message) % U16
    IN  IF max = 0 THEN 0 ELSE max - 1

Lesser(a, b) == IF a < b THEN a ELSE b
Greater(a, b) == IF a > b THEN a ELSE b

Keys == {"Esc", "Left", "Backspace", "Up", "Down", "PageUp", "PageDown",
         "Home", "End", "Enter", "Tab", "q"}

VARIABLES
    latest,         \* the snapshot in the monitor client's watch channel
    pending,        \* the input thread's channel of key events
    snapshot,       \* the loop's copy of the latest snapshot
    running,        \* whether run_loop has not returned
    focus,
    selected_seq,
    message_view,
    chosen_in,      \* history: the monitor's life selected_seq was taken from
    aimed           \* history: the message the user saw highlighted at the
                    \* latest Enter, when every earlier key had been handled

appVars == <<focus, selected_seq, message_view>>
tuiVars == <<latest, pending, snapshot, running, appVars, chosen_in, aimed>>

TuiTypeOK ==
    /\ latest \in Snapshot
    /\ pending \in Seq(Keys) /\ Len(pending) <= MaxPending
    /\ snapshot \in Snapshot
    /\ running \in BOOLEAN
    /\ focus \in {"Tree", "Messages"}
    /\ selected_seq \in {NoSeq} \cup 0..(MaxMessages - 1)
    /\ \/ message_view = List
       \/ /\ message_view.kind = "Detail"
          /\ message_view.message \in Message
          /\ message_view.scroll \in 0..(U16 - 1)
    /\ chosen_in \in 0..MaxRestarts
    /\ aimed \in Message \cup {NoMessage}

TuiInit ==
    /\ latest = [life |-> 0, next_seq |-> 0]
    /\ pending = <<>>
    /\ snapshot = latest
    /\ running = TRUE
    /\ focus = "Tree"
    /\ selected_seq = NoSeq
    /\ message_view = List
    /\ chosen_in = 0
    /\ aimed = NoMessage

-----------------------------------------------------------------------------
(* The environment: the monitor client and the user.                       *)

Publication ==
    /\ latest' \in {s \in Snapshot : /\ s.life = latest.life
                                     /\ s.next_seq > latest.next_seq}
    /\ UNCHANGED <<pending, snapshot, running, appVars, chosen_in, aimed>>

\* The first snapshot received from a restarted monitor.
Restart ==
    /\ latest' \in {s \in Snapshot : s.life = latest.life + 1}
    /\ UNCHANGED <<pending, snapshot, running, appVars, chosen_in, aimed>>

-----------------------------------------------------------------------------
(* Lookups by sequence number.                                             *)

index_of_seq(s, seq) ==
    {i \in DOMAIN recent_messages(s) : recent_messages(s)[i].seq = seq}

\* Mutation of SelectedIndex: the row is the newest whatever is selected.
NewestRow(s, seq) == Len(recent_messages(s))

\* The row an unresolved selection falls back to is the newest.
SelectedIndex(s, seq) ==
    IF index_of_seq(s, seq) # {} THEN CHOOSE i \in index_of_seq(s, seq) : TRUE
    ELSE Len(recent_messages(s))

\* render_messages: the row drawn with the highlight, if any.
Highlighted ==
    IF focus = "Messages" /\ message_view = List /\ recent_messages(snapshot) # <<>>
    THEN recent_messages(snapshot)[SelectedIndex(snapshot, selected_seq)]
    ELSE NoMessage

Press(key) ==
    /\ running
    /\ Len(pending) < MaxPending
    /\ key # "Esc" => Len(pending) < MaxAhead
    /\ pending' = Append(pending, key)
    /\ aimed' = IF key = "Enter"
                THEN IF pending = <<>> THEN Highlighted ELSE NoMessage
                ELSE aimed
    /\ UNCHANGED <<latest, snapshot, running, appVars, chosen_in>>

-----------------------------------------------------------------------------
(* App::handle_event, by focus and view.                                   *)

SeqAt(s, i) == IF recent_messages(s) = <<>> THEN NoSeq ELSE recent_messages(s)[i].seq
front(s) == SeqAt(s, 1)
back(s) == SeqAt(s, Len(recent_messages(s)))

\* Mutations of toggle_focus: the next number instead of the newest, and an
\* open message that stays open.
SelectNext ==
    /\ message_view' = List
    /\ IF focus = "Tree"
       THEN focus' = "Messages" /\ selected_seq' = snapshot.next_seq
       ELSE focus' = "Tree" /\ selected_seq' = NoSeq

KeepDetail ==
    /\ UNCHANGED message_view
    /\ IF focus = "Tree"
       THEN focus' = "Messages" /\ selected_seq' = back(snapshot)
       ELSE focus' = "Tree" /\ selected_seq' = NoSeq

toggle_focus ==
    /\ message_view' = List
    /\ IF focus = "Tree"
       THEN focus' = "Messages" /\ selected_seq' = back(snapshot)
       ELSE focus' = "Tree" /\ selected_seq' = NoSeq

move_selection(delta) ==
    LET len  == Len(recent_messages(snapshot))
        next == SelectedIndex(snapshot, selected_seq) + delta
    IN  /\ selected_seq' = SeqAt(snapshot, Greater(1, Lesser(next, len)))
        /\ UNCHANGED <<focus, message_view>>

\* Mutation of open_selected: a selection that is gone opens the newest.
OpenFallback ==
    /\ message_view' =
         IF recent_messages(snapshot) = <<>> THEN message_view
         ELSE Detail(recent_messages(snapshot)[SelectedIndex(snapshot, selected_seq)], 0)
    /\ UNCHANGED <<focus, selected_seq>>

open_selected ==
    /\ message_view' =
         IF index_of_seq(snapshot, selected_seq) = {} THEN message_view
         ELSE Detail(recent_messages(snapshot)[SelectedIndex(snapshot, selected_seq)], 0)
    /\ UNCHANGED <<focus, selected_seq>>

ListKey(key) ==
    CASE key = "Esc"   -> /\ focus' = "Tree"
                          /\ selected_seq' = NoSeq
                          /\ UNCHANGED message_view
      [] key = "Up"    -> move_selection(-1)
      [] key = "Down"  -> move_selection(1)
      [] key \in {"Home", "End"} ->
            /\ selected_seq' = IF key = "Home" THEN front(snapshot) ELSE back(snapshot)
            /\ UNCHANGED <<focus, message_view>>
      [] key = "Enter" -> open_selected
      [] OTHER         -> UNCHANGED appVars

ScrollTo(scroll) == message_view' = Detail(message_view.message, scroll)

\* Mutation of ClosingKeys: an open message swallows Esc.
EscSwallowed == {"Left", "Backspace"}

\* The keys that lead from an open message back to the list.
ClosingKeys == {"Esc", "Left", "Backspace"}

DetailKey(key) ==
    LET scroll  == message_view.scroll
        down(n) == Lesser(Lesser(scroll + n, U16 - 1),
                          LastScroll(message_view.message))
    IN  /\ CASE key \in ClosingKeys -> message_view' = List
             [] key = "Up"       -> ScrollTo(Greater(scroll - 1, 0))
             [] key = "Down"     -> ScrollTo(down(1))
             [] key = "PageUp"   -> ScrollTo(Greater(scroll - 10, 0))
             [] key = "PageDown" -> ScrollTo(down(10))
             [] key = "Home"     -> ScrollTo(0)
             [] OTHER            -> UNCHANGED message_view
        /\ UNCHANGED <<focus, selected_seq>>

\* Mutation of should_quit: q is a key of the tree only.
QuitsInTree(key) == focus = "Tree" /\ key \in {"q", "Esc"}

\* Whether the key ends the session: q anywhere, Esc in the tree.
should_quit(key) == key = "q" \/ (key = "Esc" /\ focus = "Tree")

handle_event(key) ==
    IF should_quit(key) THEN UNCHANGED appVars
    ELSE IF key = "Tab" THEN toggle_focus
    ELSE IF focus = "Tree" THEN UNCHANGED appVars
    ELSE IF message_view = List THEN ListKey(key)
    ELSE DetailKey(key)

-----------------------------------------------------------------------------
(* run_loop: one branch of the select!, then the should_quit check.        *)

\* Whether the key takes a selection from the snapshot at hand.
Picks(key) ==
    \/ key = "Tab" /\ focus = "Tree"
    \/ /\ key \in {"Up", "Down", "Home", "End"}
       /\ focus = "Messages" /\ message_view = List

HandleKey ==
    /\ running
    /\ pending # <<>>
    /\ pending' = Tail(pending)
    /\ handle_event(Head(pending))
    /\ running' = ~should_quit(Head(pending))
    /\ chosen_in' = IF Picks(Head(pending)) THEN snapshot.life ELSE chosen_in
    /\ UNCHANGED <<latest, snapshot, aimed>>

SnapshotChanged ==
    /\ running
    /\ latest # snapshot
    /\ snapshot' = latest
    /\ UNCHANGED <<latest, pending, running, appVars, chosen_in, aimed>>

\* The input thread ended, or the client's supervisor did.
SourceGone ==
    /\ running
    /\ running' = FALSE
    /\ UNCHANGED <<latest, pending, snapshot, appVars, chosen_in, aimed>>

TuiNext ==
    \/ Publication
    \/ Restart
    \/ \E key \in Keys : Press(key)
    \/ HandleKey
    \/ SnapshotChanged
    \/ SourceGone

TuiSpec == TuiInit /\ [][TuiNext]_tuiVars

(***************************************************************************)
(* select! polls its branches in random order, so a branch that stays      *)
(* ready is taken sooner or later.                                         *)
(***************************************************************************)
FairTuiSpec == TuiSpec /\ WF_tuiVars(HandleKey) /\ WF_tuiVars(SnapshotChanged)

-----------------------------------------------------------------------------
(* Leaving the messages panel, by whichever key and from whichever view,   *)
(* resets it to tail-following: no selection or open message lingers       *)
(* behind an unfocused panel, and a message is open in Detail only where   *)
(* some key can close it again (App::toggle_focus, the Esc arm).           *)
UnfocusedFollowsTail ==
    focus = "Tree" => selected_seq = NoSeq /\ message_view = List

(* The detail view always shows at least one line of its message: however  *)
(* the message was reached and scrolled, and although the line count is    *)
(* cut to 16 bits, the offset stays inside the content.                    *)
ScrollOnContent ==
    message_view.kind = "Detail" =>
        message_view.scroll < detail_lines(message_view.message)

(* Whatever line of JSON an open message shows, its spans are the line's   *)
(* tokens, each in its own colour: a quote or a colon inside a string does *)
(* not end it or make it a key, however many backslashes come before it    *)
(* (highlight_json_line).                                                  *)
HighlightFindsTokens ==
    (/\ message_view.kind = "Detail"
     /\ render_body(Contents[message_view.message.seq + 1].data).label = "json")
      => TokensFound

(* Enter never opens a message other than the one the user saw highlighted *)
(* when pressing it, however many snapshots rotate the buffer before the   *)
(* key is handled: it opens that one or, when it is gone, nothing          *)
(* (open_selected looks up by seq, not by row).  A restarted monitor's      *)
(* numbers start again, so a selection made before a restart means another *)
(* message after it; the promise holds again from the next selection on.   *)
EnterOpensWhatWasSeen ==
    [][(/\ HandleKey /\ Head(pending) = "Enter"
        /\ aimed # NoMessage /\ chosen_in = snapshot.life
        /\ message_view = List /\ message_view' # List)
          => message_view'.message = aimed]_tuiVars

(* q pressed in any focus and view ends the UI, and so do as many Esc in a *)
(* row as there are views to leave (detail, list, tree): no view swallows  *)
(* them, and no snapshot handled in between undoes one (App::handle_event). *)
EscDepth == CASE focus = "Tree"       -> 1
              [] message_view = List  -> 2
              [] OTHER                -> 3

Quits(keys) ==
    \/ \E i \in DOMAIN keys : keys[i] = "q"
    \/ /\ Len(keys) >= EscDepth
       /\ \A i \in 1..EscDepth : keys[i] = "Esc"

QuitIsObeyed == Quits(pending) ~> ~running

(* Focusing the panel pauses the scroll (architecture.md, "pausing the     *)
(* auto-scroll"): a new snapshot leaves the highlight on the selected      *)
(* message for as long as it has that message, however far the rotation    *)
(* moves its row.  A panel that was empty when it got the focus has        *)
(* nothing selected and goes on following the newest message.              *)
FocusPausesScroll ==
    [][(/\ SnapshotChanged /\ Highlighted # NoMessage
        /\ Highlighted.seq = selected_seq
        /\ \E i \in DOMAIN recent_messages(latest) :
              recent_messages(latest)[i] = Highlighted)
          => Highlighted' = Highlighted]_tuiVars
=============================================================================
