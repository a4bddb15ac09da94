---------------------------- MODULE TuiAppProofs ----------------------------
(***************************************************************************)
(* Proofs about TuiApp: what the messages panel selects, highlights, opens *)
(* and scrolls while snapshots rotate the buffer under it; and that the    *)
(* detail view's scanner colours each line of JSON by its tokens.          *)
(***************************************************************************)
EXTENDS TuiApp, SequenceTheorems, WellFoundedInduction, TLAPS

-----------------------------------------------------------------------------
(* The inductive invariant.                                                *)

(***************************************************************************)
(* A snapshot is followed only by later ones: of the same life with no     *)
(* fewer messages, or of a later life.                                     *)
(***************************************************************************)
NotAfter(s, t) == \/ s.life < t.life
                  \/ s.life = t.life /\ s.next_seq <= t.next_seq

(***************************************************************************)
(* What is selected came from this snapshot or an earlier one, so as long  *)
(* as the monitor has not restarted it is older than the next message.     *)
(***************************************************************************)
SelectionIsOld ==
    /\ chosen_in <= snapshot.life
    /\ chosen_in = snapshot.life => selected_seq < snapshot.next_seq

(***************************************************************************)
(* An Enter that was pressed with nothing before it in the queue is still  *)
(* the first there and the last Enter pressed; nothing but snapshots came  *)
(* after what the user saw.  Unless the monitor restarted, that was the    *)
(* selected message, or the selected one has left the buffer for good.     *)
(***************************************************************************)
EnterIsAimed ==
    aimed # NoMessage =>
      /\ \A i \in 2..Len(pending) : pending[i] # "Enter"
      /\ (pending # <<>> /\ pending[1] = "Enter") =>
           /\ focus = "Messages" /\ message_view = List
           /\ chosen_in <= aimed.life /\ aimed.life <= snapshot.life
           /\ (chosen_in = snapshot.life /\ aimed.seq # selected_seq) =>
                index_of_seq(snapshot, selected_seq) = {}

TuiInv ==
    /\ TuiTypeOK
    /\ UnfocusedFollowsTail
    /\ ScrollOnContent
    /\ NotAfter(snapshot, latest)
    /\ SelectionIsOld
    /\ EnterIsAimed
-----------------------------------------------------------------------------
(* The rows of the panel.                                                  *)

(* How many messages a snapshot shows.                                     *)
Rows(s) == IF s.next_seq < RecentBuffer THEN s.next_seq ELSE RecentBuffer

(* The bound on the history.                                               *)
LEMMA MaxMessagesType == MaxMessages \in Nat
BY TuiAssumption, LenProperties DEF MaxMessages

(* The newest messages of the snapshot's life, oldest first.               *)
LEMMA RecentRows ==
    ASSUME NEW s \in Snapshot
    PROVE  /\ Rows(s) \in 0..s.next_seq
           /\ recent_messages(s) \in Seq(Message)
           /\ Len(recent_messages(s)) = Rows(s)
           /\ DOMAIN recent_messages(s) = 1..Rows(s)
           /\ recent_messages(s) = <<>> <=> Rows(s) = 0
           /\ \A i \in 1..Rows(s) :
                /\ recent_messages(s)[i] =
                     [life |-> s.life, seq |-> s.next_seq - Rows(s) + i - 1]
                /\ recent_messages(s)[i].life = s.life
                /\ recent_messages(s)[i].seq = s.next_seq - Rows(s) + i - 1
<1>1. s.next_seq \in 0..MaxMessages /\ s.life \in 0..MaxRestarts
      /\ MaxMessages \in Nat /\ RecentBuffer \in Nat
  BY MaxMessagesType, TuiAssumption DEF Snapshot
<1>2. Rows(s) \in 0..s.next_seq
  BY <1>1 DEF Rows
<1>3. recent_messages(s) =
        [i \in 1..Rows(s) |-> [life |-> s.life, seq |-> s.next_seq - Rows(s) + i - 1]]
  BY DEF recent_messages, Rows
<1>4. \A i \in 1..Rows(s) :
        [life |-> s.life, seq |-> s.next_seq - Rows(s) + i - 1] \in Message
  BY <1>1, <1>2 DEF Message
<1>5. recent_messages(s) \in Seq(Message) /\ Len(recent_messages(s)) = Rows(s)
  <2>1. recent_messages(s) \in [1..Rows(s) -> Message] /\ Rows(s) \in Nat
    BY <1>1, <1>2, <1>3, <1>4
  <2>2. QED
    BY <2>1, SeqDef, LenProperties
<1>6. recent_messages(s) = <<>> <=> Rows(s) = 0
  BY <1>5, EmptySeq
<1>7. QED
  BY <1>2, <1>3, <1>5, <1>6

(* A lookup by number finds the message's own row, and finds it exactly    *)
(* when the message is one of those shown.                                 *)
LEMMA RowOfSeq ==
    ASSUME NEW s \in Snapshot, NEW seq \in Int
    PROVE  /\ index_of_seq(s, seq) # {} <=>
                s.next_seq - Rows(s) <= seq /\ seq < s.next_seq
           /\ Rows(s) > 0 => SelectedIndex(s, seq) \in 1..Rows(s)
           /\ index_of_seq(s, seq) # {} =>
                /\ Rows(s) > 0
                /\ recent_messages(s)[SelectedIndex(s, seq)] =
                     [life |-> s.life, seq |-> seq]
                /\ recent_messages(s)[SelectedIndex(s, seq)].seq = seq
<1>1. s.next_seq \in Nat /\ Rows(s) \in 0..s.next_seq
  BY RecentRows, MaxMessagesType DEF Snapshot
<1>2. index_of_seq(s, seq) =
        {i \in 1..Rows(s) : s.next_seq - Rows(s) + i - 1 = seq}
  BY RecentRows DEF index_of_seq
<1>3. index_of_seq(s, seq) # {} <=>
        s.next_seq - Rows(s) <= seq /\ seq < s.next_seq
  <2>1. ASSUME s.next_seq - Rows(s) <= seq, seq < s.next_seq
        PROVE  seq - (s.next_seq - Rows(s)) + 1 \in index_of_seq(s, seq)
    BY <1>1, <1>2, <2>1
  <2>2. ASSUME NEW i \in index_of_seq(s, seq)
        PROVE  s.next_seq - Rows(s) <= seq /\ seq < s.next_seq
    BY <1>1, <1>2, <2>2
  <2>3. QED
    BY <2>1, <2>2
<1>4. CASE index_of_seq(s, seq) = {}
  BY <1>1, <1>3, <1>4, RecentRows DEF SelectedIndex
<1>5. CASE index_of_seq(s, seq) # {}
  <2>1. SelectedIndex(s, seq) \in index_of_seq(s, seq)
    BY <1>5 DEF SelectedIndex
  <2>2. SelectedIndex(s, seq) \in 1..Rows(s)
        /\ s.next_seq - Rows(s) + SelectedIndex(s, seq) - 1 = seq
    BY <1>2, <2>1
  <2>3. QED
    BY <1>1, <1>3, <2>2, RecentRows, SMTT(60)
<1>6. QED
  BY <1>4, <1>5

(* A message that has left the buffer does not come back in the same life. *)
LEMMA GoneForGood ==
    ASSUME NEW s \in Snapshot, NEW t \in Snapshot, s.life = t.life,
           s.next_seq <= t.next_seq, NEW seq \in Int, seq < s.next_seq,
           index_of_seq(s, seq) = {}
    PROVE  index_of_seq(t, seq) = {}
<1>1. s.next_seq \in Nat /\ t.next_seq \in Nat /\ RecentBuffer \in Nat
  BY MaxMessagesType, TuiAssumption DEF Snapshot
<1>2. s.next_seq - Rows(s) <= t.next_seq - Rows(t)
  BY <1>1 DEF Rows
<1>3. Rows(s) \in Nat /\ Rows(t) \in Nat
  BY <1>1 DEF Rows
<1>4. ~(s.next_seq - Rows(s) <= seq /\ seq < s.next_seq)
  BY RowOfSeq
<1>5. ~(t.next_seq - Rows(t) <= seq /\ seq < t.next_seq)
  BY <1>1, <1>2, <1>3, <1>4
<1>6. QED
  BY <1>5, RowOfSeq

(* What front, back and move_selection select: a message of the snapshot,  *)
(* or none if there is none.                                               *)
LEMMA SeqAtType ==
    ASSUME NEW s \in Snapshot, NEW i \in Int, Rows(s) > 0 => i \in 1..Rows(s)
    PROVE  /\ SeqAt(s, i) \in {NoSeq} \cup 0..(MaxMessages - 1)
           /\ SeqAt(s, i) < s.next_seq
<1>1. s.next_seq \in 0..MaxMessages /\ Rows(s) \in 0..s.next_seq
      /\ MaxMessages \in Nat
  BY RecentRows, MaxMessagesType DEF Snapshot
<1>2. CASE Rows(s) = 0
  BY <1>1, <1>2, RecentRows DEF SeqAt, NoSeq
<1>3. CASE Rows(s) # 0
  <2>1. i \in 1..Rows(s) /\ recent_messages(s) # <<>>
    BY <1>1, <1>3, RecentRows
  <2>2. SeqAt(s, i) = s.next_seq - Rows(s) + i - 1
    <3>1. recent_messages(s)[i].seq = s.next_seq - Rows(s) + i - 1
      BY <2>1, RecentRows
    <3>2. QED
      BY <2>1, <3>1 DEF SeqAt
  <2>3. QED
    BY <1>1, <2>1, <2>2
<1>4. QED
  BY <1>2, <1>3

(* The highlighted row is a message of the snapshot.                       *)
LEMMA HighlightedType ==
    ASSUME TuiTypeOK
    PROVE  /\ Highlighted \in Message \cup {NoMessage}
           /\ Highlighted # NoMessage =>
                /\ focus = "Messages" /\ message_view = List
                /\ Highlighted.life = snapshot.life
                /\ Highlighted.seq # selected_seq =>
                     index_of_seq(snapshot, selected_seq) = {}
<1>1. snapshot \in Snapshot /\ selected_seq \in Int
  BY MaxMessagesType DEF TuiTypeOK, NoSeq
<1>2. CASE Highlighted = NoMessage
  BY <1>2
<1>3. CASE Highlighted # NoMessage
  <2>1. /\ focus = "Messages" /\ message_view = List
        /\ recent_messages(snapshot) # <<>>
        /\ Highlighted = recent_messages(snapshot)[SelectedIndex(snapshot, selected_seq)]
    BY <1>3 DEF Highlighted
  <2>2. Rows(snapshot) > 0
    BY <1>1, <2>1, RecentRows
  <2>3. SelectedIndex(snapshot, selected_seq) \in 1..Rows(snapshot)
    BY <1>1, <2>2, RowOfSeq
  <2>4. Highlighted \in Message
    BY <1>1, <2>1, <2>3, RecentRows, ElementOfSeq
  <2>5. Highlighted.life = snapshot.life
    <3>1. recent_messages(snapshot)[SelectedIndex(snapshot, selected_seq)].life
            = snapshot.life
      BY <1>1, <2>3, RecentRows
    <3>2. QED
      BY <2>1, <3>1
  <2>6. index_of_seq(snapshot, selected_seq) # {} => Highlighted.seq = selected_seq
    <3>1. index_of_seq(snapshot, selected_seq) # {} =>
            recent_messages(snapshot)[SelectedIndex(snapshot, selected_seq)].seq
              = selected_seq
      BY <1>1, RowOfSeq
    <3>2. QED
      BY <2>1, <3>1
  <2>7. QED
    BY <2>1, <2>4, <2>5, <2>6
<1>4. QED
  BY <1>2, <1>3
-----------------------------------------------------------------------------
(* The lines of the detail view.                                           *)

(* The number of values of 16 bits.                                        *)
LEMMA U16Type == U16 \in Nat /\ U16 > 0
BY SMTT(30) DEF U16

(* A number cut to 16 bits.                                                *)
LEMMA U16Remainder ==
    ASSUME NEW n \in Nat
    PROVE  n % U16 \in 0..(U16 - 1) /\ n % U16 <= n
<1>1. U16 \in Nat /\ U16 > 0
  BY U16Type
<1>2. n % U16 \in 0..(U16 - 1)
  BY <1>1
<1>3. n % U16 <= n
  <2>1. CASE n < U16
    <3>1. n % U16 = n
      BY <1>1, <2>1
    <3>2. QED
      BY <3>1
  <2>2. CASE n >= U16
    BY <1>1, <1>2, <2>2
  <2>3. QED
    BY <1>1, <2>1, <2>2
<1>4. QED
  BY <1>2, <1>3

(* The last of a number of lines, if there are any.                        *)
LastOf(max) == IF max = 0 THEN 0 ELSE max - 1

(* The last entry of a nonempty sequence.                                  *)
LEMMA LastOfType ==
    ASSUME NEW n \in Nat, n > 0, NEW k \in 0..(U16 - 1), k <= n
    PROVE  LastOf(k) \in 0..(U16 - 1) /\ LastOf(k) < n
<1>1. U16 \in Nat
  BY U16Type
<1>2. k \in Nat /\ k < U16
  BY <1>1
<1>3. CASE k = 0
  BY <1>1, <1>2, <1>3 DEF LastOf
<1>4. CASE k # 0
  <2>1. LastOf(k) = k - 1 /\ k - 1 \in Nat
    BY <1>2, <1>4 DEF LastOf
  <2>2. QED
    BY <1>1, <1>2, <2>1
<1>5. QED
  BY <1>3, <1>4

(* Every message has a header, a rule and a body of at least one line, and *)
(* the last offset scrolled to shows one, also when the line count does    *)
(* not fit 16 bits.                                                        *)
LEMMA LinesOfMessage ==
    ASSUME NEW message \in Message
    PROVE  /\ detail_lines(message) \in Nat /\ detail_lines(message) > 0
           /\ LastScroll(message) \in 0..(U16 - 1)
           /\ LastScroll(message) < detail_lines(message)
<1>1. message.seq + 1 \in 1..Len(Contents)
  BY MaxMessagesType DEF Message, MaxMessages
<1>2. Contents[message.seq + 1] \in [data : Payload, attributes : Nat]
  BY <1>1, TuiAssumption, ElementOfSeq
<1> DEFINE content == Contents[message.seq + 1]
<1>3. content.data \in Payload /\ content.attributes \in Nat
  BY <1>2
<1>4. render_body(content.data).lines \in Nat
  <2> DEFINE data == content.data
  <2>1. data.bytes \in Nat /\ data.pretty \in Nat
        /\ data.newlines \in Nat \cup {NotText}
    BY <1>3 DEF Payload
  <2> HIDE DEF data, content
  <2>2. (data.bytes + 15) \div 16 \in Nat
    BY <2>1
  <2>3. QED
    BY <2>1, <2>2 DEF render_body, data
<1>5. detail_lines(message) \in Nat /\ detail_lines(message) > 0
  <2> HIDE DEF content
  <2>1. detail_lines(message) =
          4 + (IF content.attributes > 0 THEN 1 + content.attributes ELSE 0)
            + 1 + render_body(content.data).lines
    BY DEF detail_lines, content
  <2>2. QED
    BY <1>3, <1>4, <2>1
<1>6. /\ detail_lines(message) % U16 \in 0..(U16 - 1)
      /\ detail_lines(message) % U16 <= detail_lines(message)
  BY <1>5, U16Remainder
<1>7. /\ LastScroll(message) \in 0..(U16 - 1)
      /\ LastScroll(message) < detail_lines(message)
  <2>1. LastScroll(message) = LastOf(detail_lines(message) % U16)
    BY DEF LastScroll, LastOf
  <2>2. QED
    BY <1>5, <1>6, <2>1, LastOfType, Zenon
<1>8. QED
  BY <1>5, <1>7
-----------------------------------------------------------------------------
(* What a key does.                                                        *)

(* The clamps of move_selection and of scrolling.                          *)
LEMMA Clamps ==
    ASSUME NEW a \in Int, NEW b \in Nat
    PROVE  /\ b > 0 => Greater(1, Lesser(a, b)) \in 1..b
           /\ a <= b => Greater(a, 0) \in 0..b
           /\ a >= 0 => Lesser(a, b) \in 0..b
BY DEF Greater, Lesser

(* move_selection: a row of the snapshot, if it has any.                   *)
LEMMA MoveSelects ==
    ASSUME TuiTypeOK, NEW delta \in {-1, 1}, move_selection(delta)
    PROVE  \E i \in Int : /\ Rows(snapshot) > 0 => i \in 1..Rows(snapshot)
                          /\ selected_seq' = SeqAt(snapshot, i)
<1>1. snapshot \in Snapshot /\ selected_seq \in Int
  BY MaxMessagesType DEF TuiTypeOK, NoSeq
<1>2. /\ Rows(snapshot) \in Nat /\ Len(recent_messages(snapshot)) = Rows(snapshot)
      /\ Rows(snapshot) = 0 => recent_messages(snapshot) = <<>>
  BY <1>1, RecentRows, MaxMessagesType DEF Snapshot
<1> DEFINE next == SelectedIndex(snapshot, selected_seq) + delta
           row == Greater(1, Lesser(next, Rows(snapshot)))
<1>3. selected_seq' = SeqAt(snapshot, row)
  BY <1>2 DEF move_selection
<1>4. CASE Rows(snapshot) = 0
  <2>1. SeqAt(snapshot, row) = SeqAt(snapshot, 0)
    BY <1>2, <1>4 DEF SeqAt
  <2>2. QED
    BY <1>2, <1>3, <1>4, <2>1
<1>5. CASE Rows(snapshot) # 0
  <2>1. SelectedIndex(snapshot, selected_seq) \in 1..Rows(snapshot)
    <3>1. Rows(snapshot) > 0
      BY <1>2, <1>5
    <3> HIDE DEF next, row
    <3>2. QED
      BY <1>1, <3>1, RowOfSeq
  <2>2. row \in 1..Rows(snapshot)
    <3>1. next \in Int /\ Rows(snapshot) > 0
      BY <1>2, <1>5, <2>1
    <3> HIDE DEF next
    <3>2. QED
      BY <1>2, <3>1, Clamps
  <2> HIDE DEF row
  <2>3. QED
    BY <1>2, <1>3, <2>2
<1>6. QED
  BY <1>4, <1>5

(* DetailKey: the view is closed, or stays on its message, somewhere in    *)
(* its content.                                                            *)
LEMMA DetailKeys ==
    ASSUME TuiTypeOK, ScrollOnContent, message_view # List,
           NEW key \in Keys, DetailKey(key)
    PROVE  \/ message_view' = List
           \/ message_view' = message_view
           \/ \E scroll \in 0..(U16 - 1) :
                /\ message_view' = Detail(message_view.message, scroll)
                /\ scroll < detail_lines(message_view.message)
<1> DEFINE scroll == message_view.scroll
           message == message_view.message
           lines == detail_lines(message)
           last == LastScroll(message)
           down(n) == Lesser(Lesser(scroll + n, U16 - 1), last)
<1>1. /\ message_view.kind = "Detail" /\ message \in Message
      /\ scroll \in 0..(U16 - 1) /\ scroll < lines
  BY DEF TuiTypeOK, ScrollOnContent
<1>2. /\ lines \in Nat /\ lines > 0 /\ last \in 0..(U16 - 1) /\ last < lines
      /\ U16 \in Nat /\ U16 > 0
  <2>1. U16 \in Nat /\ U16 > 0
    BY U16Type
  <2>2. QED
    BY <1>1, <2>1, LinesOfMessage
<1>3. \/ message_view' \in {List, message_view}
      \/ \E n \in {1, 10} : message_view' = Detail(message, Greater(scroll - n, 0))
      \/ \E n \in {1, 10} : message_view' = Detail(message, down(n))
      \/ message_view' = Detail(message, 0)
  <2>1. CASE key \in {"Esc", "Left", "Backspace"}
    BY <2>1 DEF DetailKey, ClosingKeys
  <2>2. CASE key = "Up" \/ key = "PageUp"
    BY <2>2 DEF DetailKey, ClosingKeys, ScrollTo
  <2>3. CASE key = "Down" \/ key = "PageDown"
    <3>1. ScrollTo(down(1)) \/ ScrollTo(down(10))
      BY <2>3 DEF DetailKey, ClosingKeys
    <3> HIDE DEF down
    <3>2. QED
      BY <3>1 DEF ScrollTo
  <2>4. CASE key = "Home"
    BY <2>4 DEF DetailKey, ClosingKeys, ScrollTo
  <2>5. CASE key \notin {"Esc", "Left", "Backspace", "Up", "PageUp", "Down",
                        "PageDown", "Home"}
    BY <2>5 DEF DetailKey, ClosingKeys
  <2>6. QED
    BY <2>1, <2>2, <2>3, <2>4, <2>5
<1> HIDE DEF scroll, message, lines, last
<1>4. ASSUME NEW n \in {1, 10}
      PROVE  /\ Greater(scroll - n, 0) \in 0..(U16 - 1)
             /\ Greater(scroll - n, 0) < lines
             /\ down(n) \in 0..(U16 - 1) /\ down(n) < lines
  <2>1. scroll - n \in Int /\ scroll - n <= scroll /\ scroll \in Nat
    BY <1>1
  <2>2. Greater(scroll - n, 0) \in 0..scroll
    BY <2>1, Clamps
  <2>3. Lesser(scroll + n, U16 - 1) \in Nat
    BY <1>1, <1>2 DEF Lesser
  <2>4. down(n) \in 0..last
    <3> DEFINE far == Lesser(scroll + n, U16 - 1)
    <3>1. far \in Int /\ far >= 0 /\ last \in Nat
      BY <1>2, <2>3
    <3> HIDE DEF far
    <3>2. Lesser(far, last) \in 0..last
      BY <3>1, Clamps
    <3>3. QED
      BY <3>2 DEF far
  <2> HIDE DEF down
  <2>5. QED
    BY <1>1, <1>2, <2>2, <2>4
<1>5. 0 \in 0..(U16 - 1) /\ 0 < lines
  BY <1>2
<1> HIDE DEF down
<1>6. CASE message_view' \in {List, message_view}
  BY <1>6
<1>7. CASE \E n \in {1, 10} : message_view' = Detail(message, Greater(scroll - n, 0))
  BY <1>4, <1>7 DEF message, lines
<1>8. CASE \E n \in {1, 10} : message_view' = Detail(message, down(n))
  BY <1>4, <1>8 DEF message, lines
<1>9. CASE message_view' = Detail(message, 0)
  BY <1>5, <1>9 DEF message, lines
<1>10. QED
  BY <1>3, <1>6, <1>7, <1>8, <1>9

(* open_selected: the selected message from its first line, if it is still *)
(* there.                                                                  *)
LEMMA OpensSelected ==
    ASSUME TuiTypeOK, open_selected
    PROVE  \/ UNCHANGED message_view
           \/ /\ index_of_seq(snapshot, selected_seq) # {}
              /\ [life |-> snapshot.life, seq |-> selected_seq] \in Message
              /\ message_view' =
                   Detail([life |-> snapshot.life, seq |-> selected_seq], 0)
<1>1. snapshot \in Snapshot /\ selected_seq \in Int
  BY MaxMessagesType DEF TuiTypeOK, NoSeq
<1>2. CASE index_of_seq(snapshot, selected_seq) = {}
  BY <1>2 DEF open_selected
<1>3. CASE index_of_seq(snapshot, selected_seq) # {}
  <2>1. recent_messages(snapshot)[SelectedIndex(snapshot, selected_seq)]
          = [life |-> snapshot.life, seq |-> selected_seq]
    BY <1>1, <1>3, RowOfSeq
  <2>2. snapshot.next_seq - Rows(snapshot) <= selected_seq
        /\ selected_seq < snapshot.next_seq
    BY <1>1, <1>3, RowOfSeq
  <2>3. selected_seq \in 0..(MaxMessages - 1) /\ snapshot.life \in 0..MaxRestarts
    BY <1>1, <2>2, RecentRows, MaxMessagesType DEF Snapshot
  <2>4. QED
    BY <1>3, <2>1, <2>3 DEF open_selected, Message
<1>4. QED
  BY <1>2, <1>3

(* The effects of the keys, by focus and view.                             *)
LEMMA KeyEffects ==
    ASSUME TuiTypeOK, UnfocusedFollowsTail, ScrollOnContent,
           NEW key \in Keys, handle_event(key)
    PROVE  \/ UNCHANGED appVars /\ ~Picks(key)
           \/ toggle_focus /\ key = "Tab"
           \/ /\ key = "Esc" /\ focus = "Messages" /\ message_view = List
              /\ focus' = "Tree" /\ selected_seq' = NoSeq /\ UNCHANGED message_view
           \/ /\ Picks(key) /\ UNCHANGED <<focus, message_view>>
              /\ focus = "Messages"
              /\ \E i \in Int : /\ Rows(snapshot) > 0 => i \in 1..Rows(snapshot)
                                /\ selected_seq' = SeqAt(snapshot, i)
           \/ /\ key = "Enter" /\ open_selected
              /\ focus = "Messages" /\ message_view = List
           \/ /\ focus = "Messages" /\ message_view # List
              /\ DetailKey(key) /\ UNCHANGED <<focus, selected_seq>>
<1>1. CASE should_quit(key)
  BY <1>1 DEF handle_event, should_quit, Picks
<1>2. CASE ~should_quit(key) /\ key = "Tab"
  BY <1>2 DEF handle_event
<1>3. CASE ~should_quit(key) /\ key # "Tab" /\ focus = "Tree"
  BY <1>3 DEF handle_event, Picks
<1>4. CASE /\ ~should_quit(key) /\ key # "Tab"
           /\ focus = "Messages" /\ message_view # List
  BY <1>4 DEF handle_event, DetailKey
<1>5. CASE /\ ~should_quit(key) /\ key # "Tab"
           /\ focus = "Messages" /\ message_view = List
  <2>1. ListKey(key)
    BY <1>5 DEF handle_event
  <2>2. CASE key = "Esc"
    BY <1>5, <2>1, <2>2 DEF ListKey
  <2>3. CASE key \in {"Up", "Down"}
    <3>1. \E delta \in {-1, 1} : move_selection(delta)
      BY <2>1, <2>3 DEF ListKey
    <3>2. UNCHANGED <<focus, message_view>>
      BY <3>1 DEF move_selection
    <3>3. Picks(key)
      BY <1>5, <2>3 DEF Picks
    <3>4. QED
      BY <1>5, <3>1, <3>2, <3>3, MoveSelects
  <2>4. CASE key \in {"Home", "End"}
    <3>1. /\ UNCHANGED <<focus, message_view>>
          /\ \E i \in {1, Len(recent_messages(snapshot))} :
               selected_seq' = SeqAt(snapshot, i)
      BY <2>1, <2>4 DEF ListKey, front, back
    <3>2. snapshot \in Snapshot
      BY DEF TuiTypeOK
    <3>3. Len(recent_messages(snapshot)) = Rows(snapshot) /\ Rows(snapshot) \in Nat
      BY <3>2, RecentRows, MaxMessagesType DEF Snapshot
    <3>4. Picks(key)
      BY <1>5, <2>4 DEF Picks
    <3>5. QED
      BY <1>5, <3>1, <3>3, <3>4
  <2>5. CASE key = "Enter"
    BY <1>5, <2>1, <2>5 DEF ListKey
  <2>6. CASE key \notin {"Esc", "Up", "Down", "Home", "End", "Enter"}
    BY <1>5, <2>1, <2>6 DEF ListKey, Picks
  <2>7. QED
    BY <2>2, <2>3, <2>4, <2>5, <2>6
<1>6. QED
  BY <1>1, <1>2, <1>3, <1>4, <1>5 DEF TuiTypeOK
-----------------------------------------------------------------------------
(* The invariant is inductive.                                             *)

(* The invariant holds when the UI starts.                                 *)
LEMMA TuiInitially == TuiInit => TuiInv
<1> SUFFICES ASSUME TuiInit PROVE TuiInv
  OBVIOUS
<1>1. MaxMessages \in Nat /\ 0 \in 0..MaxRestarts /\ 0 \in 0..MaxMessages
  BY MaxMessagesType, TuiAssumption
<1>2. TuiTypeOK
  BY <1>1, TuiAssumption DEF TuiInit, TuiTypeOK, Snapshot
<1>3. UnfocusedFollowsTail /\ ScrollOnContent /\ EnterIsAimed
  BY DEF TuiInit, UnfocusedFollowsTail, ScrollOnContent, EnterIsAimed, List
<1>4. NotAfter(snapshot, latest) /\ SelectionIsOld
  BY <1>1 DEF TuiInit, NotAfter, SelectionIsOld, NoSeq
<1>5. QED
  BY <1>2, <1>3, <1>4 DEF TuiInv

(* The monitor publishes, or is restarted, before the loop looks.          *)
LEMMA MonitorStep ==
    ASSUME TuiInv, Publication \/ Restart
    PROVE  TuiInv'
<1>1. /\ latest' \in Snapshot
      /\ UNCHANGED <<pending, snapshot, running, appVars, chosen_in, aimed>>
      /\ \/ latest'.life = latest.life /\ latest'.next_seq > latest.next_seq
         \/ latest'.life = latest.life + 1
  BY DEF Publication, Restart
<1>2. NotAfter(snapshot, latest')
  <2>1. /\ latest \in Snapshot /\ snapshot \in Snapshot
        /\ NotAfter(snapshot, latest)
    BY DEF TuiInv, TuiTypeOK
  <2>2. /\ latest.life \in Int /\ snapshot.life \in Int /\ latest'.life \in Int
        /\ latest.next_seq \in Int /\ snapshot.next_seq \in Int
        /\ latest'.next_seq \in Int
    BY <1>1, <2>1, MaxMessagesType DEF Snapshot
  <2>3. QED
    BY <1>1, <2>1, <2>2 DEF NotAfter
<1>3. QED
  BY <1>1, <1>2 DEF TuiInv, TuiTypeOK, UnfocusedFollowsTail, ScrollOnContent,
     NotAfter, SelectionIsOld, EnterIsAimed, appVars, index_of_seq

(* The user presses a key: an Enter with nothing before it is aimed.       *)
LEMMA PressStep ==
    ASSUME TuiInv, NEW key \in Keys, Press(key)
    PROVE  TuiInv'
<1>1. /\ TuiTypeOK /\ SelectionIsOld /\ EnterIsAimed
      /\ Len(pending) < MaxPending /\ pending' = Append(pending, key)
      /\ aimed' = (IF key = "Enter"
                     THEN IF pending = <<>> THEN Highlighted ELSE NoMessage
                     ELSE aimed)
      /\ UNCHANGED <<latest, snapshot, running, appVars, chosen_in>>
  BY DEF TuiInv, Press
<1>2. /\ pending \in Seq(Keys) /\ pending' \in Seq(Keys)
      /\ Len(pending) \in Nat /\ Len(pending') = Len(pending) + 1
      /\ \A i \in 1..Len(pending) : pending'[i] = pending[i]
      /\ pending'[Len(pending) + 1] = key
      /\ pending = <<>> <=> Len(pending) = 0
  BY <1>1, AppendProperties, LenProperties, EmptySeq DEF TuiTypeOK
<1>3. TuiTypeOK'
  <2>1. aimed' \in Message \cup {NoMessage}
    BY <1>1, HighlightedType DEF TuiTypeOK
  <2>2. Len(pending') <= MaxPending
    BY <1>1, <1>2, TuiAssumption
  <2>3. QED
    BY <1>1, <1>2, <2>1, <2>2 DEF TuiTypeOK, appVars
<1>4. EnterIsAimed'
  <2> SUFFICES ASSUME aimed' # NoMessage PROVE EnterIsAimed'
    BY DEF EnterIsAimed
  <2>1. CASE key = "Enter"
    <3>1. pending = <<>> /\ aimed' = Highlighted
      BY <1>1, <2>1
    <3>2. /\ focus = "Messages" /\ message_view = List
          /\ aimed'.life = snapshot.life
          /\ aimed'.seq # selected_seq =>
               index_of_seq(snapshot, selected_seq) = {}
      BY <1>1, <3>1, HighlightedType
    <3>3. chosen_in <= aimed'.life /\ aimed'.life <= snapshot.life
      BY <1>1, <3>2, TuiAssumption, SMTT(60) DEF SelectionIsOld, TuiTypeOK, Snapshot
    <3>4. \A i \in 2..Len(pending') : pending'[i] # "Enter"
      BY <1>2, <3>1
    <3>5. QED
      BY <1>1, <3>2, <3>3, <3>4 DEF EnterIsAimed, appVars, index_of_seq
  <2>2. CASE key # "Enter"
    <3>1. aimed' = aimed
      BY <1>1, <2>2
    <3>2. \A i \in 2..Len(pending') : pending'[i] # "Enter"
      BY <1>1, <1>2, <2>2, <3>1 DEF EnterIsAimed
    <3>3. pending' # <<>> /\ pending'[1] = "Enter" =>
            pending # <<>> /\ pending[1] = "Enter"
      BY <1>2, <2>2
    <3>4. QED
      BY <1>1, <3>1, <3>2, <3>3 DEF EnterIsAimed, appVars, index_of_seq
  <2>3. QED
    BY <2>1, <2>2
<1>5. QED
  BY <1>1, <1>3, <1>4 DEF TuiInv, UnfocusedFollowsTail, ScrollOnContent,
     NotAfter, SelectionIsOld, appVars

(* The loop takes the latest snapshot.                                     *)
LEMMA SnapshotStep ==
    ASSUME TuiInv, SnapshotChanged
    PROVE  TuiInv'
<1>1. /\ TuiTypeOK /\ SelectionIsOld /\ EnterIsAimed /\ NotAfter(snapshot, latest)
      /\ snapshot' = latest /\ latest' = latest
      /\ UNCHANGED <<pending, running, appVars, chosen_in, aimed>>
  BY DEF TuiInv, SnapshotChanged
<1>2. /\ snapshot \in Snapshot /\ latest \in Snapshot /\ selected_seq \in Int
      /\ snapshot.life \in Nat /\ latest.life \in Nat /\ chosen_in \in Nat
      /\ snapshot.next_seq \in Nat /\ latest.next_seq \in Nat
  BY <1>1, MaxMessagesType, TuiAssumption DEF TuiTypeOK, NoSeq, Snapshot
<1>3. /\ chosen_in <= snapshot.life
      /\ chosen_in = snapshot.life => selected_seq < snapshot.next_seq
  BY <1>1 DEF SelectionIsOld
<1>4. /\ snapshot.life <= latest.life
      /\ snapshot.life = latest.life => snapshot.next_seq <= latest.next_seq
  BY <1>1, <1>2 DEF NotAfter
<1>5. SelectionIsOld'
  <2>1. /\ chosen_in <= latest.life
        /\ chosen_in = latest.life => selected_seq < latest.next_seq
    BY <1>2, <1>3, <1>4
  <2>2. QED
    BY <1>1, <2>1 DEF SelectionIsOld, appVars
<1>6. EnterIsAimed'
  <2> SUFFICES ASSUME aimed # NoMessage, pending # <<>>, pending[1] = "Enter"
               PROVE  /\ aimed.life <= latest.life
                      /\ (chosen_in = latest.life /\ aimed.seq # selected_seq) =>
                           index_of_seq(latest, selected_seq) = {}
    BY <1>1 DEF EnterIsAimed, appVars, index_of_seq
  <2>1. /\ chosen_in <= aimed.life /\ aimed.life <= snapshot.life
        /\ (chosen_in = snapshot.life /\ aimed.seq # selected_seq) =>
             index_of_seq(snapshot, selected_seq) = {}
    BY <1>1 DEF EnterIsAimed
  <2>2. aimed.life \in Nat
    BY <1>1 DEF TuiTypeOK, Message
  <2>3. ASSUME chosen_in = latest.life, aimed.seq # selected_seq
        PROVE  index_of_seq(latest, selected_seq) = {}
    <3>1. chosen_in = snapshot.life /\ snapshot.life = latest.life
      BY <1>2, <1>3, <1>4, <2>3
    <3>2. /\ index_of_seq(snapshot, selected_seq) = {}
          /\ snapshot.next_seq <= latest.next_seq
          /\ selected_seq < snapshot.next_seq
      BY <1>3, <1>4, <2>1, <2>3, <3>1
    <3>3. QED
      BY <1>2, <3>1, <3>2, GoneForGood
  <2>4. QED
    BY <1>2, <1>4, <2>1, <2>2, <2>3
<1>7. NotAfter(latest, latest)
  BY <1>2 DEF NotAfter
<1>8. QED
  BY <1>1, <1>5, <1>6, <1>7 DEF TuiInv, TuiTypeOK, UnfocusedFollowsTail,
     ScrollOnContent, NotAfter, appVars
(* The loop handles the first key.                                         *)
LEMMA KeyStep ==
    ASSUME TuiInv, HandleKey
    PROVE  TuiInv'
<1> DEFINE key == Head(pending)
<1>1. /\ TuiTypeOK /\ UnfocusedFollowsTail /\ ScrollOnContent /\ SelectionIsOld
      /\ EnterIsAimed /\ NotAfter(snapshot, latest)
      /\ pending # <<>> /\ pending' = Tail(pending) /\ handle_event(key)
      /\ running' = ~should_quit(key)
      /\ chosen_in' = (IF Picks(key) THEN snapshot.life ELSE chosen_in)
      /\ UNCHANGED <<latest, snapshot, aimed>>
  BY DEF TuiInv, HandleKey
<1>2. /\ key \in Keys /\ pending' \in Seq(Keys)
      /\ Len(pending) \in Nat /\ Len(pending') = Len(pending) - 1
      /\ \A i \in 1..Len(pending') : pending'[i] = pending[i + 1]
      /\ pending' = <<>> <=> Len(pending') = 0
  BY <1>1, HeadTailProperties, LenProperties, EmptySeq, ElementOfSeq DEF TuiTypeOK
<1>3. /\ snapshot \in Snapshot /\ snapshot.life \in 0..MaxRestarts
      /\ snapshot.life \in Nat /\ snapshot.next_seq \in Nat
      /\ NoSeq < snapshot.next_seq
  BY <1>1, MaxMessagesType, TuiAssumption, SMTT(60) DEF TuiTypeOK, Snapshot, NoSeq
<1> HIDE DEF key
<1>4. /\ focus' \in {"Tree", "Messages"}
      /\ focus' = "Tree" => selected_seq' = NoSeq /\ message_view' = List
      /\ \/ selected_seq' = selected_seq /\ ~Picks(key)
         \/ selected_seq' = NoSeq
         \/ /\ Picks(key)
            /\ \E i \in Int : /\ Rows(snapshot) > 0 => i \in 1..Rows(snapshot)
                              /\ selected_seq' = SeqAt(snapshot, i)
      /\ \/ message_view' \in {List, message_view}
         \/ \E message \in Message, scroll \in 0..(U16 - 1) :
              /\ message_view' = Detail(message, scroll)
              /\ scroll < detail_lines(message)
  <2> DEFINE Picked == \E i \in Int :
                         /\ Rows(snapshot) > 0 => i \in 1..Rows(snapshot)
                         /\ selected_seq' = SeqAt(snapshot, i)
             Opened == \E message \in Message, scroll \in 0..(U16 - 1) :
                         /\ message_view' = Detail(message, scroll)
                         /\ scroll < detail_lines(message)
  <2>1. \/ UNCHANGED appVars /\ ~Picks(key)
        \/ toggle_focus /\ key = "Tab"
        \/ /\ key = "Esc" /\ focus = "Messages" /\ message_view = List
           /\ focus' = "Tree" /\ selected_seq' = NoSeq /\ UNCHANGED message_view
        \/ /\ Picks(key) /\ UNCHANGED <<focus, message_view>>
           /\ focus = "Messages" /\ Picked
        \/ /\ key = "Enter" /\ open_selected
           /\ focus = "Messages" /\ message_view = List
        \/ /\ focus = "Messages" /\ message_view # List
           /\ DetailKey(key) /\ UNCHANGED <<focus, selected_seq>>
    BY <1>1, <1>2, KeyEffects
  <2>2. focus \in {"Tree", "Messages"}
        /\ (focus = "Tree" => selected_seq = NoSeq /\ message_view = List)
    BY <1>1 DEF TuiTypeOK, UnfocusedFollowsTail
  <2>3. CASE UNCHANGED appVars /\ ~Picks(key)
    BY <2>2, <2>3 DEF appVars
  <2>4. CASE toggle_focus /\ key = "Tab"
    <3>1. CASE focus = "Tree"
      <4>1. /\ focus' = "Messages" /\ selected_seq' = back(snapshot)
            /\ message_view' = List
        BY <2>4, <3>1 DEF toggle_focus
      <4>2. Picks(key)
        BY <2>4, <3>1 DEF Picks
      <4>3. Len(recent_messages(snapshot)) = Rows(snapshot)
            /\ Rows(snapshot) \in Nat
        BY <1>3, RecentRows
      <4>4. Picked
        BY <4>1, <4>3 DEF back
      <4>5. QED
        BY <4>1, <4>2, <4>4
    <3>2. CASE focus # "Tree"
      BY <2>4, <3>2 DEF toggle_focus
    <3>3. QED
      BY <3>1, <3>2
  <2>5. CASE /\ key = "Esc" /\ focus = "Messages" /\ message_view = List
             /\ focus' = "Tree" /\ selected_seq' = NoSeq /\ UNCHANGED message_view
    BY <2>5
  <2>6. CASE /\ Picks(key) /\ UNCHANGED <<focus, message_view>>
             /\ focus = "Messages" /\ Picked
    BY <2>6
  <2>7. CASE /\ key = "Enter" /\ open_selected
             /\ focus = "Messages" /\ message_view = List
    <3>1. focus' = focus /\ selected_seq' = selected_seq
      BY <2>7 DEF open_selected
    <3>2. ~Picks(key)
      BY <2>7 DEF Picks
    <3>3. message_view' = message_view \/ Opened
      <4>1. CASE UNCHANGED message_view
        BY <4>1
      <4>2. ASSUME NEW message \in Message, message_view' = Detail(message, 0)
            PROVE  Opened
        <5>1. 0 \in 0..(U16 - 1) /\ 0 < detail_lines(message)
          <6>1. 0 \in 0..(U16 - 1)
            BY U16Type
          <6>2. QED
            BY <6>1, LinesOfMessage
        <5>2. QED
          BY <4>2, <5>1
      <4>3. QED
        BY <1>1, <2>7, <4>1, <4>2, OpensSelected
    <3>4. QED
      BY <2>7, <3>1, <3>2, <3>3
  <2>8. CASE /\ focus = "Messages" /\ message_view # List
             /\ DetailKey(key) /\ UNCHANGED <<focus, selected_seq>>
    <3>1. ~Picks(key)
      BY <2>8 DEF Picks
    <3>2. message_view.message \in Message
      BY <1>1, <2>8 DEF TuiTypeOK
    <3>3. message_view' \in {List, message_view} \/ Opened
      BY <1>1, <1>2, <2>8, <3>2, DetailKeys
    <3>4. QED
      BY <2>8, <3>1, <3>3
  <2>9. QED
    BY <2>1, <2>3, <2>4, <2>5, <2>6, <2>7, <2>8
<1>5. selected_seq' \in {NoSeq} \cup 0..(MaxMessages - 1)
  BY <1>1, <1>3, <1>4, SeqAtType DEF TuiTypeOK
<1>6. SelectionIsOld'
  <2>1. chosen_in' <= snapshot.life
    BY <1>1, <1>3 DEF SelectionIsOld
  <2>2. CASE selected_seq' = selected_seq /\ ~Picks(key)
    BY <1>1, <2>2 DEF SelectionIsOld
  <2>3. CASE selected_seq' = NoSeq
    BY <1>1, <1>3, <2>1, <2>3 DEF SelectionIsOld
  <2>4. CASE \E i \in Int : /\ Rows(snapshot) > 0 => i \in 1..Rows(snapshot)
                            /\ selected_seq' = SeqAt(snapshot, i)
    <3>1. selected_seq' < snapshot.next_seq
      BY <1>3, <2>4, SeqAtType
    <3>2. QED
      BY <1>1, <2>1, <3>1 DEF SelectionIsOld
  <2>5. QED
    BY <1>4, <2>2, <2>3, <2>4
<1>7. TuiTypeOK' /\ ScrollOnContent'
  <2>1. Len(pending') <= MaxPending /\ running' \in BOOLEAN
        /\ chosen_in' \in 0..MaxRestarts
    BY <1>1, <1>2, <1>3, TuiAssumption DEF TuiTypeOK, should_quit
  <2>2. CASE message_view' \in {List, message_view}
    BY <1>1, <1>2, <1>4, <1>5, <2>1, <2>2 DEF TuiTypeOK, ScrollOnContent, List
  <2>3. CASE \E message \in Message, scroll \in 0..(U16 - 1) :
               /\ message_view' = Detail(message, scroll)
               /\ scroll < detail_lines(message)
    <3>1. PICK message \in Message, scroll \in 0..(U16 - 1) :
            /\ message_view' = Detail(message, scroll)
            /\ scroll < detail_lines(message)
      BY <2>3
    <3>2. /\ message_view'.kind = "Detail" /\ message_view'.message = message
          /\ message_view'.scroll = scroll
      BY <3>1 DEF Detail
    <3>3. TuiTypeOK'
      BY <1>1, <1>2, <1>4, <1>5, <2>1, <3>2 DEF TuiTypeOK
    <3>4. ScrollOnContent'
      BY <3>1, <3>2 DEF ScrollOnContent
    <3>5. QED
      BY <3>3, <3>4
  <2>4. QED
    BY <1>4, <2>2, <2>3
<1>8. EnterIsAimed'
  <2> SUFFICES ASSUME aimed # NoMessage
               PROVE  /\ \A i \in 2..Len(pending') : pending'[i] # "Enter"
                      /\ ~(pending' # <<>> /\ pending'[1] = "Enter")
    BY <1>1 DEF EnterIsAimed
  <2>1. \A i \in 2..Len(pending) : pending[i] # "Enter"
    BY <1>1 DEF EnterIsAimed
  <2>2. \A i \in 1..Len(pending') : pending'[i] # "Enter"
    BY <1>2, <2>1
  <2>3. QED
    BY <1>2, <2>2
<1>9. QED
  BY <1>1, <1>4, <1>6, <1>7, <1>8 DEF TuiInv, UnfocusedFollowsTail, NotAfter
(* Every step keeps the invariant.                                         *)
LEMMA TuiStep == TuiInv /\ [TuiNext]_tuiVars => TuiInv'
<1> SUFFICES ASSUME TuiInv, [TuiNext]_tuiVars PROVE TuiInv'
  OBVIOUS
<1>1. CASE UNCHANGED <<latest, pending, snapshot, appVars, chosen_in, aimed>>
           /\ running' \in BOOLEAN
  BY <1>1 DEF TuiInv, TuiTypeOK, UnfocusedFollowsTail, ScrollOnContent,
     NotAfter, SelectionIsOld, EnterIsAimed, appVars, index_of_seq
<1>2. CASE UNCHANGED tuiVars \/ SourceGone
  BY <1>1, <1>2 DEF tuiVars, SourceGone, TuiInv, TuiTypeOK
<1>3. CASE TuiNext
  BY <1>2, <1>3, MonitorStep, PressStep, KeyStep, SnapshotStep DEF TuiNext
<1>4. QED
  BY <1>2, <1>3

(* The invariant always holds.                                             *)
LEMMA TuiInvariant == TuiSpec => []TuiInv
BY TuiInitially, TuiStep, PTL DEF TuiSpec
-----------------------------------------------------------------------------
(* What the invariant is for.                                              *)

(* The view-model's variables always have their types: the selection is a  *)
(* number of some message, and what is open is a message of some snapshot  *)
(* (App, src/src/ui/app.rs).                                               *)
THEOREM TuiTypeCorrect == TuiSpec => []TuiTypeOK
<1>1. TuiInv => TuiTypeOK
  BY DEF TuiInv
<1>2. QED
  BY <1>1, TuiInvariant, PTL

(* Leaving the messages panel, by whichever key and from whichever view,   *)
(* always resets it to tail-following (App::toggle_focus, the Esc arm).    *)
THEOREM LeavingResets == TuiSpec => []UnfocusedFollowsTail
<1>1. TuiInv => UnfocusedFollowsTail
  BY DEF TuiInv
<1>2. QED
  BY <1>1, TuiInvariant, PTL

(* The detail view always shows at least one line of its message, whatever *)
(* its length - also one whose lines do not fit the u16 they are counted   *)
(* in (App::handle_event, max_detail_scroll).                              *)
THEOREM ScrollShowsContent == TuiSpec => []ScrollOnContent
<1>1. TuiInv => ScrollOnContent
  BY DEF TuiInv
<1>2. QED
  BY <1>1, TuiInvariant, PTL

(* Enter opens the message the user saw highlighted or none, for any       *)
(* buffer, number of messages and queue of keys (App::open_selected looks  *)
(* the selection up by its number).                                        *)
THEOREM EnterOpensAimed == TuiSpec => EnterOpensWhatWasSeen
<1>1. ASSUME TuiInv, HandleKey, Head(pending) = "Enter", aimed # NoMessage,
             chosen_in = snapshot.life, message_view = List, message_view' # List
      PROVE  message_view'.message = aimed
  <2>1. /\ TuiTypeOK /\ EnterIsAimed /\ pending # <<>> /\ handle_event("Enter")
        /\ snapshot.life \in Nat /\ pending \in Seq(Keys)
    BY <1>1, TuiAssumption DEF TuiInv, HandleKey, TuiTypeOK, Snapshot
  <2>2. pending[1] = "Enter"
    BY <1>1, <2>1, HeadTailProperties
  <2>3. /\ focus = "Messages"
        /\ chosen_in <= aimed.life /\ aimed.life <= snapshot.life
        /\ aimed.seq # selected_seq => index_of_seq(snapshot, selected_seq) = {}
    BY <1>1, <2>1, <2>2 DEF EnterIsAimed
  <2>4. open_selected
    BY <1>1, <2>1, <2>3 DEF handle_event, should_quit, ListKey
  <2>5. /\ index_of_seq(snapshot, selected_seq) # {}
        /\ message_view' = Detail([life |-> snapshot.life, seq |-> selected_seq], 0)
    BY <1>1, <2>1, <2>4, OpensSelected
  <2>6. aimed \in [life : Nat, seq : Int]
    BY <1>1, <2>1, MaxMessagesType DEF TuiTypeOK, Message
  <2>7. aimed.seq = selected_seq /\ aimed.life = snapshot.life
    BY <1>1, <2>1, <2>3, <2>5, <2>6
  <2>8. message_view'.message = [life |-> snapshot.life, seq |-> selected_seq]
    BY <2>5 DEF Detail
  <2>9. QED
    BY <2>6, <2>7, <2>8
<1>2. TuiInv /\ [TuiNext]_tuiVars =>
        [(/\ HandleKey /\ Head(pending) = "Enter"
          /\ aimed # NoMessage /\ chosen_in = snapshot.life
          /\ message_view = List /\ message_view' # List)
            => message_view'.message = aimed]_tuiVars
  BY <1>1
<1>3. QED
  BY <1>2, TuiInvariant, PTL DEF TuiSpec, EnterOpensWhatWasSeen

(* A new snapshot leaves the highlight on the selected message as long as  *)
(* it has that message, however far its row has moved (render_messages).   *)
THEOREM SnapshotKeepsHighlight == TuiSpec => FocusPausesScroll
<1>1. ASSUME TuiInv, SnapshotChanged, Highlighted # NoMessage,
             Highlighted.seq = selected_seq,
             NEW i \in DOMAIN recent_messages(latest),
             recent_messages(latest)[i] = Highlighted
      PROVE  Highlighted' = Highlighted
  <2>1. /\ TuiTypeOK /\ latest \in Snapshot /\ snapshot' = latest
        /\ UNCHANGED <<focus, selected_seq, message_view>>
        /\ selected_seq \in Int
    BY <1>1, MaxMessagesType DEF TuiInv, TuiTypeOK, SnapshotChanged, appVars, NoSeq
  <2>2. focus = "Messages" /\ message_view = List
    BY <1>1, <2>1, HighlightedType
  <2>3. i \in index_of_seq(latest, selected_seq)
    BY <1>1 DEF index_of_seq
  <2>4. recent_messages(latest)[SelectedIndex(latest, selected_seq)]
          = [life |-> latest.life, seq |-> selected_seq]
    BY <2>1, <2>3, RowOfSeq
  <2>5. Highlighted = [life |-> latest.life, seq |-> selected_seq]
    <3>1. i \in 1..Rows(latest)
      BY <1>1, <2>1, RecentRows
    <3>2. Highlighted =
            [life |-> latest.life, seq |-> latest.next_seq - Rows(latest) + i - 1]
      BY <1>1, <2>1, <3>1, RecentRows
    <3>3. QED
      BY <1>1, <3>2
  <2>6. recent_messages(latest) # <<>>
    BY <2>1, <2>3, RecentRows, RowOfSeq
  <2>7. Highlighted' =
          recent_messages(latest)[SelectedIndex(latest, selected_seq)]
    BY <2>1, <2>2, <2>6, ZenonT(40)
       DEF Highlighted, recent_messages, SelectedIndex, index_of_seq
  <2>8. QED
    BY <2>4, <2>5, <2>7
<1>2. TuiInv /\ [TuiNext]_tuiVars =>
        [(/\ SnapshotChanged /\ Highlighted # NoMessage
          /\ Highlighted.seq = selected_seq
          /\ \E i \in DOMAIN recent_messages(latest) :
                recent_messages(latest)[i] = Highlighted)
            => Highlighted' = Highlighted]_tuiVars
  BY <1>1
<1>3. QED
  BY <1>2, TuiInvariant, PTL DEF TuiSpec, FocusPausesScroll

-----------------------------------------------------------------------------
(* Induction over numbers and sequences.                                   *)

(* A set of natural numbers that is not empty has a least element.         *)
LEMMA LeastNumber ==
    ASSUME NEW K, K \subseteq Nat, K # {}
    PROVE  \E k \in K : \A j \in K : k <= j
<1>1. PICK k \in K : \A j \in K : <<j, k>> \notin OpToRel(<, Nat)
  BY WFMin, NatLessThanWellFounded, Zenon
<1>2. \A j \in K : ~ (j < k)
  BY <1>1 DEF OpToRel
<1>3. QED
  BY <1>2

(* A set that has the empty sequence, and with a sequence also any that is *)
(* one element longer, has them all: by a shortest that is missing.        *)
LEMMA SequenceInduction ==
    ASSUME NEW S, NEW Good, <<>> \in Good,
           \A s \in Seq(S), x \in S : s \in Good => Append(s, x) \in Good
    PROVE  Seq(S) \subseteq Good
<1> DEFINE bad == {n \in Nat : \E s \in Seq(S) : Len(s) = n /\ s \notin Good}
<1>1. SUFFICES ASSUME bad # {} PROVE FALSE
  BY LenProperties
<1>2. PICK k \in bad : \A j \in bad : k <= j
  <2>1. bad \subseteq Nat
    OBVIOUS
  <2> HIDE DEF bad
  <2>2. QED
    BY <1>1, <2>1, LeastNumber
<1>3. PICK s \in Seq(S) : k \in Nat /\ Len(s) = k /\ s \notin Good
  OBVIOUS
<1>4. PICK shorter \in Seq(S), x \in S : s = Append(shorter, x)
  BY <1>3, SequenceEmptyOrAppend
<1>5. Len(shorter) \in Nat /\ Len(s) = Len(shorter) + 1
  BY <1>4, AppendProperties, LenProperties
<1>6. shorter \in Good
  <2>1. Len(shorter) \notin bad
    BY <1>2, <1>3, <1>5
  <2>2. QED
    BY <1>5, <2>1
<1>7. QED
  BY <1>3, <1>4, <1>6

-----------------------------------------------------------------------------
(* Flattening.                                                             *)

\* f holds, for each prefix of the sequences, all of them in one.
Flattens(f, seqs) ==
    f = [i \in 1..Len(seqs) |->
           IF i = 1 THEN seqs[i] ELSE f[i - 1] \o seqs[i]]

(* Only one function does.                                                 *)
LEMMA FlattensAgree ==
    ASSUME NEW seqs, Len(seqs) \in Nat, NEW f, Flattens(f, seqs),
           NEW g, Flattens(g, seqs)
    PROVE  \A i \in 1..Len(seqs) : g[i] = f[i]
<1> DEFINE n   == Len(seqs)
           bad == {i \in 1..n : g[i] # f[i]}
<1>1. SUFFICES ASSUME bad # {} PROVE FALSE
  OBVIOUS
<1>2. bad \subseteq Nat
  OBVIOUS
<1>3. PICK k \in bad : \A j \in bad : k <= j
  <2> HIDE DEF bad
  <2>1. QED
    BY <1>1, <1>2, LeastNumber
<1>4. k \in 1..n /\ g[k] # f[k] /\ \A j \in 1..n : j < k => g[j] = f[j]
  BY <1>3
<1> HIDE DEF bad
<1>5. /\ \A i \in 1..n : f[i] = IF i = 1 THEN seqs[i] ELSE f[i - 1] \o seqs[i]
      /\ \A i \in 1..n : g[i] = IF i = 1 THEN seqs[i] ELSE g[i - 1] \o seqs[i]
  BY DEF Flattens
<1>6. k = 1 \/ (k - 1 \in 1..n /\ k - 1 < k)
  <2>1. n \in Nat
    OBVIOUS
  <2> HIDE DEF n
  <2>2. QED
    BY <1>4, <2>1
<1> HIDE DEF n
<1>7. QED
  BY <1>4, <1>5, <1>6

(* The library's operator is what any flattening ends with.                *)
LEMMA FlattenIs ==
    ASSUME NEW seqs, Len(seqs) \in Nat, Len(seqs) # 0, NEW f, Flattens(f, seqs)
    PROVE  FlattenSeq(seqs) = f[Len(seqs)]
<1>1. FlattenSeq(seqs) = (CHOOSE g : Flattens(g, seqs))[Len(seqs)]
  BY DEF FlattenSeq, Flattens
<1>2. Flattens(CHOOSE g : Flattens(g, seqs), seqs)
  OBVIOUS
<1>3. Len(seqs) \in 1..Len(seqs)
  OBVIOUS
<1>4. QED
  BY <1>1, <1>2, <1>3, FlattensAgree

(* A flattening extends to one sequence more.                              *)
LEMMA FlattensMore ==
    ASSUME NEW S, NEW seqs \in Seq(Seq(S)), NEW x \in Seq(S),
           NEW f, Flattens(f, seqs)
    PROVE  LET n == Len(seqs)
           IN  Flattens([i \in 1..(n + 1) |->
                           IF i = n + 1 THEN IF n = 0 THEN x ELSE f[n] \o x
                           ELSE f[i]], Append(seqs, x))
<1> DEFINE more == Append(seqs, x)
           n    == Len(seqs)
           Old(i) == IF i = 1 THEN seqs[i] ELSE f[i - 1] \o seqs[i]
           last == IF n = 0 THEN x ELSE f[n] \o x
           g    == [i \in 1..(n + 1) |-> IF i = n + 1 THEN last ELSE f[i]]
           New(i) == IF i = 1 THEN more[i] ELSE g[i - 1] \o more[i]
<1>1. /\ n \in Nat /\ DOMAIN seqs = 1..n /\ Len(more) = n + 1
      /\ more[n + 1] = x /\ \A i \in 1..n : more[i] = seqs[i]
  BY AppendProperties, LenProperties
<1>2. f = [i \in 1..n |-> Old(i)]
  BY DEF Flattens
<1>3. \A i \in 1..n : f[i] = Old(i)
  <2> HIDE DEF Old
  <2> QED BY <1>2
<1>4. \A i \in 1..(n + 1) : g[i] = New(i)
  <2> SUFFICES ASSUME NEW i \in 1..(n + 1) PROVE g[i] = New(i)
    OBVIOUS
  <2> HIDE DEF more, n
  <2>1. CASE i = n + 1
    <3>1. g[i] = last
      BY <2>1
    <3>2. n # 0 => i # 1 /\ i - 1 = n /\ n \in 1..(n + 1) /\ n # n + 1
      BY <1>1, <2>1
    <3>3. n = 0 => i = 1
      BY <2>1
    <3>4. QED
      BY <1>1, <2>1, <3>1, <3>2, <3>3
  <2>2. CASE i # n + 1
    <3>1. i \in 1..n
      BY <1>1, <2>2
    <3>2. g[i] = Old(i)
      BY <1>3, <2>2, <3>1
    <3>3. i # 1 => i - 1 \in 1..(n + 1) /\ i - 1 # n + 1
      BY <1>1, <3>1
    <3>4. i # 1 => g[i - 1] = f[i - 1]
      BY <3>3
    <3>5. more[i] = seqs[i]
      BY <1>1, <3>1
    <3> HIDE DEF g
    <3>6. QED
      BY <3>2, <3>4, <3>5
  <2>3. QED
    BY <2>1, <2>2
<1>5. g = [i \in 1..(n + 1) |-> New(i)]
  <2> DEFINE entry(i) == IF i = n + 1 THEN last ELSE f[i]
  <2>1. g = [i \in 1..(n + 1) |-> entry(i)]
    OBVIOUS
  <2>2. \A i \in 1..(n + 1) : entry(i) = New(i)
    BY <1>4
  <2> HIDE DEF entry, New
  <2>3. QED
    BY <2>1, <2>2
<1>6. Flattens(g, more)
  <2> HIDE DEF g, more, n
  <2>1. QED
    BY <1>1, <1>5 DEF Flattens
<1>7. QED
  BY <1>6

(* Every sequence of sequences has a flattening.                           *)
LEMMA FlattensExist ==
    ASSUME NEW S, NEW seqs \in Seq(Seq(S))
    PROVE  \E f : Flattens(f, seqs)
<1> DEFINE Good == {s \in Seq(Seq(S)) : \E f : Flattens(f, s)}
<1>1. <<>> \in Good
  <2>1. Flattens([i \in 1..Len(<<>>) |-> <<>>], <<>>)
    BY EmptySeq DEF Flattens
  <2>2. QED
    BY <2>1, EmptySeq
<1>2. ASSUME NEW s \in Seq(Seq(S)), NEW x \in Seq(S), s \in Good
      PROVE  Append(s, x) \in Good
  BY <1>2, FlattensMore, AppendProperties
<1> HIDE DEF Good
<1>3. Seq(Seq(S)) \subseteq Good
  BY <1>1, <1>2, SequenceInduction
<1>4. QED
  BY <1>3 DEF Good

(* FlattenSeq, one sequence at a time.                                     *)
LEMMA FlattenGrows ==
    ASSUME NEW S, NEW seqs \in Seq(Seq(S)), NEW x \in Seq(S)
    PROVE  FlattenSeq(Append(seqs, x)) = FlattenSeq(seqs) \o x
<1> DEFINE n == Len(seqs)
<1>1. PICK f : Flattens(f, seqs)
  BY FlattensExist
<1> DEFINE last == IF n = 0 THEN x ELSE f[n] \o x
           g == [i \in 1..(n + 1) |-> IF i = n + 1 THEN last ELSE f[i]]
<1>2. /\ n \in Nat /\ Len(Append(seqs, x)) = n + 1
      /\ Flattens(g, Append(seqs, x))
  BY <1>1, FlattensMore, AppendProperties, LenProperties, SMTT(60)
<1>3. FlattenSeq(Append(seqs, x)) = last
  <2>1. g[n + 1] = last
    BY <1>2
  <2> HIDE DEF g, last
  <2>2. n + 1 # 0 /\ n + 1 \in Nat
    BY <1>2
  <2>3. Len(Append(seqs, x)) \in Nat /\ Len(Append(seqs, x)) # 0
    BY <1>2, <2>2, Zenon
  <2>4. FlattenSeq(Append(seqs, x)) = g[Len(Append(seqs, x))]
    BY <1>2, <2>3, FlattenIs, Zenon
  <2>5. QED
    BY <1>2, <2>1, <2>4, Zenon
<1>4. CASE n = 0
  <2>1. FlattenSeq(seqs) = <<>>
    BY <1>4, EmptySeq DEF FlattenSeq
  <2>2. QED
    BY <1>3, <1>4, <2>1, ConcatEmptySeq
<1>5. CASE n # 0
  BY <1>1, <1>2, <1>3, <1>5, FlattenIs
<1>6. QED
  BY <1>4, <1>5

(* What comes out is a sequence of the same elements.                      *)
LEMMA FlattenType ==
    ASSUME NEW S, NEW seqs \in Seq(Seq(S))
    PROVE  FlattenSeq(seqs) \in Seq(S)
<1> DEFINE Good == {s \in Seq(Seq(S)) : FlattenSeq(s) \in Seq(S)}
<1>1. <<>> \in Good
  BY EmptySeq DEF FlattenSeq
<1>2. ASSUME NEW s \in Seq(Seq(S)), NEW x \in Seq(S), s \in Good
      PROVE  Append(s, x) \in Good
  BY <1>2, FlattenGrows, AppendProperties, ConcatProperties, ZenonT(60)
<1> HIDE DEF Good
<1>3. Seq(Seq(S)) \subseteq Good
  BY <1>1, <1>2, SequenceInduction
<1>4. QED
  BY <1>3 DEF Good

(* Flattening two sequences, one after the other.                          *)
LEMMA FlattenConcat ==
    ASSUME NEW S, NEW left \in Seq(Seq(S)), NEW right \in Seq(Seq(S))
    PROVE  FlattenSeq(left \o right) = FlattenSeq(left) \o FlattenSeq(right)
<1> DEFINE Good == {s \in Seq(Seq(S)) :
                      FlattenSeq(left \o s) = FlattenSeq(left) \o FlattenSeq(s)}
<1>1. <<>> \in Good
  <2>1. FlattenSeq(<<>>) = <<>>
    BY EmptySeq DEF FlattenSeq
  <2>2. left \o <<>> = left /\ FlattenSeq(left) \o <<>> = FlattenSeq(left)
    BY ConcatEmptySeq, FlattenType
  <2>3. QED
    BY <2>1, <2>2, EmptySeq
<1>2. ASSUME NEW s \in Seq(Seq(S)), NEW x \in Seq(S), s \in Good
      PROVE  Append(s, x) \in Good
  <2>1. left \o Append(s, x) = Append(left \o s, x)
    <3>1. <<x>> \in Seq(Seq(S)) /\ left \o s \in Seq(Seq(S))
      BY ConcatProperties
    <3>2. /\ Append(s, x) = s \o <<x>>
          /\ Append(left \o s, x) = (left \o s) \o <<x>>
      BY <3>1, AppendIsConcat
    <3>3. (left \o s) \o <<x>> = left \o (s \o <<x>>)
      BY <3>1, ConcatAssociative, SMTT(60)
    <3>4. QED
      BY <3>2, <3>3
  <2>2. left \o s \in Seq(Seq(S)) /\ Append(s, x) \in Seq(Seq(S))
    BY ConcatProperties, AppendProperties
  <2>3. FlattenSeq(left \o Append(s, x)) = (FlattenSeq(left) \o FlattenSeq(s)) \o x
    BY <1>2, <2>1, <2>2, FlattenGrows, ZenonT(60)
  <2>4. FlattenSeq(Append(s, x)) = FlattenSeq(s) \o x
    BY FlattenGrows
  <2>5. FlattenSeq(left) \in Seq(S) /\ FlattenSeq(s) \in Seq(S)
    BY FlattenType
  <2>6. (FlattenSeq(left) \o FlattenSeq(s)) \o x = FlattenSeq(left) \o (FlattenSeq(s) \o x)
    BY <2>5, ConcatAssociative, SMTT(60)
  <2>7. FlattenSeq(left \o Append(s, x)) = FlattenSeq(left) \o FlattenSeq(Append(s, x))
    BY <2>3, <2>4, <2>6, Zenon
  <2>8. QED
    BY <2>2, <2>7
<1> HIDE DEF Good
<1>3. Seq(Seq(S)) \subseteq Good
  BY <1>1, <1>2, SequenceInduction
<1>4. QED
  BY <1>3 DEF Good

-----------------------------------------------------------------------------
(* Where a span ends.                                                      *)

(* The minimum of a set of numbers that has one.                           *)
LEMMA MinIs ==
    ASSUME NEW K, K \subseteq Nat, NEW m \in K, \A j \in K : m <= j
    PROVE  Min(K) = m
<1>1. Min(K) \in K /\ \A j \in K : Min(K) <= j
  BY DEF Min
<1>2. PICK other \in K : other = Min(K) /\ \A j \in K : other <= j
  BY <1>1, Zenon
<1>3. m <= other /\ other <= m /\ m \in Nat /\ other \in Nat
  BY <1>2
<1>4. m = other
  BY <1>3
<1>5. QED
  BY <1>2, <1>4

(* And of any set of numbers that is not empty.                            *)
LEMMA MinIn ==
    ASSUME NEW K, K \subseteq Nat, K # {}
    PROVE  Min(K) \in K
<1>1. PICK m \in K : \A j \in K : m <= j
  BY LeastNumber
<1>2. QED
  BY <1>1, MinIs

(* A run of characters ends where the next is of another class.            *)
LEMMA RunEndIs ==
    ASSUME NEW line \in Seq(Classes), NEW start \in 1..Len(line), NEW classes,
           NEW end \in start..Len(line),
           \A i \in (start + 1)..end : line[i] \in classes,
           end < Len(line) => line[end + 1] \notin classes
    PROVE  RunEnd(line, start, classes) = end
<1>1. PICK n \in Nat : n = Len(line)
  BY LenProperties
<1> DEFINE Ends(e) == /\ \A i \in (start + 1)..e : line[i] \in classes
                      /\ e < Len(line) => line[e + 1] \notin classes
           r == RunEnd(line, start, classes)
<1>2. r \in start..n /\ Ends(r)
  BY <1>1 DEF RunEnd
<1>3. start \in 1..n /\ end \in start..n /\ Ends(end)
  BY <1>1
<1> HIDE DEF r
<1>4. r < end => FALSE
  <2> SUFFICES ASSUME r < end PROVE FALSE
    OBVIOUS
  <2>1. r + 1 \in (start + 1)..end /\ r < n
    BY <1>2, <1>3
  <2>2. QED
    BY <1>1, <1>2, <1>3, <2>1
<1>5. end < r => FALSE
  <2> SUFFICES ASSUME end < r PROVE FALSE
    OBVIOUS
  <2>1. end + 1 \in (start + 1)..r /\ end < n
    BY <1>2, <1>3
  <2>2. QED
    BY <1>1, <1>2, <1>3, <2>1
<1>6. r = end
  BY <1>2, <1>3, <1>4, <1>5
<1>7. QED
  BY <1>6 DEF r

(* A run ends somewhere on its line.                                       *)
LEMMA RunEndIn ==
    ASSUME NEW line \in Seq(Classes), NEW start \in 1..Len(line), NEW classes
    PROVE  RunEnd(line, start, classes) \in start..Len(line)
<1>1. PICK n \in Nat : n = Len(line)
  BY LenProperties
<1> DEFINE K == {e \in start..n : e < n => line[e + 1] \notin classes}
<1>2. start \in 1..n /\ n \in start..n
  BY <1>1
<1>3. K \subseteq Nat /\ n \in K
  BY <1>1, <1>2
<1>4. PICK e \in K : \A j \in K : e <= j
  <2> HIDE DEF K
  <2>1. QED
    BY <1>3, LeastNumber
<1>5. e \in start..n /\ (e < n => line[e + 1] \notin classes)
  OBVIOUS
<1>6. \A i \in (start + 1)..e : line[i] \in classes
  <2> SUFFICES ASSUME NEW i \in (start + 1)..e, line[i] \notin classes PROVE FALSE
    OBVIOUS
  <2>1. i - 1 \in start..n /\ i - 1 < e /\ (i - 1) + 1 = i
    BY <1>2, <1>5
  <2>2. i - 1 \in K
    BY <2>1
  <2>3. QED
    BY <1>4, <1>5, <2>1, <2>2
<1> HIDE DEF K
<1>7. RunEnd(line, start, classes) = e
  BY <1>1, <1>5, <1>6, RunEndIs
<1>8. QED
  BY <1>1, <1>5, <1>7

(***************************************************************************)
(* Which characters of a string are escaped, as highlight_json_line keeps  *)
(* track of them from its opening quote on.                                *)
(***************************************************************************)
Escapes(e, line, start) ==
    e = [i \in start..Len(line) |->
           i > start + 1 /\ line[i - 1] = "backslash" /\ ~e[i - 1]]

(* They can be told from left to right.                                    *)
LEMMA EscapesExist ==
    ASSUME NEW line \in Seq(Classes), NEW start \in 1..Len(line)
    PROVE  \E e : Escapes(e, line, start)
<1>1. PICK n \in Nat : n = Len(line)
  BY LenProperties
<1> DEFINE Upto(e, k) ==
             e = [i \in start..k |->
                    i > start + 1 /\ line[i - 1] = "backslash" /\ ~e[i - 1]]
           bad == {k \in start..n : ~ \E e : Upto(e, k)}
<1>2. start \in 1..n
  BY <1>1
<1>3. SUFFICES ASSUME bad # {} PROVE FALSE
  <2>1. n \in start..n
    BY <1>1, <1>2
  <2>2. QED
    BY <1>1, <1>3, <2>1 DEF Escapes
<1>4. PICK k \in bad : \A j \in bad : k <= j
  <2>1. bad \subseteq Nat
    BY <1>2
  <2> HIDE DEF bad
  <2>2. QED
    BY <1>3, <2>1, LeastNumber
<1>5. k \in start..n /\ ~ \E e : Upto(e, k)
  OBVIOUS
<1>6. CASE k = start
  <2> DEFINE e == [i \in start..k |-> FALSE]
             Told(i) == i > start + 1 /\ line[i - 1] = "backslash" /\ ~e[i - 1]
  <2>1. \A i \in start..k : Told(i) = FALSE
    BY <1>2, <1>6
  <2>2. e = [i \in start..k |-> Told(i)]
    <3> HIDE DEF Told
    <3>1. QED
      BY <2>1
  <2>3. Upto(e, k)
    <3> HIDE DEF e
    <3>1. QED
      BY <2>2
  <2>4. QED
    <3> HIDE DEF e, Upto
    <3>1. QED
      BY <1>5, <2>3
<1>7. CASE k # start
  <2>1. k - 1 \in start..n /\ k - 1 < k /\ ~(k - 1 >= k)
    BY <1>2, <1>5, <1>7
  <2>2. PICK d : Upto(d, k - 1)
    <3>1. k - 1 \notin bad
      BY <1>4, <1>5, <2>1
    <3> HIDE DEF Upto
    <3>2. QED
      BY <2>1, <3>1
  <2> DEFINE Given(i) == i > start + 1 /\ line[i - 1] = "backslash" /\ ~d[i - 1]
             e == [i \in start..k |-> Given(i)]
             Told(i) == i > start + 1 /\ line[i - 1] = "backslash" /\ ~e[i - 1]
  <2>3. \A i \in start..(k - 1) : d[i] = Given(i)
    <3>1. d = [i \in start..(k - 1) |-> Given(i)]
      BY <2>2
    <3> HIDE DEF Given
    <3>2. QED
      BY <3>1
  <2>4. \A i \in start..k : i > start + 1 => i - 1 \in start..(k - 1) /\ i - 1 \in start..k
    BY <1>2, <1>5
  <2>5. \A i \in start..(k - 1) : i \in start..k
    BY <1>2, <1>5
  <2>6. \A i \in start..(k - 1) : e[i] = d[i]
    <3> HIDE DEF Given
    <3>1. QED
      BY <2>3, <2>5
  <2>7. \A i \in start..k : Told(i) = Given(i)
    <3> HIDE DEF e
    <3>1. QED
      BY <2>4, <2>6
  <2>8. e = [i \in start..k |-> Told(i)]
    <3>1. e = [i \in start..k |-> Given(i)]
      OBVIOUS
    <3> HIDE DEF e, Given, Told
    <3>2. QED
      BY <2>7, <3>1
  <2>9. Upto(e, k)
    <3> HIDE DEF e
    <3>1. QED
      BY <2>8
  <2>10. QED
    <3> HIDE DEF e, Upto
    <3>1. QED
      BY <1>5, <2>9
<1>8. QED
  BY <1>6, <1>7

(* One place after another.                                                *)
LEMMA EscapesAt ==
    ASSUME NEW line \in Seq(Classes), NEW start \in 1..Len(line),
           NEW e, Escapes(e, line, start)
    PROVE  /\ \A i \in start..Len(line) :
                /\ i <= start + 1 => e[i] = FALSE
                /\ line[i - 1] # "backslash" => e[i] = FALSE
                /\ i > start + 1 /\ line[i - 1] = "backslash" => e[i] = ~e[i - 1]
                /\ e[i] \in BOOLEAN
<1> DEFINE Told(i) == i > start + 1 /\ line[i - 1] = "backslash" /\ ~e[i - 1]
<1>1. e = [i \in start..Len(line) |-> Told(i)]
  BY DEF Escapes
<1> HIDE DEF Told
<1>2. \A i \in start..Len(line) : e[i] = Told(i)
  BY <1>1
<1>3. PICK n \in Nat : n = Len(line)
  BY LenProperties
<1>4. start \in 1..n
  BY <1>3
<1>5. SUFFICES ASSUME NEW i \in start..n
               PROVE  /\ i <= start + 1 => e[i] = FALSE
                      /\ line[i - 1] # "backslash" => e[i] = FALSE
                      /\ i > start + 1 /\ line[i - 1] = "backslash" => e[i] = ~e[i - 1]
                      /\ e[i] \in BOOLEAN
  BY <1>3
<1>6. e[i] = Told(i)
  BY <1>2, <1>3
<1>7. i <= start + 1 => ~(i > start + 1)
  BY <1>4
<1>8. QED
  BY <1>6, <1>7 DEF Told

(* A character is plain, or a backslash and what it escapes.               *)
LEMMA CharacterIs ==
    ASSUME NEW x \in Character
    PROVE  /\ x \in Seq(Classes)
           /\ \/ /\ Len(x) = 1
                 /\ x[1] # "quote" /\ x[1] # "backslash"
              \/ Len(x) = 2 /\ x[1] = "backslash"
<1>1. CASE \E c \in Classes \ {"quote", "backslash"} : x = <<c>>
  BY <1>1
<1>2. CASE \E c \in Classes : x = <<"backslash", c>>
  <2>1. PICK c \in Classes : x = <<"backslash", c>>
    BY <1>2
  <2>2. "backslash" \in Classes
    BY DEF Classes
  <2>3. QED
    BY <2>1, <2>2
<1>3. \/ x \in {<<"letter">>, <<"e">>, <<"digit">>, <<"minus">>, <<"colon">>,
               <<"space">>, <<"other">>}
      \/ x \in {<<"backslash", "quote">>, <<"backslash", "backslash">>}
  BY DEF Character
<1>4. QED
  BY <1>1, <1>2, <1>3 DEF Classes

(***************************************************************************)
(* In the text of a string every quote is escaped, and what comes after    *)
(* the text is not, whatever backslashes it ends with.                     *)
(***************************************************************************)
LEMMA TextEscapes ==
    ASSUME NEW line \in Seq(Classes), NEW start \in 1..Len(line),
           NEW e, Escapes(e, line, start),
           NEW chars \in Seq(Character),
           start + Len(FlattenSeq(chars)) + 1 <= Len(line),
           \A m \in 1..Len(FlattenSeq(chars)) :
              line[start + m] = FlattenSeq(chars)[m]
    PROVE  /\ e[start + Len(FlattenSeq(chars)) + 1] = FALSE
           /\ \A m \in 1..Len(FlattenSeq(chars)) :
                FlattenSeq(chars)[m] = "quote" => e[start + m] = TRUE
<1> DEFINE Fits(F) == /\ start + Len(F) + 1 <= Len(line)
                      /\ \A m \in 1..Len(F) : line[start + m] = F[m]
           Told(F) == /\ e[start + Len(F) + 1] = FALSE
                      /\ \A m \in 1..Len(F) : F[m] = "quote" => e[start + m] = TRUE
           Good == {s \in Seq(Character) : Fits(FlattenSeq(s)) => Told(FlattenSeq(s))}
<1>1. PICK n \in Nat : n = Len(line)
  BY LenProperties
<1>2. start \in 1..n
  BY <1>1
<1>3. \A i \in start..n :
         /\ i <= start + 1 => e[i] = FALSE
         /\ line[i - 1] # "backslash" => e[i] = FALSE
         /\ i > start + 1 /\ line[i - 1] = "backslash" => e[i] = ~e[i - 1]
  <2>1. \A i \in start..Len(line) :
          /\ i <= start + 1 => e[i] = FALSE
          /\ line[i - 1] # "backslash" => e[i] = FALSE
          /\ i > start + 1 /\ line[i - 1] = "backslash" => e[i] = ~e[i - 1]
          /\ e[i] \in BOOLEAN
    BY EscapesAt, Zenon
  <2>2. QED
    BY <1>1, <2>1, Zenon
<1>4. Character \subseteq Seq(Classes)
  BY CharacterIs
<1>5. \A s \in Seq(Character) : s \in Seq(Seq(Classes)) /\ FlattenSeq(s) \in Seq(Classes)
  <2> SUFFICES ASSUME NEW s \in Seq(Character)
               PROVE  s \in Seq(Seq(Classes)) /\ FlattenSeq(s) \in Seq(Classes)
    OBVIOUS
  <2>1. s \in Seq(Seq(Classes))
    BY <1>4, SeqMonotonic
  <2>2. QED
    BY <2>1, FlattenType
<1>6. <<>> \in Good
  <2>1. FlattenSeq(<<>>) = <<>> /\ Len(<<>>) = 0 /\ <<>> \in Seq(Character)
    BY EmptySeq DEF FlattenSeq
  <2>2. start + 0 + 1 = start + 1 /\ (start + 1 <= n => start + 1 \in start..n)
    BY <1>2
  <2>3. Fits(<<>>) => Told(<<>>)
    BY <1>1, <1>3, <2>1, <2>2
  <2> HIDE DEF Fits, Told
  <2>4. QED
    BY <2>1, <2>3, SMTT(60)
<1>7. ASSUME NEW s \in Seq(Character), NEW x \in Character, s \in Good
      PROVE  Append(s, x) \in Good
  <2> DEFINE F == FlattenSeq(s)
             G == F \o x
  <2>1. FlattenSeq(Append(s, x)) = G
    BY <1>4, <1>5, FlattenGrows
  <2>2. PICK k \in Nat : k = Len(F)
    BY <1>5, LenProperties
  <2>3. PICK l \in {1, 2} :
          /\ l = Len(x)
          /\ l = 1 => x[1] # "quote" /\ x[1] # "backslash"
          /\ l = 2 => x[1] = "backslash"
    BY CharacterIs
  <2>4. /\ Len(G) = k + l
        /\ \A m \in 1..k : G[m] = F[m]
        /\ \A m \in 1..l : G[k + m] = x[m]
    <3>1. F \in Seq(Classes) /\ x \in Seq(Classes)
      BY <1>4, <1>5
    <3> HIDE DEF F
    <3>2. /\ Len(G) = Len(F) + Len(x)
          /\ \A m \in 1..(Len(F) + Len(x)) :
               G[m] = IF m <= Len(F) THEN F[m] ELSE x[m - Len(F)]
      BY <3>1, ConcatProperties
    <3>3. \A m \in 1..k : m \in 1..(k + l) /\ m <= k
      BY <2>2, <2>3
    <3>4. \A m \in 1..l : k + m \in 1..(k + l) /\ ~(k + m <= k) /\ (k + m) - k = m
      BY <2>2, <2>3, SMTT(60)
    <3> HIDE DEF G
    <3>5. /\ Len(G) = k + l
          /\ \A m \in 1..(k + l) : G[m] = IF m <= k THEN F[m] ELSE x[m - k]
      <4>1. Len(F) = k /\ Len(x) = l
        BY <2>2, <2>3
      <4>2. QED
        BY <3>2, <4>1, Zenon
    <3>6. \A m \in 1..k : G[m] = F[m]
      BY <3>3, <3>5, Zenon
    <3>7. \A m \in 1..l : G[k + m] = x[m]
      BY <3>4, <3>5
    <3>8. QED
      BY <3>5, <3>6, <3>7
  <2>5. Fits(F) => Told(F)
    BY <1>7
  <2> HIDE DEF F, G
  <2>6. ASSUME Fits(G) PROVE Told(G)
    <3>1. start + k + l + 1 <= n /\ start + (k + l) + 1 = start + k + l + 1
      BY <1>1, <1>2, <2>2, <2>3, <2>4, <2>6
    <3>2. \A m \in 1..(k + l) : line[start + m] = G[m]
      BY <2>4, <2>6
    <3>3. Fits(F)
      <4>1. start + k + 1 <= n
        BY <1>2, <2>2, <2>3, <3>1
      <4>2. \A m \in 1..k : m \in 1..(k + l)
        BY <2>2, <2>3
      <4>3. \A m \in 1..k : line[start + m] = F[m]
        BY <2>4, <3>2, <4>2, SMTT(60)
      <4>4. QED
        BY <1>1, <2>2, <4>1, <4>3
    <3>4. /\ e[start + k + 1] = FALSE
          /\ \A m \in 1..k : F[m] = "quote" => e[start + m] = TRUE
      BY <2>2, <2>5, <3>3
    <3>5. \A m \in 1..l : line[start + k + m] = x[m]
      <4>1. \A m \in 1..l : k + m \in 1..(k + l) /\ start + (k + m) = start + k + m
        BY <1>2, <2>2, <2>3
      <4>2. QED
        BY <2>4, <3>2, <4>1, SMTT(60)
    <3>6. CASE l = 1
      <4>1. line[start + k + 1] = x[1] /\ x[1] # "quote" /\ x[1] # "backslash"
        BY <2>3, <3>5, <3>6
      <4>2. start + k + 2 \in start..n /\ (start + k + 2) - 1 = start + k + 1
        BY <1>2, <2>2, <3>1, <3>6
      <4>3. e[start + k + 2] = FALSE
        BY <1>3, <4>1, <4>2
      <4>4. start + (k + l) + 1 = start + k + 2
        <5>1. start \in Nat
          BY <1>2
        <5>2. QED
          BY <3>6, <5>1, SMTT(60)
      <4>5. \A m \in 1..(k + l) : m \in 1..k \/ m = k + 1
        <5> SUFFICES ASSUME NEW m \in 1..(k + 1) PROVE m \in 1..k \/ m = k + 1
          BY <3>6
        <5>1. m \in Nat /\ m <= k + 1 /\ m >= 1
          OBVIOUS
        <5>2. QED
          BY <5>1
      <4>6. G[k + 1] # "quote"
        BY <2>3, <2>4, <3>6
      <4>7. \A m \in 1..(k + l) : G[m] = "quote" => e[start + m] = TRUE
        BY <2>4, <3>4, <4>5, <4>6
      <4>8. QED
        BY <2>4, <4>3, <4>4, <4>7
    <3>7. CASE l = 2
      <4>1. line[start + k + 1] = "backslash" /\ x[1] = "backslash"
        BY <2>3, <3>5, <3>7
      <4>2. /\ start + k + 2 \in start..n /\ (start + k + 2) - 1 = start + k + 1
            /\ start + k + 2 > start + 1
            /\ start + k + 3 \in start..n /\ (start + k + 3) - 1 = start + k + 2
            /\ start + k + 3 > start + 1
        BY <1>2, <2>2, <3>1, <3>7
      <4>3. e[start + k + 2] = TRUE
        BY <1>3, <3>4, <4>1, <4>2, ZenonT(60)
      <4>4. e[start + k + 3] = FALSE
        BY <1>3, <4>2, <4>3
      <4>5. start + (k + l) + 1 = start + k + 3 /\ start + (k + 2) = start + k + 2
        <5>1. start \in Nat
          BY <1>2
        <5>2. QED
          BY <3>7, <5>1, SMTT(60)
      <4>6. \A m \in 1..(k + l) : m \in 1..k \/ m = k + 1 \/ m = k + 2
        <5> SUFFICES ASSUME NEW m \in 1..(k + 2)
                     PROVE  m \in 1..k \/ m = k + 1 \/ m = k + 2
          BY <3>7
        <5>1. m \in Nat /\ m <= k + 2 /\ m >= 1
          OBVIOUS
        <5>2. QED
          BY <5>1
      <4>7. G[k + 1] # "quote"
        BY <2>3, <2>4, <3>7
      <4>8. \A m \in 1..(k + l) : G[m] = "quote" => e[start + m] = TRUE
        BY <2>4, <3>4, <4>3, <4>5, <4>6, <4>7
      <4>9. QED
        BY <2>4, <4>4, <4>5, <4>8
    <3>8. QED
      BY <2>3, <3>6, <3>7
  <2>7. Append(s, x) \in Seq(Character)
    BY AppendProperties
  <2> HIDE DEF Fits, Told
  <2>8. QED
    BY <2>1, <2>6, <2>7
<1>8. Seq(Character) \subseteq Good
  <2> HIDE DEF Good
  <2>1. QED
    BY <1>6, <1>7, SequenceInduction
<1>9. Fits(FlattenSeq(chars))
  OBVIOUS
<1>10. Told(FlattenSeq(chars))
  <2> HIDE DEF Fits, Told
  <2>1. QED
    BY <1>8, <1>9
<1>11. QED
  BY <1>10

(* So a string ends with the quote that closes it.                         *)
LEMMA StringEndIs ==
    ASSUME NEW line \in Seq(Classes), NEW start \in 1..Len(line),
           NEW chars \in Seq(Character), NEW k \in Nat,
           k = Len(FlattenSeq(chars)),
           start + k + 1 <= Len(line),
           \A m \in 1..k : line[start + m] = FlattenSeq(chars)[m],
           line[start + k + 1] = "quote"
    PROVE  StringEnd(line, start) = start + k + 1
<1> DEFINE e == CHOOSE d : Escapes(d, line, start)
           K == {i \in (start + 1)..Len(line) : line[i] = "quote" /\ ~e[i]}
           end == start + k + 1
<1>1. PICK n \in Nat : n = Len(line)
  BY LenProperties
<1>2. start \in 1..n
  BY <1>1
<1>3. Escapes(e, line, start)
  BY EscapesExist
<1>4. StringEnd(line, start) = IF K = {} THEN Len(line) ELSE Min(K)
  BY DEF StringEnd, Escapes
<1> HIDE DEF e
<1>5. /\ e[end] = FALSE
      /\ \A m \in 1..k : FlattenSeq(chars)[m] = "quote" => e[start + m] = TRUE
  BY <1>3, TextEscapes, ZenonT(60)
<1>6. end \in K
  BY <1>1, <1>2, <1>5
<1>7. \A i \in K : end <= i
  <2> SUFFICES ASSUME NEW i \in (start + 1)..n, line[i] = "quote", ~e[i], i < end
               PROVE  FALSE
    BY <1>1, <1>2
  <2>1. PICK m \in 1..k : start + m = i
    <3>1. i - start \in 1..k /\ start + (i - start) = i
      BY <1>2
    <3>2. QED
      BY <3>1
  <2>2. FlattenSeq(chars)[m] = "quote"
    BY <2>1, SMTT(60)
  <2>3. e[i] = TRUE
    BY <1>5, <2>1, <2>2, Zenon
  <2>4. QED
    BY <2>3
<1>8. K \subseteq Nat
  BY <1>1, <1>2
<1>9. QED
  <2> HIDE DEF K, end
  <2>1. Min(K) = end
    BY <1>6, <1>7, <1>8, MinIs
  <2>2. QED
    BY <1>4, <1>6, <2>1 DEF end

(* A string ends somewhere on its line.                                    *)
LEMMA StringEndIn ==
    ASSUME NEW line \in Seq(Classes), NEW start \in 1..Len(line)
    PROVE  StringEnd(line, start) \in start..Len(line)
<1> DEFINE e == CHOOSE d : Escapes(d, line, start)
           K == {i \in (start + 1)..Len(line) : line[i] = "quote" /\ ~e[i]}
<1>1. PICK n \in Nat : n = Len(line)
  BY LenProperties
<1>2. start \in 1..n
  BY <1>1
<1>3. StringEnd(line, start) = IF K = {} THEN Len(line) ELSE Min(K)
  BY DEF StringEnd, Escapes
<1>4. K \subseteq Nat /\ K \subseteq start..n /\ n \in start..n
  BY <1>1, <1>2
<1> HIDE DEF K
<1>5. K # {} => Min(K) \in K
  BY <1>4, MinIn
<1>6. QED
  BY <1>1, <1>3, <1>4, <1>5

(* So does any span.                                                       *)
LEMMA SpanEndIn ==
    ASSUME NEW line \in Seq(Classes), NEW start \in 1..Len(line)
    PROVE  SpanEnd(line, start) \in start..Len(line)
<1>1. PICK n \in Nat : n = Len(line)
  BY LenProperties
<1>2. start \in start..Len(line)
  BY <1>1
<1>3. \A classes : RunEnd(line, start, classes) \in start..Len(line)
  BY RunEndIn
<1>4. StringEnd(line, start) \in start..Len(line)
  BY StringEndIn
<1>5. \/ \E classes : SpanEnd(line, start) = RunEnd(line, start, classes)
      \/ SpanEnd(line, start) = StringEnd(line, start)
      \/ SpanEnd(line, start) = start
  <2>1. CASE line[start] = "space"
    BY <2>1 DEF SpanEnd
  <2>2. CASE line[start] = "quote"
    BY <2>2 DEF SpanEnd
  <2>3. CASE line[start] \in {"minus", "digit"}
    BY <2>3 DEF SpanEnd
  <2>4. CASE line[start] \in InWord
    BY <2>4 DEF SpanEnd, InWord
  <2>5. CASE line[start] \notin InWord \cup {"space", "quote", "minus", "digit"}
    BY <2>5 DEF SpanEnd
  <2>6. QED
    BY <2>1, <2>2, <2>3, <2>4, <2>5
<1>6. QED
  BY <1>2, <1>3, <1>4, <1>5

-----------------------------------------------------------------------------
(* The spans of a line.                                                    *)

SpanAt(line, i) == Span(Style(line, i), SubSeq(line, i, SpanEnd(line, i)))

\* f holds, for each place of the line, the spans from there on.
Spans(f, line) ==
    f = [i \in 1..(Len(line) + 1) |->
           IF i > Len(line) THEN <<>>
           ELSE <<SpanAt(line, i)>> \o f[SpanEnd(line, i) + 1]]

SpansOf(line) == CHOOSE f : Spans(f, line)

(* They can be told from right to left, as every span ends.                *)
LEMMA SpansExist ==
    ASSUME NEW line \in Seq(Classes)
    PROVE  \E f : Spans(f, line)
<1>1. PICK n \in Nat : n = Len(line)
  BY LenProperties
<1> DEFINE After(i) == SpanEnd(line, i) + 1
           From(f, k) ==
             f = [i \in (n + 1 - k)..(n + 1) |->
                    IF i > n THEN <<>> ELSE <<SpanAt(line, i)>> \o f[After(i)]]
           bad == {k \in 0..n : ~ \E f : From(f, k)}
<1>2. \A i \in 1..n : After(i) \in (i + 1)..(n + 1)
  <2> SUFFICES ASSUME NEW i \in 1..n PROVE After(i) \in (i + 1)..(n + 1)
    OBVIOUS
  <2>1. PICK e \in i..n : e = SpanEnd(line, i)
    BY <1>1, SpanEndIn
  <2>2. QED
    BY <2>1
<1> HIDE DEF After
<1>3. SUFFICES ASSUME bad # {} PROVE FALSE
  <2>1. n \in 0..n /\ n + 1 - n = 1
    OBVIOUS
  <2>2. PICK f : From(f, n)
    <3> HIDE DEF From
    <3>1. QED
      BY <1>3, <2>1
  <2>3. f = [i \in 1..(n + 1) |->
               IF i > n THEN <<>> ELSE <<SpanAt(line, i)>> \o f[After(i)]]
    BY <2>1, <2>2
  <2>4. Spans(f, line)
    BY <1>1, <2>3 DEF Spans, After
  <2>5. QED
    BY <2>4
<1>4. PICK k \in bad : \A j \in bad : k <= j
  <2>1. bad \subseteq Nat
    OBVIOUS
  <2> HIDE DEF bad
  <2>2. QED
    BY <1>3, <2>1, LeastNumber
<1>5. k \in 0..n /\ ~ \E f : From(f, k)
  OBVIOUS
<1>6. CASE k = 0
  <2> DEFINE f == [i \in (n + 1 - k)..(n + 1) |-> <<>>]
             Told(i) == IF i > n THEN <<>> ELSE <<SpanAt(line, i)>> \o f[After(i)]
  <2>1. \A i \in (n + 1 - k)..(n + 1) : Told(i) = <<>>
    BY <1>6
  <2>2. f = [i \in (n + 1 - k)..(n + 1) |-> Told(i)]
    <3> HIDE DEF Told
    <3>1. QED
      BY <2>1
  <2>3. From(f, k)
    <3> HIDE DEF f
    <3>1. QED
      BY <2>2
  <2>4. QED
    <3> HIDE DEF f, From
    <3>1. QED
      BY <1>5, <2>3
<1>7. CASE k # 0
  <2>1. k - 1 \in 0..n /\ ~(k - 1 >= k)
    BY <1>5, <1>7
  <2>2. PICK d : From(d, k - 1)
    <3>1. k - 1 \notin bad
      BY <1>4, <1>5, <2>1
    <3> HIDE DEF From
    <3>2. QED
      BY <2>1, <3>1
  <2> DEFINE low == n + 1 - k
             Given(i) == IF i > n THEN <<>> ELSE <<SpanAt(line, i)>> \o d[After(i)]
             f == [i \in low..(n + 1) |-> Given(i)]
             Told(i) == IF i > n THEN <<>> ELSE <<SpanAt(line, i)>> \o f[After(i)]
  <2>3. low \in 1..n /\ n + 1 - (k - 1) = low + 1
    BY <1>5, <1>7
  <2>4. \A i \in (low + 1)..(n + 1) : d[i] = Given(i)
    <3>1. d = [i \in (low + 1)..(n + 1) |-> Given(i)]
      BY <2>2, <2>3
    <3> HIDE DEF Given, low
    <3>2. QED
      BY <3>1
  <2> HIDE DEF low
  <2>5. \A i \in (low + 1)..(n + 1) : f[i] = d[i]
    <3>1. \A i \in (low + 1)..(n + 1) : i \in low..(n + 1)
      BY <2>3
    <3> HIDE DEF Given
    <3>2. QED
      BY <2>4, <3>1
  <2>6. \A i \in low..(n + 1) : Told(i) = Given(i)
    <3>1. \A i \in low..n : After(i) \in (low + 1)..(n + 1)
      BY <1>2, <2>3
    <3>2. \A i \in low..(n + 1) : i > n \/ i \in low..n
      BY <2>3
    <3> HIDE DEF f
    <3>3. QED
      BY <2>5, <3>1, <3>2
  <2>7. f = [i \in low..(n + 1) |-> Told(i)]
    <3>1. f = [i \in low..(n + 1) |-> Given(i)]
      OBVIOUS
    <3> HIDE DEF f, Given, Told
    <3>2. QED
      BY <2>6, <3>1
  <2>8. From(f, k)
    <3> HIDE DEF f
    <3>1. QED
      BY <2>7 DEF low
  <2>9. QED
    <3> HIDE DEF f, From
    <3>1. QED
      BY <1>5, <2>8
<1>8. QED
  BY <1>6, <1>7

(* The spans from a place on are the one there and those after it.         *)
LEMMA SpansFrom ==
    ASSUME NEW line \in Seq(Classes)
    PROVE  /\ \A i \in 1..Len(line) :
                SpansOf(line)[i] = <<SpanAt(line, i)>> \o SpansOf(line)[SpanEnd(line, i) + 1]
           /\ SpansOf(line)[Len(line) + 1] = <<>>
<1> DEFINE f == SpansOf(line)
           Told(i) == IF i > Len(line) THEN <<>>
                      ELSE <<SpanAt(line, i)>> \o f[SpanEnd(line, i) + 1]
<1>1. Spans(f, line)
  BY SpansExist DEF SpansOf
<1> HIDE DEF f
<1>2. f = [i \in 1..(Len(line) + 1) |-> Told(i)]
  BY <1>1 DEF Spans
<1> HIDE DEF Told
<1>3. \A i \in 1..(Len(line) + 1) : f[i] = Told(i)
  BY <1>2
<1>4. PICK n \in Nat : n = Len(line)
  BY LenProperties
<1>5. /\ \A i \in 1..n : i \in 1..(n + 1) /\ ~(i > n)
      /\ n + 1 \in 1..(n + 1) /\ n + 1 > n
  OBVIOUS
<1>6. \A i \in 1..n : f[i] = <<SpanAt(line, i)>> \o f[SpanEnd(line, i) + 1]
  BY <1>3, <1>4, <1>5 DEF Told
<1>7. f[n + 1] = <<>>
  BY <1>3, <1>4, <1>5 DEF Told
<1>8. QED
  BY <1>4, <1>6, <1>7 DEF f

-----------------------------------------------------------------------------
(* Reading tokens.                                                         *)

(***************************************************************************)
(* Wherever it begins, the rest of a line is read as these tokens.         *)
(***************************************************************************)
ReadAs(rest, tokens) ==
    /\ rest \in Seq(Classes)
    /\ \A before \in Seq(Classes) :
         SpansOf(before \o rest)[Len(before) + 1] = tokens

(***************************************************************************)
(* A text is one span of this style wherever it stands before this rest.   *)
(***************************************************************************)
Line(before, text, rest) == before \o (text \o rest)

IsToken(style, text, rest) ==
    /\ text \in Seq(Classes) /\ text # <<>>
    /\ \A before \in Seq(Classes) :
         LET line == Line(before, text, rest)
         IN  /\ SpanEnd(line, Len(before) + 1) = Len(before) + Len(text)
             /\ Style(line, Len(before) + 1) = style

AllIn(text, classes) == \A m \in 1..Len(text) : text[m] \in classes

\* Every character of the text and of the rest is in its place.
Placed(line, before, text, rest) ==
    /\ line \in Seq(Classes)
    /\ Len(line) = Len(before) + Len(text) + Len(rest)
    /\ \A m \in 1..Len(text) : line[Len(before) + m] = text[m]
    /\ \A m \in 1..Len(rest) : line[Len(before) + Len(text) + m] = rest[m]

(* What stands where in a line.                                            *)
LEMMA Places ==
    ASSUME NEW before \in Seq(Classes), NEW text \in Seq(Classes),
           NEW rest \in Seq(Classes)
    PROVE  Placed(Line(before, text, rest), before, text, rest)
<1> DEFINE tail == text \o rest
           line == Line(before, text, rest)
<1>1. PICK b \in Nat, t \in Nat, r \in Nat :
        b = Len(before) /\ t = Len(text) /\ r = Len(rest)
  BY LenProperties
<1>2. /\ tail \in Seq(Classes)
      /\ Len(tail) = t + r
      /\ \A i \in 1..(t + r) : tail[i] = IF i <= t THEN text[i] ELSE rest[i - t]
  <2>1. /\ tail \in Seq(Classes)
        /\ Len(tail) = Len(text) + Len(rest)
        /\ \A i \in 1..(Len(text) + Len(rest)) :
             tail[i] = IF i <= Len(text) THEN text[i] ELSE rest[i - Len(text)]
    BY ConcatProperties
  <2> HIDE DEF tail
  <2>2. QED
    BY <1>1, <2>1, Zenon
<1>3. line = before \o tail
  BY DEF Line
<1> HIDE DEF tail, line
<1>4. /\ line \in Seq(Classes)
      /\ Len(line) = b + (t + r)
      /\ \A i \in 1..(b + (t + r)) : line[i] = IF i <= b THEN before[i] ELSE tail[i - b]
  <2>1. /\ line \in Seq(Classes)
        /\ Len(line) = Len(before) + Len(tail)
        /\ \A i \in 1..(Len(before) + Len(tail)) :
             line[i] = IF i <= Len(before) THEN before[i] ELSE tail[i - Len(before)]
    <3>1. /\ before \o tail \in Seq(Classes)
          /\ Len(before \o tail) = Len(before) + Len(tail)
          /\ \A i \in 1..(Len(before) + Len(tail)) :
               (before \o tail)[i]
                  = IF i <= Len(before) THEN before[i] ELSE tail[i - Len(before)]
      BY <1>2, ConcatProperties, Zenon
    <3>2. QED
      BY <1>3, <3>1, Zenon
  <2>2. QED
    BY <1>1, <1>2, <2>1, Zenon
<1>5. \A m \in 1..t : line[b + m] = text[m]
  <2> SUFFICES ASSUME NEW m \in 1..t PROVE line[b + m] = text[m]
    OBVIOUS
  <2>1. /\ b + m \in 1..(b + (t + r)) /\ ~(b + m <= b) /\ (b + m) - b = m
        /\ m \in 1..(t + r) /\ m <= t
    OBVIOUS
  <2>2. QED
    BY <1>2, <1>4, <2>1
<1>6. \A m \in 1..r : line[b + t + m] = rest[m]
  <2> SUFFICES ASSUME NEW m \in 1..r PROVE line[b + t + m] = rest[m]
    OBVIOUS
  <2>1. /\ b + t + m \in 1..(b + (t + r)) /\ ~(b + t + m <= b)
        /\ (b + t + m) - b = t + m
        /\ t + m \in 1..(t + r) /\ ~(t + m <= t) /\ (t + m) - t = m
    OBVIOUS
  <2>2. QED
    BY <1>2, <1>4, <2>1
<1>7. b + (t + r) = b + t + r
  OBVIOUS
<1>8. QED
  <2>1. Placed(line, before, text, rest)
    BY <1>1, <1>4, <1>5, <1>6, <1>7 DEF Placed
  <2>2. QED
    BY <2>1 DEF line

(* Nothing is read as no token.                                            *)
LEMMA ReadNothing == ReadAs(<<>>, <<>>)
<1>1. <<>> \in Seq(Classes)
  BY EmptySeq
<1>2. ASSUME NEW before \in Seq(Classes)
      PROVE  SpansOf(before \o <<>>)[Len(before) + 1] = <<>>
  BY ConcatEmptySeq, SpansFrom
<1>3. QED
  BY <1>1, <1>2 DEF ReadAs

(* A token before what is read already.                                    *)
LEMMA ReadToken ==
    ASSUME NEW style, NEW text, NEW rest, NEW tokens,
           IsToken(style, text, rest), ReadAs(rest, tokens)
    PROVE  ReadAs(text \o rest, <<Span(style, text)>> \o tokens)
<1>1. text \in Seq(Classes) /\ text # <<>> /\ rest \in Seq(Classes)
  BY DEF IsToken, ReadAs
<1>2. text \o rest \in Seq(Classes)
  BY <1>1, ConcatProperties
<1>3. ASSUME NEW before \in Seq(Classes)
      PROVE  SpansOf(before \o (text \o rest))[Len(before) + 1]
               = <<Span(style, text)>> \o tokens
  <2> DEFINE line == Line(before, text, rest)
             f == SpansOf(line)
  <2>1. PICK b \in Nat, t \in Nat \ {0}, r \in Nat :
          b = Len(before) /\ t = Len(text) /\ r = Len(rest)
    BY <1>1, LenProperties, EmptySeq
  <2>2. /\ line \in Seq(Classes)
        /\ Len(line) = b + t + r
        /\ \A m \in 1..t : line[b + m] = text[m]
    <3>1. Placed(line, before, text, rest)
      BY <1>1, Places
    <3> HIDE DEF line
    <3>2. QED
      BY <2>1, <3>1 DEF Placed
  <2>3. SpanEnd(line, b + 1) = b + t /\ Style(line, b + 1) = style
    BY <2>1 DEF IsToken
  <2>4. line = (before \o text) \o rest /\ before \o text \in Seq(Classes)
        /\ Len(before \o text) = b + t
    BY <1>1, <2>1, ConcatAssociative, ConcatProperties, SMTT(60) DEF Line
  <2>5. SpansOf((before \o text) \o rest)[Len(before \o text) + 1] = tokens
    BY <2>4 DEF ReadAs
  <2>6. f[b + t + 1] = tokens
    BY <2>4, <2>5
  <2> HIDE DEF line
  <2>7. SubSeq(line, b + 1, b + t) = text
    <3> DEFINE piece == SubSeq(line, b + 1, b + t)
    <3>1. \A i \in (b + 1)..(b + t) : line[i] \in Classes
      <4>1. \A i \in (b + 1)..(b + t) : i \in 1..Len(line)
        BY <2>1, <2>2
      <4>2. QED
        BY <2>2, <4>1, ElementOfSeq
    <3>2. PICK m \in Int, n \in Int : m = b + 1 /\ n = b + t
      OBVIOUS
    <3>3. /\ piece \in Seq(Classes)
          /\ Len(piece) = IF m <= n THEN n - m + 1 ELSE 0
          /\ \A i \in 1..(n - m + 1) : piece[i] = line[m + i - 1]
      BY <3>1, <3>2, SubSeqProperties
    <3> HIDE DEF piece
    <3>4. m <= n /\ n - m + 1 = t
      BY <3>2
    <3>5. \A i \in 1..t : m + i - 1 = b + i
      BY <3>2
    <3>6. Len(piece) = t /\ \A i \in 1..t : piece[i] = text[i]
      BY <2>2, <3>3, <3>4, <3>5, ZenonT(60)
    <3>7. piece = text
      BY <1>1, <2>1, <3>3, <3>6, SeqEqual
    <3>8. QED
      BY <3>7 DEF piece
  <2>8. b + 1 \in 1..Len(line)
    BY <2>2
  <2>9. f[b + 1] = <<SpanAt(line, b + 1)>> \o f[SpanEnd(line, b + 1) + 1]
    BY <2>2, <2>8, SpansFrom
  <2>10. SpanAt(line, b + 1) = Span(style, text)
    BY <2>3, <2>7 DEF SpanAt
  <2>11. f[b + 1] = <<Span(style, text)>> \o tokens
    BY <2>3, <2>6, <2>9, <2>10
  <2>12. QED
    BY <2>1, <2>11 DEF line, Line
<1>4. QED
  BY <1>2, <1>3 DEF ReadAs

-----------------------------------------------------------------------------
(* The kinds of tokens.                                                    *)

\* What is left of the line does not begin with one of these characters.
EndsBefore(rest, classes) == rest # <<>> => rest[1] \notin classes

(* A run of characters, before anything else, is found.                    *)
LEMMA RunFound ==
    ASSUME NEW classes, NEW text \in Seq(Classes), text # <<>>,
           AllIn(text, classes),
           NEW rest \in Seq(Classes), EndsBefore(rest, classes),
           NEW before \in Seq(Classes)
    PROVE  LET line == Line(before, text, rest)
           IN  /\ line[Len(before) + 1] = text[1]
               /\ RunEnd(line, Len(before) + 1, classes) = Len(before) + Len(text)
<1> DEFINE line == Line(before, text, rest)
<1>1. PICK b \in Nat, t \in Nat \ {0}, r \in Nat :
        b = Len(before) /\ t = Len(text) /\ r = Len(rest)
  BY LenProperties, EmptySeq
<1>2. /\ line \in Seq(Classes)
      /\ Len(line) = b + t + r
      /\ \A m \in 1..t : line[b + m] = text[m]
      /\ \A m \in 1..r : line[b + t + m] = rest[m]
  <2>1. Placed(line, before, text, rest)
    BY Places
  <2> HIDE DEF line
  <2>2. QED
    BY <1>1, <2>1 DEF Placed
<1> HIDE DEF line
<1>3. line[b + 1] = text[1]
  <2>1. 1 \in 1..t
    OBVIOUS
  <2>2. QED
    BY <1>2, <2>1
<1>4. RunEnd(line, b + 1, classes) = b + t
  <2>1. b + 1 \in 1..Len(line) /\ b + t \in (b + 1)..Len(line)
    BY <1>2
  <2>2. ASSUME NEW i \in ((b + 1) + 1)..(b + t) PROVE line[i] \in classes
    <3>1. PICK m \in 1..t : b + m = i
      <4>1. i - b \in 1..t /\ b + (i - b) = i
        OBVIOUS
      <4>2. QED
        BY <4>1
    <3>2. QED
      BY <1>1, <1>2, <3>1 DEF AllIn
  <2>3. ASSUME b + t < Len(line) PROVE line[(b + t) + 1] \notin classes
    <3>1. r \in Nat \ {0} /\ 1 \in 1..r
      BY <1>2, <2>3
    <3>2. rest # <<>>
      BY <1>1, <3>1, EmptySeq
    <3>3. line[(b + t) + 1] = rest[1]
      BY <1>2, <3>1
    <3>4. QED
      BY <3>2, <3>3 DEF EndsBefore
  <2>4. QED
    BY <1>2, <2>1, <2>2, <2>3, RunEndIs
<1>5. QED
  BY <1>1, <1>3, <1>4 DEF line

(* Indentation, and the space after a colon.                               *)
LEMMA SpaceToken ==
    ASSUME NEW text \in Seq(Classes), text # <<>>,
           AllIn(text, {"space"}),
           NEW rest \in Seq(Classes), EndsBefore(rest, {"space"})
    PROVE  IsToken("base", text, rest)
<1>1. 1 \in 1..Len(text)
  BY EmptySeq
<1>2. ASSUME NEW before \in Seq(Classes), NEW line, line = Line(before, text, rest)
      PROVE  /\ SpanEnd(line, Len(before) + 1) = Len(before) + Len(text)
             /\ Style(line, Len(before) + 1) = "base"
  <2>2. /\ line[Len(before) + 1] = text[1]
        /\ RunEnd(line, Len(before) + 1, {"space"}) = Len(before) + Len(text)
    BY <1>2, RunFound
  <2>3. line[Len(before) + 1] = "space"
    BY <1>1, <2>2 DEF AllIn
  <2>4. /\ SpanEnd(line, Len(before) + 1) = RunEnd(line, Len(before) + 1, {"space"})
        /\ Style(line, Len(before) + 1) = "base"
    BY <2>3 DEF SpanEnd, Style, InWord
  <2>5. QED
    BY <2>2, <2>4
<1>3. QED
  BY <1>2 DEF IsToken

(* A number.                                                               *)
LEMMA NumberToken ==
    ASSUME NEW text \in Seq(Classes), text # <<>>,
           text[1] \in {"minus", "digit"},
           AllIn(text, InNumber),
           NEW rest \in Seq(Classes), EndsBefore(rest, InNumber)
    PROVE  IsToken("json_number", text, rest)
<1>1. ASSUME NEW before \in Seq(Classes), NEW line, line = Line(before, text, rest)
      PROVE  /\ SpanEnd(line, Len(before) + 1) = Len(before) + Len(text)
             /\ Style(line, Len(before) + 1) = "json_number"
  <2>1. /\ line[Len(before) + 1] = text[1]
        /\ RunEnd(line, Len(before) + 1, InNumber) = Len(before) + Len(text)
    BY <1>1, RunFound, SMTT(60)
  <2>2. line[Len(before) + 1] \in {"minus", "digit"}
    BY <2>1
  <2>3. /\ SpanEnd(line, Len(before) + 1) = RunEnd(line, Len(before) + 1, InNumber)
        /\ Style(line, Len(before) + 1) = "json_number"
    BY <2>2 DEF SpanEnd, Style, InWord
  <2>4. QED
    BY <2>1, <2>3
<1>2. QED
  BY <1>1 DEF IsToken

(* true, false or null.                                                    *)
LEMMA WordToken ==
    ASSUME NEW text \in Seq(Classes), text # <<>>,
           AllIn(text, InWord),
           NEW rest \in Seq(Classes), EndsBefore(rest, InWord)
    PROVE  IsToken("json_literal", text, rest)
<1>1. 1 \in 1..Len(text)
  BY EmptySeq
<1>2. ASSUME NEW before \in Seq(Classes), NEW line, line = Line(before, text, rest)
      PROVE  /\ SpanEnd(line, Len(before) + 1) = Len(before) + Len(text)
             /\ Style(line, Len(before) + 1) = "json_literal"
  <2>1. /\ line[Len(before) + 1] = text[1]
        /\ RunEnd(line, Len(before) + 1, InWord) = Len(before) + Len(text)
    BY <1>2, RunFound
  <2>2. line[Len(before) + 1] \in InWord
    BY <1>1, <2>1 DEF AllIn
  <2>3. /\ SpanEnd(line, Len(before) + 1) = RunEnd(line, Len(before) + 1, InWord)
        /\ Style(line, Len(before) + 1) = "json_literal"
    BY <2>2 DEF SpanEnd, Style, InWord
  <2>4. QED
    BY <2>1, <2>3
<1>3. QED
  BY <1>2 DEF IsToken

(* Punctuation, a character at a time.                                     *)
LEMMA PunctToken ==
    ASSUME NEW c \in {"colon", "other"}, NEW rest \in Seq(Classes)
    PROVE  IsToken("json_punct", <<c>>, rest)
<1>1. <<c>> \in Seq(Classes) /\ <<c>> # <<>> /\ Len(<<c>>) = 1 /\ <<c>>[1] = c
  BY DEF Classes
<1>2. ASSUME NEW before \in Seq(Classes), NEW line, line = Line(before, <<c>>, rest)
      PROVE  /\ SpanEnd(line, Len(before) + 1) = Len(before) + Len(<<c>>)
             /\ Style(line, Len(before) + 1) = "json_punct"
  <2>1. \A m \in 1..Len(<<c>>) : line[Len(before) + m] = <<c>>[m]
    BY <1>1, <1>2, Places, ZenonT(60) DEF Placed
  <2>2. line[Len(before) + 1] = c
    BY <1>1, <2>1
  <2>3. /\ SpanEnd(line, Len(before) + 1) = Len(before) + 1
        /\ Style(line, Len(before) + 1) = "json_punct"
    BY <2>2 DEF SpanEnd, Style, InWord
  <2>4. QED
    BY <1>1, <2>3
<1>3. QED
  BY <1>1, <1>2 DEF IsToken

Quoted(chars) == <<"quote">> \o FlattenSeq(chars) \o <<"quote">>

(* What a string consists of.                                              *)
LEMMA QuotedIs ==
    ASSUME NEW chars \in Seq(Character), NEW k, k = Len(FlattenSeq(chars))
    PROVE  /\ k \in Nat
           /\ Quoted(chars) \in Seq(Classes)
           /\ Len(Quoted(chars)) = k + 2
           /\ Quoted(chars)[1] = "quote"
           /\ \A m \in 1..k : Quoted(chars)[1 + m] = FlattenSeq(chars)[m]
           /\ Quoted(chars)[k + 2] = "quote"
<1> DEFINE F == FlattenSeq(chars)
           Q == <<"quote">>
<1>1. chars \in Seq(Seq(Classes))
  <2>1. Character \subseteq Seq(Classes)
    BY CharacterIs
  <2>2. QED
    BY <2>1, SeqMonotonic
<1>2. F \in Seq(Classes) /\ k \in Nat
  BY <1>1, FlattenType, LenProperties
<1>3. Q \in Seq(Classes) /\ Len(Q) = 1 /\ Q[1] = "quote"
  BY DEF Classes
<1>4. Quoted(chars) = (Q \o F) \o Q
  BY DEF Quoted
<1> HIDE DEF F, Q
<1>5. /\ Q \o F \in Seq(Classes)
      /\ Len(Q \o F) = 1 + k
      /\ \A i \in 1..(1 + k) : (Q \o F)[i] = IF i <= 1 THEN Q[i] ELSE F[i - 1]
  <2>1. /\ Q \o F \in Seq(Classes)
        /\ Len(Q \o F) = Len(Q) + Len(F)
        /\ \A i \in 1..(Len(Q) + Len(F)) :
             (Q \o F)[i] = IF i <= Len(Q) THEN Q[i] ELSE F[i - Len(Q)]
    BY <1>2, <1>3, ConcatProperties, Zenon
  <2>2. Len(F) = k
    BY DEF F
  <2>3. QED
    BY <1>3, <2>1, <2>2, Zenon
<1> DEFINE P == Q \o F
<1> HIDE DEF P
<1>6. /\ P \o Q \in Seq(Classes)
      /\ Len(P \o Q) = (1 + k) + 1
      /\ \A i \in 1..((1 + k) + 1) : (P \o Q)[i] = IF i <= 1 + k THEN P[i] ELSE Q[i - (1 + k)]
  <2>1. /\ P \o Q \in Seq(Classes)
        /\ Len(P \o Q) = Len(P) + Len(Q)
        /\ \A i \in 1..(Len(P) + Len(Q)) :
             (P \o Q)[i] = IF i <= Len(P) THEN P[i] ELSE Q[i - Len(P)]
    BY <1>3, <1>5, ConcatProperties, Zenon DEF P
  <2>2. Len(P) = 1 + k
    BY <1>5 DEF P
  <2>3. QED
    BY <1>3, <2>1, <2>2, Zenon
<1>7. /\ P[1] = "quote"
      /\ \A m \in 1..k : P[1 + m] = F[m]
  <2>1. 1 \in 1..(1 + k) /\ 1 <= 1
    BY <1>2
  <2>2. \A m \in 1..k : 1 + m \in 1..(1 + k) /\ ~(1 + m <= 1) /\ (1 + m) - 1 = m
    BY <1>2
  <2>3. QED
    BY <1>3, <1>5, <2>1, <2>2, SMTT(60) DEF P
<1>8. /\ (P \o Q)[1] = "quote"
      /\ \A m \in 1..k : (P \o Q)[1 + m] = F[m]
      /\ (P \o Q)[k + 2] = "quote"
  <2>1. 1 \in 1..((1 + k) + 1) /\ 1 <= 1 + k
    BY <1>2
  <2>2. \A m \in 1..k : 1 + m \in 1..((1 + k) + 1) /\ 1 + m <= 1 + k
    BY <1>2
  <2>3. /\ k + 2 \in 1..((1 + k) + 1) /\ ~(k + 2 <= 1 + k) /\ (k + 2) - (1 + k) = 1
        /\ (1 + k) + 1 = k + 2
    BY <1>2
  <2>4. QED
    BY <1>3, <1>6, <1>7, <2>1, <2>2, <2>3, SMTT(60)
<1>9. Quoted(chars) = P \o Q /\ (1 + k) + 1 = k + 2
  BY <1>2, <1>4 DEF P
<1>10. QED
  BY <1>2, <1>6, <1>8, <1>9 DEF F

(* A string, and whether it is a key.                                      *)
LEMMA StringToken ==
    ASSUME NEW chars \in Seq(Character), NEW rest \in Seq(Classes),
           rest # <<>> => rest[1] \in {"colon", "other"}
    PROVE  IsToken(IF rest # <<>> /\ rest[1] = "colon" THEN "json_key"
                   ELSE "json_string", Quoted(chars), rest)
<1> DEFINE text == Quoted(chars)
           style == IF rest # <<>> /\ rest[1] = "colon" THEN "json_key"
                    ELSE "json_string"
<1>1. PICK k \in Nat : k = Len(FlattenSeq(chars))
  BY QuotedIs
<1>2. /\ text \in Seq(Classes) /\ Len(text) = k + 2 /\ text[1] = "quote"
      /\ \A m \in 1..k : text[1 + m] = FlattenSeq(chars)[m]
      /\ text[k + 2] = "quote"
  BY <1>1, QuotedIs
<1>3. text # <<>>
  BY <1>2, EmptySeq
<1> HIDE DEF text
<1>4. ASSUME NEW before \in Seq(Classes), NEW line, line = Line(before, text, rest)
      PROVE  /\ SpanEnd(line, Len(before) + 1) = Len(before) + Len(text)
             /\ Style(line, Len(before) + 1) = style
  <2>1. PICK b \in Nat, r \in Nat : b = Len(before) /\ r = Len(rest)
    BY LenProperties
  <2>2. /\ line \in Seq(Classes)
        /\ Len(line) = b + (k + 2) + r
        /\ \A m \in 1..(k + 2) : line[b + m] = text[m]
        /\ \A m \in 1..r : line[b + (k + 2) + m] = rest[m]
    <3>1. Placed(line, before, text, rest)
      BY <1>2, <1>4, Places
    <3>2. Len(before) = b /\ Len(text) = k + 2 /\ Len(rest) = r
      BY <1>2, <2>1
    <3>3. QED
      BY <3>1, <3>2, Zenon DEF Placed
  <2> DEFINE start == b + 1
             end == b + (k + 2)
             next == {i \in (end + 1)..Len(line) : line[i] # "space"}
  <2>3. /\ start \in 1..Len(line)
        /\ start + k + 1 <= Len(line)
        /\ start + k + 1 = end
    BY <2>2
  <2>4. line[start] = "quote" /\ line[start + k + 1] = "quote"
    <3>1. 1 \in 1..(k + 2) /\ k + 2 \in 1..(k + 2)
      OBVIOUS
    <3>2. QED
      BY <1>2, <2>2, <2>3, <3>1
  <2>5. \A m \in 1..k : line[start + m] = FlattenSeq(chars)[m]
    <3>1. \A m \in 1..k : 1 + m \in 1..(k + 2) /\ start + m = b + (1 + m)
      OBVIOUS
    <3>2. QED
      BY <1>2, <2>2, <3>1
  <2>6. StringEnd(line, start) = end
    BY <1>1, <2>2, <2>3, <2>4, <2>5, StringEndIs, ZenonT(60)
  <2>7. is_key(line, end) <=> (rest # <<>> /\ rest[1] = "colon")
    <3>1. is_key(line, end) <=> (next # {} /\ line[Min(next)] = "colon")
      BY DEF is_key
    <3>2. CASE rest = <<>>
      <4>1. r = 0
        BY <2>1, <3>2, EmptySeq
      <4>2. next = {}
        BY <2>2, <4>1
      <4>3. QED
        BY <3>1, <3>2, <4>2
    <3>3. CASE rest # <<>>
      <4>1. r \in Nat \ {0}
        BY <2>1, <3>3, EmptySeq
      <4>2. line[end + 1] = rest[1] /\ rest[1] \in {"colon", "other"}
        BY <2>2, <3>3, <4>1
      <4>3. end + 1 \in next /\ next \subseteq Nat /\ \A i \in next : end + 1 <= i
        BY <2>2, <4>1, <4>2, SMTT(60)
      <4> HIDE DEF next
      <4>4. Min(next) = end + 1
        BY <4>3, MinIs
      <4> HIDE DEF end
      <4>5. QED
        BY <3>1, <3>3, <4>2, <4>3, <4>4
    <3>4. QED
      BY <3>2, <3>3
  <2>8. SpanEnd(line, start) = StringEnd(line, start)
    BY <2>4 DEF SpanEnd, InWord
  <2>9. Style(line, start) = style
    <3>1. Style(line, start) = IF is_key(line, StringEnd(line, start))
                               THEN "json_key" ELSE "json_string"
      BY <2>4 DEF Style, InWord
    <3> HIDE DEF end, start
    <3>2. QED
      BY <2>6, <2>7, <3>1
  <2> HIDE DEF style
  <2>10. QED
    BY <1>2, <2>1, <2>6, <2>8, <2>9
<1>5. QED
  <2> HIDE DEF style
  <2>1. IsToken(style, text, rest)
    BY <1>2, <1>3, <1>4 DEF IsToken
  <2>2. QED
    BY <2>1 DEF style, text

-----------------------------------------------------------------------------
(* Lines of tokens.                                                        *)

Styled == [style : {"base", "json_key", "json_string", "json_number",
                    "json_literal", "json_punct"},
           text : Seq(Classes)]

Texts(tokens) == [i \in DOMAIN tokens |-> tokens[i].text]
Joined(tokens) == FlattenSeq(Texts(tokens))

\* These tokens are read where their characters stand.
Found(tokens) == tokens \in Seq(Styled) /\ ReadAs(Joined(tokens), tokens)

Begins(rest, classes) == rest # <<>> => rest[1] \in classes

(* The texts of tokens.                                                    *)
LEMMA TextsIs ==
    ASSUME NEW tokens \in Seq(Styled)
    PROVE  /\ Texts(tokens) \in Seq(Seq(Classes))
           /\ Len(Texts(tokens)) = Len(tokens)
           /\ \A i \in 1..Len(tokens) : Texts(tokens)[i] = tokens[i].text
<1>1. PICK n \in Nat : n = Len(tokens)
  BY LenProperties
<1>2. DOMAIN tokens = 1..n /\ \A i \in 1..n : tokens[i] \in Styled
  BY <1>1, LenProperties, ElementOfSeq
<1>3. \A i \in 1..n : tokens[i].text \in Seq(Classes)
  BY <1>2 DEF Styled
<1> DEFINE text(i) == tokens[i].text
<1>4. Texts(tokens) = [i \in 1..n |-> text(i)]
  BY <1>2 DEF Texts
<1>5. \A i \in 1..n : text(i) \in Seq(Classes)
  BY <1>3
<1> HIDE DEF text
<1>6. [i \in 1..n |-> text(i)] \in Seq(Seq(Classes))
  BY <1>5
<1>7. Len([i \in 1..n |-> text(i)]) = n
  BY <1>6, LenProperties
<1>8. QED
  BY <1>1, <1>4, <1>6, <1>7 DEF text

(* The characters of two runs of tokens, one after the other.              *)
LEMMA JoinedConcat ==
    ASSUME NEW left \in Seq(Styled), NEW right \in Seq(Styled)
    PROVE  /\ left \o right \in Seq(Styled)
           /\ Joined(left) \in Seq(Classes) /\ Joined(right) \in Seq(Classes)
           /\ Joined(left \o right) = Joined(left) \o Joined(right)
<1> DEFINE both == left \o right
<1>1. PICK l \in Nat, r \in Nat : l = Len(left) /\ r = Len(right)
  BY LenProperties
<1>2. /\ both \in Seq(Styled)
      /\ Len(both) = l + r
      /\ \A i \in 1..(l + r) : both[i] = IF i <= l THEN left[i] ELSE right[i - l]
  <2>1. /\ both \in Seq(Styled)
        /\ Len(both) = Len(left) + Len(right)
        /\ \A i \in 1..(Len(left) + Len(right)) :
             both[i] = IF i <= Len(left) THEN left[i] ELSE right[i - Len(left)]
    BY ConcatProperties
  <2> HIDE DEF both
  <2>2. QED
    BY <1>1, <2>1, Zenon
<1> HIDE DEF both
<1> DEFINE L == Texts(left)
           R == Texts(right)
           B == Texts(both)
<1>3. /\ L \in Seq(Seq(Classes)) /\ Len(L) = l
      /\ \A i \in 1..l : L[i] = left[i].text
  BY <1>1, TextsIs
<1>4. /\ R \in Seq(Seq(Classes)) /\ Len(R) = r
      /\ \A i \in 1..r : R[i] = right[i].text
  BY <1>1, TextsIs
<1>5. /\ B \in Seq(Seq(Classes)) /\ Len(B) = l + r
      /\ \A i \in 1..(l + r) : B[i] = both[i].text
  BY <1>2, TextsIs
<1> HIDE DEF L, R, B
<1>6. /\ L \o R \in Seq(Seq(Classes)) /\ Len(L \o R) = l + r
      /\ \A i \in 1..(l + r) : (L \o R)[i] = IF i <= l THEN L[i] ELSE R[i - l]
  <2>1. /\ L \o R \in Seq(Seq(Classes))
        /\ Len(L \o R) = Len(L) + Len(R)
        /\ \A i \in 1..(Len(L) + Len(R)) :
             (L \o R)[i] = IF i <= Len(L) THEN L[i] ELSE R[i - Len(L)]
    BY <1>3, <1>4, ConcatProperties, ZenonT(60)
  <2>2. QED
    BY <1>3, <1>4, <2>1, Zenon
<1>7. ASSUME NEW i \in 1..(l + r) PROVE B[i] = (L \o R)[i]
  <2>1. CASE i <= l
    <3>1. i \in 1..l
      BY <2>1
    <3>2. QED
      BY <1>2, <1>3, <1>5, <1>6, <2>1, <3>1, ZenonT(60)
  <2>2. CASE ~(i <= l)
    <3>1. i - l \in 1..r
      BY <2>2
    <3>2. B[i] = right[i - l].text /\ (L \o R)[i] = R[i - l]
      BY <1>2, <1>5, <1>6, <2>2
    <3>3. QED
      BY <1>4, <3>1, <3>2
  <2>3. QED
    BY <2>1, <2>2
<1>8. B = L \o R
  <2> DEFINE LR == L \o R
  <2>1. LR \in Seq(Seq(Classes)) /\ Len(LR) = Len(B) /\ \A i \in 1..Len(B) : B[i] = LR[i]
    BY <1>5, <1>6, <1>7
  <2> HIDE DEF LR
  <2>2. B = LR
    BY <1>5, <2>1, SeqEqual
  <2>3. QED
    BY <2>2 DEF LR
<1>9. FlattenSeq(L \o R) = FlattenSeq(L) \o FlattenSeq(R)
  BY <1>3, <1>4, FlattenConcat, SMTT(60)
<1>10. FlattenSeq(L) \in Seq(Classes) /\ FlattenSeq(R) \in Seq(Classes)
  BY <1>3, <1>4, FlattenType
<1>11. QED
  BY <1>2, <1>8, <1>9, <1>10 DEF Joined, L, R, B, both

(* And of one.                                                             *)
LEMMA JoinedOne ==
    ASSUME NEW t \in Styled
    PROVE  <<t>> \in Seq(Styled) /\ Joined(<<t>>) = t.text
<1>1. <<t>> \in Seq(Styled) /\ Len(<<t>>) = 1 /\ <<t>>[1] = t
  OBVIOUS
<1>2. t.text \in Seq(Classes)
  BY DEF Styled
<1>3. Texts(<<t>>) = <<t.text>>
  BY DEF Texts
<1>4. <<t.text>> = Append(<<>>, t.text) /\ <<>> \in Seq(Seq(Classes))
  BY EmptySeq
<1>5. FlattenSeq(<<>>) = <<>>
  BY EmptySeq DEF FlattenSeq
<1>6. FlattenSeq(Append(<<>>, t.text)) = <<>> \o t.text
  BY <1>2, <1>4, <1>5, FlattenGrows
<1>7. <<>> \o t.text = t.text
  BY <1>2, ConcatEmptySeq
<1>8. QED
  BY <1>1, <1>3, <1>4, <1>6, <1>7, Zenon DEF Joined

(* No tokens are found in nothing.                                         *)
LEMMA NothingFound == Found(<<>>) /\ Joined(<<>>) = <<>>
<1>1. Texts(<<>>) = <<>>
  <2>1. <<>> \in Seq(Styled) /\ Len(<<>>) = 0
    BY EmptySeq
  <2>2. Texts(<<>>) \in Seq(Seq(Classes)) /\ Len(Texts(<<>>)) = 0
    BY <2>1, TextsIs
  <2>3. QED
    BY <2>2, EmptySeq
<1>2. Joined(<<>>) = <<>>
  BY <1>1, EmptySeq DEF Joined, FlattenSeq
<1>3. QED
  BY <1>2, ReadNothing, EmptySeq DEF Found

(* A token before those found already is found too.                        *)
LEMMA OneMoreFound ==
    ASSUME NEW t \in Styled, NEW tokens, Found(tokens),
           IsToken(t.style, t.text, Joined(tokens))
    PROVE  LET all == <<t>> \o tokens
           IN  Found(all) /\ Joined(all) # <<>> /\ Joined(all)[1] = t.text[1]
<1> DEFINE all == <<t>> \o tokens
           text == t.text
           rest == Joined(tokens)
<1>1. tokens \in Seq(Styled) /\ ReadAs(rest, tokens)
  BY DEF Found
<1>2. <<t>> \in Seq(Styled) /\ Joined(<<t>>) = text
  BY JoinedOne
<1>3. /\ all \in Seq(Styled)
      /\ text \in Seq(Classes) /\ rest \in Seq(Classes)
      /\ Joined(all) = text \o rest
  <2>1. /\ <<t>> \o tokens \in Seq(Styled)
        /\ Joined(<<t>>) \in Seq(Classes) /\ Joined(tokens) \in Seq(Classes)
        /\ Joined(<<t>> \o tokens) = Joined(<<t>>) \o Joined(tokens)
    BY <1>1, <1>2, JoinedConcat, Zenon
  <2>2. QED
    BY <1>2, <2>1, Zenon
<1>4. text # <<>>
  BY DEF IsToken
<1>5. t = Span(t.style, text)
  BY DEF Styled, Span
<1>6. ReadAs(text \o rest, <<t>> \o tokens)
  <2>1. ReadAs(text \o rest, <<Span(t.style, text)>> \o tokens)
    BY <1>1, ReadToken, Zenon
  <2> HIDE DEF text, rest
  <2>2. QED
    BY <1>5, <2>1, Zenon
<1>7. text \o rest # <<>> /\ (text \o rest)[1] = text[1]
  <2> HIDE DEF text, rest
  <2> DEFINE whole == text \o rest
  <2>1. PICK a \in Nat, b \in Nat : a = Len(text) /\ b = Len(rest)
    BY <1>3, LenProperties
  <2>2. /\ whole \in Seq(Classes)
        /\ Len(whole) = a + b
        /\ \A i \in 1..(a + b) : whole[i] = IF i <= a THEN text[i] ELSE rest[i - a]
    <3>1. /\ whole \in Seq(Classes)
          /\ Len(whole) = Len(text) + Len(rest)
          /\ \A i \in 1..(Len(text) + Len(rest)) :
               whole[i] = IF i <= Len(text) THEN text[i] ELSE rest[i - Len(text)]
      BY <1>3, ConcatProperties, Zenon
    <3> HIDE DEF whole
    <3>2. QED
      BY <2>1, <3>1, Zenon
  <2> HIDE DEF whole
  <2>3. a # 0
    BY <1>3, <1>4, <2>1, EmptySeq
  <2>4. 1 \in 1..(a + b) /\ 1 <= a /\ a + b # 0
    BY <2>3
  <2>5. whole # <<>> /\ whole[1] = text[1]
    BY <2>2, <2>4, EmptySeq
  <2>6. QED
    BY <2>5 DEF whole
<1>8. QED
  <2> HIDE DEF text, rest, all
  <2>1. Found(all) /\ Joined(all) # <<>> /\ Joined(all)[1] = text[1]
    <3>1. ReadAs(Joined(all), all)
      BY <1>3, <1>6, Zenon DEF all
    <3>2. QED
      BY <1>3, <1>7, <3>1, Zenon DEF Found
  <2>2. QED
    BY <2>1 DEF all, text

-----------------------------------------------------------------------------
(* The lines of pretty-printed JSON.                                       *)

(* One element, and then another.                                          *)
LEMMA TwoAre ==
    ASSUME NEW S, NEW a \in S, NEW b \in S
    PROVE  <<a>> \o <<b>> = <<a, b>>
<1> DEFINE both == <<a>> \o <<b>>
           pair == <<a, b>>
<1>1. <<a>> \in Seq(S) /\ Len(<<a>>) = 1 /\ <<b>> \in Seq(S) /\ Len(<<b>>) = 1
  OBVIOUS
<1>2. /\ both \in Seq(S)
      /\ Len(both) = Len(<<a>>) + Len(<<b>>)
      /\ \A i \in 1..(Len(<<a>>) + Len(<<b>>)) :
           both[i] = IF i <= Len(<<a>>) THEN <<a>>[i] ELSE <<b>>[i - Len(<<a>>)]
  BY <1>1, ConcatProperties, ZenonT(60)
<1>3. both[1] = a /\ both[2] = b /\ Len(both) = 2
  <2> HIDE DEF both
  <2>1. QED
    BY <1>1, <1>2
<1>4. pair \in Seq(S) /\ Len(pair) = 2 /\ pair[1] = a /\ pair[2] = b
  OBVIOUS
<1> HIDE DEF both, pair
<1>5. both = pair
  BY <1>2, <1>3, <1>4, SeqEqual
<1>6. QED
  BY <1>5 DEF both, pair

(* And a third.                                                            *)
LEMMA ThreeAre ==
    ASSUME NEW S, NEW a \in S, NEW b \in S, NEW c \in S
    PROVE  <<a>> \o (<<b>> \o <<c>>) = <<a, b, c>>
<1> DEFINE all == <<a>> \o <<b, c>>
           triple == <<a, b, c>>
<1>1. /\ <<a>> \in Seq(S) /\ Len(<<a>>) = 1 /\ <<a>>[1] = a
      /\ <<b, c>> \in Seq(S) /\ Len(<<b, c>>) = 2
      /\ <<b, c>>[1] = b /\ <<b, c>>[2] = c
  OBVIOUS
<1>2. /\ all \in Seq(S)
      /\ Len(all) = Len(<<a>>) + Len(<<b, c>>)
      /\ \A i \in 1..(Len(<<a>>) + Len(<<b, c>>)) :
           all[i] = IF i <= Len(<<a>>) THEN <<a>>[i] ELSE <<b, c>>[i - Len(<<a>>)]
  BY <1>1, ConcatProperties, ZenonT(60)
<1>3. all[1] = a /\ all[2] = b /\ all[3] = c /\ Len(all) = 3
  <2> HIDE DEF all
  <2>1. QED
    BY <1>1, <1>2
<1>4. /\ triple \in Seq(S) /\ Len(triple) = 3
      /\ triple[1] = a /\ triple[2] = b /\ triple[3] = c
  OBVIOUS
<1> HIDE DEF all, triple
<1>5. all = triple
  BY <1>2, <1>3, <1>4, SeqEqual, SMTT(60)
<1>6. QED
  BY <1>5, TwoAre DEF all, triple

\* It does not matter where the four are put together first.
Associate(a, b, c, d) == ((a \o b) \o c) \o d = a \o (b \o (c \o d))

(* Four sequences, from the left or from the right.                        *)
LEMMA Reassociate ==
    ASSUME NEW S, NEW a \in Seq(S), NEW b \in Seq(S), NEW c \in Seq(S),
           NEW d \in Seq(S)
    PROVE  Associate(a, b, c, d)
<1> DEFINE left == a \o b
           right == c \o d
<1>1. left \in Seq(S) /\ right \in Seq(S)
  BY ConcatProperties
<1>2. left \o right = a \o (b \o right)
  <2> HIDE DEF right
  <2>1. QED
    BY <1>1, ConcatAssociative, SMTT(60)
<1>3. (left \o c) \o d = left \o right
  <2> HIDE DEF left
  <2>1. QED
    BY <1>1, ConcatAssociative, SMTT(60)
<1>4. QED
  BY <1>2, <1>3 DEF Associate

(* The comma after a value, and the bracket that closes an empty array.    *)
LEMMA PunctFound ==
    ASSUME NEW c \in {"colon", "other"}, NEW tokens, Found(tokens)
    PROVE  LET all == <<Punct(c)>> \o tokens
           IN  Found(all) /\ Joined(all) # <<>> /\ Joined(all)[1] = c
<1>1. Joined(tokens) \in Seq(Classes)
  BY DEF Found, ReadAs
<1>2. IsToken("json_punct", <<c>>, Joined(tokens))
  BY <1>1, PunctToken
<1>3. PICK t : t = Punct(c)
  OBVIOUS
<1>4. <<c>> \in Seq(Classes) /\ <<c>>[1] = c
  BY DEF Classes
<1>5. t \in Styled /\ t.style = "json_punct" /\ t.text = <<c>>
  BY <1>3, <1>4 DEF Styled, Punct, Span
<1>6. IsToken(t.style, t.text, Joined(tokens))
  BY <1>2, <1>5, Zenon
<1>7. LET all == <<t>> \o tokens
      IN  Found(all) /\ Joined(all) # <<>> /\ Joined(all)[1] = t.text[1]
  BY <1>5, <1>6, OneMoreFound
<1>8. QED
  BY <1>3, <1>4, <1>5, <1>7, Zenon

Commas == {<<>>, <<Punct("other")>>}

(* What may follow a value.                                                *)
LEMMA CommaFound ==
    ASSUME NEW comma \in Commas
    PROVE  Found(comma) /\ Begins(Joined(comma), {"other"})
<1>1. CASE comma = <<>>
  BY <1>1, NothingFound DEF Begins
<1>2. CASE comma = <<Punct("other")>>
  <2> DEFINE all == <<Punct("other")>> \o <<>>
  <2>1. Found(all) /\ Joined(all)[1] = "other"
    BY NothingFound, PunctFound
  <2>2. all = <<Punct("other")>>
    <3>1. PICK t : t = Punct("other")
      OBVIOUS
    <3>2. <<t>> \o <<>> = <<t>>
      OBVIOUS
    <3>3. QED
      BY <3>1, <3>2, Zenon
  <2> HIDE DEF all
  <2>3. QED
    BY <1>2, <2>1, <2>2 DEF Begins
<1>3. QED
  BY <1>1, <1>2 DEF Commas

(* A string of the reference is a quoted sequence of characters.           *)
LEMMA StringsAre ==
    ASSUME NEW text \in Strings
    PROVE  \E chars \in Seq(Character) : text = Quoted(chars)
<1>1. PICK n \in 0..MaxCharacters :
        \E chars \in [1..n -> Character] :
          text = <<"quote">> \o FlattenSeq(chars) \o <<"quote">>
  BY DEF Strings
<1>2. n \in Nat
  BY ViewAssumption
<1>3. PICK chars \in [1..n -> Character] : text = Quoted(chars)
  BY <1>1 DEF Quoted
<1>4. chars \in Seq(Character)
  BY <1>2
<1>5. QED
  BY <1>3, <1>4

(* The token of a string, before what cannot be taken for a part of it.    *)
LEMMA StringFound ==
    ASSUME NEW text \in Strings, NEW tokens, Found(tokens),
           Begins(Joined(tokens), {"colon", "other"}),
           NEW style,
           style = IF Joined(tokens) # <<>> /\ Joined(tokens)[1] = "colon"
                   THEN "json_key" ELSE "json_string"
    PROVE  LET all == <<Span(style, text)>> \o tokens
           IN  Found(all) /\ Joined(all) # <<>> /\ Joined(all)[1] = "quote"
<1>1. PICK chars \in Seq(Character) : text = Quoted(chars)
  BY StringsAre
<1>2. PICK rest \in Seq(Classes) : rest = Joined(tokens)
  BY DEF Found, ReadAs
<1>3. rest # <<>> => rest[1] \in {"colon", "other"}
  BY <1>2, Zenon DEF Begins
<1>4. IsToken(IF rest # <<>> /\ rest[1] = "colon" THEN "json_key"
              ELSE "json_string", Quoted(chars), rest)
  BY <1>3, StringToken, Zenon
<1>5. IsToken(style, text, Joined(tokens))
  BY <1>1, <1>2, <1>4, Zenon
<1>6. PICK t : t = Span(style, text)
  OBVIOUS
<1>7. text \in Seq(Classes) /\ text[1] = "quote"
  BY <1>1, QuotedIs
<1>8. style \in {"json_key", "json_string"}
  OBVIOUS
<1>9. t \in Styled /\ t.style = style /\ t.text = text
  BY <1>6, <1>7, <1>8 DEF Styled, Span
<1>10. IsToken(t.style, t.text, Joined(tokens))
  BY <1>5, <1>9, Zenon
<1>11. LET all == <<t>> \o tokens
       IN  Found(all) /\ Joined(all) # <<>> /\ Joined(all)[1] = t.text[1]
  BY <1>9, <1>10, OneMoreFound
<1>12. QED
  BY <1>6, <1>7, <1>9, <1>11, Zenon

(* A value is found, and does not begin with a space.                      *)
LEMMA ValueFound ==
    ASSUME NEW value \in PrettyValues, NEW comma \in Commas
    PROVE  LET all == value \o comma
           IN  Found(all) /\ Joined(all) # <<>> /\ Joined(all)[1] # "space"
<1>1. Found(comma) /\ Begins(Joined(comma), {"other"})
  BY CommaFound
<1>2. PICK rest \in Seq(Classes) : rest = Joined(comma)
  BY <1>1 DEF Found, ReadAs
<1>3. EndsBefore(rest, InNumber) /\ EndsBefore(rest, InWord)
  BY <1>1, <1>2 DEF EndsBefore, Begins, InNumber, InWord
<1>4. ASSUME NEW style, NEW text, text \in Seq(Classes), text # <<>>,
             text[1] # "space",
             \/ style = "json_number" /\ text[1] \in {"minus", "digit"}
                  /\ AllIn(text, InNumber)
             \/ style = "json_literal" /\ AllIn(text, InWord)
      PROVE  LET all == <<Span(style, text)>> \o comma
             IN  Found(all) /\ Joined(all) # <<>> /\ Joined(all)[1] # "space"
  <2>1. IsToken(style, text, rest)
    <3>1. CASE style = "json_number" /\ text[1] \in {"minus", "digit"}
                 /\ AllIn(text, InNumber)
      BY <1>3, <1>4, <3>1, NumberToken
    <3>2. CASE style = "json_literal" /\ AllIn(text, InWord)
      BY <1>3, <1>4, <3>2, WordToken
    <3>3. QED
      BY <1>4, <3>1, <3>2
  <2>2. PICK t : t = Span(style, text)
    OBVIOUS
  <2>3. t \in Styled /\ t.style = style /\ t.text = text
    BY <1>4, <2>2 DEF Styled, Span
  <2>4. IsToken(t.style, t.text, Joined(comma))
    BY <1>2, <2>1, <2>3, Zenon
  <2>5. LET all == <<t>> \o comma
        IN  Found(all) /\ Joined(all) # <<>> /\ Joined(all)[1] = t.text[1]
    BY <1>1, <2>3, <2>4, OneMoreFound
  <2>6. QED
    BY <1>4, <2>2, <2>3, <2>5, Zenon
<1>5. CASE \E text \in Strings : value = <<Span("json_string", text)>>
  <2>1. PICK text \in Strings : value = <<Span("json_string", text)>>
    BY <1>5
  <2>2. /\ Begins(Joined(comma), {"colon", "other"})
        /\ ~(Joined(comma) # <<>> /\ Joined(comma)[1] = "colon")
    BY <1>1 DEF Begins
  <2>3. "json_string" = IF Joined(comma) # <<>> /\ Joined(comma)[1] = "colon"
                        THEN "json_key" ELSE "json_string"
    BY <2>2, Zenon
  <2>4. LET all == <<Span("json_string", text)>> \o comma
        IN  Found(all) /\ Joined(all) # <<>> /\ Joined(all)[1] = "quote"
    BY <1>1, <2>2, <2>3, StringFound, Zenon
  <2>5. QED
    BY <2>1, <2>4
<1>6. CASE \E text \in Numbers : value = <<Span("json_number", text)>>
  <2>1. PICK text \in Numbers : value = <<Span("json_number", text)>>
    BY <1>6
  <2>2. /\ text \in Seq(Classes) /\ text # <<>> /\ text[1] # "space"
        /\ text[1] \in {"minus", "digit"} /\ AllIn(text, InNumber)
    <3>1. CASE text = <<"digit">>
      BY <3>1 DEF Classes, AllIn, InNumber
    <3>2. CASE text = <<"minus", "digit", "digit">>
      BY <3>2 DEF Classes, AllIn, InNumber
    <3>3. CASE text = <<"digit", "digit", "e", "minus", "digit">>
      BY <3>3 DEF Classes, AllIn, InNumber
    <3>4. QED
      BY <2>1, <3>1, <3>2, <3>3 DEF Numbers
  <2>3. QED
    BY <1>4, <2>1, <2>2, Zenon
<1>7. CASE \E text \in Words : value = <<Span("json_literal", text)>>
  <2>1. PICK text \in Words : value = <<Span("json_literal", text)>>
    BY <1>7
  <2>2. /\ text \in Seq(Classes) /\ text # <<>> /\ text[1] # "space"
        /\ AllIn(text, InWord)
    <3>1. text = <<"letter", "letter", "letter", "e">>
      BY <2>1 DEF Words
    <3>2. QED
      BY <3>1 DEF Classes, AllIn, InWord
  <2>3. QED
    BY <1>4, <2>1, <2>2, Zenon
<1>8. CASE value = <<Punct("other")>>
  BY <1>1, <1>8, PunctFound
<1>9. CASE value = <<Punct("other"), Punct("other")>>
  <2>1. PICK t : t = Punct("other")
    OBVIOUS
  <2>2. t \in Styled /\ comma \in Seq(Styled)
    BY <1>1, <2>1 DEF Found, Styled, Punct, Span, Classes
  <2>3. <<t, t>> \o comma = <<t>> \o (<<t>> \o comma)
    <3>1. <<t>> \in Seq(Styled) /\ <<t, t>> = <<t>> \o <<t>>
      BY <2>2
    <3>2. (<<t>> \o <<t>>) \o comma = <<t>> \o (<<t>> \o comma)
      BY <2>2, <3>1, ConcatAssociative
    <3>3. QED
      BY <3>1, <3>2, Zenon
  <2>4. Found(<<t>> \o comma)
    BY <1>1, <2>1, PunctFound, Zenon
  <2>5. LET all == <<t>> \o (<<t>> \o comma)
        IN  Found(all) /\ Joined(all) # <<>> /\ Joined(all)[1] = "other"
    BY <2>1, <2>4, PunctFound, Zenon
  <2>6. QED
    BY <1>9, <2>1, <2>3, <2>5
<1>10. QED
  BY <1>5, <1>6, <1>7, <1>8, <1>9 DEF PrettyValues

(* Indentation, and the space after a key's colon.                         *)
LEMMA SpaceFound ==
    ASSUME NEW text \in {<<"space">>, <<"space", "space">>}, NEW tokens,
           Found(tokens), Joined(tokens)[1] # "space"
    PROVE  Found(<<Span("base", text)>> \o tokens)
<1>1. PICK rest \in Seq(Classes) : rest = Joined(tokens)
  BY DEF Found, ReadAs
<1>2. EndsBefore(rest, {"space"})
  BY <1>1 DEF EndsBefore
<1>3. text \in Seq(Classes) /\ text # <<>> /\ AllIn(text, {"space"})
  <2>1. CASE text = <<"space">>
    BY <2>1 DEF Classes, AllIn
  <2>2. CASE text = <<"space", "space">>
    BY <2>2 DEF Classes, AllIn
  <2>3. QED
    BY <2>1, <2>2
<1>4. IsToken("base", text, rest)
  BY <1>2, <1>3, SpaceToken
<1>5. PICK t : t = Span("base", text)
  OBVIOUS
<1>6. t \in Styled /\ t.style = "base" /\ t.text = text
  BY <1>3, <1>5 DEF Styled, Span
<1>7. IsToken(t.style, t.text, Joined(tokens))
  BY <1>1, <1>4, <1>6, Zenon
<1>8. Found(<<t>> \o tokens)
  BY <1>6, <1>7, OneMoreFound
<1>9. QED
  BY <1>5, <1>8, Zenon

(* A value with its key, or without, does not begin with a space either.   *)
LEMMA KeyFound ==
    ASSUME NEW key \in PrettyKeys, NEW tokens, Found(tokens),
           Joined(tokens) # <<>>, Joined(tokens)[1] # "space"
    PROVE  Found(key \o tokens) /\ Joined(key \o tokens)[1] # "space"
<1>1. tokens \in Seq(Styled)
  BY DEF Found
<1>2. CASE key = <<>>
  <2>1. <<>> \o tokens = tokens
    BY <1>1, ConcatEmptySeq
  <2>2. QED
    BY <1>2, <2>1
<1>3. CASE \E text \in Strings :
             key = <<Span("json_key", text), Punct("colon"), Span("base", <<"space">>)>>
  <2>1. PICK text \in Strings :
               key = <<Span("json_key", text), Punct("colon"), Span("base", <<"space">>)>>
    BY <1>3
  <2>2. PICK k, c, s : /\ k = Span("json_key", text) /\ c = Punct("colon")
                       /\ s = Span("base", <<"space">>)
    OBVIOUS
  <2>3. Found(<<s>> \o tokens)
    BY <2>2, SpaceFound
  <2>4. LET all == <<c>> \o (<<s>> \o tokens)
        IN  Found(all) /\ Joined(all) # <<>> /\ Joined(all)[1] = "colon"
    BY <2>2, <2>3, PunctFound, Zenon
  <2>5. LET all == <<k>> \o (<<c>> \o (<<s>> \o tokens))
        IN  Found(all) /\ Joined(all)[1] = "quote"
    <3>1. PICK more : more = <<c>> \o (<<s>> \o tokens)
      OBVIOUS
    <3>2. /\ Found(more) /\ Begins(Joined(more), {"colon", "other"})
          /\ "json_key" = IF Joined(more) # <<>> /\ Joined(more)[1] = "colon"
                          THEN "json_key" ELSE "json_string"
      BY <2>4, <3>1 DEF Begins
    <3>3. LET all == <<Span("json_key", text)>> \o more
          IN  Found(all) /\ Joined(all) # <<>> /\ Joined(all)[1] = "quote"
      BY <3>2, StringFound, Zenon
    <3>4. QED
      BY <2>2, <3>1, <3>3, Zenon
  <2>6. key \o tokens = <<k>> \o (<<c>> \o (<<s>> \o tokens))
    <3>1. k \in Styled /\ c \in Styled /\ s \in Styled
      <4>1. text \in Seq(Classes)
        BY StringsAre, QuotedIs
      <4>2. k \in Styled
        BY <2>2, <4>1 DEF Styled, Span
      <4>3. c \in Styled /\ s \in Styled
        BY <2>2 DEF Styled, Span, Punct, Classes
      <4>4. QED
        BY <4>2, <4>3
    <3>2. <<k>> \in Seq(Styled) /\ <<c>> \in Seq(Styled) /\ <<s>> \in Seq(Styled)
      BY <3>1
    <3>3. <<k, c, s>> = <<k>> \o (<<c>> \o <<s>>)
      BY <3>1, ThreeAre
    <3>4. <<c>> \o <<s>> \in Seq(Styled)
      BY <3>2, ConcatProperties
    <3>5. /\ (<<k>> \o (<<c>> \o <<s>>)) \o tokens = <<k>> \o ((<<c>> \o <<s>>) \o tokens)
          /\ (<<c>> \o <<s>>) \o tokens = <<c>> \o (<<s>> \o tokens)
      BY <1>1, <3>2, <3>4, ConcatAssociative
    <3>6. key = <<k, c, s>>
      BY <2>1, <2>2
    <3>7. QED
      BY <3>3, <3>5, <3>6, Zenon
  <2>7. QED
    BY <2>5, <2>6
<1>4. QED
  BY <1>2, <1>3 DEF PrettyKeys

(* Tokens that are found are what the line is coloured as.                 *)
LEMMA Coloured ==
    ASSUME NEW tokens, Found(tokens)
    PROVE  highlight_json_line(Joined(tokens)) = tokens
<1>1. PICK rest \in Seq(Classes) : rest = Joined(tokens)
  BY DEF Found, ReadAs
<1>2. <<>> \in Seq(Classes) /\ Len(<<>>) + 1 = 1 /\ <<>> \o rest = rest
  BY EmptySeq, ConcatEmptySeq
<1>3. SpansOf(<<>> \o rest)[Len(<<>>) + 1] = tokens
  BY <1>1, <1>2 DEF Found, ReadAs
<1>4. SpansOf(rest)[1] = tokens
  BY <1>2, <1>3
<1>5. highlight_json_line(rest) = SpansOf(rest)[1]
  BY DEF highlight_json_line, SpansOf, Spans, SpanAt
<1>6. QED
  BY <1>1, <1>4, <1>5

(* What a line is put together from are sequences of tokens.               *)
LEMMA PartsAreStyled ==
    /\ PrettyKeys \subseteq Seq(Styled)
    /\ PrettyValues \subseteq Seq(Styled)
    /\ Commas \subseteq Seq(Styled)
<1>1. /\ \A text \in Strings : text \in Seq(Classes)
      /\ \A text \in Numbers : text \in Seq(Classes)
      /\ \A text \in Words : text \in Seq(Classes)
  <2>1. \A text \in Strings : text \in Seq(Classes)
    BY StringsAre, QuotedIs
  <2>2. /\ \A text \in Numbers : text \in Seq(Classes)
        /\ \A text \in Words : text \in Seq(Classes)
    BY DEF Numbers, Words, Classes
  <2>3. QED
    BY <2>1, <2>2
<1>2. /\ \A text \in Strings : /\ Span("json_key", text) \in Styled
                               /\ Span("json_string", text) \in Styled
      /\ \A text \in Numbers : Span("json_number", text) \in Styled
      /\ \A text \in Words : Span("json_literal", text) \in Styled
  BY <1>1 DEF Span, Styled
<1>3. /\ Punct("colon") \in Styled /\ Punct("other") \in Styled
      /\ Span("base", <<"space">>) \in Styled
  BY DEF Span, Punct, Styled, Classes
<1>4. /\ \A t \in Styled : <<t>> \in Seq(Styled)
      /\ \A t \in Styled, u \in Styled : <<t, u>> \in Seq(Styled)
      /\ \A t \in Styled, u \in Styled, v \in Styled : <<t, u, v>> \in Seq(Styled)
      /\ <<>> \in Seq(Styled)
  OBVIOUS
<1>5. Commas \subseteq Seq(Styled)
  BY <1>3, <1>4, Zenon DEF Commas
<1>6. ASSUME NEW value \in PrettyValues PROVE value \in Seq(Styled)
  BY <1>2, <1>3, <1>4, Zenon DEF PrettyValues
<1>7. ASSUME NEW key \in PrettyKeys PROVE key \in Seq(Styled)
  BY <1>2, <1>3, <1>4, ZenonT(60) DEF PrettyKeys
<1>8. QED
  BY <1>5, <1>6, <1>7

(* The scanner colours each line of pretty-printed JSON by its tokens.     *)
LEMMA EveryTokenIsFound == TokensFound
<1> SUFFICES ASSUME NEW tokens \in PrettyLines
             PROVE  highlight_json_line(Joined(tokens)) = tokens
  BY DEF TokensFound, Joined, Texts
<1>1. PICK key \in PrettyKeys, value \in PrettyValues, comma \in Commas :
        tokens = <<Span("base", <<"space", "space">>)>> \o key \o value \o comma
  BY SMTT(60) DEF PrettyLines, Commas
<1>2. PICK base : base = <<Span("base", <<"space", "space">>)>>
  OBVIOUS
<1>3. /\ Found(value \o comma) /\ Joined(value \o comma) # <<>>
      /\ Joined(value \o comma)[1] # "space"
  BY ValueFound
<1>4. /\ Found(key \o (value \o comma))
      /\ Joined(key \o (value \o comma))[1] # "space"
  BY <1>3, KeyFound
<1>5. Found(base \o (key \o (value \o comma)))
  BY <1>2, <1>4, SpaceFound
<1>6. tokens = base \o (key \o (value \o comma))
  <2>1. /\ base \in Seq(Styled) /\ key \in Seq(Styled)
        /\ value \in Seq(Styled) /\ comma \in Seq(Styled)
    <3>1. Span("base", <<"space", "space">>) \in Styled
      BY DEF Span, Styled, Classes
    <3>2. base \in Seq(Styled)
      BY <1>2, <3>1
    <3>3. QED
      BY <3>2, PartsAreStyled
  <2>2. Associate(base, key, value, comma)
    BY <2>1, Reassociate
  <2>3. QED
    BY <1>1, <1>2, <2>2, Zenon DEF Associate
<1>7. QED
  BY <1>5, <1>6, Coloured

(***************************************************************************)
(* highlight_json_line, which looks at a line a character at a time, finds *)
(* every token of a line as serde_json's pretty printer writes it, and     *)
(* gives it its colour: a string ends at the quote that is not escaped,    *)
(* whatever it contains, and is a key just before a colon.  For strings of *)
(* any length.                                                             *)
(***************************************************************************)
THEOREM TokensAreColoured == TuiSpec => []HighlightFindsTokens
<1>1. HighlightFindsTokens
  BY EveryTokenIsFound DEF HighlightFindsTokens
<1>2. QED
  BY <1>1, PTL
=============================================================================
