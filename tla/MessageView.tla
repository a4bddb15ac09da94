---------------------------- MODULE MessageView ----------------------------
(***************************************************************************)
(* The body of the detail view (src/src/ui/message_view.rs): which form a  *)
(* payload is shown in and in how many lines, and the hand-written scanner *)
(* that colours a line of pretty-printed JSON.                             *)
(*                                                                         *)
(* A payload is what render_body tells apart: its length in bytes, the     *)
(* lines serde_json prints it in (0 when it does not parse), and its       *)
(* newlines when it is printable UTF-8 (NotText when it is not).  A        *)
(* character of a line is its class.                                       *)
(***************************************************************************)
EXTENDS Integers, SequencesExt

CONSTANT MaxCharacters   \* bound: characters of a string in a reference line

ASSUME ViewAssumption == MaxCharacters \in Nat

NotText == -1

Payload == [bytes : Nat, pretty : Nat, newlines : Nat \cup {NotText}]

\* JSON, else text, else a dump of 16 bytes to the line.
render_body(data) ==
    CASE data.bytes = 0 -> [label |-> "empty", lines |-> 1]
      [] data.bytes > 0 /\ data.pretty > 0 ->
            [label |-> "json", lines |-> data.pretty]
      [] data.bytes > 0 /\ data.pretty = 0 /\ data.newlines # NotText ->
            [label |-> "text", lines |-> data.newlines + 1]
      [] OTHER ->
            [label |-> "hex", lines |-> (data.bytes + 15) \div 16]

-----------------------------------------------------------------------------
(* highlight_json_line.  A "." and a "+", which only continue a number in  *)
(* what serde_json prints, are digits; an exponent's "e" is also a letter. *)

Classes == {"space", "quote", "backslash", "colon", "minus", "digit", "e",
            "letter", "other"}

InNumber == {"digit", "minus", "e"}
InWord == {"letter", "e"}

\* The last of the characters from start on that are all of the classes.
RunEnd(line, start, classes) ==
    CHOOSE end \in start..Len(line) :
        /\ \A i \in (start + 1)..end : line[i] \in classes
        /\ end < Len(line) => line[end + 1] \notin classes

\* Mutation of StringEnd: any quote after the opening one ends the string.
AnyQuoteEnds(line, start) ==
    LET quotes == {i \in (start + 1)..Len(line) : line[i] = "quote"}
    IN  IF quotes = {} THEN Len(line) ELSE Min(quotes)

\* The quote that ends the string opened at start, or the line's end.
StringEnd(line, start) ==
    LET escaped[i \in start..Len(line)] ==
            i > start + 1 /\ line[i - 1] = "backslash" /\ ~escaped[i - 1]
        quotes == {i \in (start + 1)..Len(line) : line[i] = "quote" /\ ~escaped[i]}
    IN  IF quotes = {} THEN Len(line) ELSE Min(quotes)

SpanEnd(line, start) ==
    CASE line[start] = "space"              -> RunEnd(line, start, {"space"})
      [] line[start] = "quote"              -> StringEnd(line, start)
      [] line[start] \in {"minus", "digit"} -> RunEnd(line, start, InNumber)
      [] line[start] \in InWord             -> RunEnd(line, start, InWord)
      [] OTHER                              -> start

\* A string is a key if the next character that is no space is a colon.
is_key(line, end) ==
    LET next == {i \in (end + 1)..Len(line) : line[i] # "space"}
    IN  next # {} /\ line[Min(next)] = "colon"

Style(line, start) ==
    CASE line[start] = "space"              -> "base"
      [] line[start] = "quote"              ->
            IF is_key(line, StringEnd(line, start)) THEN "json_key" ELSE "json_string"
      [] line[start] \in {"minus", "digit"} -> "json_number"
      [] line[start] \in InWord             -> "json_literal"
      [] OTHER                              -> "json_punct"

Span(style, text) == [style |-> style, text |-> text]

highlight_json_line(line) ==
    LET spans[i \in 1..(Len(line) + 1)] ==
            IF i > Len(line) THEN <<>>
            ELSE <<Span(Style(line, i), SubSeq(line, i, SpanEnd(line, i)))>>
                   \o spans[SpanEnd(line, i) + 1]
    IN  spans[1]

-----------------------------------------------------------------------------
(***************************************************************************)
(* The reference: a line as serde_json's pretty printer writes it, token   *)
(* by token.  Bounds: strings of at most MaxCharacters characters, each    *)
(* plain, a colon, a space or an escape, and one indentation.              *)
(***************************************************************************)
Character == {<<"letter">>, <<"e">>, <<"digit">>, <<"minus">>, <<"colon">>,
              <<"space">>, <<"other">>,
              <<"backslash", "quote">>, <<"backslash", "backslash">>}

Strings ==
    {<<"quote">> \o FlattenSeq(text) \o <<"quote">> :
        text \in UNION {[1..n -> Character] : n \in 0..MaxCharacters}}

Numbers == {<<"digit">>, <<"minus", "digit", "digit">>,
            <<"digit", "digit", "e", "minus", "digit">>}

Words == {<<"letter", "letter", "letter", "e">>}        \* true, null

Punct(class) == Span("json_punct", <<class>>)

PrettyValues ==
    {<<Span("json_string", text)>> : text \in Strings}
    \cup {<<Span("json_number", text)>> : text \in Numbers}
    \cup {<<Span("json_literal", text)>> : text \in Words}
    \cup {<<Punct("other")>>, <<Punct("other"), Punct("other")>>}   \* {, []

PrettyKeys ==
    {<<>>} \cup {<<Span("json_key", text), Punct("colon"), Span("base", <<"space">>)>> :
                    text \in Strings}

PrettyLines ==
    {<<Span("base", <<"space", "space">>)>> \o key \o value \o comma :
        key \in PrettyKeys, value \in PrettyValues, comma \in {<<>>, <<Punct("other")>>}}

TokensFound ==
    \A tokens \in PrettyLines :
        highlight_json_line(FlattenSeq([i \in DOMAIN tokens |-> tokens[i].text])) = tokens
=============================================================================
