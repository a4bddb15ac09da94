------------------------------ MODULE MCTuiApp ------------------------------
(***************************************************************************)
(* Three messages, of which two are shown: a JSON number, a text of 64 KB  *)
(* (--max-payload-bytes) that is all newlines, whose view has more lines   *)
(* than a u16 counts, and 65 bytes that are no text, with one attribute.   *)
(***************************************************************************)
EXTENDS TuiApp

JsonNumber == [bytes |-> 2, pretty |-> 1, newlines |-> 0]
LongText == [bytes |-> 65536, pretty |-> 0, newlines |-> 65536]
Binary == [bytes |-> 65, pretty |-> 0, newlines |-> NotText]

Three == <<[data |-> JsonNumber, attributes |-> 0],
           [data |-> LongText, attributes |-> 0],
           [data |-> Binary, attributes |-> 1]>>
=============================================================================
