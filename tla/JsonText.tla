------------------------------ MODULE JsonText ------------------------------
(***************************************************************************)
(* What a JSON reader makes of a text (a sequence of tokens, as in module  *)
(* EventRender): the reference the rendered events are compared with.  It  *)
(* covers objects, arrays, strings and numbers.                            *)
(*                                                                         *)
(* Decode yields the members of the outermost object, in order, as pairs   *)
(* of a key and the sequence of the strings and numbers its value is made  *)
(* of; Malformed if the text is not one JSON object.                       *)
(***************************************************************************)
EXTENDS Naturals, Sequences

CONSTANT Numbers    \* the tokens that are numbers

ASSUME NumbersAssumption ==
    Numbers \cap {"\"", "\\", ",", ":", "{", "}", "[", "]"} = {}

Malformed == <<"malformed">>

-----------------------------------------------------------------------------
(***************************************************************************)
(* The reader takes one token after the other.  mode: outside of strings,  *)
(* in one, or after a backslash in one; string: what was read of it; want: *)
(* what may come next; open: the containers around, innermost first; key,  *)
(* parts: the member of the outermost object being read; members: those    *)
(* before it.                                                              *)
(***************************************************************************)
Start ==
    [mode |-> "outside", string |-> <<>>, want |-> "object", open |-> <<>>,
     key |-> <<>>, parts |-> <<>>, members |-> <<>>]

WantsKey(s)          == s.want \in {"key", "key or end"}
WantsValue(s)        == s.want \in {"value", "value or end"}
Inside(s, container) == s.open # <<>> /\ Head(s.open) = container

Failed(s) == [s EXCEPT !.mode = "outside", !.want = "failed"]

Enter(s, container, want) == [s EXCEPT !.open = <<container>> \o @, !.want = want]

\* A member of the outermost object ends.
Commit(s) ==
    IF Len(s.open) = 1 THEN [s EXCEPT !.members = Append(@, <<s.key, s.parts>>)] ELSE s

Leave(s) ==
    [IF s.want = "separator" THEN Commit(s) ELSE s
     EXCEPT !.open = Tail(@), !.want = IF Len(s.open) = 1 THEN "nothing" ELSE "separator"]

\* A string or number in the current member's value, also a key further inside.
Part(s, text, want) == [s EXCEPT !.parts = Append(@, text), !.want = want]

StringRead(s, text) ==
    IF WantsValue(s) THEN Part(s, text, "separator")
    ELSE IF Len(s.open) = 1 THEN [s EXCEPT !.key = text, !.parts = <<>>, !.want = "colon"]
    ELSE Part(s, text, "colon")

ReadInString(s, token) ==
    IF token = "\\" THEN [s EXCEPT !.mode = "escape"]
    ELSE IF token = "\"" THEN StringRead([s EXCEPT !.mode = "outside", !.string = <<>>], s.string)
    ELSE [s EXCEPT !.string = Append(@, token)]

\* Only a quote or a backslash is escaped.
ReadEscaped(s, token) ==
    IF token \in {"\"", "\\"} THEN [s EXCEPT !.mode = "string", !.string = Append(@, token)]
    ELSE Failed(s)

ReadOutside(s, token) ==
    CASE token = "\"" /\ (WantsKey(s) \/ WantsValue(s)) -> [s EXCEPT !.mode = "string"]
      [] token \in Numbers /\ WantsValue(s) -> Part(s, <<token>>, "separator")
      [] token = "{" /\ (s.want = "object" \/ WantsValue(s)) -> Enter(s, "object", "key or end")
      [] token = "[" /\ WantsValue(s) -> Enter(s, "array", "value or end")
      [] token = "}" /\ Inside(s, "object") /\ s.want \in {"key or end", "separator"} -> Leave(s)
      [] token = "]" /\ Inside(s, "array") /\ s.want \in {"value or end", "separator"} -> Leave(s)
      [] token = "," /\ s.want = "separator" ->
            [Commit(s) EXCEPT !.want = IF Inside(s, "object") THEN "key" ELSE "value"]
      [] token = ":" /\ s.want = "colon" -> [s EXCEPT !.want = "value"]
      [] OTHER -> Failed(s)

Read(s, token) ==
    IF s.mode = "string" THEN ReadInString(s, token)
    ELSE IF s.mode = "escape" THEN ReadEscaped(s, token)
    ELSE ReadOutside(s, token)

\* Where the reader is after text, if it was at s before.
After(s, text) ==
    LET after[n \in 0..Len(text)] ==
            IF n = 0 THEN s ELSE Read(after[n - 1], text[n])
    IN  after[Len(text)]

\* TLC nests the evaluation of a recursive function as deep as its argument is large:
\* a text is read in pieces of Stretch tokens, so that the stack suffices for a long one.
Stretch == 10

Pieces(text) == Len(text) \div Stretch + 1

\* The last token of the n-th piece.
Upto(text, n) == IF n < Pieces(text) THEN Stretch * n ELSE Len(text)

\* Where the reader is after the n-th piece, from where it is after the one before.
Ends(text) ==
    LET ends[n \in 0..Pieces(text)] ==
            IF n = 0 THEN {Start}
            ELSE {After(s, SubSeq(text, Upto(text, n - 1) + 1, Upto(text, n))) : s \in ends[n - 1]}
    IN  ends[Pieces(text)]

Decode(text) ==
    LET end == CHOOSE s \in Ends(text) : TRUE
    IN  IF end.mode = "outside" /\ end.want = "nothing" THEN end.members ELSE Malformed
=============================================================================
