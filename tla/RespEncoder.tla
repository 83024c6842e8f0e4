---------------------------- MODULE RespEncoder ----------------------------
(***************************************************************************)
(* The RESP encoder of simple_resp and the client that reads what it       *)
(* wrote.  A value is the sequence of the pieces its text has between one  *)
(* CR LF and the next (one piece if it has none); an encoded reply is a    *)
(* sequence of lines: a header ("+", "-", "$" or "*") or a bare piece.     *)
(***************************************************************************)
EXTENDS Integers, Sequences, SequencesExt

Header(t, n, piece) == [t |-> t, n |-> n, piece |-> piece]
Bare(piece) == Header("bare", 0, piece)
BareLines(pieces) == [i \in DOMAIN pieces |-> Bare(pieces[i])]

\* "+" or "-", the text as it is, CR LF: the text is not measured.
Line(t, value) == <<Header(t, 0, Head(value))>> \o BareLines(Tail(value))

\* "$", the length, and the text.
Bulk(value) == <<Header("$", Len(value), "")>> \o BareLines(value)
Nil == <<Header("$", -1, "")>>

\* encoder::encode of one typed value.  Integers are written as bulk strings.
EncodeValue(type, value) ==
  CASE type = "SIMPLE_STRINGS" -> Line("+", value)
    [] type = "ERRORS" -> Line("-", value)
    [] type \in {"INTEGERS", "BULK_STRINGS"} -> Bulk(value)
    [] type = "BULK_NIL" -> Nil

\* encoder::encode of the type ARRAYS: all elements are bulk strings.
EncodeArray(values) ==
  <<Header("*", Len(values), "")>>
    \o FlattenSeq([i \in DOMAIN values |-> Bulk(values[i])])

\* Mutant: a nil is counted but not written.
EncodePairsWithoutNil(pairs) ==
  LET some == SelectSeq(pairs, LAMBDA x : x.type # "BULK_NIL") IN
  <<Header("*", Len(pairs), "")>>
    \o FlattenSeq([i \in DOMAIN some |-> EncodeValue(some[i].type, some[i].value)])

\* encoder::encode of a list of typed values.
EncodePairs(pairs) ==
  <<Header("*", Len(pairs), "")>>
    \o FlattenSeq([i \in DOMAIN pairs |-> EncodeValue(pairs[i].type, pairs[i].value)])

\* The lines a value takes for a client that reads RESP, by the first of them: a
\* header line that is not an array's, with the pieces it announces.
LinesOfValue(first) ==
  IF first.t = "bare" THEN 0 ELSE IF first.t = "$" /\ first.n >= 0 THEN 1 + first.n ELSE 1

\* What the client has taken with one value more; 0 when it cannot make sense of it.
NextValue(lines, taken) ==
  IF taken = 0 \/ taken >= Len(lines) \/ LinesOfValue(lines[taken + 1]) = 0 THEN 0
  ELSE taken + LinesOfValue(lines[taken + 1])

\* How many lines a client takes for one reply; 0 when it cannot make sense of
\* them.  An array is as many values as its header says.
LinesOfReply(lines) ==
  IF lines = << >> THEN 0
  ELSE IF lines[1].t # "*" THEN LinesOfValue(lines[1])
  ELSE LET taken[i \in 0 .. lines[1].n] ==
             IF i = 0 THEN 1 ELSE NextValue(lines, taken[i - 1])
       IN taken[lines[1].n]
=============================================================================
