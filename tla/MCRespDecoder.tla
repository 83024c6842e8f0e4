--------------------------- MODULE MCRespDecoder ---------------------------
(* Instances of RespDecoder for TLC. *)
EXTENDS RespDecoder

A == Symbol("char", 1)

\* Payloads: plain, with CR or LF at either end, with CR LF inside, only CR LF.
Texts == {<<A>>, <<A, CR>>, <<LF, A>>, <<A, CR, LF, A>>, <<CR, LF>>}
Name == <<A, A>>

\* Requests of one and two arguments, and ones with an empty argument that is
\* not the last.
Requests ==
  {<<t>> : t \in Texts} \cup {<<Name, t>> : t \in Texts} \cup {<<Name, << >>, <<A>>>>}
TwoRequests == {<<r, q>> : r, q \in Requests}

\* A command with an empty last argument, such as SET k "".
EmptyLast == {<< <<Name, << >>>>, <<Name>> >>} \cup {<<r, r>> : r \in Requests}

\* Requests without arguments, with integers, and with an integer at the end,
\* as in DECODE_TEST_CASE_2, before and after one that is delivered.
Integer(n) == <<Symbol(":", n)>>
OddRequests ==
  {<< >>, <<Name, Integer(1), <<A>>>>, <<Integer(1), Integer(2), Integer(3)>>, <<Name, <<A, CR>>>>}
Streams == TwoRequests \cup {<<q, r, t>> : q, r, t \in OddRequests}
=============================================================================
