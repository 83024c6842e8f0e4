---------------------------- MODULE RespDecoder ----------------------------
(***************************************************************************)
(* The RESP decoder of simple_resp: requests arrive on a TCP stream in     *)
(* pieces of any size, read_from_client appends each piece to the buffer   *)
(* of the connection's decode_context and calls decode, which scans the    *)
(* buffer for tokens and calls the handler once per complete request.      *)
(*                                                                         *)
(* The stream is a sequence of symbols.  "*3", "$4" and ":5" are one       *)
(* symbol each, for nothing looks at them before their CR LF has arrived;  *)
(* CR, LF and the characters of a payload are symbols of their own.        *)
(***************************************************************************)
EXTENDS Integers, Sequences, FiniteSets, SequencesExt

CONSTANTS
  Scripts,    \* what a client may send: sequences of requests
  ReadSize    \* symbols one read() can return (buffer_size - 1)

VARIABLES
  script,          \* the requests this client sends
  wire,            \* what of them has not been read yet
  ctx,             \* the decode_context, but for
  buffered_input,  \* its buffer
  calls,           \* the calls of the handler, in order
  outcome          \* "returned", or "threw": nothing catches what leaves decode()

vars == <<script, wire, ctx, buffered_input, calls, outcome>>

Symbol(t, n) == [t |-> t, n |-> n]
CR == Symbol("CR", 0)
LF == Symbol("LF", 0)
IsHeader(x) == x.t \in {"*", "$", ":"}
Symbols == [t : {"CR", "LF", "char", "*", "$", ":"}, n : Nat]

ASSUME DecoderAssumption ==
  /\ ReadSize \in Nat \ {0}
  /\ \A s \in Scripts : s \in Seq(Seq(Seq(Symbols)))

\* A request is a sequence of arguments: bulk strings, or integers, whose one
\* symbol is the integer's header (the handler is given it whole: ":5").
IsInteger(arg) == Len(arg) = 1 /\ arg[1].t = ":"
EncodeArg(arg) ==
  IF IsInteger(arg) THEN arg \o <<CR, LF>>
  ELSE <<Symbol("$", Len(arg)), CR, LF>> \o arg \o <<CR, LF>>
EncodeRequest(args) ==
  <<Symbol("*", Len(args)), CR, LF>>
    \o FlattenSeq([i \in DOMAIN args |-> EncodeArg(args[i])])
Stream(requests) ==
  FlattenSeq([i \in DOMAIN requests |-> EncodeRequest(requests[i])])
-----------------------------------------------------------------------------
(* decode_context and decoder::parse.                                      *)

Context(state, list_size, str_size, list, id) ==
  [state |-> state, reading_list_size |-> list_size, reading_str_size |-> str_size,
   req_list |-> list, last_command_id |-> id]
NewContext == Context("INIT", 0, 0, << >>, 0)

\* What the loop of parse works on: the context, the calls it has made, and
\* whether it goes on or has thrown.
Decoding(context, made) == [ctx |-> context, calls |-> made, outcome |-> "returned"]
Throw(d) == [ctx |-> d.ctx, calls |-> d.calls, outcome |-> "threw"]

\* The request is complete: the handler gets it.
Called(d, list) == Append(d.calls, [id |-> d.ctx.last_command_id, args |-> list])

\* Mutant: the list is not cleared after the call.
CallHandlerKeepsList(d, list) ==
  Decoding(Context("INIT", 0, 0, list, d.ctx.last_command_id + 1), Called(d, list))

\* After the call the next request begins.
CallHandler(d, list) ==
  Decoding(Context("INIT", 0, 0, << >>, d.ctx.last_command_id + 1), Called(d, list))

\* Mutant: the last element of a request is not waited for.
ListCompleteEarly(d, list) == Len(list) + 1 >= d.ctx.reading_list_size

ListComplete(d, list) == Len(list) = d.ctx.reading_list_size

PushElement(d, element) ==
  LET c == d.ctx  list == Append(c.req_list, element) IN
  IF ListComplete(d, list) THEN CallHandler(d, list)
  ELSE Decoding(Context("PARSE_ELEMENTS", c.reading_list_size, 0, list, c.last_command_id),
                d.calls)

\* The first character is skipped without a look, whatever it is; substr and
\* stoi throw when no number follows it.
InitToken(d, token) ==
  LET c == d.ctx IN
  IF token # << >> /\ IsHeader(token[1])
  THEN Decoding(Context("PARSE_ELEMENTS", token[1].n, c.reading_str_size, c.req_list,
                        c.last_command_id), d.calls)
  ELSE Throw(d)

\* An integer is put in the list, and nothing tests whether the list is now
\* complete.  A token that is neither is dropped.
ElementToken(d, token) ==
  LET c == d.ctx IN
  IF token = << >> \/ ~IsHeader(token[1]) \/ token[1].t = "*" THEN d
  ELSE IF token[1].t = ":"
  THEN Decoding(Context(c.state, c.reading_list_size, c.reading_str_size,
                        Append(c.req_list, token), c.last_command_id), d.calls)
  ELSE IF token[1].n = 0 THEN PushElement(d, << >>)
  ELSE Decoding(Context("PARSE_BLUK_STRINGS", c.reading_list_size, token[1].n, c.req_list,
                        c.last_command_id), d.calls)

\* A token longer than the string was to be is dropped.
StringToken(d, token) ==
  IF Len(token) = d.ctx.reading_str_size THEN PushElement(d, token) ELSE d

\* A token that is done is handled in the state it is found in.
HandleToken(d, token) ==
  CASE d.ctx.state = "INIT" -> InitToken(d, token)
    [] d.ctx.state = "PARSE_ELEMENTS" -> ElementToken(d, token)
    [] d.ctx.state = "PARSE_BLUK_STRINGS" -> StringToken(d, token)

\* Mutant: a string is not done when it has its length.
TokenDoneLonger(d, token) ==
  d.ctx.state = "PARSE_BLUK_STRINGS" => Len(token) > d.ctx.reading_str_size

\* A CR LF may be a part of the string that is being read.
TokenDone(d, token) ==
  d.ctx.state = "PARSE_BLUK_STRINGS" => Len(token) >= d.ctx.reading_str_size

\* Mutant: a CR at the end of the buffer counts as the end of a token.
EndsTokenAtCR(buf, i) == buf[i] = CR /\ (i < Len(buf) => buf[i + 1] = LF)

\* The end of a token can only be seen when its LF has arrived too.
EndsToken(buf, i) == buf[i] = CR /\ i < Len(buf) /\ buf[i + 1] = LF

\* One turn of parse's loop; start is token_start.  The next token starts after
\* the LF, which the loop steps over.
ScanAt(buf, s, i) ==
  LET token == SubSeq(buf, s.start, i - 1) IN
  IF s.d.outcome = "threw" \/ i < s.start \/ ~EndsToken(buf, i) \/ ~TokenDone(s.d, token)
  THEN s
  ELSE [d |-> HandleToken(s.d, token), start |-> i + 2]

\* The loop: what it has come to at each place of the buffer, and at its end.
Parse(d, buf) ==
  LET scan[i \in 0 .. Len(buf)] ==
        IF i = 0 THEN [d |-> d, start |-> 1] ELSE ScanAt(buf, scan[i - 1], i)
  IN scan[Len(buf)]
-----------------------------------------------------------------------------
Init ==
  /\ script \in Scripts
  /\ wire = Stream(script)
  /\ ctx = NewContext
  /\ buffered_input = << >>
  /\ calls = << >>
  /\ outcome = "returned"

\* read_from_client: read() returns the next k symbols, they are appended to
\* the buffer, the buffer is decoded, and what was decoded is taken off it.
Read(k) ==
  LET buf == buffered_input \o SubSeq(wire, 1, k)
      s == Parse(Decoding(ctx, calls), buf)
  IN
  /\ outcome = "returned"
  /\ k <= Len(wire)
  /\ ctx' = s.d.ctx
  /\ calls' = s.d.calls
  /\ outcome' = s.d.outcome
  /\ buffered_input' = IF outcome' = "threw" THEN buf ELSE SubSeq(buf, s.start, Len(buf))
  /\ wire' = SubSeq(wire, k + 1, Len(wire))
  /\ UNCHANGED script

Next == \E k \in 1 .. ReadSize : Read(k)

Spec == Init /\ [][Next]_vars
-----------------------------------------------------------------------------
(* Properties.                                                             *)

\* A request that is never seen to be complete: one without arguments, for no
\* list has the length 0 when it is tested, and one that ends with an integer,
\* after which nothing is tested.  It takes the requests after it along.
Stalls(r) == r = << >> \/ IsInteger(Last(r))
Stalled(n) == \E i \in 1 .. n : Stalls(script[i])

\* The shape of the state.  The list of a request in progress is shorter than
\* announced, or can never be found complete: it is longer then, or has all its
\* elements and nothing tests it any more.
TypeOK ==
  /\ script \in Scripts
  /\ ctx.state \in {"INIT", "PARSE_ELEMENTS", "PARSE_BLUK_STRINGS"}
  /\ ctx.reading_list_size \in Nat
  /\ ctx.reading_str_size \in Nat
  /\ ctx.state = "INIT" => ctx.req_list = << >>
  /\ ctx.state # "INIT" =>
       Len(ctx.req_list) < ctx.reading_list_size \/ Stalled(Len(script))
  /\ ctx.last_command_id = Len(calls)
  /\ outcome \in {"returned", "threw"}

\* What has been read of the stream so far.
Consumed == LET all == Stream(script) IN SubSeq(all, 1, Len(all) - Len(wire))

\* Request n has been read to its last symbol.
Arrived(n) == Len(Stream(SubSeq(script, 1, n))) <= Len(Consumed)

\* However the stream is cut, the handler has been called exactly once for
\* each request whose last symbol has arrived, in the order sent, with its
\* arguments unchanged and the numbers 0, 1, 2, ..., up to the first request
\* that stalls; from there on it is never called, least of all with the
\* arguments of two requests (decoder::parse, decode_context::push_element).
DeliveredWhenComplete ==
  calls = [n \in {m \in DOMAIN script : Arrived(m) /\ ~Stalled(m)} |->
             [id |-> n - 1, args |-> script[n]]]

\* Reading the stream piece by piece leaves the decoder where reading it at
\* once would: no cut, not even between a CR and its LF, changes what is
\* called, what is left for the next read, or whether an exception is thrown.
FragmentationIrrelevant ==
  LET once == Parse(Decoding(NewContext, << >>), Consumed) IN
  /\ once.d = [ctx |-> ctx, calls |-> calls, outcome |-> outcome]
  /\ outcome = "returned" =>
       buffered_input = SubSeq(Consumed, once.start, Len(Consumed))

\* Only a token that is not complete stays in the buffer between two reads:
\* the buffer does not grow with the stream, and no request waits in it for
\* bytes that belong to the next one.
OnlyUnfinishedTokenBuffered ==
  outcome = "returned" =>
    IF ctx.state = "PARSE_BLUK_STRINGS"
    THEN Len(buffered_input) <= ctx.reading_str_size + 1
    ELSE \A i \in DOMAIN buffered_input : ~EndsToken(buffered_input, i)

\* "zero len str, just push back an empty string" (simple_resp.cc:98): a request
\* with an empty argument is decoded like any other.
EmptyStringsDecoded == outcome = "returned"
=============================================================================
