----------------------------- MODULE MCHandlers -----------------------------
(* Instances of Handlers for TLC.  Arguments are values, that is sequences   *)
(* of pieces of text.                                                        *)
EXTENDS Handlers

CONSTANTS w1, w2

K == <<"k">>
L == <<"l">>
TwoKeys == {K, L}
Plain(x) == <<x>>
TwoLines == <<"a", "b">>

\* Pushes of several elements to one key, from both ends.
Push(name, elements) == <<Plain(name), K>> \o elements
PushScripts ==
  {<<Push(p, <<Plain("a"), Plain("b")>>), Push(q, <<Plain("c"), Plain("d"), Plain("e")>>),
     Push(p, <<Plain("f")>>)>> : p, q \in {"RPUSH", "LPUSH"}}

\* One request of every command for a list, a set and a string, with CR LF in some
\* values, and some that are refused.
ListRequests ==
  {<<Plain("RPUSH"), K, Plain("a"), TwoLines>>, <<Plain("LPUSH"), K, Plain("c")>>,
   <<Plain("LRANGE"), K, Plain("0"), Plain("-1")>>,
   <<Plain("LTRIM"), K, Plain("0"), Plain("0")>>,
   <<Plain("EXPIRE"), K, Plain("10")>>, <<Plain("RPUSH"), K>>}
SetRequests ==
  {<<Plain("sadd"), K, Plain("a"), TwoLines>>, <<Plain("SREM"), K, Plain("a")>>,
   <<Plain("SMEMBERS"), K>>, <<Plain("SCARD"), K>>, <<Plain("EXPIRE"), K, Plain("10")>>,
   <<Plain("SREM"), K>>}
StringRequests(values) ==
  {<<Plain("SET"), k, v>> : k \in TwoKeys, v \in values} \cup
  {<<Plain("get"), K>>, <<Plain("MGET"), K, L>>, <<Plain("PING")>>}

Triples(S) == {<<a, b, c>> : a, b, c \in S}
AllScripts ==
  Triples(ListRequests) \cup Triples(SetRequests)
  \cup Triples(StringRequests({Plain("a"), TwoLines})) \cup PushScripts
=============================================================================
