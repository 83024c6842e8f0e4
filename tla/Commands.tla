------------------------------ MODULE Commands ------------------------------
(***************************************************************************)
(* The commands of the proxy as functions: what a handler accepts, which   *)
(* calls it makes to the LogCabin cluster, and what it replies when they   *)
(* have returned.  When a call throws is left to module Handlers.          *)
(***************************************************************************)
EXTENDS RespEncoder

\* External: the value of a key that is not there.
Absent == [kind |-> "absent", list |-> << >>]
-----------------------------------------------------------------------------
(* Requests.  A request is the vector redis_args: a name and arguments.    *)

\* to_uppercase: names in small letters stand for all that are not in capitals.
UpperCase(name) ==
  LET capitals == [rpush |-> "RPUSH", lpush |-> "LPUSH", sadd |-> "SADD", srem |-> "SREM",
                   smembers |-> "SMEMBERS", scard |-> "SCARD", set |-> "SET", get |-> "GET",
                   mget |-> "MGET", lrange |-> "LRANGE", ltrim |-> "LTRIM",
                   expire |-> "EXPIRE"]
  IN IF name \in DOMAIN capitals THEN capitals[name] ELSE name

\* No command has a CR LF in its name.
Command(r) == IF Len(r[1]) = 1 THEN UpperCase(r[1][1]) ELSE "UNKNOWN"

\* The handlers' tests of redis_args.size().
ArgumentsOk(r) ==
  CASE Command(r) \in {"RPUSH", "LPUSH", "SADD", "SET"} -> Len(r) >= 3
    [] Command(r) \in {"SREM", "EXPIRE"} -> Len(r) = 3
    [] Command(r) \in {"GET", "SCARD", "SMEMBERS"} -> Len(r) = 2
    [] Command(r) = "MGET" -> Len(r) >= 2
    [] Command(r) \in {"LRANGE", "LTRIM"} -> Len(r) = 4
    [] OTHER -> FALSE

\* The cluster calls a request makes, one after the other: RPUSH and LPUSH call
\* once for each element and MGET for each key, the others once.
Calls(r) ==
  CASE Command(r) \in {"RPUSH", "LPUSH"} ->
         [i \in 1 .. Len(r) - 2 |-> [op |-> Command(r), key |-> r[2], args |-> <<r[i + 2]>>]]
    [] Command(r) = "MGET" ->
         [i \in 1 .. Len(r) - 1 |-> [op |-> "GET", key |-> r[i + 1], args |-> << >>]]
    [] OTHER -> <<[op |-> Command(r), key |-> r[2], args |-> SubSeq(r, 3, Len(r))]>>

Writes == {"RPUSH", "LPUSH", "SADD", "SREM", "SET", "LTRIM", "EXPIRE"}

\* External: what a writing call makes of the value it finds.  A trim, which
\* can leave any part of a list, is taken to leave the first element.  The members
\* of a set are listed once each, in some order.
Effect(value, call) ==
  CASE call.op = "RPUSH" -> [kind |-> "list", list |-> value.list \o call.args]
    [] call.op = "LPUSH" -> [kind |-> "list", list |-> call.args \o value.list]
    [] call.op = "SADD" ->
         [kind |-> "set", list |-> SetToSeq(ToSet(value.list) \cup ToSet(call.args))]
    [] call.op = "SREM" ->
         [value EXCEPT !.list = SetToSeq(ToSet(@) \ {call.args[1]})]
    [] call.op = "SET" -> [kind |-> "string", list |-> <<call.args[1]>>]
    [] call.op = "LTRIM" -> 
         [value EXCEPT !.list = IF @ = << >> THEN @ ELSE <<Head(@)>>]
    [] OTHER -> value

\* External: the number scard returns, as text.
CountText(value) == <<ToString(Len(value.list))>>
-----------------------------------------------------------------------------
(* Replies.                                                                *)

InternalError == EncodeValue("ERRORS", <<"ERR Internal error happened">>)
UsageError == EncodeValue("ERRORS", <<"ERR wrong number of arguments">>)
StatusError(status) == EncodeValue("ERRORS", <<status>>)

\* The value readEx returned, or the LookupException it threw, as MGET lists it.
Pair(value) ==
  IF value = Absent THEN [type |-> "BULK_NIL", value |-> <<"">>]
  ELSE [type |-> "SIMPLE_STRINGS", value |-> value.list[1]]

\* The reply with the value that was read.
ReplyWith(r, value) ==
  CASE Command(r) = "GET" -> EncodeValue("BULK_STRINGS", value.list[1])
    [] Command(r) = "SCARD" -> EncodeValue("INTEGERS", CountText(value))
    [] Command(r) \in {"LRANGE", "SMEMBERS"} -> EncodeArray(value.list)

\* The reply when every call has returned; read holds what they returned.
\* A missing key is an error to SMEMBERS, which does not catch LookupException.
ReplyTo(r, read) ==
  CASE Command(r) \in {"RPUSH", "LPUSH", "SADD", "SREM"} -> EncodeValue("INTEGERS", <<"1">>)
    [] Command(r) \in {"SET", "LTRIM", "EXPIRE"} -> EncodeValue("SIMPLE_STRINGS", <<"OK">>)
    [] Command(r) = "MGET" -> EncodePairs([i \in DOMAIN read |-> Pair(read[i])])
    [] Command(r) = "SMEMBERS" ->
         IF read[1] = Absent THEN InternalError ELSE ReplyWith(r, read[1])
    [] Command(r) \in {"GET", "SCARD", "LRANGE"} ->
         IF read[1] = Absent THEN EncodeValue("BULK_NIL", <<"">>) ELSE ReplyWith(r, read[1])
=============================================================================
