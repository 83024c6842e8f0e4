------------------------------ MODULE MCProxy ------------------------------
(* Instances of Proxy for TLC. *)
EXTENDS Proxy

CONSTANTS c1, c2, w1, w2, s1, s2

K == <<"k">>
OneKey == {K}

\* A push of two elements and a read: effects that others see.
Push == << <<"RPUSH">>, K, <<"a">>, <<"b">> >>
PushOrRead == {Push, << <<"LRANGE">>, K, <<"0">>, <<"-1">> >>}

\* A push, a command whose failure is a status, and one refused without a call.
PushOrFail == {Push, << <<"EXPIRE">>, K, <<"10">> >>, << <<"PING">> >>}

\* Threads of a pool are interchangeable, and so are connections.
ThreadsAndConns ==
  Permutations(Workers) \cup Permutations(Senders) \cup Permutations(Conns)
=============================================================================
