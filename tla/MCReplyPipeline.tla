-------------------------- MODULE MCReplyPipeline --------------------------
(* Instances of ReplyPipeline for TLC. *)
EXTENDS ReplyPipelineInv, TLC

CONSTANTS c1, c2, c3, w1, w2, s1, s2

\* Threads of a pool are interchangeable: nothing but their own task tells
\* one from another.
Threads == Permutations(Workers) \cup Permutations(Senders)

\* So are connections: descriptors tell them apart, names do not.
ThreadsAndConns == Threads \cup Permutations(Conns)
=============================================================================
