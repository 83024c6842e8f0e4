---------------------------- MODULE MCEventLoop ----------------------------
(* An instance of EventLoop for TLC, with descriptors below and above that of *)
(* the listening socket and one that is too large for the loop.  All may be   *)
(* free, one of them taken, or all but one.                                   *)
EXTENDS EventLoopInv

OthersChoices == {{}, {3}, {5}, {5, 6}}
=============================================================================
