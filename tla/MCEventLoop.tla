----------------------------- MODULE MCEventLoop -----------------------------
(***************************************************************************)
(* Values of the constants of EventLoop for TLC.                           *)
(***************************************************************************)
EXTENDS EventLoop

\* Two files, a restart, and one more file over the first.
TwoThenOne == <<2, 1>>

AnyFault == FaultKinds
=============================================================================
