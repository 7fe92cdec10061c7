----------------------------- MODULE MCPollServer -----------------------------
(***************************************************************************)
(* PollServer for TLC.  Workers are interchangeable: no definition names   *)
(* one, and every property quantifies over all of them.  The symmetry is   *)
(* used by the runs that check invariants; it is not sound for liveness.   *)
(***************************************************************************)
EXTENDS PollServer, TLC

WorkerSymmetry == Permutations(Workers)
=============================================================================
