-------------------------- MODULE MCSubPoolMonitor --------------------------
(***************************************************************************)
(* Small instances of SubPoolMonitor for TLC.  Three processes beyond the  *)
(* initial ones let a sub pool die, come back and die again while another  *)
(* one is being appended.                                                  *)
(***************************************************************************)
EXTENDS SubPoolMonitor, TLC

(* Addresses, waiters and callers are interchangeable.                     *)
Symmetric == Permutations(Initial) \cup Permutations(Waiter) \cup Permutations(Op)
=============================================================================
