------------------------------- MODULE Queues -------------------------------
(***************************************************************************)
(* Queues whose elements may also leave from the middle: the waiters of an *)
(* asyncio.Lock, one of which may be cancelled, and the registered futures *)
(* of a client, in the order of the dict they are kept in.                 *)
(***************************************************************************)
EXTENDS Naturals, Sequences, Functions

(* One element leaves a deque or the keys of a dict, the others stay in    *)
(* order.                                                                  *)
Without(s, j) ==
    LET n == CHOOSE i \in DOMAIN s : s[i] = j
    IN  IF j \in Range(s) THEN [i \in 1..(Len(s) - 1) |-> IF i < n THEN s[i] ELSE s[i + 1]] ELSE s

(* Nobody is queued twice.                                                 *)
Distinct(s) == \A i, k \in DOMAIN s : s[i] = s[k] => i = k
=============================================================================
