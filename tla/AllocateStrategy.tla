-------------------------- MODULE AllocateStrategy --------------------------
(***************************************************************************)
(* The allocation strategies of backends/allocate_strategy.py: where the   *)
(* main pool places an actor, given the pool configuration and what is     *)
(* already allocated.  The configuration is the sequence of external       *)
(* addresses, main pool first, with a label for each.                      *)
(***************************************************************************)
EXTENDS Integers, Sequences

CONSTANTS Addresses,  \* external addresses in process-index order, main first
          Label       \* address -> label

ASSUME AddressesAssumption ==
    /\ Len(Addresses) > 0
    /\ \A i, k \in 1..Len(Addresses) : Addresses[i] = Addresses[k] => i = k

Main == Addresses[1]

Pool == {Addresses[i] : i \in 1..Len(Addresses)}

Sub == Pool \ {Main}

(* A strategy as a client sends it: the class and its fields.              *)
AddressSpecified(p) == [kind |-> "address", address |-> p]
MainPool == [kind |-> "main"]
Random == [kind |-> "random"]
RandomSubPool == [kind |-> "random_sub"]
ProcessIndex(i) == [kind |-> "index", process_index |-> i]
RandomLabel(l) == [kind |-> "label", label |-> l]
IdleLabel(l, m) == [kind |-> "idle", label |-> l, mark |-> m]

(* The indexes of the configured addresses that carry label l.             *)
Labelled(l) == {i \in 1..Len(Addresses) : Label[Addresses[i]] = l}

(* The first labelled address on which no entry was allocated by an equal  *)
(* strategy; empty when every one is occupied.                             *)
IdleAddress(s, occupied) ==
    LET idle == {i \in Labelled(s.label) : Addresses[i] \notin occupied}
    IN {Addresses[i] : i \in {k \in idle : \A n \in idle : k <= n}}

(* The addresses get_allocated_address may return.  The empty set stands   *)
(* for the exception the call raises (an empty choice, an index out of     *)
(* range, NoIdleSlot).                                                     *)
GetAllocatedAddress(s, occupied) ==
    CASE s.kind = "address" -> {s.address}
      [] s.kind = "main" -> {Main}
      [] s.kind = "random" -> Pool
      [] s.kind = "random_sub" -> Sub
      [] s.kind = "index" -> {Addresses[i] : i \in {s.process_index + 1} \cap (1..Len(Addresses))}
      [] s.kind = "label" -> {Addresses[i] : i \in Labelled(s.label)}
      [] s.kind = "idle" -> IdleAddress(s, occupied)
=============================================================================
