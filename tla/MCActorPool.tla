---------------------------- MODULE MCActorPool ----------------------------
(***************************************************************************)
(* Instances of ActorPool for TLC: a main pool and two sub pools.          *)
(***************************************************************************)
EXTENDS ActorPool, TLC

CONSTANTS main, sub1, sub2, a1, a2, a3, j1, j2, j3

MCAddresses == <<main, sub1, sub2>>
MCOneSub == <<main, sub1>>
MCLabel == main :> "main" @@ sub1 :> "worker" @@ sub2 :> "worker"

Create(a, p, s) == [op |-> "create", actor |-> a, at |-> p, strat |-> s]
Destroy(a, p) == [op |-> "destroy", actor |-> a, at |-> p]
Send(a, p) == [op |-> "send", actor |-> a, at |-> p]

(* Every way to create, destroy and call with one sub pool.                *)
AllRequests ==
    {Create(a, main, s) : a \in Actor, s \in {MainPool, AddressSpecified(sub1)}}
    \cup {Create(a, sub1, AddressSpecified(sub1)) : a \in Actor}
    \cup {Destroy(a, p) : a \in Actor, p \in {main, sub1}}
    \cup {Send(a, main) : a \in Actor}

(* The same for one actor, beside the creation of a second one.            *)
RequestsBeside ==
    {r \in AllRequests : r.actor = a1} \cup {Create(a2, main, AddressSpecified(sub1))}

(* With two sub pools: every strategy.                                     *)
OrderlyRequests ==
    {Create(a, main, s) : a \in Actor,
        s \in {MainPool, AddressSpecified(sub1), Random, RandomSubPool, ProcessIndex(2),
               ProcessIndex(3), RandomLabel("worker"), RandomLabel("none"),
               AddressSpecified("elsewhere"), IdleLabel("worker", "m")}}
    \cup {Create(a, sub1, AddressSpecified(sub1)) : a \in Actor}
    \cup {Destroy(a, p) : a \in Actor, p \in {main, sub1, sub2}}
    \cup {Send(a, main) : a \in Actor}

Symmetric == Permutations(Actor) \cup Permutations(Job)
=============================================================================
