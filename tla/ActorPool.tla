------------------------------ MODULE ActorPool ------------------------------
(***************************************************************************)
(* The actor registry of a main actor pool and its sub pools               *)
(* (backends/pool.py, with the process handling of                         *)
(* backends/indigen/pool.py): who hosts an actor, what the main pool       *)
(* believes about it, and how a lost sub pool is rebuilt.                  *)
(*                                                                         *)
(* Every message a pool receives is handled by an asyncio task of its own. *)
(* Code between two awaits runs without interruption, so an action is the  *)
(* stretch of a handler from one suspension to the next.  A client request *)
(* is a Job; task <<j, 1>> is its handler at the pool the client           *)
(* addressed, <<j, 2>> the handler of the message that task sends on       *)
(* (main to sub: the forwarded request; sub to main: the notification),    *)
(* and <<j, 3>> the message main sends back to a sub pool while it handles *)
(* a notification.  The sender awaits the reply.                           *)
(***************************************************************************)
EXTENDS AllocateStrategy, FiniteSets

CONSTANTS
    Actor,         \* actor ids
    Placeholder,   \* the key None of an address's allocation table
    Job,           \* client requests, each used once
    Monitor,       \* the main pool's monitor task, which replays creations
    NoJob,         \* no entry in the allocation table
    NoRequest,     \* a job not issued yet
    Requests,      \* [op, actor, at, strat] a client may send
    AutoRecover,   \* "actor", "process" or "false"
    MaxCrashes,    \* bound: how often sub pool processes die
    HooksFail,     \* may __post_create__ and __pre_destroy__ raise
    Cancels,       \* may a client cancel a request main has forwarded
    Polite,        \* clients create an id once and destroy it once, after its creation was acknowledged
    Quiet          \* processes die, and are recovered, only while no request is being handled

ASSUME ActorPoolAssumption ==
    /\ IsFiniteSet(Actor) /\ Placeholder \notin Actor
    /\ NoJob \notin Job
    /\ Monitor \notin Job
    /\ NoRequest \notin Requests
    /\ AutoRecover \in {"actor", "process", "false"}
    /\ MaxCrashes \in Nat
    /\ {HooksFail, Cancels, Polite, Quiet} \subseteq BOOLEAN
    /\ \A r \in Requests : /\ r.op \in {"create", "destroy", "send"}
                           /\ r.actor \in Actor
                           /\ r.at \in Pool

VARIABLES
    actors,     \* pool -> ids in its _actors
    allocated,  \* main's _allocated_actors: address -> key -> job whose message is stored
    order,      \* address -> the keys of its table in the dict's order
    req,        \* job -> the request it carries
    pc,         \* task -> where its handler is suspended
    at,         \* task -> the pool it runs in
    res,        \* task -> the result it computed
    up,         \* sub pool -> its process is alive
    mon,        \* the monitor task
    crashes     \* processes lost so far

vars == <<actors, allocated, order, req, pc, at, res, up, mon, crashes>>

Key == Actor \cup {Placeholder}
Task == (Job \cup {Monitor}) \X (1..3)
Results == {"none", "ok", "err"}
MonitorStates ==
    [pc : {"idle", "starting", "started", "calling"}, pool : Pool, seen : SUBSET Key,
     size : Nat, job : Job \cup {NoJob}, from_main : BOOLEAN]
Pcs == {"none", "sent", "post", "pre", "run", "call", "notify", "done", "lost"}

Child(t) == <<t[1], t[2] + 1>>
Parent(t) == <<t[1], t[2] - 1>>

(* The job whose message task t handles; a replay handles a stored one.    *)
Source(t) == IF t[1] = Monitor THEN mon.job ELSE t[1]
Req(t) == req[Source(t)]
ActorOf(t) == Req(t).actor

(* CreateActorMessage.from_main / DestroyActorMessage.from_main            *)
FromMain(t) == IF t = <<Monitor, 1>> THEN mon.from_main ELSE t[2] > 1

(* A sub pool reports a creation with add_sub_pool_actor; every other      *)
(* message repeats the operation of the request it stems from.             *)
Op(t) == IF t[2] = 2 /\ at[Parent(t)] \in Sub /\ Req(t).op = "create"
         THEN "register" ELSE Req(t).op

Init ==
    /\ actors = [p \in Pool |-> {}]
    /\ allocated = [p \in Pool |-> [k \in Key |-> NoJob]]
    /\ order = [p \in Pool |-> <<>>]
    /\ req = [j \in Job |-> NoRequest]
    /\ pc = [t \in Task |-> "none"]
    /\ at = [t \in Task |-> Main]
    /\ res = [t \in Task |-> "none"]
    /\ up = [p \in Sub |-> TRUE]
    /\ mon = [pc |-> "idle", pool |-> Main, seen |-> {}, size |-> 0,
              job |-> NoJob, from_main |-> TRUE]
    /\ crashes = 0
-----------------------------------------------------------------------------
(* What a client has seen. *)
Issued(j) == pc[<<j, 1>>] # "none"
Acknowledged(j) == pc[<<j, 1>>] = "done" /\ res[<<j, 1>>] = "ok"
Created(j) == Acknowledged(j) /\ req[j].op = "create"

(* The address in the ActorRef a creation returned.                        *)
Home(j) == IF at[<<j, 1>>] = Main /\ pc[<<j, 2>>] # "none" THEN at[<<j, 2>>] ELSE at[<<j, 1>>]

DestroyIssued(a) == \E j \in Job : Issued(j) /\ req[j].op = "destroy" /\ req[j].actor = a

Handling == \E t \in Task : pc[t] \notin {"none", "done", "lost"}
HandlingRequest == \E j \in Job, i \in 1..3 : pc[<<j, i>>] \notin {"none", "done", "lost"}
AllUp == \A p \in Sub : up[p]
AtRest == ~Handling /\ AllUp /\ mon.pc = "idle"

PoliteRequest(r) ==
    CASE r.op = "create" -> \A j \in Job : Issued(j) => ~(req[j].op = "create" /\ req[j].actor = r.actor)
      [] r.op = "destroy" -> /\ ~DestroyIssued(r.actor)
                             /\ \E j \in Job : Created(j) /\ req[j].actor = r.actor
                                               /\ r.at \in {Home(j), Main}
      [] r.op = "send" -> TRUE

(* A client sends r to the pool it addresses and that pool receives it.    *)
ClientSend(j, r) ==
    /\ ~Issued(j)
    /\ r.at \in Sub => up[r.at]
    /\ Polite => PoliteRequest(r)
    /\ Quiet => AllUp /\ mon.pc = "idle"
    /\ req' = [req EXCEPT ![j] = r]
    /\ pc' = [pc EXCEPT ![<<j, 1>>] = "sent"]
    /\ at' = [at EXCEPT ![<<j, 1>>] = r.at]
    /\ UNCHANGED <<actors, allocated, order, res, up, mon, crashes>>

(* A hook or method under t may end with an exception: its own, or the     *)
(* CancelledError of a client that cancels its request meanwhile.          *)
MayRaise(t) == HooksFail \/ (Cancels /\ t[2] = 1)

(* The handler of t returns r. *)
Finish(t, r) ==
    /\ pc' = [pc EXCEPT ![t] = "done"]
    /\ res' = [res EXCEPT ![t] = r]
    /\ UNCHANGED at

(* The handler of t sends a message to pool p and awaits the reply in state s. *)
CallPool(t, p, s, r) ==
    /\ pc' = [pc EXCEPT ![t] = s, ![Child(t)] = "sent"]
    /\ at' = [at EXCEPT ![Child(t)] = p]
    /\ res' = [res EXCEPT ![t] = r]

(* ... and suspends in a user hook or method of its own pool.               *)
Suspend(t, s) ==
    /\ pc' = [pc EXCEPT ![t] = s]
    /\ UNCHANGED <<at, res>>

(* d[k] = j and d.pop(k, None) on the table d of address p.  A dict keeps  *)
(* the order of insertion, and the monitor may be iterating over it.       *)
Inserted(s, k) == IF \E i \in 1..Len(s) : s[i] = k THEN s ELSE Append(s, k)
Removed(s, k) ==
    IF \E i \in 1..Len(s) : s[i] = k
    THEN LET i == CHOOSE i \in 1..Len(s) : s[i] = k
         IN [n \in 1..(Len(s) - 1) |-> IF n < i THEN s[n] ELSE s[n + 1]]
    ELSE s

Record(p, k, j) ==
    /\ allocated' = [allocated EXCEPT ![p][k] = j]
    /\ order' = [order EXCEPT ![p] = Inserted(@, k)]
    /\ UNCHANGED mon

Unseen(p, k) == mon' = IF mon.pool = p THEN [mon EXCEPT !.seen = @ \ {k}] ELSE mon

Pop(p, k) ==
    /\ allocated' = [allocated EXCEPT ![p][k] = NoJob]
    /\ order' = [order EXCEPT ![p] = Removed(@, k)]
    /\ Unseen(p, k)

Dict == <<allocated, order, mon>>
-----------------------------------------------------------------------------
(* MainActorPoolBase.create_actor                                          *)

(* The addresses with an entry stored by a strategy equal to s             *)
(* (IdleLabel.__eq__).                                                     *)
OccupiedBy(s) ==
    {p \in Pool : \E k \in Key : /\ allocated[p][k] # NoJob
                                /\ s.kind = "idle" /\ req[allocated[p][k]].strat = s}

(* Mutant: an address outside the configuration is not refused.            *)
MainCreateStartUnchecked(t) ==
    /\ pc[t] = "sent" /\ at[t] = Main /\ Op(t) = "create"
    /\ \E p \in GetAllocatedAddress(Req(t).strat, OccupiedBy(Req(t).strat)) :
          CallPool(t, p, "call", "none")
    /\ UNCHANGED <<actors, Dict, req, up, crashes>>

(* Mutant: no placeholder holds the slot while the sub pool creates.       *)
MainCreateStartUnheld(t) ==
    /\ pc[t] = "sent" /\ at[t] = Main /\ Op(t) = "create"
    /\ LET choices == GetAllocatedAddress(Req(t).strat, OccupiedBy(Req(t).strat))
       IN  \/ choices \cap Sub = {} /\ Finish(t, "err")
           \/ \E p \in choices \cap Sub :
                 IF up[p] THEN CallPool(t, p, "call", "none") ELSE Finish(t, "err")
    /\ UNCHANGED <<actors, Dict, req, up, crashes>>

(* The strategy picks an address, the placeholder is set, and the actor is *)
(* created locally or by a call to the sub pool.  A sub pool that is down  *)
(* refuses the connection: the exception skips the removal of the          *)
(* placeholder.                                                            *)
MainCreateStart(t) ==
    /\ pc[t] = "sent" /\ at[t] = Main /\ Op(t) = "create"
    /\ LET s == Req(t).strat
           a == ActorOf(t)
           choices == GetAllocatedAddress(s, OccupiedBy(s))
       IN \/ /\ ~(choices \subseteq Pool) \/ choices = {}
             /\ Finish(t, "err")
             /\ UNCHANGED <<actors, Dict>>
          \/ /\ Main \in choices
             /\ a \in actors[Main]
             /\ Pop(Main, Placeholder)
             /\ Finish(t, "err")
             /\ UNCHANGED actors
          \/ /\ Main \in choices
             /\ a \notin actors[Main]
             /\ Record(Main, Placeholder, Source(t))
             /\ actors' = [actors EXCEPT ![Main] = @ \cup {a}]
             /\ Suspend(t, "post")
          \/ \E p \in choices \cap Sub :
                /\ Record(p, Placeholder, Source(t))
                /\ IF up[p] THEN CallPool(t, p, "call", "none") ELSE Finish(t, "err")
                /\ UNCHANGED actors
    /\ UNCHANGED <<req, up, crashes>>

(* A creation at p ended: the actor is recorded if it succeeded, and the   *)
(* placeholder is popped, whoever set it.                                  *)
EndCreation(p, a, j, ok) ==
    /\ allocated' = [allocated EXCEPT ![p] =
                        [k \in Key |-> CASE k = Placeholder -> NoJob
                                        [] k = a /\ ok -> j
                                        [] OTHER -> @[k]]]
    /\ order' = [order EXCEPT ![p] = Removed(IF ok THEN Inserted(@, a) ELSE @, Placeholder)]
    /\ Unseen(p, Placeholder)

(* __post_create__ of an actor on the main pool returns or raises.  An     *)
(* actor whose hook raised stays in _actors.                               *)
MainCreatePosted(t) ==
    /\ pc[t] = "post" /\ at[t] = Main
    /\ \E ok \in {TRUE, ~MayRaise(t)} :
          /\ EndCreation(Main, ActorOf(t), Source(t), ok)
          /\ Finish(t, IF ok THEN "ok" ELSE "err")
    /\ UNCHANGED <<actors, req, up, crashes>>

(* The sub pool's answer to a forwarded creation.                          *)
MainCreateReply(t) ==
    /\ pc[t] = "call" /\ at[t] = Main /\ Op(t) = "create"
    /\ pc[Child(t)] = "done"
    /\ EndCreation(at[Child(t)], ActorOf(t), Source(t), res[Child(t)] = "ok")
    /\ Finish(t, res[Child(t)])
    /\ UNCHANGED <<actors, req, up, crashes>>

(* Mutant: the pending calls of a closed connection are not failed.        *)
CallNeverLost(t) == pc[t] = "call" /\ pc[Child(t)] = "lost" /\ UNCHANGED vars

(* The connection the call waits on is lost: ServerClosed is raised at the *)
(* await and becomes the error result.  Nothing after the await runs.      *)
CallLost(t) ==
    /\ pc[t] = "call" /\ pc[Child(t)] = "lost"
    /\ Finish(t, "err")
    /\ UNCHANGED <<actors, allocated, order, req, up, mon, crashes>>

(* A client cancels a request main has forwarded: CancelledError is raised *)
(* at the await; the sub pool goes on.                                     *)
CancelCall(t) ==
    /\ Cancels /\ t[2] = 1
    /\ pc[t] = "call" /\ pc[Child(t)] \notin {"done", "lost"}
    /\ Finish(t, "err")
    /\ UNCHANGED <<actors, allocated, order, req, up, mon, crashes>>
-----------------------------------------------------------------------------
(* Mutant: main is not told of an actor created at a sub pool.             *)
SubCreateUnreported(t, r) == Finish(t, r)

(* SubActorPoolBase.create_actor: ActorPoolBase.create_actor, then the     *)
(* notification of main unless main sent the request - whatever the        *)
(* result.                                                                 *)
SubCreateResult(t, r) ==
    IF FromMain(t) THEN Finish(t, r) ELSE CallPool(t, Main, "notify", r)

SubCreateStart(t) ==
    /\ pc[t] = "sent" /\ at[t] \in Sub /\ Op(t) = "create"
    /\ \/ /\ ActorOf(t) \in actors[at[t]]
          /\ SubCreateResult(t, "err")
          /\ UNCHANGED actors
       \/ /\ ActorOf(t) \notin actors[at[t]]
          /\ actors' = [actors EXCEPT ![at[t]] = @ \cup {ActorOf(t)}]
          /\ Suspend(t, "post")
    /\ UNCHANGED <<allocated, order, req, up, mon, crashes>>

SubCreatePosted(t) ==
    /\ pc[t] = "post" /\ at[t] \in Sub
    /\ \E ok \in {TRUE, ~MayRaise(t)} : SubCreateResult(t, IF ok THEN "ok" ELSE "err")
    /\ UNCHANGED <<actors, allocated, order, req, up, mon, crashes>>

(* handle_control_command, add_sub_pool_actor: main stores the message     *)
(* under the sub pool's address.                                           *)
MainRegister(t) ==
    /\ pc[t] = "sent" /\ at[t] = Main /\ Op(t) = "register"
    /\ Record(at[Parent(t)], ActorOf(t), Source(t))
    /\ Finish(t, "ok")
    /\ UNCHANGED <<actors, req, up, crashes>>

(* Main answered the notification; its answer is ignored.                  *)
SubNotified(t) ==
    /\ pc[t] = "notify" /\ pc[Child(t)] = "done"
    /\ Finish(t, res[t])
    /\ UNCHANGED <<actors, allocated, order, req, up, mon, crashes>>
-----------------------------------------------------------------------------
(* MainActorPoolBase.actor_ref: where main believes the actor of t is.  A  *)
(* reference to the main pool is looked up in _actors first; after that    *)
(* the tables of all addresses are searched, main's first, for the id      *)
(* alone.  Which sub pool comes first is left open.                        *)
Located(t) ==
    LET a == ActorOf(t)
        address == IF t[2] = 1 THEN Main ELSE at[Parent(t)]
        entries == {p \in Pool : allocated[p][a] # NoJob}
    IN IF (address = Main /\ a \in actors[Main]) \/ Main \in entries
       THEN {Main} ELSE entries

(* MainActorPoolBase.destroy_actor up to its first suspension: for an      *)
(* actor on a sub pool the entry is popped before the sub pool is asked.   *)
MainDestroyStart(t) ==
    /\ pc[t] = "sent" /\ at[t] = Main /\ Op(t) = "destroy"
    /\ \/ /\ Located(t) = {}
          /\ Finish(t, "err")
          /\ UNCHANGED Dict
       \/ /\ Main \in Located(t)
          /\ IF ActorOf(t) \in actors[Main] THEN Suspend(t, "pre") ELSE Finish(t, "err")
          /\ UNCHANGED Dict
       \/ \E p \in Located(t) \cap Sub :
             /\ Pop(p, ActorOf(t))
             /\ IF up[p] THEN CallPool(t, p, "call", "none") ELSE Finish(t, "err")
    /\ UNCHANGED <<actors, req, up, crashes>>

(* __pre_destroy__ of an actor on the main pool returned (or raised): both *)
(* deletions follow, each of which raises KeyError if another task was     *)
(* faster.                                                                 *)
MainDestroyPre(t) ==
    /\ pc[t] = "pre" /\ at[t] = Main
    /\ \/ /\ MayRaise(t) \/ ActorOf(t) \notin actors[Main]
          /\ Finish(t, "err")
          /\ UNCHANGED <<actors, Dict>>
       \/ /\ ActorOf(t) \in actors[Main]
          /\ actors' = [actors EXCEPT ![Main] = @ \ {ActorOf(t)}]
          /\ Pop(Main, ActorOf(t))
          /\ Finish(t, IF allocated[Main][ActorOf(t)] # NoJob THEN "ok" ELSE "err")
    /\ UNCHANGED <<req, up, crashes>>

(* The sub pool's answer to a forwarded destroy or send is passed on.      *)
MainForwardReply(t) ==
    /\ pc[t] = "call" /\ at[t] = Main /\ Op(t) # "create"
    /\ pc[Child(t)] = "done"
    /\ Finish(t, res[Child(t)])
    /\ UNCHANGED <<actors, allocated, order, req, up, mon, crashes>>

(* SubActorPoolBase.destroy_actor                                          *)
SubDestroyStart(t) ==
    /\ pc[t] = "sent" /\ at[t] \in Sub /\ Op(t) = "destroy"
    /\ IF ActorOf(t) \in actors[at[t]] THEN Suspend(t, "pre") ELSE Finish(t, "err")
    /\ UNCHANGED <<actors, allocated, order, req, up, mon, crashes>>

(* Mutant: main is not told that an actor is gone.                         *)
SubDestroyUnreported(t) ==
    /\ pc[t] = "pre" /\ at[t] \in Sub
    /\ actors' = [actors EXCEPT ![at[t]] = @ \ {ActorOf(t)}]
    /\ Finish(t, "ok")
    /\ UNCHANGED <<allocated, order, req, up, mon, crashes>>

(* The actor is removed and main is told, unless main asked for it.        *)
SubDestroyPre(t) ==
    /\ pc[t] = "pre" /\ at[t] \in Sub
    /\ \/ /\ MayRaise(t) \/ ActorOf(t) \notin actors[at[t]]
          /\ Finish(t, "err")
          /\ UNCHANGED actors
       \/ /\ ActorOf(t) \in actors[at[t]]
          /\ actors' = [actors EXCEPT ![at[t]] = @ \ {ActorOf(t)}]
          /\ IF FromMain(t) THEN Finish(t, "ok") ELSE CallPool(t, Main, "notify", "ok")
    /\ UNCHANGED <<allocated, order, req, up, mon, crashes>>
-----------------------------------------------------------------------------
(* ActorPoolBase.send / tell: the actor's method runs in its pool.         *)
SendLocal(t) ==
    /\ pc[t] = "sent" /\ Op(t) = "send"
    /\ ActorOf(t) \in actors[at[t]]
    /\ Suspend(t, "run")
    /\ UNCHANGED <<actors, allocated, order, req, up, mon, crashes>>

SendReturn(t) ==
    /\ pc[t] = "run"
    /\ \E ok \in {TRUE, ~MayRaise(t)} : Finish(t, IF ok THEN "ok" ELSE "err")
    /\ UNCHANGED <<actors, allocated, order, req, up, mon, crashes>>

(* A sub pool does not look any further; main forwards to where it         *)
(* believes the actor is.  An entry for main itself makes main call        *)
(* itself, and the message arrives once more.                              *)
SendElsewhere(t) ==
    /\ pc[t] = "sent" /\ Op(t) = "send"
    /\ ActorOf(t) \notin actors[at[t]]
    /\ \/ /\ at[t] \in Sub \/ Located(t) = {}
          /\ Finish(t, "err")
       \/ /\ at[t] = Main /\ Main \in Located(t)
          /\ UNCHANGED <<pc, at, res>>
       \/ /\ at[t] = Main
          /\ \E p \in Located(t) \cap Sub :
                IF up[p] THEN CallPool(t, p, "call", "none") ELSE Finish(t, "err")
    /\ UNCHANGED <<actors, allocated, order, req, up, mon, crashes>>
-----------------------------------------------------------------------------
(* The process of sub pool p dies with everything it holds.  Its callers   *)
(* see their connections close: a request of a client has failed, a call   *)
(* of main's is lost.  A reply on its way to main may be lost too.         *)
Crash(p) ==
    /\ crashes < MaxCrashes /\ up[p]
    /\ Quiet => ~HandlingRequest
    /\ up' = [up EXCEPT ![p] = FALSE]
    /\ actors' = [actors EXCEPT ![p] = {}]
    /\ crashes' = crashes + 1
    /\ LET here == {t \in Task : at[t] = p /\ pc[t] \notin {"none", "done", "lost"}}
           awaited == {t \in Task : at[t] = p /\ pc[t] = "done" /\ t[2] > 1
                                    /\ pc[Parent(t)] = "call"}
       IN \E dropped \in SUBSET awaited :
            /\ pc' = [t \in Task |-> IF t \in here \cup dropped
                                     THEN IF t[1] \in Job /\ t[2] = 1 THEN "done" ELSE "lost"
                                     ELSE pc[t]]
            /\ res' = [t \in Task |-> IF t \in here THEN "err" ELSE res[t]]
    /\ UNCHANGED <<allocated, order, req, at, mon>>
-----------------------------------------------------------------------------
(* MainActorPoolBase.monitor_sub_pools and recover_sub_pool                *)

MonitorIdle == [mon EXCEPT !.pc = "idle", !.seen = {}, !.size = 0]

(* Mutant: the table of a lost pool is cleared whatever the mode.         *)
MonitorDetectForgets(p) ==
    /\ mon.pc = "idle" /\ ~up[p]
    /\ allocated' = [allocated EXCEPT ![p] = [k \in Key |-> NoJob]]
    /\ order' = [order EXCEPT ![p] = <<>>]
    /\ mon' = [mon EXCEPT !.pc = "starting", !.pool = p]
    /\ UNCHANGED <<actors, req, pc, at, res, up, crashes>>

(* The monitor finds the process dead: process_sub_pool_lost, and the      *)
(* start of a new process if pools are recovered at all.                   *)
MonitorDetect(p) ==
    /\ mon.pc = "idle" /\ ~up[p]
    /\ allocated' = IF AutoRecover = "actor" THEN allocated
                    ELSE [allocated EXCEPT ![p] = [k \in Key |-> NoJob]]
    /\ order' = IF AutoRecover = "actor" THEN order ELSE [order EXCEPT ![p] = <<>>]
    /\ mon' = IF AutoRecover = "false" THEN mon
              ELSE [mon EXCEPT !.pc = "starting", !.pool = p]
    /\ UNCHANGED <<actors, req, pc, at, res, up, crashes>>

(* The new process is ready.  Spawning it took many turns of main's event  *)
(* loop, so that every task that waited on the closed connections has been *)
(* resumed.                                                                *)
MonitorStarted ==
    /\ mon.pc = "starting"
    /\ \A t \in Task : at[t] = mon.pool /\ t[2] > 1 /\ pc[t] \in {"done", "lost"}
                      => pc[Parent(t)] # "call"
    /\ up' = [up EXCEPT ![mon.pool] = TRUE]
    /\ mon' = IF AutoRecover = "actor" THEN [mon EXCEPT !.pc = "started"] ELSE MonitorIdle
    /\ UNCHANGED <<actors, allocated, order, req, pc, at, res, crashes>>

(* One turn of the loop over the dict of stored messages.  The iterator    *)
(* fails if the dict has another size than when the loop began, ends if    *)
(* no entry is left, and otherwise yields the next message in the dict's   *)
(* order, which is sent to the pool.  A stored creation is marked as       *)
(* coming from main; the one behind a placeholder is the client's own.     *)
MonitorNext ==
    LET p == mon.pool
        t == <<Monitor, 1>>
        size == IF mon.pc = "started" THEN Len(order[p]) ELSE mon.size
        unseen == {i \in 1..Len(order[p]) : order[p][i] \notin mon.seen}
    IN /\ mon.pc = "started" \/ (mon.pc = "calling" /\ pc[t] = "done")
       /\ pc[Child(t)] \in {"none", "done"}
       /\ \/ /\ Len(order[p]) # size \/ unseen = {} \/ ~up[p]
             /\ mon' = MonitorIdle
             /\ UNCHANGED <<pc, at>>
          \/ /\ Len(order[p]) = size /\ up[p]
             /\ \E i \in unseen :
                  LET k == order[p][i]
                  IN /\ \A n \in unseen : i <= n
                     /\ mon' = [mon EXCEPT !.pc = "calling", !.seen = @ \cup {k}, !.size = size,
                                           !.job = allocated[p][k],
                                           !.from_main = k # Placeholder]
             /\ pc' = [pc EXCEPT ![t] = "sent", ![Child(t)] = "none"]
             /\ at' = [at EXCEPT ![t] = p]
       /\ UNCHANGED <<actors, allocated, order, req, res, up, crashes>>

(* Mutant: the monitor goes on waiting for the reply.                      *)
MonitorLostWaits == mon.pc = "calling" /\ pc[<<Monitor, 1>>] = "lost" /\ UNCHANGED vars

(* The pool died again during the replay: the exception is logged and the  *)
(* next round starts over.                                                 *)
MonitorLost ==
    /\ mon.pc = "calling" /\ pc[<<Monitor, 1>>] = "lost"
    /\ mon' = MonitorIdle
    /\ UNCHANGED <<actors, allocated, order, req, pc, at, res, up, crashes>>

(* Nothing is left to handle: the pools wait for messages.                 *)
Rest == ~Handling /\ mon.pc = "idle" /\ UNCHANGED vars
-----------------------------------------------------------------------------
TaskStep(t) ==
    \/ MainCreateStart(t) \/ MainCreatePosted(t) \/ MainCreateReply(t)
    \/ SubCreateStart(t) \/ SubCreatePosted(t) \/ SubNotified(t) \/ MainRegister(t)
    \/ MainDestroyStart(t) \/ MainDestroyPre(t) \/ MainForwardReply(t)
    \/ SubDestroyStart(t) \/ SubDestroyPre(t)
    \/ SendLocal(t) \/ SendReturn(t) \/ SendElsewhere(t)
    \/ CallLost(t)

MonitorStep == (\E p \in Sub : MonitorDetect(p)) \/ MonitorStarted \/ MonitorNext \/ MonitorLost

Next ==
    \/ \E j \in Job, r \in Requests : ClientSend(j, r)
    \/ \E t \in Task : TaskStep(t) \/ CancelCall(t)
    \/ \E p \in Sub : Crash(p)
    \/ MonitorStep
    \/ Rest

Spec == Init /\ [][Next]_vars

(* Event loops run while a task is ready, hooks and methods return, the    *)
(* monitor loops every half second.                                        *)
FairSpec ==
    /\ Spec
    /\ WF_vars(\E t \in Task : TaskStep(t))
    /\ WF_vars(MonitorStep)
-----------------------------------------------------------------------------
(* The state has its shape.                                                *)
TypeOK ==
    /\ actors \in [Pool -> SUBSET Actor]
    /\ allocated \in [Pool -> [Key -> Job \cup {NoJob}]]
    /\ order \in [Pool -> Seq(Key)]
    /\ req \in [Job -> Requests \cup {NoRequest}]
    /\ pc \in [Task -> Pcs]
    /\ at \in [Task -> Pool]
    /\ res \in [Task -> Results]
    /\ up \in [Sub -> BOOLEAN]
    /\ mon \in MonitorStates
    /\ crashes \in 0..MaxCrashes

(* While pools are recovered with their actors, main keeps the creation    *)
(* message of every actor whose creation was acknowledged and that nobody  *)
(* asked to destroy - across crashes, failed hooks, cancellations and      *)
(* duplicate creations.  It is what recover_sub_pool rebuilds a pool from. *)
NoActorForgotten ==
    AutoRecover = "actor" =>
        \A j \in Job : Created(j) /\ ~DestroyIssued(req[j].actor)
                       => allocated[Home(j)][req[j].actor] # NoJob

(* When nothing is being handled and every process is up, main's table     *)
(* lists exactly the actors the pools host, and no placeholder is left.    *)
TablesAgree ==
    AtRest => \A p \in Pool : {k \in Key : allocated[p][k] # NoJob} = actors[p]

(* Recovery brings back every acknowledged actor nobody asked to destroy.  *)
CreatedIsRunning ==
    AtRest /\ AutoRecover = "actor" =>
        \A j \in Job : Created(j) /\ ~DestroyIssued(req[j].actor)
                       => req[j].actor \in actors[Home(j)]

(* The placeholder reserves a slot: two actors created by equal IdleLabel  *)
(* strategies share no pool, unless main was also asked to create actors   *)
(* by other strategies, whose placeholders replace theirs, or one of the   *)
(* two was destroyed.                                                      *)
IdleSlotExclusive ==
    (\A j \in Job : Issued(j) /\ req[j].op = "create" /\ req[j].at = Main
                    => req[j].strat.kind \in {"idle", "main"})
    => \A i, j \in Job :
          /\ Created(i) /\ req[i].strat.kind = "idle" /\ ~DestroyIssued(req[i].actor)
          /\ Created(j) /\ req[j].strat = req[i].strat /\ ~DestroyIssued(req[j].actor)
          /\ Home(i) = Home(j)
          => i = j

(* Every request is answered, with a result or an error, except a send to  *)
(* an actor that main's table has at main but main has not: one that was   *)
(* destroyed in its own __post_create__.  Main forwards it to itself.      *)
RequestsAnswered ==
    \A j \in Job : Issued(j) ~>
        \/ pc[<<j, 1>>] = "done"
        \/ /\ Issued(j) /\ req[j].op = "send" /\ Main \in Located(<<j, 1>>)
           /\ req[j].actor \notin actors[Main]

(* A pool that dies comes up again and its recovery comes to an end, also  *)
(* if it dies once more in the middle of it.                               *)
PoolsRecover ==
    \A p \in Sub : ~up[p] ~> up[p] /\ mon.pc = "idle"
-----------------------------------------------------------------------------
(* The strengthening that makes TypeOK and NoActorForgotten inductive.     *)

(* Each table's order lists keys it holds, each once.                      *)
OrderOK ==
    \A p \in Pool : \A i \in 1..Len(order[p]) :
        /\ allocated[p][order[p][i]] # NoJob
        /\ \A n \in 1..Len(order[p]) : order[p][n] = order[p][i] => n = i

(* A stored message is the creation of an issued job.                      *)
StoredOK ==
    \A p \in Pool, k \in Key :
        LET j == allocated[p][k] IN j # NoJob => req[j] # NoRequest /\ req[j].op = "create"

(* A task belongs to an issued job, and waits where its operation waits.   *)
JobOK(j) ==
    /\ req[j] = NoRequest <=> pc[<<j, 1>>] = "none"
    /\ pc[<<j, 1>>] \in {"none", "sent", "post", "pre", "run"} => pc[<<j, 2>>] = "none"
    /\ pc[<<j, 2>>] = "none" => pc[<<j, 3>>] = "none"
    /\ pc[<<j, 1>>] = "call" => at[<<j, 1>>] = Main
    /\ pc[<<j, 1>>] = "notify" => at[<<j, 1>>] \in Sub
    /\ \A i \in 1..3 : /\ pc[<<j, i>>] = "post" => req[j].op = "create"
                       /\ pc[<<j, i>>] = "pre" => req[j].op = "destroy"
                       /\ pc[<<j, i>>] = "run" => req[j].op = "send"

TaskOK == \A j \in Job : JobOK(j)

(* Main forwards, sub pools notify, and a forwarded message goes no        *)
(* further.                                                                *)
LevelOK ==
    \A j \in Job \cup {Monitor} :
        /\ pc[<<j, 3>>] # "none" => at[<<j, 3>>] \in Sub
        /\ \A i \in 1..3 : pc[<<j, i>>] = "call" => at[<<j, i>>] = Main

(* The monitor only replays creations, and only at sub pools.              *)
MonitorOK ==
    /\ mon.pc # "idle" => mon.pool \in Sub
    /\ mon.job # NoJob => req[mon.job] # NoRequest /\ req[mon.job].op = "create"
    /\ \A i \in 1..3 : pc[<<Monitor, i>>] # "none" => mon.job # NoJob
    /\ \A i \in 1..3 : pc[<<Monitor, i>>] # "pre"
    /\ pc[<<Monitor, 1>>] # "none" => at[<<Monitor, 1>>] \in Sub

(* A creation main was told of, or that its client was told of, is         *)
(* recorded; main hears of it first.                                       *)
Reported(j) ==
    /\ \/ pc[<<j, 1>>] = "done" /\ res[<<j, 1>>] = "ok"
       \/ pc[<<j, 1>>] = "notify" /\ pc[<<j, 2>>] = "done"
    /\ req[j].op = "create"

ReportedOK ==
    \A j \in Job : Reported(j) /\ ~DestroyIssued(req[j].actor)
                   => allocated[Home(j)][req[j].actor] # NoJob

(* Main handles the notification of a creation without suspending.         *)
NotifiedOK ==
    \A j \in Job : pc[<<j, 1>>] = "notify" /\ req[j].op = "create"
                   => at[<<j, 2>>] = Main /\ pc[<<j, 2>>] \in {"sent", "done"}

TypeInv == TypeOK /\ OrderOK /\ StoredOK /\ TaskOK /\ LevelOK /\ MonitorOK

RegistryInv == TypeInv /\ NotifiedOK /\ ReportedOK
=============================================================================
