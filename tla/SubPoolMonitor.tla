--------------------------- MODULE SubPoolMonitor ---------------------------
(***************************************************************************)
(* The life of the sub pool processes of one main pool: the monitor task   *)
(* that restarts dead ones, the callers of wait_pool_recovered, the        *)
(* coroutines append_sub_pool, remove_sub_pool and stop of one sub pool,   *)
(* the stop of the whole pool, and what a sub pool does when the main      *)
(* process is gone.  All of them but the last run on the main pool's event *)
(* loop and interleave at their awaits.  Source: backends/pool.py and      *)
(* backends/indigen/pool.py.                                               *)
(*                                                                         *)
(* A process is a number, given out in the order of starting; 0 is no      *)
(* process.  Of the actors of a sub pool only one is followed.             *)
(***************************************************************************)
EXTENDS Naturals, FiniteSets

CONSTANTS
    Initial,       \* addresses of the sub pools the pool is created with
    Extra,         \* addresses that append_sub_pool may be given
    NoAddress,     \* no address
    Waiter,        \* callers of wait_pool_recovered
    Op,            \* callers of append_sub_pool, remove_sub_pool and stop
    Edits,         \* what they ask for: "append", "remove", "stop"
    AutoRecover,   \* "actor", "process" or "false"
    MaxProc,       \* bound: processes ever started
    MaxFailures,   \* bound: failed starts
    Hosted,        \* addresses where the actor may be created
    MayStop,       \* whether the pool may be stopped
    MayExit        \* whether the main process may end

Address == Initial \cup Extra
Proc == 1..MaxProc

ASSUME MonitorAssumption ==
    /\ Initial \cap Extra = {} /\ NoAddress \notin Initial \cup Extra
    /\ \A S \in SUBSET (Initial \cup Extra) : Cardinality(S) \in Nat  \* finitely many
    /\ MaxProc \in Nat /\ MaxFailures \in Nat
    /\ Cardinality(Initial) <= MaxProc
    /\ Edits \subseteq {"append", "remove", "stop"}
    /\ AutoRecover \in {"actor", "process", "false"}
    /\ Hosted \subseteq Initial \cup Extra
    /\ MayStop \in BOOLEAN /\ MayExit \in BOOLEAN

VARIABLES
    sub,        \* sub_processes: address -> process
    config,     \* addresses in the pool's ActorPoolConfig
    allocated,  \* addresses with a table in _allocated_actors
    known,      \* addresses whose table holds the actor
    created,    \* addresses where the creation of the actor was acknowledged
    hosts,      \* processes holding the actor
    alive,      \* running processes
    home,       \* process -> its address
    born,       \* how many processes were started
    failures,   \* how many starts failed
    mon,        \* the monitor task
    events,     \* addresses with an entry in _recover_events
    wait,       \* the callers of wait_pool_recovered
    op,         \* the callers of append_sub_pool, remove_sub_pool and stop
    stop,       \* the coroutine MainActorPoolBase.stop
    down        \* whether the main process is gone

vars == <<sub, config, allocated, known, created, hosts, alive, home, born,
          failures, mon, events, wait, op, stop, down>>
tables == <<config, allocated, known, created>>
procs == <<alive, home, born, hosts>>

MonitorStates ==
    [pc : {"top", "next", "check", "alive", "dead", "start", "replay", "done"},
     todo : SUBSET (Address \X Proc), address : Address \cup {NoAddress},
     proc : Proc \cup {0}, discovered : BOOLEAN]
OpStates ==
    [pc : {"idle", "call", "kill", "start", "sync", "ok", "error"},
     edit : Edits \cup {"none"}, address : Address \cup {NoAddress}, proc : Proc \cup {0}]
StopStates ==
    [pc : {"up", "monitor", "scan", "kill", "done", "error"},
     size : Nat, targets : SUBSET Proc, busy : BOOLEAN]

Tracked == {a \in Address : sub[a] # 0}
Recovering == AutoRecover # "false" /\ stop.pc = "up"

-----------------------------------------------------------------------------
(* The pool has started its sub pools and its monitor.                     *)
Init ==
    \E f \in [Initial -> 1..Cardinality(Initial)] :
        /\ \A a, b \in Initial : a # b => f[a] # f[b]
        /\ sub = [a \in Address |-> IF a \in Initial THEN f[a] ELSE 0]
        /\ home = [n \in Proc |-> IF \E a \in Initial : f[a] = n
                                     THEN CHOOSE a \in Initial : f[a] = n ELSE NoAddress]
        /\ alive = {f[a] : a \in Initial}
        /\ born = Cardinality(Initial) /\ failures = 0
        /\ config = Initial /\ allocated = Initial
        /\ known = {} /\ created = {} /\ hosts = {}
        /\ mon = [pc |-> "top", todo |-> {}, address |-> NoAddress, proc |-> 0,
                  discovered |-> FALSE]
        /\ events = {}
        /\ wait = [w \in Waiter |-> [pc |-> "idle", address |-> NoAddress, seen |-> 0]]
        /\ op = [o \in Op |-> [pc |-> "idle", edit |-> "none", address |-> NoAddress, proc |-> 0]]
        /\ stop = [pc |-> "up", size |-> 0, targets |-> {}, busy |-> FALSE]
        /\ down = FALSE

(* Starts still to come: of dead pools and of calls in progress.  Deaths   *)
(* and calls keep within this bound, so that no start is refused by it.    *)
InProgress(o) == op[o].pc \in {"call", "kill", "start"}
Room ==
    LET dead == {a \in Address : /\ sub[a] \notin alive
                                 /\ a \in Tracked \/ (mon.pc \in {"check", "dead", "start"} /\ mon.address = a)}
    IN  born + Cardinality(dead) + Cardinality({o \in Op : InProgress(o)}) < MaxProc

(* A process binds its address, so it starts only where none is running.   *)
Free(a) == \A n \in alive : home[n] # a

(* start_sub_pool up to the status the new process reports.                *)
Start(a) ==
    /\ Free(a) /\ born < MaxProc
    /\ born' = born + 1
    /\ alive' = alive \cup {born'}
    /\ home' = [home EXCEPT ![born'] = a]
    /\ sub' = [sub EXCEPT ![a] = born']

(* The new process reports status 1; it is killed, or has gone already.    *)
StartFails(a) ==
    /\ failures < MaxFailures \/ ~Free(a)
    /\ failures' = IF Free(a) THEN failures + 1 ELSE failures

-----------------------------------------------------------------------------
(* The monitor task.                                                       *)

(* Set the event the monitor found before its check, if it found one.      *)
Release ==
    /\ events' = IF mon.discovered THEN events \ {mon.address} ELSE events
    /\ wait' = [w \in Waiter |->
                  IF mon.discovered /\ wait[w].pc = "waiting" /\ wait[w].address = mon.address
                     THEN [wait[w] EXCEPT !.pc = "told"] ELSE wait[w]]

MonitorBack == mon' = [pc |-> "next", todo |-> mon.todo, address |-> NoAddress, proc |-> 0,
                       discovered |-> FALSE]
MonitorWaits(pc) == mon' = [mon EXCEPT !.pc = pc]

MonitorRound ==
    /\ mon.pc = "top"
    /\ mon' = IF stop.pc # "up" THEN [mon EXCEPT !.pc = "done"]
              ELSE [mon EXCEPT !.pc = "next", !.todo = {<<a, sub[a]>> : a \in Tracked}]
    /\ UNCHANGED <<sub, tables, procs, failures, events, wait, op, stop>>

(* The next pair of the copied list; whether somebody waits is read before *)
(* the process is looked at, which happens in another thread.              *)
MonitorPick ==
    /\ mon.pc = "next" /\ mon.todo # {}
    /\ \E e \in mon.todo :
          mon' = [pc |-> "check", todo |-> mon.todo \ {e}, address |-> e[1], proc |-> e[2],
                  discovered |-> e[1] \in events]
    /\ UNCHANGED <<sub, tables, procs, failures, events, wait, op, stop>>

MonitorSleep ==
    /\ mon.pc = "next" /\ mon.todo = {}
    /\ MonitorWaits("top")
    /\ UNCHANGED <<sub, tables, procs, failures, events, wait, op, stop>>

(* is_alive, in the other thread; its result is used when the task resumes.*)
MonitorIsAlive ==
    /\ mon.pc = "check"
    /\ MonitorWaits(IF mon.proc \in alive THEN "alive" ELSE "dead")
    /\ UNCHANGED <<sub, tables, procs, failures, events, wait, op, stop>>

(* Looking for waiters only after the check.                               *)
MonitorAliveLate ==
    /\ mon.pc = "alive"
    /\ events' = events \ {mon.address}
    /\ wait' = [w \in Waiter |->
                  IF wait[w].pc = "waiting" /\ wait[w].address = mon.address
                     THEN [wait[w] EXCEPT !.pc = "told"] ELSE wait[w]]
    /\ MonitorBack
    /\ UNCHANGED <<sub, tables, procs, failures, op, stop>>

MonitorAlive ==
    /\ mon.pc = "alive"
    /\ Release /\ MonitorBack
    /\ UNCHANGED <<sub, tables, procs, failures, op, stop>>

(* Dropping the table of a lost pool but not what it held.                 *)
MonitorDeadDrops ==
    /\ mon.pc = "dead"
    /\ allocated' = IF Recovering THEN allocated ELSE allocated \ {mon.address}
    /\ IF Recovering THEN MonitorWaits("start") /\ UNCHANGED <<events, wait>>
                     ELSE MonitorBack /\ Release
    /\ UNCHANGED <<sub, config, known, created, procs, failures, op, stop>>

(* A dead process: process_sub_pool_lost, then recovery unless it is off.  *)
(* An address no longer in the config raises ValueError, which is logged.  *)
MonitorDead ==
    /\ mon.pc = "dead"
    /\ IF AutoRecover # "actor" \/ stop.pc # "up"
          THEN allocated' = allocated \cup {mon.address} /\ known' = known \ {mon.address}
          ELSE UNCHANGED <<allocated, known>>
    /\ \/ ~Recovering /\ Release /\ MonitorBack
       \/ Recovering /\ mon.address \notin config /\ MonitorBack /\ UNCHANGED <<events, wait>>
       \/ Recovering /\ mon.address \in config /\ MonitorWaits("start") /\ UNCHANGED <<events, wait>>
    /\ UNCHANGED <<sub, config, created, procs, failures, op, stop>>

(* recover_sub_pool after the start: with auto_recover "actor" it goes     *)
(* through the address's table, and raises KeyError if there is none.      *)
MonitorStarted ==
    /\ mon.pc = "start"
    /\ Start(mon.address)
    /\ LET replays == AutoRecover = "actor" /\ stop.pc = "up"
       IN  \/ ~replays /\ Release /\ MonitorBack
           \/ replays /\ mon.address \notin allocated /\ MonitorBack /\ UNCHANGED <<events, wait>>
           \/ replays /\ mon.address \in allocated /\ MonitorWaits("replay") /\ UNCHANGED <<events, wait>>
    /\ UNCHANGED <<tables, hosts, failures, op, stop>>

(* A failed start that ends the monitor task.                              *)
MonitorStartFailsEnds ==
    /\ mon.pc = "start"
    /\ StartFails(mon.address)
    /\ MonitorWaits("done")
    /\ UNCHANGED <<sub, tables, procs, events, wait, op, stop>>

(* The error of a failed start is logged; the next round tries again.      *)
MonitorStartFails ==
    /\ mon.pc = "start"
    /\ StartFails(mon.address)
    /\ MonitorBack
    /\ UNCHANGED <<sub, tables, procs, events, wait, op, stop>>

(* A recovery that sends no creations.                                     *)
MonitorReplayNothing ==
    /\ mon.pc = "replay"
    /\ IF \E n \in alive : home[n] = mon.address THEN Release ELSE UNCHANGED <<events, wait>>
    /\ MonitorBack
    /\ UNCHANGED <<sub, tables, procs, failures, op, stop>>

(* The creations are sent to the address; a lost connection is logged.     *)
MonitorReplay ==
    /\ mon.pc = "replay"
    /\ \E served \in BOOLEAN :
          /\ served <=> \E n \in alive : home[n] = mon.address
          /\ IF served THEN Release ELSE UNCHANGED <<events, wait>>
          /\ hosts' = IF mon.address \in known
                         THEN hosts \cup {n \in alive : home[n] = mon.address} ELSE hosts
    /\ MonitorBack
    /\ UNCHANGED <<sub, tables, alive, home, born, failures, op, stop>>

Monitor == MonitorRound \/ MonitorPick \/ MonitorSleep \/ MonitorIsAlive \/ MonitorAlive
           \/ MonitorDead \/ MonitorStarted \/ MonitorStartFails \/ MonitorReplay

-----------------------------------------------------------------------------
(* Callers of the main pool.                                               *)

(* wait_pool_recovered; seen is the dead process the caller waits for.     *)
WaitCall(w, a) ==
    /\ wait[w].pc = "idle" /\ stop.pc = "up"
    /\ LET blocks == AutoRecover # "false"
       IN  /\ events' = IF blocks THEN events \cup {a} ELSE events
           /\ wait' = [wait EXCEPT ![w] = [pc |-> IF blocks THEN "waiting" ELSE "told", address |-> a,
                                          seen |-> IF sub[a] \in alive THEN 0 ELSE sub[a]]]
    /\ UNCHANGED <<sub, tables, procs, failures, mon, op, stop>>

(* create_actor sent to a sub pool, which creates the actor and tells the  *)
(* main pool; the KeyError of an address without a table is not looked at. *)
CreateAt(a) ==
    /\ a \in Hosted \ created /\ sub[a] \in alive
    /\ created' = created \cup {a}
    /\ hosts' = hosts \cup {sub[a]}
    /\ known' = IF a \in allocated THEN known \cup {a} ELSE known
    /\ UNCHANGED <<sub, config, allocated, alive, home, born, failures, mon, events, wait, op, stop>>

(* remove_sub_pool, or a stop message for one sub pool: the process is     *)
(* taken from sub_processes now.  force skips the stop message.            *)
StopOrRemove(o, edit, a, force) ==
    /\ op[o].pc = "idle" /\ stop.pc = "up" /\ edit \in Edits
    /\ a \in Tracked /\ (edit = "remove" => a \in config)
    /\ Room
    /\ op' = [op EXCEPT ![o] = [pc |-> IF force THEN "kill" ELSE "call", edit |-> edit,
                               address |-> a, proc |-> sub[a]]]
    /\ UNCHANGED <<sub, tables, procs, failures, mon, events, wait, stop>>

(* The stop message ends whatever process serves the address; a lost       *)
(* connection is ignored.                                                  *)
StopCall(o) ==
    /\ op[o].pc = "call"
    /\ alive' = {n \in alive : home[n] # op[o].address}
    /\ op' = [op EXCEPT ![o].pc = "kill"]
    /\ UNCHANGED <<sub, tables, home, born, hosts, failures, mon, events, wait, stop>>

(* kill_sub_pool of the process taken at the start.                        *)
KillProcess(o) ==
    /\ op[o].pc = "kill" /\ op[o].proc \in alive
    /\ alive' = alive \ {op[o].proc}
    /\ UNCHANGED <<sub, tables, home, born, hosts, op, failures, mon, events, wait, stop>>

(* After the join: a stopped sub pool stays in sub_processes, a removed    *)
(* one goes.  A second removal finds no entry and raises KeyError.         *)
RemoveDone(o) ==
    LET a == op[o].address
    IN  /\ op[o].pc = "kill" /\ op[o].proc \notin alive
        /\ \/ /\ op[o].edit = "stop"
              /\ op' = [op EXCEPT ![o].pc = "ok"] /\ UNCHANGED <<sub, config>>
           \/ /\ op[o].edit = "remove" /\ a \in Tracked
              /\ op' = [op EXCEPT ![o].pc = IF a \in config THEN "sync" ELSE "error"]
              /\ sub' = [sub EXCEPT ![a] = 0]
              /\ config' = config \ {a}
           \/ /\ op[o].edit = "remove" /\ a \notin Tracked
              /\ op' = [op EXCEPT ![o].pc = "error"] /\ UNCHANGED <<sub, config>>
        /\ UNCHANGED <<allocated, known, created, procs, failures, mon, events, wait, stop>>

(* append_sub_pool up to the start of the process.                         *)
AppendBegin(o, a) ==
    /\ op[o].pc = "idle" /\ stop.pc = "up" /\ "append" \in Edits
    /\ a \in Extra /\ a \notin config
    /\ Room
    /\ op' = [op EXCEPT ![o] = [pc |-> "start", edit |-> "append", address |-> a, proc |-> 0]]
    /\ config' = config \cup {a}
    /\ UNCHANGED <<sub, allocated, known, created, procs, failures, mon, events, wait, stop>>

AppendStarted(o) ==
    /\ op[o].pc = "start"
    /\ Start(op[o].address)
    /\ op' = [op EXCEPT ![o].pc = "sync"]
    /\ UNCHANGED <<tables, hosts, failures, mon, events, wait, stop>>

(* The status of a failed start has no addresses: TypeError.  The config   *)
(* keeps the entry.                                                        *)
AppendFails(o) ==
    /\ op[o].pc = "start"
    /\ StartFails(op[o].address)
    /\ op' = [op EXCEPT ![o].pc = "error"]
    /\ UNCHANGED <<sub, tables, procs, mon, events, wait, stop>>

(* sync_config is sent to every sub pool; a dead one makes the call raise. *)
SyncConfig(o) ==
    /\ op[o].pc = "sync"
    /\ op' = [op EXCEPT ![o].pc = IF \A a \in Tracked : sub[a] \in alive THEN "ok" ELSE "error"]
    /\ UNCHANGED <<sub, tables, procs, failures, mon, events, wait, stop>>
Call(o) ==
    \/ \E a \in Address, edit \in {"remove", "stop"}, force \in BOOLEAN : StopOrRemove(o, edit, a, force)
    \/ \E a \in Address : AppendBegin(o, a)
CallStep(o) == StopCall(o) \/ KillProcess(o) \/ RemoveDone(o) \/ AppendStarted(o)
               \/ AppendFails(o) \/ SyncConfig(o)

-----------------------------------------------------------------------------
(* MainActorPoolBase.stop.                                                 *)

(* busy remembers whether a call was still changing the set of sub pools.  *)
StopPool ==
    /\ MayStop /\ stop.pc = "up"
    /\ stop' = [stop EXCEPT !.pc = "monitor",
                           !.busy = \E o \in Op : op[o].pc \notin {"idle", "ok", "error"}]
    /\ UNCHANGED <<sub, tables, procs, failures, mon, events, wait, op>>

StopMonitor ==
    /\ stop.pc = "monitor" /\ mon.pc = "done"
    /\ stop' = [stop EXCEPT !.pc = "scan", !.size = Cardinality(Tracked)]
    /\ UNCHANGED <<sub, tables, procs, failures, mon, events, wait, op>>

(* stop_sub_pools looks at one process after the other, awaiting each; if  *)
(* sub_processes has changed size meanwhile, the loop raises RuntimeError. *)
StopScan ==
    /\ stop.pc = "scan"
    /\ stop' = IF Cardinality(Tracked) = stop.size
                  THEN [stop EXCEPT !.pc = "kill", !.targets = {sub[a] : a \in Tracked} \cap alive]
                  ELSE [stop EXCEPT !.pc = "error"]
    /\ UNCHANGED <<sub, tables, procs, failures, mon, events, wait, op>>

StopKill ==
    /\ stop.pc = "kill"
    /\ alive' = alive \ stop.targets
    /\ stop' = [stop EXCEPT !.pc = "done", !.targets = {}]
    /\ UNCHANGED <<sub, tables, home, born, hosts, failures, mon, events, wait, op>>

Stop == StopMonitor \/ StopScan \/ StopKill

-----------------------------------------------------------------------------
(* The processes themselves.                                               *)

(* A sub pool process dies.                                                *)
Crash(n) ==
    /\ n \in alive /\ Room
    /\ alive' = alive \ {n}
    /\ UNCHANGED <<sub, tables, home, born, hosts, failures, mon, events, wait, op, stop, down>>

(* The main process ends, after its stop or not.                           *)
MainExit ==
    /\ MayExit /\ ~down /\ down' = TRUE
    /\ UNCHANGED <<sub, tables, procs, failures, mon, events, wait, op, stop>>

(* _watch_main_pool of a pool that is still in the main pool's table.      *)
WatchMainPoolTracked(n) ==
    /\ down /\ n \in alive /\ sub[home[n]] = n
    /\ alive' = alive \ {n}
    /\ UNCHANGED <<sub, tables, home, born, hosts, failures, mon, events, wait, op, stop, down>>

(* _watch_main_pool: a sub pool that no longer finds the main process      *)
(* stops itself.                                                           *)
WatchMainPool(n) ==
    /\ down /\ n \in alive
    /\ alive' = alive \ {n}
    /\ UNCHANGED <<sub, tables, home, born, hosts, failures, mon, events, wait, op, stop, down>>

Main ==
    /\ ~down /\ UNCHANGED down
    /\ \/ Monitor
       \/ \E w \in Waiter, a \in Address : WaitCall(w, a)
       \/ \E a \in Address : CreateAt(a)
       \/ \E o \in Op : Call(o) \/ CallStep(o)
       \/ StopPool \/ Stop

(* The main pool has no more to do.                                        *)
Ended ==
    /\ down \/ stop.pc \in {"done", "error"}
    /\ UNCHANGED vars

Next ==
    \/ Main
    \/ \E n \in Proc : Crash(n) \/ WatchMainPool(n)
    \/ MainExit
    \/ Ended

Spec == Init /\ [][Next]_vars

(* The event loop runs every ready task, and the operating system every    *)
(* live process.  Nothing makes a process crash or a caller call.          *)
Loop == ~down /\ UNCHANGED down
FairSpec ==
    /\ Spec
    /\ WF_vars(Loop /\ Monitor) /\ WF_vars(Loop /\ Stop)
    /\ \A o \in Op : WF_vars(Loop /\ CallStep(o))
    /\ \A n \in Proc : WF_vars(WatchMainPool(n))

-----------------------------------------------------------------------------
(* Every variable has its type.                                            *)
TypeOK ==
    /\ sub \in [Address -> Proc \cup {0}]
    /\ config \subseteq Address /\ allocated \subseteq Address
    /\ known \subseteq allocated /\ created \subseteq Address
    /\ hosts \subseteq Proc /\ born \in 0..MaxProc /\ alive \subseteq 1..born
    /\ home \in [Proc -> Address \cup {NoAddress}]
    /\ failures \in 0..MaxFailures
    /\ mon \in MonitorStates
    /\ events \subseteq Address
    /\ wait \in [Waiter -> [pc : {"idle", "waiting", "told"}, address : Address \cup {NoAddress},
                           seen : Proc \cup {0}]]
    /\ op \in [Op -> OpStates]
    /\ stop \in StopStates
    /\ down \in BOOLEAN

(* Whoever asked for the recovery of a dead process and was answered while *)
(* the pool was up finds that process replaced (or its pool removed): the  *)
(* monitor reads whether anybody waits before it looks at the process.     *)
(* This holds of a single caller.  A second one who joins the event after  *)
(* that look is answered with the first.                                   *)
ToldMeansReplaced ==
    \A w \in Waiter :
        wait[w].pc = "told" /\ wait[w].seen # 0 /\ Recovering => sub[wait[w].address] # wait[w].seen

(* Once the monitor has recovered a sub pool the main pool was created     *)
(* with, the actor acknowledged there is back.  It is not so of a sub pool *)
(* appended later, for which the main pool has no table of actors.         *)
ActorComesBack ==
    \A a \in created \cap Tracked \cap Initial :
        AutoRecover = "actor" /\ stop.pc = "up" /\ sub[a] \in alive /\ ~(mon.pc = "replay" /\ mon.address = a)
        => sub[a] \in hosts

(* Every caller of wait_pool_recovered is answered as long as the pool is  *)
(* up and has a sub pool at that address in its config, whatever crashes   *)
(* or fails to start.                                                      *)
WaitEnds ==
    \A w \in Waiter :
        wait[w].pc = "waiting" ~>
            wait[w].pc = "told" \/ stop.pc # "up" \/ down \/ wait[w].address \notin config \cap Tracked

(* No sub pool process is left behind.  stop waits for a recovery under    *)
(* way and then stops what it started, unless a call was changing the set  *)
(* of sub pools when it began, or one was removed, which the monitor may   *)
(* take for a crash and start again.  If the main process just ends, every *)
(* sub pool ends too, also one that the main pool lost track of.           *)
StopLeavesNothing ==
    stop.pc = "done" /\ ~stop.busy /\ (\A o \in Op : op[o].edit # "remove") => alive = {}
NothingLeftBehind == []StopLeavesNothing /\ (down ~> alive = {})
=============================================================================
