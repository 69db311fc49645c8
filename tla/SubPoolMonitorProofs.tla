------------------------ MODULE SubPoolMonitorProofs ------------------------
(***************************************************************************)
(* Proofs about SubPoolMonitor for any finite sets of addresses, any       *)
(* number of processes, callers and crashes, and every setting of          *)
(* auto_recover.                                                           *)
(***************************************************************************)
EXTENDS SubPoolMonitor, TLAPS

Looking == {"check", "alive", "dead", "start", "replay"}

(* What the monitor and the calls hold on to: addresses of the pool, and   *)
(* processes that were started at the address they are listed with.        *)
MonitorOK ==
    /\ mon.pc \in Looking => mon.address \in Address
    /\ mon.pc = "check" => mon.proc \in 1..born /\ home[mon.proc] = mon.address
    /\ \A e \in mon.todo : e[2] \in 1..born /\ home[e[2]] = e[1]
OpOK(o) ==
    /\ op[o].pc = "idle" => op[o].edit = "none"
    /\ InProgress(o) => op[o].address \in Address
    /\ op[o].pc = "start" => op[o].address \in Extra

(* sub_processes names the process that was last started at an address.    *)
TableOK(a) == sub[a] # 0 => sub[a] \in 1..born /\ home[sub[a]] = a

(* A live process is the one sub_processes has for its address, unless the *)
(* entry was removed; two of them never share an address.                  *)
AliveOK(n) ==
    /\ home[n] \in Address
    /\ sub[home[n]] \in {n, 0}
    /\ \A m \in alive : home[m] = home[n] => m = n
ProcsOK == (\A a \in Address : TableOK(a)) /\ (\A n \in alive : AliveOK(n))

ProcInv ==
    /\ TypeOK
    /\ MonitorOK
    /\ \A o \in Op : OpOK(o)
    /\ ProcsOK

(* The tables of actors of the first sub pools stay, and with auto_recover *)
(* "actor" they keep the actors that were acknowledged.                    *)
Remembers ==
    /\ Initial \subseteq allocated
    /\ AutoRecover = "actor" /\ stop.pc = "up" => created \cap Initial \subseteq known
ActorInv == Remembers /\ ActorComesBack

(* Who waits for a dead process waits for one that stays dead.  An event   *)
(* has a caller waiting for it.  A monitor that will set the event has     *)
(* found another process at the address, or started one.                   *)
WaitOK(w) ==
    wait[w].pc # "idle" =>
        /\ wait[w].address \in Address
        /\ wait[w].seen # 0 => wait[w].seen \in (1..born) \ alive
WaitingAt(w, a) == wait[w].pc = "waiting" /\ wait[w].address = a
Replaced(w) == wait[w].seen # 0 => sub[wait[w].address] # wait[w].seen
Discovery ==
    mon.discovered =>
        /\ mon.pc \in Looking /\ \E w \in Waiter : WaitingAt(w, mon.address)
        /\ mon.pc \in {"alive", "replay"} => \A w \in Waiter : WaitingAt(w, mon.address) => Replaced(w)
WaitInv ==
    /\ \A w \in Waiter : WaitOK(w)
    /\ \A a \in events : \E w \in Waiter : WaitingAt(w, a)
    /\ Discovery
    /\ ToldMeansReplaced

(* What stop can rely on if no call was under way when it began and no sub *)
(* pool was removed.                                                       *)
Unremoved == \A o \in Op : op[o].edit # "remove"
AtRest(o) == op[o].pc \in {"idle", "ok", "error"}
StopInv ==
    /\ Unremoved => \A n \in alive : sub[home[n]] = n
    /\ stop.pc # "up" /\ ~stop.busy => \A o \in Op : AtRest(o)
    /\ stop.pc \in {"scan", "kill", "done"} => mon.pc = "done"
    /\ stop.pc = "kill" /\ ~stop.busy /\ Unremoved => alive \subseteq stop.targets
    /\ StopLeavesNothing

-----------------------------------------------------------------------------
LEMMA ConstantFacts ==
    /\ Initial \subseteq Address /\ Extra \subseteq Address /\ Initial \cap Extra = {}
    /\ NoAddress \notin Address
    /\ MaxProc \in Nat /\ MaxFailures \in Nat
    /\ Cardinality(Initial) \in Nat /\ Cardinality(Initial) <= MaxProc
    /\ \A S \in SUBSET Address : Cardinality(S) \in Nat
BY MonitorAssumption DEF Address

(* The invariants hold initially: every first sub pool has a process of    *)
(* its own.                                                                *)
LEMMA InitProcs == Init => ProcInv /\ \A n \in alive : sub[home[n]] = n
<1> SUFFICES ASSUME Init
             PROVE  ProcInv /\ \A n \in alive : sub[home[n]] = n
  OBVIOUS
<1> DEFINE N == Cardinality(Initial)
<1>1. PICK f \in [Initial -> 1..N] :
         /\ \A a, b \in Initial : a # b => f[a] # f[b]
         /\ sub = [a \in Address |-> IF a \in Initial THEN f[a] ELSE 0]
         /\ home = [n \in Proc |-> IF \E a \in Initial : f[a] = n
                                      THEN CHOOSE a \in Initial : f[a] = n ELSE NoAddress]
         /\ alive = {f[a] : a \in Initial}
  BY DEF Init
<1>2. /\ born = N /\ failures = 0
      /\ config = Initial /\ allocated = Initial
      /\ known = {} /\ created = {} /\ hosts = {}
      /\ mon = [pc |-> "top", todo |-> {}, address |-> NoAddress, proc |-> 0, discovered |-> FALSE]
      /\ events = {}
      /\ wait = [w \in Waiter |-> [pc |-> "idle", address |-> NoAddress, seen |-> 0]]
      /\ op = [o \in Op |-> [pc |-> "idle", edit |-> "none", address |-> NoAddress, proc |-> 0]]
      /\ stop = [pc |-> "up", size |-> 0, targets |-> {}, busy |-> FALSE]
      /\ down = FALSE
  BY DEF Init
<1>3. N \in Nat /\ 1..N \subseteq Proc /\ Initial \subseteq Address
  BY ConstantFacts DEF Proc
<1> HIDE DEF N
<1>4. ASSUME NEW a \in Initial
      PROVE  sub[a] = f[a] /\ f[a] \in 1..N /\ home[f[a]] = a
  <2>1. f[a] \in 1..N /\ f[a] \in Proc /\ a \in Address
    BY <1>3
  <2>2. (CHOOSE b \in Initial : f[b] = f[a]) = a
    BY <1>1
  <2> QED BY <1>1, <2>1, <2>2
<1>5. TypeOK
  <2>1. sub \in [Address -> Proc \cup {0}] /\ home \in [Proc -> Address \cup {NoAddress}]
    BY <1>1, <1>3
  <2>2. mon \in MonitorStates /\ stop \in StopStates
    BY <1>2 DEF MonitorStates, StopStates
  <2>3. op \in [Op -> OpStates]
    BY <1>2 DEF OpStates
  <2>4. born \in 0..MaxProc /\ alive \subseteq 1..born /\ failures \in 0..MaxFailures
    BY <1>1, <1>2, <1>3, ConstantFacts DEF N
  <2> QED BY <1>2, <1>3, <2>1, <2>2, <2>3, <2>4, Zenon DEF TypeOK
<1>6. MonitorOK /\ \A o \in Op : OpOK(o)
  BY <1>2 DEF MonitorOK, OpOK, InProgress, Looking
<1>7. \A a \in Address : TableOK(a)
  BY <1>1, <1>2, <1>4, Zenon DEF TableOK
<1>8. \A n \in alive : AliveOK(n)
  <2> SUFFICES ASSUME NEW n \in alive
               PROVE  AliveOK(n)
    OBVIOUS
  <2>1. PICK a \in Initial : n = f[a]
    BY <1>1
  <2>2. ASSUME NEW m \in alive, home[m] = home[n]
        PROVE  m = n
    <3>1. PICK b \in Initial : m = f[b]
      BY <1>1
    <3> QED BY <1>4, <2>1, <2>2, <3>1
  <2> QED BY <1>3, <1>4, <2>1, <2>2 DEF AliveOK
<1>9. ASSUME NEW n \in alive
      PROVE  sub[home[n]] = n
  <2>1. PICK a \in Initial : n = f[a]
    BY <1>1
  <2> QED BY <1>4, <2>1
<1> QED BY <1>5, <1>6, <1>7, <1>8, <1>9 DEF ProcInv, ProcsOK

(* A process is started where none is running: it gets a new number, and   *)
(* its address in sub_processes.                                           *)
LEMMA StartFacts ==
    ASSUME ProcInv, NEW a \in Address, Start(a)
    PROVE  /\ born \in Nat /\ born' = born + 1 /\ born' \in Proc
           /\ alive' = alive \cup {born'} /\ born' \notin alive /\ alive \subseteq 1..born
           /\ sub' \in [Address -> Proc \cup {0}]
           /\ sub'[a] = born' /\ \A b \in Address : b # a => sub'[b] = sub[b]
           /\ home' \in [Proc -> Address \cup {NoAddress}]
           /\ home'[born'] = a /\ \A n \in Proc : n # born' => home'[n] = home[n]
           /\ \A n \in alive : home[n] # a
<1>1. TypeOK /\ MaxProc \in Nat
  BY ConstantFacts DEF ProcInv
<1>2. born \in Nat
  BY <1>1 DEF TypeOK
<1> QED BY <1>1, <1>2 DEF Start, Free, TypeOK, Proc

LEMMA StartProcs ==
    ASSUME ProcInv, NEW a \in Address, Start(a)
    PROVE  ProcsOK'
<1>1. /\ born \in Nat /\ born' = born + 1 /\ born' \in Proc
      /\ alive' = alive \cup {born'} /\ born' \notin alive /\ alive \subseteq 1..born
      /\ sub'[a] = born' /\ \A b \in Address : b # a => sub'[b] = sub[b]
      /\ home'[born'] = a /\ \A n \in Proc : n # born' => home'[n] = home[n]
      /\ \A n \in alive : home[n] # a
  BY StartFacts
<1>2. 1..born \subseteq Proc \ {born'} /\ 1..born \subseteq 1..born' /\ born' # 0
  <2>1. \A n \in 1..born : n # born' /\ n \in 1..born'
    BY <1>1
  <2>2. 1..born' \subseteq Proc
    BY <1>1, ConstantFacts DEF Proc
  <2> QED BY <1>1, <2>1, <2>2 DEF Proc
<1>3. ASSUME NEW b \in Address
      PROVE  TableOK(b)'
  <2>1. TableOK(b)
    BY DEF ProcInv, ProcsOK
  <2>2. CASE b = a
    BY <1>1, <1>2, <2>2 DEF TableOK
  <2>3. CASE b # a
    BY <1>1, <1>2, <2>1, <2>3 DEF TableOK
  <2> QED BY <2>2, <2>3
<1>4. \A m \in alive : home'[m] = home[m] /\ home[m] \in Address
  BY <1>1, <1>2 DEF ProcInv, ProcsOK, AliveOK
<1>5. ASSUME NEW n \in alive'
      PROVE  AliveOK(n)'
  <2>1. CASE n = born'
    BY <1>1, <1>4, <2>1 DEF AliveOK
  <2>2. CASE n \in alive
    <3>1. AliveOK(n) /\ home[n] # a
      BY <1>1, <2>2 DEF ProcInv, ProcsOK
    <3> QED BY <1>1, <1>4, <2>2, <3>1 DEF AliveOK
  <2> QED BY <1>1, <2>1, <2>2
<1> QED BY <1>3, <1>5 DEF ProcsOK

(* Processes end and entries of sub_processes are removed.                 *)
LEMMA QuietProcs ==
    ASSUME ProcInv, home' = home, born' = born, alive' \subseteq alive,
           \A a \in Address : sub'[a] \in {sub[a], 0}
    PROVE  ProcsOK'
<1>1. ASSUME NEW a \in Address
      PROVE  TableOK(a)'
  BY DEF ProcInv, ProcsOK, TableOK
<1>2. ASSUME NEW n \in alive'
      PROVE  AliveOK(n)'
  <2>1. AliveOK(n)
    BY DEF ProcInv, ProcsOK
  <2> QED BY <2>1 DEF AliveOK
<1> QED BY <1>1, <1>2 DEF ProcsOK

(* The monitor goes on to another entry or waits somewhere else.           *)
Later == born \in Nat /\ born' \in Nat /\ born <= born' /\ \A n \in 1..born : home'[n] = home[n]
MonitorMoves ==
    \/ mon' = mon
    \/ MonitorBack
    \/ mon.pc \in Looking /\ \E pc \in {"alive", "dead", "start", "replay"} : MonitorWaits(pc)
    \/ \E pc \in {"top", "done"} : MonitorWaits(pc)
LEMMA MonitorKeeps ==
    ASSUME ProcInv, Later, MonitorMoves
    PROVE  MonitorOK' /\ mon' \in MonitorStates
<1>1. mon \in MonitorStates /\ MonitorOK
  BY DEF ProcInv, TypeOK
<1>2. 1..born \subseteq 1..born'
  BY DEF Later
<1>3. CASE mon' = mon
  BY <1>1, <1>2, <1>3 DEF MonitorOK, Later
<1>4. CASE MonitorBack
  BY <1>1, <1>2, <1>4 DEF MonitorBack, MonitorOK, Later, MonitorStates, Looking
<1>5. ASSUME mon.pc \in Looking, NEW pc \in {"alive", "dead", "start", "replay"}, MonitorWaits(pc)
      PROVE  MonitorOK' /\ mon' \in MonitorStates
  BY <1>1, <1>2, <1>5 DEF MonitorWaits, MonitorOK, Later, MonitorStates, Looking
<1>6. ASSUME NEW pc \in {"top", "done"}, MonitorWaits(pc)
      PROVE  MonitorOK' /\ mon' \in MonitorStates
  BY <1>1, <1>2, <1>6 DEF MonitorWaits, MonitorOK, Later, MonitorStates, Looking
<1> QED BY <1>3, <1>4, <1>5, <1>6 DEF MonitorMoves

(* A call goes on.                                                         *)
LEMMA OpKeeps ==
    ASSUME ProcInv, NEW o \in Op, NEW pc \in {"kill", "sync", "ok", "error"},
           pc = "kill" => op[o].address \in Address, op' = [op EXCEPT ![o].pc = pc]
    PROVE  op' \in [Op -> OpStates] /\ (\A p \in Op : OpOK(p))'
<1>1. op \in [Op -> OpStates]
  BY DEF ProcInv, TypeOK
<1>2. op' \in [Op -> OpStates]
  BY <1>1 DEF OpStates
<1>3. ASSUME NEW p \in Op
      PROVE  OpOK(p)'
  <2>1. CASE p = o
    <3>1. op'[o].pc = pc /\ op'[o].address = op[o].address
      BY <1>1 DEF OpStates
    <3> QED BY <2>1, <3>1 DEF OpOK, InProgress
  <2>2. CASE p # o
    <3>1. op'[p] = op[p] /\ OpOK(p)
      BY <1>1, <2>2 DEF ProcInv
    <3> QED BY <3>1 DEF OpOK, InProgress
  <2> QED BY <2>1, <2>2
<1> QED BY <1>2, <1>3

-----------------------------------------------------------------------------
(* The steps of the monitor.                                               *)
WaitStates == [pc : {"idle", "waiting", "told"}, address : Address \cup {NoAddress}, seen : Proc \cup {0}]
LEMMA ReleaseTypes ==
    ASSUME TypeOK, Release
    PROVE  events' \subseteq Address /\ wait' \in [Waiter -> WaitStates]
<1>1. wait \in [Waiter -> WaitStates] /\ events \subseteq Address
  BY DEF TypeOK, WaitStates
<1>2. events' \subseteq Address
  BY <1>1 DEF Release
<1>3. ASSUME NEW w \in Waiter
      PROVE  [wait[w] EXCEPT !.pc = "told"] \in WaitStates
  BY <1>1 DEF WaitStates
<1> QED BY <1>1, <1>2, <1>3 DEF Release

(* What no step of the monitor but a start changes.                        *)
Frame == sub' = sub /\ config' = config /\ created' = created /\ alive' = alive /\ home' = home
         /\ born' = born /\ op' = op /\ stop' = stop /\ down' = down
LEMMA FrameKeeps ==
    ASSUME ProcInv, Frame, MonitorMoves \/ (MonitorOK' /\ mon' \in MonitorStates),
           allocated' \subseteq Address, known' \subseteq allocated', hosts' \subseteq Proc,
           failures' \in 0..MaxFailures, events' \subseteq Address, wait' \in [Waiter -> WaitStates]
    PROVE  ProcInv'
<1>1. TypeOK
  BY DEF ProcInv
<1>2. Later
  BY <1>1, ConstantFacts DEF TypeOK, Frame, Later
<1>3. MonitorOK' /\ mon' \in MonitorStates
  BY <1>2, MonitorKeeps
<1>4. TypeOK'
  BY <1>1, <1>3 DEF TypeOK, Frame, WaitStates
<1>5. ProcsOK'
  BY QuietProcs DEF Frame
<1>6. (\A o \in Op : OpOK(o))'
  BY DEF ProcInv, Frame, OpOK, InProgress
<1> QED BY <1>3, <1>4, <1>5, <1>6 DEF ProcInv

(* A start by the monitor or by append_sub_pool.                           *)
LEMMA StartKeeps ==
    ASSUME ProcInv, NEW a \in Address, Start(a), UNCHANGED <<tables, hosts, failures, stop, down>>, MonitorMoves,
           events' \subseteq Address, wait' \in [Waiter -> WaitStates],
           op' \in [Op -> OpStates], (\A o \in Op : OpOK(o))'
    PROVE  ProcInv'
<1>1. TypeOK /\ ProcsOK'
  BY StartProcs DEF ProcInv
<1>2. /\ born \in Nat /\ born' = born + 1 /\ born' \in Proc
      /\ alive' = alive \cup {born'} /\ alive \subseteq 1..born
      /\ sub' \in [Address -> Proc \cup {0}]
      /\ home' \in [Proc -> Address \cup {NoAddress}]
      /\ \A n \in Proc : n # born' => home'[n] = home[n]
  BY StartFacts
<1>3. 1..born \subseteq Proc \ {born'} /\ 1..born \subseteq 1..born' /\ born' \in 1..born' /\ born' \in 0..MaxProc
  <2>1. \A n \in 1..born : n # born' /\ n \in 1..born'
    BY <1>2
  <2>2. 1..born' \subseteq Proc /\ born' \in 0..MaxProc /\ born' \in 1..born'
    BY <1>2, ConstantFacts DEF Proc
  <2> QED BY <2>1, <2>2
<1>4. Later
  BY <1>2, <1>3 DEF Later
<1>5. MonitorOK' /\ mon' \in MonitorStates
  BY <1>4, MonitorKeeps
<1>6. TypeOK'
  BY <1>1, <1>2, <1>3, <1>5 DEF TypeOK, WaitStates, tables
<1> QED BY <1>1, <1>5, <1>6 DEF ProcInv

LEMMA FailureTypes ==
    ASSUME TypeOK, NEW a, StartFails(a)
    PROVE  failures' \in 0..MaxFailures
BY ConstantFacts DEF TypeOK, StartFails

LEMMA MonitorKeepsProcInv ==
    ASSUME ProcInv, Monitor, down' = down
    PROVE  ProcInv'
<1>1. TypeOK /\ MonitorOK
  BY DEF ProcInv
<1>2. /\ allocated \subseteq Address /\ known \subseteq allocated /\ hosts \subseteq Proc
      /\ failures \in 0..MaxFailures /\ events \subseteq Address /\ wait \in [Waiter -> WaitStates]
      /\ mon \in MonitorStates /\ alive \subseteq Proc
  BY <1>1, ConstantFacts DEF TypeOK, WaitStates, Proc
<1>3. CASE MonitorRound
  <2>1. Frame /\ UNCHANGED <<allocated, known, hosts, failures, events, wait>>
    BY <1>3 DEF MonitorRound, Frame, tables, procs
  <2>2. MonitorOK' /\ mon' \in MonitorStates
    <3>1. CASE stop.pc # "up"
      BY <1>1, <1>2, <1>3, <2>1, <3>1 DEF MonitorRound, Frame, MonitorOK, MonitorStates, Looking
    <3>2. CASE stop.pc = "up"
      <4>1. mon' = [mon EXCEPT !.pc = "next", !.todo = {<<a, sub[a]>> : a \in Tracked}]
        BY <1>3, <3>2 DEF MonitorRound
      <4>2. \A a \in Tracked : a \in Address /\ sub[a] \in Proc /\ sub[a] \in 1..born /\ home[sub[a]] = a
        BY <1>1 DEF Tracked, ProcInv, ProcsOK, TableOK, TypeOK
      <4> DEFINE T == {<<a, sub[a]>> : a \in Tracked}
      <4>3. \A e \in T : e[2] \in 1..born /\ home[e[2]] = e[1] /\ e \in Address \X Proc
        BY <4>2
      <4>4. mon'.todo = T /\ mon'.pc = "next" /\ mon' \in MonitorStates
        BY <1>2, <4>1, <4>3, Zenon DEF MonitorStates
      <4> HIDE DEF T
      <4> QED BY <2>1, <4>3, <4>4 DEF MonitorOK, Frame, Looking
    <3> QED BY <3>1, <3>2
  <2> QED BY <1>2, <2>1, <2>2, FrameKeeps
<1>4. CASE MonitorPick
  <2>1. Frame /\ UNCHANGED <<allocated, known, hosts, failures, events, wait>>
    BY <1>4 DEF MonitorPick, Frame, tables, procs
  <2>2. PICK e \in mon.todo :
          mon' = [pc |-> "check", todo |-> mon.todo \ {e}, address |-> e[1], proc |-> e[2],
                  discovered |-> e[1] \in events]
    BY <1>4, Zenon DEF MonitorPick
  <2>3. e \in Address \X Proc /\ mon.todo \subseteq Address \X Proc
    BY <1>2 DEF MonitorStates
  <2>4. MonitorOK' /\ mon' \in MonitorStates
    BY <1>1, <2>1, <2>2, <2>3 DEF MonitorOK, MonitorStates, Frame, Looking
  <2> QED BY <1>2, <2>1, <2>4, FrameKeeps
<1>5. CASE MonitorSleep
  <2>1. Frame /\ UNCHANGED <<allocated, known, hosts, failures, events, wait>> /\ MonitorMoves
    BY <1>5 DEF MonitorSleep, Frame, tables, procs, MonitorMoves
  <2> QED BY <1>2, <2>1, FrameKeeps
<1>6. CASE MonitorIsAlive
  <2>1. Frame /\ UNCHANGED <<allocated, known, hosts, failures, events, wait>> /\ MonitorMoves
    BY <1>6 DEF MonitorIsAlive, Frame, tables, procs, MonitorMoves, Looking
  <2> QED BY <1>2, <2>1, FrameKeeps
<1>7. CASE MonitorAlive
  <2>1. Frame /\ UNCHANGED <<allocated, known, hosts, failures>> /\ MonitorMoves /\ Release
    BY <1>7 DEF MonitorAlive, Frame, tables, procs, MonitorMoves
  <2> QED BY <1>1, <1>2, <2>1, ReleaseTypes, FrameKeeps
<1>8. CASE MonitorDead
  <2>1. Frame /\ UNCHANGED <<hosts, failures>> /\ MonitorMoves
    BY <1>8 DEF MonitorDead, Frame, tables, procs, MonitorMoves, Looking
  <2>2. events' \subseteq Address /\ wait' \in [Waiter -> WaitStates]
    BY <1>1, <1>2, <1>8, ReleaseTypes DEF MonitorDead
  <2>3. allocated' \subseteq Address /\ known' \subseteq allocated'
    BY <1>1, <1>2, <1>8 DEF MonitorDead, MonitorOK, Looking
  <2> QED BY <1>2, <2>1, <2>2, <2>3, FrameKeeps
<1>9. CASE MonitorStarted
  <2> DEFINE a == mon.address
  <2>1. a \in Address /\ Start(a) /\ UNCHANGED <<tables, hosts, failures, op, stop, down>> /\ MonitorMoves
    BY <1>1, <1>9 DEF MonitorStarted, MonitorOK, Looking, MonitorMoves
  <2>2. events' \subseteq Address /\ wait' \in [Waiter -> WaitStates]
    BY <1>1, <1>2, <1>9, ReleaseTypes DEF MonitorStarted
  <2>3. op' \in [Op -> OpStates] /\ (\A o \in Op : OpOK(o))'
    BY <1>1, <2>1 DEF ProcInv, TypeOK, OpOK, InProgress
  <2> HIDE DEF a
  <2> QED BY <2>1, <2>2, <2>3, StartKeeps
<1>10. CASE MonitorStartFails
  <2>1. Frame /\ UNCHANGED <<allocated, known, hosts, events, wait>> /\ MonitorMoves
    BY <1>10 DEF MonitorStartFails, Frame, tables, procs, MonitorMoves
  <2>2. failures' \in 0..MaxFailures
    BY <1>1, <1>10, FailureTypes DEF MonitorStartFails
  <2> QED BY <1>2, <2>1, <2>2, FrameKeeps
<1>11. CASE MonitorReplay
  <2>1. Frame /\ UNCHANGED <<allocated, known, failures>> /\ MonitorMoves
    BY <1>11 DEF MonitorReplay, Frame, tables, procs, MonitorMoves
  <2>2. events' \subseteq Address /\ wait' \in [Waiter -> WaitStates]
    BY <1>1, <1>2, <1>11, ReleaseTypes DEF MonitorReplay
  <2>3. hosts' \subseteq Proc
    BY <1>2, <1>11 DEF MonitorReplay
  <2> QED BY <1>2, <2>1, <2>2, <2>3, FrameKeeps
<1> QED BY <1>3, <1>4, <1>5, <1>6, <1>7, <1>8, <1>9, <1>10, <1>11 DEF Monitor

-----------------------------------------------------------------------------
(* The steps of the calls, of stop and of the processes.                   *)

(* What none of them changes but a start.                                  *)
Quiet == home' = home /\ born' = born /\ alive' \subseteq alive /\ mon' = mon
LEMMA QuietKeeps ==
    ASSUME ProcInv, Quiet, UNCHANGED <<allocated, failures>>,
           sub' \in [Address -> Proc \cup {0}], \A a \in Address : sub'[a] \in {sub[a], 0},
           config' \subseteq Address, known' \subseteq allocated, created' \subseteq Address, hosts' \subseteq Proc,
           events' \subseteq Address, wait' \in [Waiter -> WaitStates],
           op' \in [Op -> OpStates], (\A o \in Op : OpOK(o))',
           stop' \in StopStates, down' \in BOOLEAN
    PROVE  ProcInv'
<1>1. TypeOK
  BY DEF ProcInv
<1>2. Later /\ MonitorMoves
  BY <1>1, ConstantFacts DEF TypeOK, Quiet, Later, MonitorMoves
<1>3. MonitorOK' /\ mon' \in MonitorStates
  BY <1>2, MonitorKeeps
<1>4. TypeOK'
  BY <1>1, <1>3 DEF TypeOK, Quiet, WaitStates
<1>5. ProcsOK'
  BY QuietProcs DEF Quiet
<1> QED BY <1>3, <1>4, <1>5 DEF ProcInv

(* The types of everything a quiet step may leave alone.                   *)
LEMMA Types ==
    ASSUME ProcInv
    PROVE  /\ sub \in [Address -> Proc \cup {0}] /\ config \subseteq Address /\ allocated \subseteq Address
           /\ known \subseteq allocated /\ created \subseteq Address /\ hosts \subseteq Proc
           /\ events \subseteq Address /\ wait \in [Waiter -> WaitStates]
           /\ op \in [Op -> OpStates] /\ (\A o \in Op : OpOK(o))
           /\ stop \in StopStates /\ down \in BOOLEAN /\ alive \subseteq Proc
<1>1. TypeOK
  BY DEF ProcInv
<1> QED BY <1>1, ConstantFacts DEF ProcInv, TypeOK, WaitStates, Proc

LEMMA SameOps ==
    ASSUME ProcInv, op' = op
    PROVE  op' \in [Op -> OpStates] /\ (\A o \in Op : OpOK(o))'
BY Types DEF OpOK, InProgress

(* A new call.                                                             *)
LEMMA NewOp ==
    ASSUME ProcInv, NEW o \in Op, NEW r \in OpStates, r.pc # "idle", r.address \in Address,
           r.pc = "start" => r.address \in Extra, op' = [op EXCEPT ![o] = r]
    PROVE  op' \in [Op -> OpStates] /\ (\A p \in Op : OpOK(p))'
<1>1. op \in [Op -> OpStates] /\ op' \in [Op -> OpStates]
  BY Types
<1>2. ASSUME NEW p \in Op
      PROVE  OpOK(p)'
  <2>1. OpOK(p)
    BY DEF ProcInv
  <2> QED BY <1>1, <2>1 DEF OpOK, InProgress
<1> QED BY <1>1, <1>2

LEMMA CallKeepsProcInv ==
    ASSUME ProcInv, NEW o \in Op, Call(o), down' = down
    PROVE  ProcInv'
<1>1. ASSUME NEW a \in Address, NEW edit \in {"remove", "stop"}, NEW force \in BOOLEAN,
             StopOrRemove(o, edit, a, force)
      PROVE  ProcInv'
  <2>1. UNCHANGED <<sub, tables, procs, failures, mon, events, wait, stop>>
    BY <1>1 DEF StopOrRemove
  <2> DEFINE r == [pc |-> IF force THEN "kill" ELSE "call", edit |-> edit, address |-> a, proc |-> sub[a]]
  <2>2. r \in OpStates /\ op' = [op EXCEPT ![o] = r]
    BY <1>1, Types DEF StopOrRemove, OpStates
  <2>3. r.pc \in {"kill", "call"} /\ r.address = a
    OBVIOUS
  <2> HIDE DEF r
  <2>4. op' \in [Op -> OpStates] /\ (\A p \in Op : OpOK(p))'
    BY <2>2, <2>3, NewOp, Zenon
  <2> QED BY <2>1, <2>4, Types, QuietKeeps DEF Quiet, tables, procs
<1>2. ASSUME NEW a \in Address, AppendBegin(o, a)
      PROVE  ProcInv'
  <2>1. UNCHANGED <<sub, allocated, known, created, procs, failures, mon, events, wait, stop>>
        /\ config' = config \cup {a}
    BY <1>2 DEF AppendBegin
  <2> DEFINE r == [pc |-> "start", edit |-> "append", address |-> a, proc |-> 0]
  <2>2. r \in OpStates /\ op' = [op EXCEPT ![o] = r] /\ a \in Extra
    BY <1>2 DEF AppendBegin, OpStates
  <2>3. r.pc = "start" /\ r.address = a
    OBVIOUS
  <2> HIDE DEF r
  <2>4. op' \in [Op -> OpStates] /\ (\A p \in Op : OpOK(p))'
    BY <2>2, <2>3, NewOp, Zenon
  <2> QED BY <2>1, <2>4, Types, QuietKeeps DEF Quiet, procs
<1> QED BY <1>1, <1>2 DEF Call

LEMMA CallStepKeepsProcInv ==
    ASSUME ProcInv, NEW o \in Op, CallStep(o), down' = down
    PROVE  ProcInv'
<1> USE DEF InProgress
<1>1. CASE StopCall(o)
  <2>1. UNCHANGED <<sub, tables, home, born, hosts, failures, mon, events, wait, stop>> /\ alive' \subseteq alive
    BY <1>1 DEF StopCall
  <2>2. op' \in [Op -> OpStates] /\ (\A p \in Op : OpOK(p))'
    BY <1>1, Types, OpKeeps, Zenon DEF StopCall, OpOK
  <2> QED BY <2>1, <2>2, Types, QuietKeeps DEF Quiet, tables
<1>2. CASE KillProcess(o)
  <2>1. UNCHANGED <<sub, tables, home, born, hosts, op, failures, mon, events, wait, stop>> /\ alive' \subseteq alive
    BY <1>2 DEF KillProcess
  <2>2. op' \in [Op -> OpStates] /\ (\A p \in Op : OpOK(p))'
    BY <2>1, SameOps
  <2> QED BY <2>1, <2>2, Types, QuietKeeps DEF Quiet, tables
<1>3. CASE RemoveDone(o)
  <2> DEFINE a == op[o].address
  <2>1. UNCHANGED <<allocated, known, created, procs, failures, mon, events, wait, stop>> /\ config' \subseteq config
    BY <1>3 DEF RemoveDone
  <2>2. a \in Address
    BY <1>3, Types DEF RemoveDone, OpOK
  <2>3. \E pc \in {"ok", "sync", "error"} : op' = [op EXCEPT ![o].pc = pc]
    BY <1>3 DEF RemoveDone
  <2>4. op' \in [Op -> OpStates] /\ (\A p \in Op : OpOK(p))'
    BY <2>2, <2>3, OpKeeps, Zenon
  <2>5. sub' = sub \/ sub' = [sub EXCEPT ![a] = 0]
    BY <1>3 DEF RemoveDone
  <2>6. sub' \in [Address -> Proc \cup {0}] /\ \A b \in Address : sub'[b] \in {sub[b], 0}
    BY <2>2, <2>5, Types
  <2> HIDE DEF a
  <2> QED BY <2>1, <2>4, <2>6, Types, QuietKeeps DEF Quiet, procs
<1>4. CASE AppendStarted(o)
  <2> DEFINE a == op[o].address
  <2>1. a \in Address /\ Start(a) /\ UNCHANGED <<tables, hosts, failures, stop, down, mon, events, wait>>
    BY <1>4, Types DEF AppendStarted, OpOK
  <2>2. op' \in [Op -> OpStates] /\ (\A p \in Op : OpOK(p))'
    BY <1>4, <2>1, OpKeeps, Zenon DEF AppendStarted
  <2> HIDE DEF a
  <2>3. MonitorMoves
    BY <2>1 DEF MonitorMoves
  <2> QED BY <2>1, <2>2, <2>3, Types, StartKeeps
<1>5. CASE AppendFails(o)
  <2>1. UNCHANGED <<sub, tables, procs, mon, events, wait, stop>>
    BY <1>5 DEF AppendFails
  <2>2. op' \in [Op -> OpStates] /\ (\A p \in Op : OpOK(p))'
    BY <1>5, Types, OpKeeps, Zenon DEF AppendFails, OpOK
  <2>3. failures' \in 0..MaxFailures
    BY <1>5, FailureTypes DEF AppendFails, ProcInv
  <2>4. TypeOK' /\ MonitorOK'
    BY <2>1, <2>2, <2>3 DEF ProcInv, TypeOK, MonitorOK, tables, procs
  <2>5. ProcsOK'
    BY <2>1, QuietProcs DEF procs
  <2> QED BY <2>2, <2>4, <2>5 DEF ProcInv
<1>6. CASE SyncConfig(o)
  <2>1. UNCHANGED <<sub, tables, procs, failures, mon, events, wait, stop>>
    BY <1>6 DEF SyncConfig
  <2>2. \E pc \in {"ok", "error"} : op[o].pc = "sync" /\ op' = [op EXCEPT ![o].pc = pc]
    BY <1>6, Zenon DEF SyncConfig
  <2>3. op' \in [Op -> OpStates] /\ (\A p \in Op : OpOK(p))'
    BY <2>2, OpKeeps, Zenon
  <2> QED BY <2>1, <2>3, Types, QuietKeeps DEF Quiet, tables, procs
<1> QED BY <1>1, <1>2, <1>3, <1>4, <1>5, <1>6 DEF CallStep

LEMMA StopKeepsProcInv ==
    ASSUME ProcInv, StopPool \/ Stop, down' = down
    PROVE  ProcInv'
<1>1. UNCHANGED <<sub, tables, home, born, hosts, failures, mon, events, wait, op>> /\ alive' \subseteq alive
  BY DEF StopPool, Stop, StopMonitor, StopScan, StopKill, procs
<1>2. stop' \in StopStates
  <2>1. stop \in StopStates /\ Cardinality(Tracked) \in Nat
    BY Types, ConstantFacts DEF Tracked
  <2>2. {sub[a] : a \in Tracked} \cap alive \subseteq Proc
    BY Types
  <2>3. CASE StopPool
    BY <2>1, <2>3, Zenon DEF StopPool, StopStates
  <2>4. CASE StopMonitor
    BY <2>1, <2>4, Zenon DEF StopMonitor, StopStates
  <2>5. CASE StopScan
    BY <2>1, <2>2, <2>5, Zenon DEF StopScan, StopStates
  <2>6. CASE StopKill
    BY <2>1, <2>6, Zenon DEF StopKill, StopStates
  <2> QED BY <2>3, <2>4, <2>5, <2>6 DEF Stop
<1>3. op' \in [Op -> OpStates] /\ (\A p \in Op : OpOK(p))'
  BY <1>1, SameOps
<1> QED BY <1>1, <1>2, <1>3, Types, QuietKeeps DEF Quiet, tables

LEMMA NextKeepsProcInv ==
    ASSUME ProcInv, [Next]_vars
    PROVE  ProcInv'
<1>1. ASSUME NEW w \in Waiter, NEW a \in Address, WaitCall(w, a), down' = down
      PROVE  ProcInv'
  <2>1. UNCHANGED <<sub, tables, procs, failures, mon, op, stop>>
    BY <1>1 DEF WaitCall
  <2>2. events' \subseteq Address
    BY <1>1, Types DEF WaitCall
  <2>3. \E pc \in {"waiting", "told"}, seen \in Proc \cup {0} :
           wait' = [wait EXCEPT ![w] = [pc |-> pc, address |-> a, seen |-> seen]]
    BY <1>1, Types, Zenon DEF WaitCall
  <2>4. wait' \in [Waiter -> WaitStates]
    BY <2>3, Types DEF WaitStates
  <2>5. op' \in [Op -> OpStates] /\ (\A p \in Op : OpOK(p))'
    BY <2>1, SameOps
  <2> QED BY <1>1, <2>1, <2>2, <2>4, <2>5, Types, QuietKeeps DEF Quiet, tables, procs
<1>2. ASSUME NEW a \in Address, CreateAt(a), down' = down
      PROVE  ProcInv'
  <2>1. UNCHANGED <<sub, config, allocated, alive, home, born, failures, mon, events, wait, op, stop>>
    BY <1>2 DEF CreateAt
  <2>2. created' \subseteq Address /\ hosts' \subseteq Proc /\ known' \subseteq allocated
    BY <1>2, Types DEF CreateAt
  <2>3. op' \in [Op -> OpStates] /\ (\A p \in Op : OpOK(p))'
    BY <2>1, SameOps
  <2> QED BY <1>2, <2>1, <2>2, <2>3, Types, QuietKeeps DEF Quiet
<1>3. CASE (\E n \in Proc : Crash(n) \/ WatchMainPool(n)) \/ MainExit \/ UNCHANGED vars
  <2>1. UNCHANGED <<sub, tables, home, born, hosts, failures, mon, events, wait, op, stop>>
        /\ alive' \subseteq alive /\ down' \in BOOLEAN
    BY <1>3, Types, Zenon DEF Crash, WatchMainPool, MainExit, vars, procs, tables
  <2>2. op' \in [Op -> OpStates] /\ (\A p \in Op : OpOK(p))'
    BY <2>1, SameOps
  <2> QED BY <2>1, <2>2, Types, QuietKeeps DEF Quiet, tables
<1> QED BY <1>1, <1>2, <1>3, MonitorKeepsProcInv, CallKeepsProcInv, CallStepKeepsProcInv, StopKeepsProcInv
        DEF Next, Main, Ended

LEMMA ProcInvariant == Spec => []ProcInv
BY InitProcs, NextKeepsProcInv, PTL DEF Spec

(* Every variable has its type: in particular what the monitor is looking  *)
(* at, and what a call in progress was given, are addresses of the pool.   *)
THEOREM TypeCorrect == Spec => []TypeOK
BY ProcInvariant, PTL DEF ProcInv

(* sub_processes never has one process for an address where another one is *)
(* running: whatever the monitor, the calls and the crashes do to it, a    *)
(* live process is the one listed for its address, or none is listed there *)
(* any more.  Two live processes never share an address.                   *)
THEOREM LiveProcessIsListed == Spec => [](\A n \in alive : AliveOK(n))
BY ProcInvariant, PTL DEF ProcInv, ProcsOK

-----------------------------------------------------------------------------
(* The recovered actor.                                                    *)

(* A step that starts no process, creates no actor and does not end a      *)
(* recovery.                                                               *)
NoRecovery ==
    /\ alive' \subseteq alive /\ \A a \in Address : sub'[a] \in {sub[a], 0}
    /\ created' = created /\ hosts' = hosts
    /\ Initial \subseteq allocated => Initial \subseteq allocated'
    /\ stop'.pc = "up" => stop.pc = "up" /\ (AutoRecover = "actor" => known' = known)
    /\ mon.pc = "replay" => mon' = mon
LEMMA NoRecoveryKeeps ==
    ASSUME ProcInv, ActorInv, NoRecovery
    PROVE  ActorInv'
<1>1. Remembers'
  BY DEF ActorInv, Remembers, NoRecovery
<1>2. ASSUME NEW a \in created' \cap Tracked' \cap Initial, AutoRecover = "actor", stop'.pc = "up", sub'[a] \in alive',
             ~(mon'.pc = "replay" /\ mon'.address = a)
      PROVE  sub'[a] \in hosts'
  <2>1. a \in Address /\ sub'[a] # 0
    BY <1>2 DEF Tracked
  <2>2. sub'[a] = sub[a] /\ a \in Tracked /\ a \in created
    BY <1>2, <2>1 DEF NoRecovery, Tracked
  <2>3. ~(mon.pc = "replay" /\ mon.address = a) /\ stop.pc = "up" /\ sub[a] \in alive
    BY <1>2, <2>2 DEF NoRecovery
  <2> QED BY <1>2, <2>2, <2>3 DEF ActorInv, ActorComesBack, NoRecovery
<1>3. ActorComesBack'
  BY <1>2 DEF ActorComesBack
<1> QED BY <1>1, <1>3 DEF ActorInv

(* A start that the monitor goes on to complete, or of a pool that was     *)
(* appended.                                                               *)
LEMMA StartKeepsActor ==
    ASSUME ProcInv, ActorInv, NEW b \in Address, Start(b), UNCHANGED <<tables, hosts, stop>>,
           b \in Initial /\ AutoRecover = "actor" /\ stop.pc = "up" => mon'.pc = "replay" /\ mon'.address = b,
           mon.pc = "replay" => mon' = mon
    PROVE  ActorInv'
<1>1. Remembers'
  BY DEF ActorInv, Remembers, tables
<1>2. ASSUME NEW a \in created' \cap Tracked' \cap Initial, AutoRecover = "actor", stop'.pc = "up", sub'[a] \in alive',
             ~(mon'.pc = "replay" /\ mon'.address = a)
      PROVE  sub'[a] \in hosts'
  <2>1. a \in Address /\ sub'[a] # 0 /\ a # b /\ a \in created /\ stop.pc = "up"
    BY <1>2 DEF Tracked, tables
  <2>2. sub'[a] = sub[a]
    BY <2>1, StartFacts
  <2>3. sub[a] \in 1..born
    BY <2>1, <2>2 DEF ProcInv, ProcsOK, TableOK
  <2>4. sub[a] \in alive
    <3>1. born \in Nat /\ born' = born + 1 /\ alive' = alive \cup {born'}
      BY StartFacts
    <3> QED BY <1>2, <2>2, <2>3, <3>1
  <2>5. a \in Tracked /\ ~(mon.pc = "replay" /\ mon.address = a)
    BY <1>2, <2>1, <2>2 DEF Tracked
  <2> QED BY <1>2, <2>1, <2>2, <2>4, <2>5 DEF ActorInv, ActorComesBack
<1>3. ActorComesBack'
  BY <1>2 DEF ActorComesBack
<1> QED BY <1>1, <1>3 DEF ActorInv

LEMMA NextKeepsActorInv ==
    ASSUME ProcInv, ActorInv, [Next]_vars
    PROVE  ActorInv'
<1> USE DEF tables, procs
<1>1. CASE Monitor
  <2>1. CASE MonitorRound \/ MonitorPick \/ MonitorSleep \/ MonitorIsAlive \/ MonitorAlive \/ MonitorStartFails
    <3>1. mon.pc # "replay" /\ UNCHANGED <<sub, tables, procs, stop>>
      BY <2>1 DEF MonitorRound, MonitorPick, MonitorSleep, MonitorIsAlive, MonitorAlive, MonitorStartFails
    <3> QED BY <3>1, NoRecoveryKeeps DEF NoRecovery
  <2>2. CASE MonitorDead
    <3>1. mon.pc # "replay" /\ UNCHANGED <<sub, created, procs, stop>> /\ allocated \subseteq allocated'
      BY <2>2 DEF MonitorDead
    <3>2. stop.pc = "up" /\ AutoRecover = "actor" => known' = known
      BY <2>2 DEF MonitorDead
    <3> QED BY <3>1, <3>2, NoRecoveryKeeps DEF NoRecovery
  <2>3. CASE MonitorStarted
    <3> DEFINE b == mon.address
    <3>1. b \in Address /\ Start(b) /\ UNCHANGED <<tables, hosts, stop>> /\ mon.pc # "replay"
      BY <2>3 DEF MonitorStarted, ProcInv, MonitorOK, Looking
    <3>2. b \in Initial /\ AutoRecover = "actor" /\ stop.pc = "up" => MonitorWaits("replay")
      BY <2>3 DEF MonitorStarted, ActorInv, Remembers
    <3>3. MonitorWaits("replay") => mon'.pc = "replay" /\ mon'.address = b
      BY DEF MonitorWaits, ProcInv, TypeOK, MonitorStates
    <3> HIDE DEF b
    <3> QED BY <3>1, <3>2, <3>3, StartKeepsActor
  <2>4. CASE MonitorReplay
    <3>1. /\ mon.pc = "replay" /\ UNCHANGED <<sub, tables, alive, home, stop>>
          /\ hosts' = IF mon.address \in known THEN hosts \cup {n \in alive : home[n] = mon.address} ELSE hosts
      BY <2>4 DEF MonitorReplay
    <3>2. Remembers'
      BY <3>1 DEF ActorInv, Remembers
    <3>3. ASSUME NEW a \in created \cap Tracked \cap Initial, AutoRecover = "actor", stop.pc = "up", sub[a] \in alive
          PROVE  sub[a] \in hosts'
      <4>1. CASE a = mon.address
        <5>1. a \in known
          BY <3>3 DEF ActorInv, Remembers
        <5>2. home[sub[a]] = a
          BY <3>3 DEF ProcInv, ProcsOK, TableOK, Tracked
        <5> QED BY <3>1, <3>3, <4>1, <5>1, <5>2
      <4>2. CASE a # mon.address
        BY <3>1, <3>3, <4>2 DEF ActorInv, ActorComesBack
      <4> QED BY <4>1, <4>2
    <3>4. ActorComesBack'
      BY <3>1, <3>3 DEF ActorComesBack, Tracked
    <3> QED BY <3>2, <3>4 DEF ActorInv
  <2> QED BY <1>1, <2>1, <2>2, <2>3, <2>4 DEF Monitor
<1>2. ASSUME NEW w \in Waiter, NEW a \in Address, WaitCall(w, a)
      PROVE  ActorInv'
  BY <1>2, NoRecoveryKeeps DEF WaitCall, NoRecovery
<1>3. ASSUME NEW a \in Address, CreateAt(a)
      PROVE  ActorInv'
  <2>1. /\ created' = created \cup {a} /\ hosts' = hosts \cup {sub[a]}
        /\ known' = IF a \in allocated THEN known \cup {a} ELSE known
        /\ UNCHANGED <<sub, allocated, alive, mon, stop>>
    BY <1>3 DEF CreateAt
  <2>2. Remembers'
    BY <2>1 DEF ActorInv, Remembers
  <2>3. ActorComesBack'
    BY <2>1 DEF ActorInv, ActorComesBack, Tracked
  <2> QED BY <2>2, <2>3 DEF ActorInv
<1>4. ASSUME NEW o \in Op, Call(o)
      PROVE  ActorInv'
  <2>1. UNCHANGED <<sub, allocated, known, created, procs, mon, stop>>
    BY <1>4 DEF Call, StopOrRemove, AppendBegin
  <2> QED BY <2>1, NoRecoveryKeeps DEF NoRecovery
<1>5. ASSUME NEW o \in Op, CallStep(o)
      PROVE  ActorInv'
  <2>1. CASE AppendStarted(o)
    <3> DEFINE b == op[o].address
    <3>1. b \in Extra /\ Start(b) /\ UNCHANGED <<tables, hosts, stop, mon>>
      BY <2>1 DEF AppendStarted, ProcInv, OpOK
    <3> HIDE DEF b
    <3> QED BY <3>1, StartKeepsActor, ConstantFacts
  <2>2. CASE RemoveDone(o)
    <3> DEFINE b == op[o].address
    <3>1. UNCHANGED <<allocated, known, created, procs, mon, stop>>
      BY <2>2 DEF RemoveDone
    <3>2. sub' = sub \/ sub' = [sub EXCEPT ![b] = 0]
      BY <2>2 DEF RemoveDone
    <3>3. \A a \in Address : sub'[a] \in {sub[a], 0}
      BY <3>2, Types
    <3> QED BY <3>1, <3>3, NoRecoveryKeeps DEF NoRecovery
  <2>3. CASE StopCall(o) \/ KillProcess(o) \/ AppendFails(o) \/ SyncConfig(o)
    <3>1. UNCHANGED <<sub, tables, hosts, mon, stop>> /\ alive' \subseteq alive
      BY <2>3 DEF StopCall, KillProcess, AppendFails, SyncConfig
    <3> QED BY <3>1, NoRecoveryKeeps DEF NoRecovery
  <2> QED BY <1>5, <2>1, <2>2, <2>3 DEF CallStep
<1>6. CASE StopPool \/ Stop
  <2>1. UNCHANGED <<sub, tables, hosts, mon>> /\ alive' \subseteq alive /\ (stop'.pc = "up" => stop.pc = "up")
    <3>1. stop \in StopStates
      BY Types
    <3> QED BY <1>6, <3>1, Zenon DEF StopPool, Stop, StopMonitor, StopScan, StopKill, StopStates
  <2> QED BY <2>1, NoRecoveryKeeps DEF NoRecovery
<1>7. CASE (\E n \in Proc : Crash(n) \/ WatchMainPool(n)) \/ MainExit \/ UNCHANGED vars
  <2>1. UNCHANGED <<sub, tables, hosts, mon, stop>> /\ alive' \subseteq alive
    BY <1>7 DEF Crash, WatchMainPool, MainExit, vars
  <2> QED BY <2>1, NoRecoveryKeeps DEF NoRecovery
<1> QED BY <1>1, <1>2, <1>3, <1>4, <1>5, <1>6, <1>7 DEF Next, Main, Ended

(* Whenever the monitor has recovered a sub pool the main pool was created *)
(* with, the actor whose creation was acknowledged there is back, however  *)
(* often the process died, in whatever step of the recovery, and whatever  *)
(* sub pools were appended, removed or stopped meanwhile.                  *)
THEOREM ActorAlwaysComesBack == Spec => []ActorComesBack
<1>1. Init => ActorInv
  BY ConstantFacts, Zenon DEF Init, ActorInv, Remembers, ActorComesBack
<1> QED BY <1>1, NextKeepsActorInv, ProcInvariant, PTL DEF Spec, ActorInv

-----------------------------------------------------------------------------
(* The callers of wait_pool_recovered.                                     *)

(* sub_processes gets a process with a new number, or loses entries.       *)
SubMoves ==
    \/ alive' \subseteq alive /\ born' = born /\ \A a \in Address : sub'[a] \in {sub[a], 0}
    \/ \E b \in Address : Start(b)
SameWaiter(w) ==
    /\ wait'[w].seen = wait[w].seen /\ wait'[w].address = wait[w].address
    /\ wait'[w].pc = "idle" <=> wait[w].pc = "idle"

(* A dead process stays dead, and once replaced is never listed again.     *)
LEMMA DeadStaysDead ==
    ASSUME ProcInv, NEW w \in Waiter, WaitOK(w), SubMoves, SameWaiter(w)
    PROVE  WaitOK(w)' /\ (wait[w].pc # "idle" /\ Replaced(w) => Replaced(w)')
<1>1. CASE wait[w].pc = "idle"
  BY <1>1 DEF WaitOK, SameWaiter
<1>2. CASE wait[w].pc # "idle"
  <2> DEFINE n == wait[w].seen
             a == wait[w].address
  <2>1. a \in Address /\ (n # 0 => n \in (1..born) \ alive)
    BY <1>2 DEF WaitOK
  <2>2. wait'[w].seen = n /\ wait'[w].address = a
    BY DEF SameWaiter
  <2> HIDE DEF n, a
  <2>3. (n # 0 => n \in (1..born') \ alive') /\ (n # 0 /\ sub[a] # n => sub'[a] # n)
    <3>1. CASE alive' \subseteq alive /\ born' = born /\ \A b \in Address : sub'[b] \in {sub[b], 0}
      BY <2>1, <3>1
    <3>2. ASSUME NEW b \in Address, Start(b)
          PROVE  (n # 0 => n \in (1..born') \ alive') /\ (n # 0 /\ sub[a] # n => sub'[a] # n)
      <4>1. /\ born \in Nat /\ born' = born + 1 /\ alive' = alive \cup {born'}
            /\ sub'[b] = born' /\ (a # b => sub'[a] = sub[a])
        BY <2>1, <3>2, StartFacts
      <4> QED BY <2>1, <4>1
    <3> QED BY <3>1, <3>2 DEF SubMoves
  <2> QED BY <2>1, <2>2, <2>3 DEF WaitOK, Replaced, n, a
<1> QED BY <1>1, <1>2

(* A step that tells nobody.                                               *)
LEMMA HoldKeeps ==
    ASSUME ProcInv, WaitInv, SubMoves, UNCHANGED <<wait, events>>, stop'.pc = "up" => stop.pc = "up",
           Discovery'
    PROVE  WaitInv'
<1>1. \A w \in Waiter : SameWaiter(w) /\ WaitOK(w)
  BY Zenon DEF SameWaiter, WaitInv
<1>2. \A w \in Waiter : WaitOK(w)' /\ (wait[w].pc # "idle" /\ Replaced(w) => Replaced(w)')
  BY <1>1, DeadStaysDead
<1>3. (\A a \in events : \E w \in Waiter : WaitingAt(w, a))'
  BY DEF WaitInv, WaitingAt
<1>4. ToldMeansReplaced'
  BY <1>2 DEF WaitInv, ToldMeansReplaced, Replaced, Recovering
<1> QED BY <1>2, <1>3, <1>4, Zenon DEF WaitInv

LEMMA SameDiscovery ==
    ASSUME ProcInv, WaitInv, SubMoves, UNCHANGED <<wait, mon>>
    PROVE  Discovery'
<1>1. \A w \in Waiter : SameWaiter(w) /\ WaitOK(w)
  BY DEF SameWaiter, WaitInv
<1>2. \A w \in Waiter : wait[w].pc # "idle" /\ Replaced(w) => Replaced(w)'
  BY <1>1, DeadStaysDead
<1> QED BY <1>2 DEF WaitInv, Discovery, WaitingAt

(* The monitor sets the event it found.                                    *)
LEMMA ReleaseMoves ==
    ASSUME ProcInv, Release, NEW w \in Waiter
    PROVE  /\ SameWaiter(w)
           /\ wait'[w].pc = IF mon.discovered /\ WaitingAt(w, mon.address) THEN "told" ELSE wait[w].pc
<1>1. wait[w] \in WaitStates
  BY Types
<1> QED BY <1>1 DEF Release, SameWaiter, WaitingAt, WaitStates

LEMMA ReleaseKeeps ==
    ASSUME ProcInv, WaitInv, SubMoves, Release, MonitorBack, stop' = stop,
           Recovering /\ mon.discovered => \A w \in Waiter : WaitingAt(w, mon.address) => Replaced(w)'
    PROVE  WaitInv'
<1>1. ASSUME NEW w \in Waiter
      PROVE  /\ SameWaiter(w) /\ WaitOK(w)
             /\ wait'[w].pc = IF mon.discovered /\ WaitingAt(w, mon.address) THEN "told" ELSE wait[w].pc
  BY ReleaseMoves DEF WaitInv
<1>2. \A w \in Waiter : WaitOK(w)' /\ (wait[w].pc # "idle" /\ Replaced(w) => Replaced(w)')
  BY <1>1, DeadStaysDead
<1>3. ASSUME NEW a \in events'
      PROVE  \E w \in Waiter : WaitingAt(w, a)'
  <2>1. a \in events /\ (mon.discovered => a # mon.address)
    BY DEF Release
  <2>2. PICK w \in Waiter : WaitingAt(w, a)
    BY <2>1 DEF WaitInv
  <2>3. wait'[w].pc = "waiting" /\ wait'[w].address = a
    BY <1>1, <2>1, <2>2 DEF WaitingAt, SameWaiter
  <2> QED BY <2>3 DEF WaitingAt
<1>4. Discovery'
  BY DEF Discovery, MonitorBack
<1>5. ASSUME NEW w \in Waiter, wait'[w].pc = "told", Recovering'
      PROVE  Replaced(w)'
  <2>1. Recovering
    BY <1>5 DEF Recovering
  <2>2. CASE mon.discovered /\ WaitingAt(w, mon.address)
    BY <2>1, <2>2
  <2>3. CASE ~(mon.discovered /\ WaitingAt(w, mon.address))
    <3>1. wait[w].pc = "told"
      BY <1>1, <1>5, <2>3
    <3>2. Replaced(w)
      BY <2>1, <3>1 DEF WaitInv, ToldMeansReplaced, Replaced
    <3> QED BY <1>2, <3>1, <3>2
  <2> QED BY <2>2, <2>3
<1>6. ToldMeansReplaced'
  BY <1>5 DEF ToldMeansReplaced, Replaced
<1> QED BY <1>2, <1>3, <1>4, <1>6 DEF WaitInv

LEMMA MonitorKeepsWaitInv ==
    ASSUME ProcInv, WaitInv, Monitor
    PROVE  WaitInv'
<1> USE DEF procs
<1>1. mon \in MonitorStates /\ MonitorOK /\ Discovery /\ \A w \in Waiter : WaitOK(w)
  BY DEF ProcInv, TypeOK, WaitInv
<1>2. CASE MonitorRound
  <2>1. SubMoves /\ UNCHANGED <<wait, events, stop>> /\ mon'.discovered = mon.discovered
    BY <1>1, <1>2 DEF MonitorRound, SubMoves, MonitorStates
  <2>2. Discovery'
    BY <1>1, <1>2, <2>1 DEF Discovery, MonitorRound, Looking
  <2> QED BY <2>1, <2>2, HoldKeeps
<1>3. CASE MonitorPick
  <2>1. SubMoves /\ UNCHANGED <<wait, events, stop>>
    BY <1>3 DEF MonitorPick, SubMoves
  <2>2. mon'.pc = "check" /\ (mon'.discovered => mon'.address \in events)
    <3>1. PICK e \in mon.todo :
            mon' = [pc |-> "check", todo |-> mon.todo \ {e}, address |-> e[1], proc |-> e[2],
                    discovered |-> e[1] \in events]
      BY <1>3, Zenon DEF MonitorPick
    <3>2. mon'.pc = "check" /\ mon'.address = e[1]
      BY <3>1
    <3>3. mon'.discovered <=> e[1] \in events
      BY <3>1, Zenon
    <3> QED BY <3>2, <3>3
  <2>3. Discovery'
    BY <2>1, <2>2 DEF Discovery, WaitInv, WaitingAt, Looking
  <2> QED BY <2>1, <2>3, HoldKeeps
<1>4. CASE MonitorSleep
  <2>1. SubMoves /\ UNCHANGED <<wait, events, stop>> /\ ~mon'.discovered
    BY <1>1, <1>4 DEF MonitorSleep, SubMoves, MonitorWaits, MonitorStates, Discovery, Looking
  <2> QED BY <2>1, HoldKeeps DEF Discovery
<1>5. CASE MonitorIsAlive
  <2>1. SubMoves /\ UNCHANGED <<wait, events, stop, sub>> /\ mon.pc = "check"
    BY <1>5 DEF MonitorIsAlive, SubMoves
  <2>2. /\ mon'.pc = IF mon.proc \in alive THEN "alive" ELSE "dead"
        /\ mon'.address = mon.address /\ mon'.discovered = mon.discovered
    BY <1>1, <1>5 DEF MonitorIsAlive, MonitorWaits, MonitorStates
  <2>3. ASSUME mon.proc \in alive, NEW w \in Waiter, WaitingAt(w, mon.address)
        PROVE  Replaced(w)
    <3>1. sub[mon.address] \in {mon.proc, 0}
      BY <1>1, <2>1, <2>3, Zenon DEF MonitorOK, ProcInv, ProcsOK, AliveOK
    <3>2. wait[w].seen # 0 => wait[w].seen \notin alive
      BY <1>1, <2>3 DEF WaitOK, WaitingAt
    <3> QED BY <2>3, <3>1, <3>2 DEF Replaced, WaitingAt
  <2>4. Discovery'
    BY <1>1, <2>1, <2>2, <2>3, Zenon DEF Discovery, WaitingAt, Replaced, Looking
  <2> QED BY <2>1, <2>4, HoldKeeps
<1>6. CASE MonitorAlive
  <2>1. SubMoves /\ Release /\ MonitorBack /\ stop' = stop /\ sub' = sub /\ mon.pc = "alive"
    BY <1>6 DEF MonitorAlive, SubMoves
  <2>2. mon.discovered => \A w \in Waiter : WaitingAt(w, mon.address) => Replaced(w)
    BY <1>1, <2>1 DEF Discovery
  <2>3. \A w \in Waiter : WaitingAt(w, mon.address) /\ Replaced(w) => Replaced(w)'
    BY <2>1, ReleaseMoves, DeadStaysDead, <1>1 DEF WaitingAt
  <2> QED BY <2>1, <2>2, <2>3, ReleaseKeeps
<1>7. CASE MonitorDead
  <2>1. SubMoves /\ stop' = stop /\ mon.pc = "dead"
    BY <1>7 DEF MonitorDead, SubMoves
  <2>2. CASE ~Recovering /\ Release /\ MonitorBack
    BY <2>1, <2>2, ReleaseKeeps
  <2>3. CASE MonitorBack /\ UNCHANGED <<events, wait>>
    BY <2>1, <2>3, HoldKeeps DEF Discovery, MonitorBack
  <2>4. CASE MonitorWaits("start") /\ UNCHANGED <<events, wait>>
    <3>1. mon'.pc = "start" /\ mon'.address = mon.address /\ mon'.discovered = mon.discovered
      BY <1>1, <2>4 DEF MonitorWaits, MonitorStates
    <3>2. Discovery'
      BY <1>1, <2>4, <3>1 DEF Discovery, WaitingAt, Looking
    <3> QED BY <2>1, <2>4, <3>2, HoldKeeps
  <2> QED BY <1>7, <2>2, <2>3, <2>4 DEF MonitorDead
<1>8. CASE MonitorStarted
  <2> DEFINE a == mon.address
  <2>1. a \in Address /\ Start(a) /\ stop' = stop /\ mon.pc = "start"
    BY <1>1, <1>8 DEF MonitorStarted, MonitorOK, Looking
  <2>2. SubMoves
    BY <2>1 DEF SubMoves
  <2>3. ASSUME NEW w \in Waiter, WaitingAt(w, a), wait'[w].seen = wait[w].seen, wait'[w].address = wait[w].address
        PROVE  Replaced(w)'
    <3>1. born \in Nat /\ born' = born + 1 /\ sub'[a] = born'
      BY <2>1, StartFacts
    <3>2. wait[w].seen # 0 => wait[w].seen \in 1..born
      BY <1>1, <2>3 DEF WaitOK, WaitingAt
    <3>3. wait[w].seen # 0 => wait[w].seen # born'
      BY <3>1, <3>2
    <3> QED BY <2>3, <3>1, <3>3 DEF Replaced, WaitingAt
  <2>4. CASE Release /\ MonitorBack
    <3>1. \A w \in Waiter : WaitingAt(w, a) => Replaced(w)'
      BY <2>3, <2>4, ReleaseMoves DEF SameWaiter
    <3> QED BY <2>1, <2>2, <2>4, <3>1, ReleaseKeeps
  <2>5. CASE MonitorBack /\ UNCHANGED <<events, wait>>
    BY <2>1, <2>2, <2>5, HoldKeeps DEF Discovery, MonitorBack
  <2>6. CASE MonitorWaits("replay") /\ UNCHANGED <<events, wait>>
    <3>1. mon'.pc = "replay" /\ mon'.address = a /\ mon'.discovered = mon.discovered
      BY <1>1, <2>6 DEF MonitorWaits, MonitorStates
    <3>2. Discovery'
      BY <1>1, <2>3, <2>6, <3>1, Zenon DEF Discovery, WaitingAt, Looking
    <3> QED BY <2>1, <2>2, <2>6, <3>2, HoldKeeps
  <2> QED BY <1>8, <2>4, <2>5, <2>6 DEF MonitorStarted
<1>9. CASE MonitorStartFails
  <2>1. SubMoves /\ UNCHANGED <<wait, events, stop>> /\ ~mon'.discovered
    BY <1>9 DEF MonitorStartFails, SubMoves, MonitorBack
  <2> QED BY <2>1, HoldKeeps DEF Discovery
<1>10. CASE MonitorReplay
  <2>1. SubMoves /\ MonitorBack /\ stop' = stop /\ sub' = sub /\ mon.pc = "replay"
    BY <1>10 DEF MonitorReplay, SubMoves
  <2>2. CASE Release
    <3>1. mon.discovered => \A w \in Waiter : WaitingAt(w, mon.address) => Replaced(w)
      BY <1>1, <2>1 DEF Discovery
    <3>2. \A w \in Waiter : WaitingAt(w, mon.address) /\ Replaced(w) => Replaced(w)'
      BY <2>1, <2>2, ReleaseMoves, DeadStaysDead, <1>1 DEF WaitingAt
    <3> QED BY <2>1, <2>2, <3>1, <3>2, ReleaseKeeps
  <2>3. CASE UNCHANGED <<events, wait>>
    BY <2>1, <2>3, HoldKeeps DEF Discovery, MonitorBack
  <2> QED BY <1>10, <2>2, <2>3 DEF MonitorReplay
<1> QED BY <1>2, <1>3, <1>4, <1>5, <1>6, <1>7, <1>8, <1>9, <1>10 DEF Monitor

(* Nobody joins an event the monitor has found if there is one caller.     *)
OneWaiter == \A v, w \in Waiter : v = w
LEMMA WaitCallKeepsWaitInv ==
    ASSUME OneWaiter, ProcInv, WaitInv, NEW w \in Waiter, NEW a \in Address, WaitCall(w, a)
    PROVE  WaitInv'
<1>1. wait \in [Waiter -> WaitStates] /\ wait[w].pc = "idle" /\ UNCHANGED <<sub, alive, born, mon, stop>>
  BY Types DEF WaitCall, procs
<1>2. \A v \in Waiter : v = w
  BY DEF OneWaiter
<1>3. ~mon.discovered /\ events = {}
  BY <1>1, <1>2, Zenon DEF WaitInv, Discovery, WaitingAt
<1> DEFINE s == IF sub[a] \in alive THEN 0 ELSE sub[a]
<1>4. /\ wait'[w].pc = IF AutoRecover # "false" THEN "waiting" ELSE "told"
      /\ wait'[w].address = a /\ wait'[w].seen = s
  BY <1>1 DEF WaitCall
<1>5. s # 0 => s \in (1..born) \ alive
  BY DEF ProcInv, ProcsOK, TableOK
<1> HIDE DEF s
<1>6. (\A v \in Waiter : WaitOK(v))'
  BY <1>1, <1>2, <1>4, <1>5 DEF WaitOK
<1>7. (\A b \in events : \E v \in Waiter : WaitingAt(v, b))'
  <2>1. events' = IF AutoRecover # "false" THEN {a} ELSE {}
    BY <1>3 DEF WaitCall
  <2> QED BY <1>4, <2>1 DEF WaitingAt
<1>8. Discovery' /\ ToldMeansReplaced'
  BY <1>1, <1>2, <1>3, <1>4, Zenon DEF Discovery, ToldMeansReplaced, Recovering
<1> QED BY <1>6, <1>7, <1>8 DEF WaitInv

LEMMA NextKeepsWaitInv ==
    ASSUME OneWaiter, ProcInv, WaitInv, [Next]_vars
    PROVE  WaitInv'
<1>1. ASSUME SubMoves, UNCHANGED <<wait, events, mon>>, stop'.pc = "up" => stop.pc = "up"
      PROVE  WaitInv'
  BY <1>1, SameDiscovery, HoldKeeps
<1>2. ASSUME NEW a \in Address, CreateAt(a)
      PROVE  WaitInv'
  BY <1>1, <1>2 DEF CreateAt, SubMoves
<1>3. ASSUME NEW o \in Op, Call(o)
      PROVE  WaitInv'
  <2>1. UNCHANGED <<sub, procs, mon, events, wait, stop>>
    BY <1>3 DEF Call, StopOrRemove, AppendBegin
  <2> QED BY <1>1, <2>1 DEF SubMoves, procs
<1>4. ASSUME NEW o \in Op, CallStep(o)
      PROVE  WaitInv'
  <2>1. UNCHANGED <<wait, events, mon, stop>>
    BY <1>4 DEF CallStep, StopCall, KillProcess, RemoveDone, AppendStarted, AppendFails, SyncConfig
  <2>2. SubMoves
    <3>1. CASE AppendStarted(o)
      BY <3>1, Types DEF AppendStarted, OpOK, InProgress, SubMoves
    <3>2. CASE RemoveDone(o)
      <4>1. (sub' = sub \/ sub' = [sub EXCEPT ![op[o].address] = 0]) /\ UNCHANGED <<alive, born>>
        BY <3>2 DEF RemoveDone, procs
      <4> QED BY <4>1, Types DEF SubMoves
    <3>3. CASE StopCall(o) \/ KillProcess(o) \/ AppendFails(o) \/ SyncConfig(o)
      BY <3>3 DEF StopCall, KillProcess, AppendFails, SyncConfig, SubMoves, procs
    <3> QED BY <1>4, <3>1, <3>2, <3>3 DEF CallStep
  <2> QED BY <1>1, <2>1, <2>2
<1>5. CASE StopPool \/ Stop
  <2>1. UNCHANGED <<sub, born, mon, events, wait>> /\ alive' \subseteq alive
    BY <1>5 DEF StopPool, Stop, StopMonitor, StopScan, StopKill, procs
  <2>2. stop'.pc = "up" => stop.pc = "up"
    <3>1. stop \in StopStates
      BY Types
    <3> QED BY <1>5, <3>1, Zenon DEF StopPool, Stop, StopMonitor, StopScan, StopKill, StopStates
  <2> QED BY <1>1, <2>1, <2>2 DEF SubMoves
<1>6. CASE (\E n \in Proc : Crash(n) \/ WatchMainPool(n)) \/ MainExit \/ UNCHANGED vars
  <2>1. UNCHANGED <<sub, born, mon, events, wait, stop>> /\ alive' \subseteq alive
    BY <1>6 DEF Crash, WatchMainPool, MainExit, vars, procs
  <2> QED BY <1>1, <2>1 DEF SubMoves
<1> QED BY <1>2, <1>3, <1>4, <1>5, <1>6, MonitorKeepsWaitInv, WaitCallKeepsWaitInv DEF Next, Main, Ended

(* A caller of wait_pool_recovered who saw a dead process and is answered  *)
(* while the pool is up finds that process replaced, or its pool removed,  *)
(* whatever crashes, failed starts and calls happen meanwhile, as long as  *)
(* it is the only caller.  With a second one this is false.                *)
THEOREM ToldAlwaysMeansReplaced == OneWaiter /\ Spec => []ToldMeansReplaced
<1> SUFFICES ASSUME OneWaiter
             PROVE  Spec => []ToldMeansReplaced
  OBVIOUS
<1>1. Init => WaitInv
  <2>1. Init => ~mon.discovered /\ events = {} /\ \A w \in Waiter : wait[w].pc = "idle"
    <3>1. Init => /\ mon = [pc |-> "top", todo |-> {}, address |-> NoAddress, proc |-> 0, discovered |-> FALSE]
                  /\ events = {}
                  /\ wait = [w \in Waiter |-> [pc |-> "idle", address |-> NoAddress, seen |-> 0]]
      BY Zenon DEF Init
    <3> QED BY <3>1
  <2> QED BY <2>1, Zenon DEF WaitInv, WaitOK, Discovery, ToldMeansReplaced
<1> QED BY <1>1, NextKeepsWaitInv, ProcInvariant, PTL DEF Spec, WaitInv

-----------------------------------------------------------------------------
(* The stop of the whole pool.                                             *)

(* A call stays what it is, and nothing happens to the calls at rest after *)
(* stop has begun.                                                         *)
CallsGoOn ==
    /\ \A o \in Op : op[o].edit = "remove" => op'[o].edit = "remove"
    /\ stop.pc # "up" /\ ~stop.busy => op' = op
LEMMA UnremovedBefore ==
    ASSUME CallsGoOn, Unremoved'
    PROVE  Unremoved
BY DEF CallsGoOn, Unremoved

(* A step that starts no process and removes no entry.                     *)
LEMMA StopHolds ==
    ASSUME StopInv, UNCHANGED <<sub, home, stop>>, alive' \subseteq alive, CallsGoOn, mon.pc = "done" => mon' = mon
    PROVE  StopInv'
<1>1. Unremoved' => Unremoved
  BY UnremovedBefore
<1>2. (Unremoved => \A n \in alive : sub[home[n]] = n)'
  BY <1>1 DEF StopInv
<1>3. (stop.pc # "up" /\ ~stop.busy => \A o \in Op : AtRest(o))'
  BY DEF StopInv, CallsGoOn, AtRest
<1>4. (stop.pc \in {"scan", "kill", "done"} => mon.pc = "done")'
  BY DEF StopInv
<1>5. (stop.pc = "kill" /\ ~stop.busy /\ Unremoved => alive \subseteq stop.targets)'
  BY <1>1 DEF StopInv
<1>6. StopLeavesNothing'
  BY <1>1 DEF StopInv, StopLeavesNothing, Unremoved
<1> QED BY <1>2, <1>3, <1>4, <1>5, <1>6, Zenon DEF StopInv

(* A start, which the monitor is in only before stop goes on, and a call   *)
(* only if stop found it under way.                                        *)
LEMMA StopStarts ==
    ASSUME ProcInv, StopInv, NEW b \in Address, Start(b), UNCHANGED stop, CallsGoOn, mon.pc = "done" => mon' = mon,
           stop.pc \in {"scan", "kill", "done"} => stop.busy
    PROVE  StopInv'
<1>1. Unremoved' => Unremoved
  BY UnremovedBefore
<1>2. ASSUME Unremoved', NEW n \in alive'
      PROVE  sub'[home'[n]] = n
  <2>1. /\ alive' = alive \cup {born'} /\ born' \notin alive /\ alive \subseteq Proc
        /\ sub'[b] = born' /\ (\A a \in Address : a # b => sub'[a] = sub[a])
        /\ home'[born'] = b /\ (\A m \in Proc : m # born' => home'[m] = home[m])
        /\ \A m \in alive : home[m] # b
    BY StartFacts, Types
  <2>2. CASE n = born'
    BY <2>1, <2>2, Zenon
  <2>3. CASE n \in alive
    <3>1. home'[n] = home[n] /\ home[n] # b /\ home[n] \in Address
      BY <2>1, <2>3 DEF ProcInv, ProcsOK, AliveOK
    <3>2. sub[home[n]] = n
      BY <1>1, <1>2, <2>3, Zenon DEF StopInv
    <3> QED BY <2>1, <3>1, <3>2
  <2> QED BY <1>2, <2>1, <2>2, <2>3
<1>3. (stop.pc # "up" /\ ~stop.busy => \A o \in Op : AtRest(o))'
  BY Zenon DEF StopInv, CallsGoOn, AtRest
<1>4. (stop.pc \in {"scan", "kill", "done"} => mon.pc = "done")'
  BY DEF StopInv
<1>5. StopLeavesNothing'
  BY DEF StopLeavesNothing
<1> QED BY <1>2, <1>3, <1>4, <1>5 DEF StopInv

LEMMA StopKeepsStopInv ==
    ASSUME ProcInv, StopInv, StopPool \/ Stop
    PROVE  StopInv'
<1>1. stop \in StopStates
  BY Types
<1>2. CASE StopPool
  <2>1. /\ UNCHANGED <<sub, home, alive, mon, op>> /\ stop'.pc = "monitor"
        /\ stop'.busy = \E o \in Op : op[o].pc \notin {"idle", "ok", "error"}
    BY <1>1, <1>2 DEF StopPool, StopStates, procs
  <2>2. (stop.pc # "up" /\ ~stop.busy => \A o \in Op : AtRest(o))'
    BY <2>1 DEF AtRest
  <2> QED BY <2>1, <2>2 DEF StopInv, StopLeavesNothing, Unremoved
<1>3. CASE StopMonitor
  <2>1. /\ UNCHANGED <<sub, home, alive, mon, op>> /\ stop'.pc = "scan" /\ stop'.busy = stop.busy
        /\ mon.pc = "done" /\ stop.pc # "up"
    BY <1>1, <1>3 DEF StopMonitor, StopStates, procs
  <2> QED BY <2>1, Zenon DEF StopInv, StopLeavesNothing, Unremoved, AtRest
<1>4. CASE StopScan
  <2>1. /\ UNCHANGED <<sub, home, alive, mon, op>> /\ stop'.busy = stop.busy
        /\ stop.pc = "scan" /\ stop'.pc \in {"kill", "error"}
        /\ stop'.pc = "kill" => stop'.targets = {sub[a] : a \in Tracked} \cap alive
    BY <1>1, <1>4 DEF StopScan, StopStates, procs
  <2>2. ASSUME Unremoved, NEW n \in alive
        PROVE  n \in {sub[a] : a \in Tracked}
    <3>1. home[n] \in Address /\ sub[home[n]] = n /\ n # 0
      BY <2>2, Types, ConstantFacts DEF ProcInv, ProcsOK, AliveOK, StopInv, Proc
    <3> QED BY <3>1 DEF Tracked
  <2> QED BY <2>1, <2>2 DEF StopInv, StopLeavesNothing, Unremoved, AtRest
<1>5. CASE StopKill
  <2>1. /\ UNCHANGED <<sub, home, mon, op>> /\ stop'.busy = stop.busy /\ alive' = alive \ stop.targets
        /\ stop.pc = "kill" /\ stop'.pc = "done"
    BY <1>1, <1>5 DEF StopKill, StopStates
  <2> QED BY <2>1, Zenon DEF StopInv, StopLeavesNothing, Unremoved, AtRest
<1> QED BY <1>2, <1>3, <1>4, <1>5 DEF Stop

LEMMA NextKeepsStopInv ==
    ASSUME ProcInv, StopInv, [Next]_vars
    PROVE  StopInv'
<1> USE DEF procs
<1>1. ASSUME op' = op
      PROVE  CallsGoOn
  BY <1>1 DEF CallsGoOn
<1>2. CASE Monitor
  <2>1. CASE MonitorStarted
    <3>1. mon.address \in Address /\ Start(mon.address) /\ UNCHANGED <<stop, op>> /\ mon.pc = "start"
      BY <2>1 DEF MonitorStarted, ProcInv, MonitorOK, Looking
    <3> QED BY <1>1, <3>1, StopStarts DEF StopInv
  <2>2. CASE ~MonitorStarted
    <3>1. UNCHANGED <<sub, home, alive, stop, op>> /\ mon.pc # "done"
      BY <1>2, <2>2 DEF Monitor, MonitorRound, MonitorPick, MonitorSleep, MonitorIsAlive, MonitorAlive, MonitorDead,
                        MonitorStartFails, MonitorReplay
    <3> QED BY <1>1, <3>1, StopHolds
  <2> QED BY <2>1, <2>2
<1>3. ASSUME NEW w \in Waiter, NEW a \in Address, WaitCall(w, a)
      PROVE  StopInv'
  BY <1>1, <1>3, StopHolds DEF WaitCall
<1>4. ASSUME NEW a \in Address, CreateAt(a)
      PROVE  StopInv'
  BY <1>1, <1>4, StopHolds, Zenon DEF CreateAt
<1>5. ASSUME NEW o \in Op, Call(o)
      PROVE  StopInv'
  <2>1. UNCHANGED <<sub, procs, mon, stop>> /\ stop.pc = "up" /\ op[o].pc = "idle"
    BY <1>5, Zenon DEF Call, StopOrRemove, AppendBegin
  <2>2. \A p \in Op : p # o => op'[p] = op[p]
    BY <1>5, Types, Zenon DEF Call, StopOrRemove, AppendBegin
  <2>3. op[o].edit = "none"
    BY <2>1 DEF ProcInv, OpOK
  <2>4. CallsGoOn
    BY <2>1, <2>2, <2>3 DEF CallsGoOn
  <2> QED BY <2>1, <2>4, StopHolds, Zenon
<1>6. ASSUME NEW o \in Op, CallStep(o)
      PROVE  StopInv'
  <2>1. UNCHANGED <<mon, stop>> /\ ~AtRest(o)
    BY <1>6 DEF CallStep, StopCall, KillProcess, RemoveDone, AppendStarted, AppendFails, SyncConfig, AtRest
  <2>2. stop.pc # "up" => stop.busy
    BY <2>1, Zenon DEF StopInv
  <2>3. op' = op \/ \E pc \in {"kill", "ok", "sync", "error"} : op' = [op EXCEPT ![o].pc = pc]
    BY <1>6 DEF CallStep, StopCall, KillProcess, RemoveDone, AppendStarted, AppendFails, SyncConfig
  <2>4. \A p \in Op : op'[p].edit = op[p].edit
    <3>1. op \in [Op -> OpStates]
      BY Types
    <3> QED BY <2>3, <3>1 DEF OpStates
  <2>5. CallsGoOn
    BY <2>2, <2>4 DEF CallsGoOn
  <2>6. CASE AppendStarted(o)
    <3>1. op[o].address \in Address /\ Start(op[o].address)
      BY <2>6, Types DEF AppendStarted, OpOK, InProgress
    <3> QED BY <2>1, <2>2, <2>5, <3>1, StopStarts
  <2>7. CASE RemoveDone(o) /\ sub' # sub
    <3>1. ~Unremoved'
      BY <2>4, <2>7 DEF RemoveDone, Unremoved
    <3>2. UNCHANGED alive
      BY <2>7 DEF RemoveDone
    <3> QED BY <2>1, <2>2, <3>1, <3>2, Zenon DEF StopInv, StopLeavesNothing, Unremoved
  <2>8. CASE ~AppendStarted(o) /\ ~(RemoveDone(o) /\ sub' # sub)
    <3>1. UNCHANGED <<sub, home>> /\ alive' \subseteq alive
      BY <1>6, <2>8 DEF CallStep, StopCall, KillProcess, RemoveDone, AppendFails, SyncConfig
    <3> QED BY <2>1, <2>5, <3>1, StopHolds
  <2> QED BY <2>6, <2>7, <2>8
<1>7. CASE (\E n \in Proc : Crash(n) \/ WatchMainPool(n)) \/ MainExit \/ UNCHANGED vars
  <2>1. UNCHANGED <<sub, home, stop, mon, op>> /\ alive' \subseteq alive
    BY <1>7 DEF Crash, WatchMainPool, MainExit, vars
  <2> QED BY <1>1, <2>1, StopHolds
<1> QED BY <1>2, <1>3, <1>4, <1>5, <1>6, <1>7, StopKeepsStopInv DEF Next, Main, Ended

(* When the stop of a pool is done, none of its processes is running,      *)
(* unless a call was changing the set of sub pools when it began or a sub  *)
(* pool was removed: a recovery under way is waited for, and what it       *)
(* started is stopped.                                                     *)
THEOREM StopAlwaysLeavesNothing == Spec => []StopLeavesNothing
<1>1. Init => StopInv
  <2> SUFFICES ASSUME Init
               PROVE  StopInv
    OBVIOUS
  <2>1. stop.pc = "up" /\ \A n \in alive : sub[home[n]] = n
    <3>1. stop = [pc |-> "up", size |-> 0, targets |-> {}, busy |-> FALSE]
      BY Zenon DEF Init
    <3> QED BY <3>1, InitProcs, Zenon
  <2> QED BY <2>1 DEF StopInv, StopLeavesNothing
<1> QED BY <1>1, NextKeepsStopInv, ProcInvariant, PTL DEF Spec, StopInv
=============================================================================
