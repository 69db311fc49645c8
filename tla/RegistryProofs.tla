--------------------------- MODULE RegistryProofs ---------------------------
(***************************************************************************)
(* NoActorForgotten for every set of pools, actors and requests: no crash, *)
(* failed hook, cancellation or interleaving of requests makes main forget *)
(* an actor whose creation was acknowledged and that nobody destroyed.     *)
(*                                                                         *)
(* A step may drop an entry only for an actor somebody asked to destroy    *)
(* (EntriesKept), and may report a creation only once it is recorded       *)
(* (Justified).                                                            *)
(***************************************************************************)
EXTENDS ActorPoolProofs

EntriesKept ==
    \A p \in Pool, a \in Actor :
        allocated[p][a] # NoJob => allocated'[p][a] # NoJob \/ DestroyIssued(a)'

Justified(j) ==
    Reported(j)' => \/ Reported(j) /\ Home(j)' = Home(j)
                    \/ allocated'[Home(j)'][req'[j].actor] # NoJob

IssuedKept == \A j \in Job : Issued(j) => Issued(j)' /\ req'[j] = req[j]

(* A reported creation was issued, and names a pool and an actor.          *)
LEMMA ReportedShape ==
    ASSUME TypeInv, NEW j \in Job, Reported(j)
    PROVE  Issued(j) /\ req[j].actor \in Actor /\ Home(j) \in Pool
<1>1. pc[<<j, 1>>] # "none"
  BY DEF Reported
<1>2. req[j] \in Requests /\ JobOK(j)
  BY <1>1 DEF TypeInv, TypeOK, TaskOK, JobOK
<1>3. at[<<j, 1>>] \in Pool /\ at[<<j, 2>>] \in Pool
  <2>1. <<j, 1>> \in Task /\ <<j, 2>> \in Task
    BY DEF Task
  <2> QED BY <2>1 DEF TypeInv, TypeOK
<1> QED BY <1>1, <1>2, <1>3, ActorPoolAssumption DEF Issued, Home

(* Together the three facts preserve the invariant.                        *)
LEMMA ReportedKeeps ==
    ASSUME TypeInv, TypeInv', ReportedOK, EntriesKept, IssuedKept,
           \A j \in Job : Justified(j)
    PROVE  ReportedOK'
<1> SUFFICES ASSUME NEW j \in Job, Reported(j)', ~DestroyIssued(req[j].actor)'
             PROVE  allocated'[Home(j)'][req'[j].actor] # NoJob
  BY DEF ReportedOK
<1>1. CASE Reported(j) /\ Home(j)' = Home(j)
  <2>1. req'[j] = req[j] /\ req[j].actor \in Actor /\ Home(j) \in Pool
    BY <1>1, ReportedShape DEF IssuedKept
  <2>2. ~DestroyIssued(req[j].actor)
    BY <2>1 DEF DestroyIssued, IssuedKept
  <2>3. allocated[Home(j)][req[j].actor] # NoJob
    BY <1>1, <2>2 DEF ReportedOK
  <2> QED BY <1>1, <2>1, <2>3 DEF EntriesKept
<1>2. CASE ~Reported(j) /\ allocated'[Home(j)'][req'[j].actor] # NoJob
  BY <1>2
<1> QED BY <1>1, <1>2 DEF Justified

(* Requests are never withdrawn.                                           *)
LEMMA IssuedSame ==
    ASSUME TypeInv, TypeInv', UNCHANGED req
    PROVE  IssuedKept
<1> SUFFICES ASSUME NEW j \in Job, Issued(j)
             PROVE  Issued(j)' /\ req'[j] = req[j]
  BY DEF IssuedKept
<1>1. JobOK(j) /\ JobOK(j)'
  BY DEF TypeInv, TaskOK
<1> QED BY <1>1 DEF JobOK, Issued
-----------------------------------------------------------------------------
(* How a step of a task changes what is reported.                          *)

(* A handler that returns reports nothing new, unless it is the creation   *)
(* itself or the notification of one.                                      *)
LEMMA FinishReports ==
    ASSUME TypeInv, NEW t \in Task, pc[t] # "none", NEW r, Finish(t, r), UNCHANGED req,
           NEW j \in Job, Reported(j)',
           t = <<j, 1>> => r # "ok" \/ req[j].op # "create" \/ Reported(j),
           t = <<j, 2>> => pc[<<j, 1>>] # "notify" \/ req[j].op # "create"
    PROVE  Reported(j) /\ Home(j)' = Home(j)
<1> PICK s \in Job \cup {Monitor}, l \in 1..3 : t = <<s, l>>
  BY TaskShape
<1>1. <<j, 1>> \in Task /\ <<j, 2>> \in Task /\ <<j, 1>> # <<j, 2>>
  BY DEF Task
<1>2. /\ \A x \in Task : pc'[x] = IF x = t THEN "done" ELSE pc[x]
      /\ \A x \in Task : res'[x] = IF x = t THEN r ELSE res[x]
      /\ at' = at
  BY DEF TypeInv, TypeOK, Finish
<1>3. Home(j)' = Home(j)
  BY <1>1, <1>2 DEF Home
<1>4. CASE t = <<j, 1>>
  BY <1>1, <1>2, <1>3, <1>4 DEF Reported
<1>5. CASE t = <<j, 2>>
  BY <1>1, <1>2, <1>3, <1>5 DEF Reported
<1>6. CASE t # <<j, 1>> /\ t # <<j, 2>>
  BY <1>1, <1>2, <1>3, <1>6 DEF Reported
<1> QED BY <1>4, <1>5, <1>6

(* A handler that enters a hook reports nothing.                           *)
LEMMA SuspendReports ==
    ASSUME TypeInv, NEW t \in Task, pc[t] = "sent", NEW v \in {"post", "pre", "run"},
           Suspend(t, v), UNCHANGED req, NEW j \in Job, Reported(j)'
    PROVE  Reported(j) /\ Home(j)' = Home(j)
<1>1. <<j, 1>> \in Task /\ <<j, 2>> \in Task /\ <<j, 1>> # <<j, 2>>
  BY DEF Task
<1>2. /\ \A x \in Task : pc'[x] = IF x = t THEN v ELSE pc[x]
      /\ res' = res /\ at' = at
  BY DEF TypeInv, TypeOK, Suspend
<1>3. Home(j)' = Home(j)
  BY <1>1, <1>2 DEF Home
<1> QED BY <1>1, <1>2, <1>3 DEF Reported

(* A handler that sends a message on reports nothing.                      *)
LEMMA CallReports ==
    ASSUME TypeInv, NEW t \in Task, pc[t] \in {"sent", "post", "pre"}, NEW p, NEW r,
           NEW v \in {"call", "notify"},
           CallPool(t, p, v, r), UNCHANGED req, NEW j \in Job, Reported(j)'
    PROVE  Reported(j) /\ Home(j)' = Home(j)
<1> PICK s \in Job \cup {Monitor}, l \in 1..3 : t = <<s, l>>
  BY TaskShape
<1>1. /\ <<j, 1>> \in Task /\ <<j, 2>> \in Task /\ <<j, 1>> # <<j, 2>>
      /\ Child(t) = <<s, l + 1>> /\ Child(t) # <<j, 1>> /\ Child(t) # t
      /\ Child(t) = <<j, 2>> <=> t = <<j, 1>>
  BY DEF Task, Child
<1>2. /\ \A x \in Task : pc'[x] = IF x = Child(t) THEN "sent" ELSE IF x = t THEN v ELSE pc[x]
      /\ \A x \in Task : x # t => res'[x] = res[x]
      /\ \A x \in Task : x # Child(t) => at'[x] = at[x]
  BY Zenon DEF TypeInv, TypeOK, CallPool
<1>3. t # <<j, 1>>
  BY <1>1, <1>2 DEF Reported
<1>4. /\ pc'[<<j, 1>>] = pc[<<j, 1>>] /\ res'[<<j, 1>>] = res[<<j, 1>>]
      /\ at'[<<j, 1>>] = at[<<j, 1>>] /\ at'[<<j, 2>>] = at[<<j, 2>>]
      /\ pc'[<<j, 2>>] = IF t = <<j, 2>> THEN v ELSE pc[<<j, 2>>]
  BY <1>1, <1>2, <1>3
<1>5. Home(j)' = Home(j)
  BY <1>4 DEF Home
<1> QED BY <1>4, <1>5 DEF Reported
-----------------------------------------------------------------------------
(* How a step changes the tables.                                          *)

(* Storing a message drops no entry.                                       *)
LEMMA RecordEntries ==
    ASSUME TypeInv, NEW p \in Pool, NEW k \in Key, NEW j \in Job, Record(p, k, j)
    PROVE  EntriesKept /\ allocated'[p][k] # NoJob
<1>1. allocated \in [Pool -> [Key -> Job \cup {NoJob}]] /\ allocated' = [allocated EXCEPT ![p][k] = j]
  BY DEF TypeInv, TypeOK, Record
<1>2. \A q \in Pool, n \in Key : allocated'[q][n] = IF q = p /\ n = k THEN j ELSE allocated[q][n]
  BY <1>1
<1>3. j # NoJob /\ Actor \subseteq Key
  BY ActorPoolAssumption DEF Key
<1> QED BY <1>2, <1>3 DEF EntriesKept

(* Popping None, or an actor somebody destroys.                            *)
LEMMA PopEntries ==
    ASSUME TypeInv, NEW p \in Pool, NEW k \in Key, Pop(p, k),
           k = Placeholder \/ DestroyIssued(k)'
    PROVE  EntriesKept
<1>1. /\ allocated \in [Pool -> [Key -> Job \cup {NoJob}]]
      /\ allocated' = [allocated EXCEPT ![p][k] = NoJob]
  BY DEF TypeInv, TypeOK, Pop
<1>2. \A q \in Pool, n \in Key : allocated'[q][n] = IF q = p /\ n = k THEN NoJob ELSE allocated[q][n]
  BY <1>1
<1>3. Actor \subseteq Key /\ Placeholder \notin Actor
  BY ActorPoolAssumption DEF Key
<1> QED BY <1>2, <1>3 DEF EntriesKept

(* The end of a creation pops None and records a success.                  *)
LEMMA EndEntries ==
    ASSUME TypeInv, NEW p \in Pool, NEW a \in Actor, NEW j \in Job, NEW ok \in BOOLEAN,
           EndCreation(p, a, j, ok)
    PROVE  EntriesKept /\ (ok => allocated'[p][a] # NoJob)
<1> DEFINE d == [k \in Key |-> CASE k = Placeholder -> NoJob
                                [] k = a /\ ok -> j
                                [] OTHER -> allocated[p][k]]
<1>1. /\ allocated \in [Pool -> [Key -> Job \cup {NoJob}]]
      /\ allocated' = [allocated EXCEPT ![p] = d]
  BY DEF TypeInv, TypeOK, EndCreation
<1>2. \A k \in Actor : d[k] = IF k = a /\ ok THEN j ELSE allocated[p][k]
  BY ActorPoolAssumption DEF Key
<1> HIDE DEF d
<1>3. \A q \in Pool : allocated'[q] = IF q = p THEN d ELSE allocated[q]
  BY <1>1
<1>4. j # NoJob
  BY ActorPoolAssumption
<1> QED BY <1>2, <1>3, <1>4 DEF EntriesKept

(* Tables nobody touched.                                                  *)
LEMMA SameEntries ==
    ASSUME UNCHANGED allocated
    PROVE  EntriesKept
BY DEF EntriesKept
-----------------------------------------------------------------------------
(* t handles the notification of a creation whose sender waits for it.     *)
Notification(t) ==
    \E j \in Job : t = <<j, 2>> /\ pc[<<j, 1>>] = "notify" /\ req[j].op = "create"

(* All that can happen to it is that main records the creation.            *)
LEMMA NotificationStep ==
    ASSUME TypeInv, NotifiedOK, NEW t \in Task, Notification(t), TaskStep(t) \/ CancelCall(t)
    PROVE  MainRegister(t)
<1> PICK j \in Job : t = <<j, 2>> /\ pc[<<j, 1>>] = "notify" /\ req[j].op = "create"
  BY DEF Notification
<1>1. at[t] = Main /\ pc[t] \in {"sent", "done"} /\ JobOK(j)
  BY DEF NotifiedOK, TypeInv, TaskOK
<1>2. Parent(t) = <<j, 1>> /\ Req(t) = req[j] /\ t[2] = 2
  BY ActorPoolAssumption DEF Parent, Req, Source
<1>3. Op(t) = "register"
  BY <1>1, <1>2 DEF Op, JobOK
<1>4. Main \notin Sub
  BY MainIsPool
<1> QED BY <1>1, <1>3, <1>4, Zenon
        DEF TaskStep, MainCreateStart, MainCreatePosted, MainCreateReply, SubCreateStart,
            SubCreatePosted, SubNotified, MainDestroyStart, MainDestroyPre, MainForwardReply,
            SubDestroyStart, SubDestroyPre, SendLocal, SendReturn, SendElsewhere, CallLost,
            CancelCall

(* A handler returns: no notification is disturbed, and what it reports is *)
(* recorded.                                                               *)
LEMMA FinishGood ==
    ASSUME TypeInv, NotifiedOK, NEW t \in Task, pc[t] # "none", ~Notification(t), NEW r,
           Finish(t, r), UNCHANGED req,
           \A j \in Job : t = <<j, 1>> => \/ r # "ok" \/ req[j].op # "create" \/ Reported(j)
                                         \/ allocated'[Home(j)][req[j].actor] # NoJob
    PROVE  NotifiedOK' /\ \A j \in Job : Justified(j)
<1>1. /\ \A x \in Task : pc'[x] = IF x = t THEN "done" ELSE pc[x]
      /\ at' = at
  BY DEF TypeInv, TypeOK, Finish
<1>2. ASSUME NEW j \in Job
      PROVE  <<j, 1>> \in Task /\ <<j, 2>> \in Task /\ <<j, 1>> # <<j, 2>>
  BY DEF Task
<1>3. NotifiedOK'
  BY <1>1, <1>2 DEF NotifiedOK
<1>4. ASSUME NEW j \in Job
      PROVE  Justified(j)
  <2>1. Home(j)' = Home(j)
    BY <1>1, <1>2 DEF Home
  <2>2. CASE t = <<j, 1>> /\ allocated'[Home(j)][req[j].actor] # NoJob
    BY <2>1, <2>2 DEF Justified
  <2>3. CASE ~(t = <<j, 1>> /\ allocated'[Home(j)][req[j].actor] # NoJob)
    BY <2>3, FinishReports DEF Justified, Notification
  <2> QED BY <2>2, <2>3
<1> QED BY <1>3, <1>4

(* ... or enters a hook.                                                   *)
LEMMA SuspendGood ==
    ASSUME TypeInv, NotifiedOK, NEW t \in Task, pc[t] = "sent", ~Notification(t),
           NEW v \in {"post", "pre", "run"}, Suspend(t, v), UNCHANGED req
    PROVE  NotifiedOK' /\ \A j \in Job : Justified(j)
<1>1. /\ \A x \in Task : pc'[x] = IF x = t THEN v ELSE pc[x]
      /\ at' = at
  BY DEF TypeInv, TypeOK, Suspend
<1>2. ASSUME NEW j \in Job
      PROVE  <<j, 1>> \in Task /\ <<j, 2>> \in Task /\ <<j, 1>> # <<j, 2>>
  BY DEF Task
<1>3. NotifiedOK'
  BY <1>1, <1>2 DEF NotifiedOK, Notification
<1> QED BY <1>3, SuspendReports DEF Justified

(* ... or sends a message on.                                              *)
LEMMA CallGood ==
    ASSUME TypeInv, NotifiedOK, NEW t \in Task, pc[t] \in {"sent", "post", "pre"},
           ~Notification(t), NEW p, NEW r, NEW v \in {"call", "notify"},
           v = "notify" => p = Main,
           CallPool(t, p, v, r), UNCHANGED req
    PROVE  NotifiedOK' /\ \A j \in Job : Justified(j)
<1> PICK s \in Job \cup {Monitor}, l \in 1..3 : t = <<s, l>>
  BY TaskShape
<1>1. ASSUME NEW j \in Job, pc'[<<j, 1>>] = "notify", req[j].op = "create"
      PROVE  at'[<<j, 2>>] = Main /\ pc'[<<j, 2>>] \in {"sent", "done"}
  <2>1. /\ <<j, 1>> \in Task /\ <<j, 2>> \in Task /\ <<j, 1>> # <<j, 2>>
        /\ Child(t) # <<j, 1>> /\ Child(t) # t
        /\ Child(t) = <<j, 2>> <=> t = <<j, 1>>
    BY <1>1 DEF Task, Child
  <2>2. /\ \A x \in Task : pc'[x] = IF x = Child(t) THEN "sent" ELSE IF x = t THEN v ELSE pc[x]
        /\ \A x \in Task : at'[x] = IF x = Child(t) THEN p ELSE at[x]
    BY Zenon DEF TypeInv, TypeOK, CallPool
  <2>3. CASE t = <<j, 1>>
    BY <1>1, <2>1, <2>2, <2>3
  <2>4. CASE t # <<j, 1>>
    BY <1>1, <2>1, <2>2, <2>4 DEF NotifiedOK, Notification
  <2> QED BY <2>3, <2>4
<1>2. NotifiedOK'
  BY <1>1 DEF NotifiedOK
<1> QED BY <1>2, CallReports DEF Justified
-----------------------------------------------------------------------------
(* The actions.                                                            *)
Good == EntriesKept /\ NotifiedOK' /\ \A j \in Job : Justified(j)

(* The first task of a job works for that job's request.                   *)
LEMMA FirstTask ==
    ASSUME NEW j \in Job
    PROVE  /\ Source(<<j, 1>>) = j /\ Req(<<j, 1>>) = req[j] /\ ActorOf(<<j, 1>>) = req[j].actor
           /\ Op(<<j, 1>>) = req[j].op /\ Child(<<j, 1>>) = <<j, 2>>
           /\ ~FromMain(<<j, 1>>)
<1>1. <<j, 1>>[1] = j /\ <<j, 1>>[2] = 1 /\ j # Monitor /\ <<j, 1>> # <<Monitor, 1>>
  BY ActorPoolAssumption
<1>2. Source(<<j, 1>>) = j /\ Child(<<j, 1>>) = <<j, 2>> /\ ~FromMain(<<j, 1>>)
  BY <1>1 DEF Source, Child, FromMain
<1>3. Req(<<j, 1>>) = req[j]
  BY <1>2 DEF Req
<1> QED BY <1>1, <1>2, <1>3 DEF ActorOf, Op

(* A task that destroys an actor works for a client that asked for it.     *)
LEMMA DestroyWasIssued ==
    ASSUME TypeInv, TypeInv', NEW t \in Task, pc[t] # "none", Req(t).op = "destroy", UNCHANGED req
    PROVE  DestroyIssued(ActorOf(t))'
<1> PICK s \in Job \cup {Monitor}, l \in 1..3 : t = <<s, l>>
  BY TaskShape
<1>1. s # Monitor
  <2> SUFFICES ASSUME s = Monitor PROVE FALSE
    OBVIOUS
  <2>1. Req(t) = req[mon.job]
    BY DEF Req, Source
  <2>2. pc[<<Monitor, l>>] # "none" => req[mon.job].op = "create"
    BY DEF TypeInv, MonitorOK
  <2> QED BY <2>1, <2>2
<1>2. s \in Job /\ Req(t) = req[s] /\ ActorOf(t) = req[s].actor
  BY <1>1 DEF Req, ActorOf, Source
<1>3. req[s] # NoRequest
  <2>1. JobOK(s) /\ (l = 1 \/ l = 2 \/ l = 3)
    BY <1>2 DEF TypeInv, TaskOK
  <2> QED BY <2>1 DEF JobOK
<1>4. Issued(s)'
  <2>1. JobOK(s)'
    BY <1>2 DEF TypeInv, TaskOK
  <2> QED BY <1>3, <2>1 DEF JobOK, Issued
<1>5. \E j \in Job : Issued(j)' /\ req'[j].op = "destroy" /\ req'[j].actor = ActorOf(t)
  BY <1>2, <1>4
<1>6. ActorOf(t)' = ActorOf(t)
  BY <1>1 DEF ActorOf, Req, Source
<1> QED BY <1>5, <1>6 DEF DestroyIssued

(* MainActorPoolBase.create_actor up to its first await.                   *)
LEMMA MainCreateGood ==
    ASSUME TypeInv, NotifiedOK, NEW t \in Task, ~Notification(t), MainCreateStart(t)
    PROVE  Good
<1>1. /\ pc[t] = "sent" /\ at[t] = Main /\ UNCHANGED req
      /\ Source(t) \in Job /\ Placeholder \in Key /\ Main \in Pool /\ Sub \subseteq Pool
  BY TaskSource, MainIsPool DEF MainCreateStart, Key
<1>2. CASE Finish(t, "err") /\ UNCHANGED <<actors, Dict>>
  BY <1>1, <1>2, FinishGood, SameEntries DEF Dict, Good
<1>3. CASE Pop(Main, Placeholder) /\ Finish(t, "err")
  BY <1>1, <1>3, FinishGood, PopEntries DEF Good
<1>4. CASE Record(Main, Placeholder, Source(t)) /\ Suspend(t, "post")
  BY <1>1, <1>4, SuspendGood, RecordEntries DEF Good
<1>5. ASSUME NEW p \in Sub, Record(p, Placeholder, Source(t)),
             CallPool(t, p, "call", "none") \/ Finish(t, "err")
      PROVE  Good
  <2>1. EntriesKept
    BY <1>1, <1>5, RecordEntries
  <2>2. CASE CallPool(t, p, "call", "none")
    BY <1>1, <2>1, <2>2, CallGood DEF Good
  <2>3. CASE Finish(t, "err")
    BY <1>1, <2>1, <2>3, FinishGood DEF Good
  <2> QED BY <1>5, <2>2, <2>3
<1> QED BY <1>2, <1>3, <1>4, <1>5 DEF MainCreateStart

(* The end of a creation at main: success is recorded where the actor is.  *)
LEMMA EndCreateGood ==
    ASSUME TypeInv, NotifiedOK, NEW t \in Task, ~Notification(t),
           MainCreatePosted(t) \/ MainCreateReply(t)
    PROVE  Good
<1>1. UNCHANGED req /\ pc[t] \in {"post", "call"} /\ at[t] = Main
  BY Zenon DEF MainCreatePosted, MainCreateReply
<1>2. Source(t) \in Job /\ ActorOf(t) \in Actor
  BY <1>1, TaskSource
<1>3. PICK p \in Pool, ok \in BOOLEAN, r \in Results :
         /\ EndCreation(p, ActorOf(t), Source(t), ok) /\ Finish(t, r)
         /\ r = "ok" => ok
         /\ \A j \in Job : t = <<j, 1>> => p = Home(j)
  <2>1. CASE MainCreatePosted(t)
    <3>1. ASSUME NEW j \in Job, t = <<j, 1>>
          PROVE  Main = Home(j)
      <4>1. JobOK(j) /\ pc[<<j, 1>>] = "post" /\ at[<<j, 1>>] = Main
        BY <2>1, <3>1 DEF TypeInv, TaskOK, MainCreatePosted
      <4> QED BY <4>1 DEF JobOK, Home
    <3>2. PICK ok \in BOOLEAN : /\ EndCreation(Main, ActorOf(t), Source(t), ok)
                                /\ Finish(t, IF ok THEN "ok" ELSE "err")
      BY <2>1, Zenon DEF MainCreatePosted, MayRaise
    <3> QED BY <3>1, <3>2, MainIsPool DEF Results
  <2>2. CASE MainCreateReply(t)
    <3>1. ASSUME NEW j \in Job, t = <<j, 1>>
          PROVE  at[Child(t)] = Home(j)
      <4>1. Child(t) = <<j, 2>> /\ pc[<<j, 2>>] = "done" /\ at[<<j, 1>>] = Main
        BY <2>2, <3>1, FirstTask DEF MainCreateReply
      <4> QED BY <4>1 DEF Home
    <3>2. at[Child(t)] \in Pool /\ res[Child(t)] \in Results
      BY <2>2, ChildOfCall DEF MainCreateReply
    <3> QED BY <2>2, <3>1, <3>2, Zenon DEF MainCreateReply
  <2> QED BY <2>1, <2>2
<1>4. EntriesKept /\ (ok => allocated'[p][ActorOf(t)] # NoJob)
  BY <1>2, <1>3, EndEntries
<1>5. \A j \in Job : t = <<j, 1>> => r # "ok" \/ allocated'[Home(j)][req[j].actor] # NoJob
  BY <1>3, <1>4, FirstTask
<1>6. NotifiedOK' /\ \A j \in Job : Justified(j)
  BY <1>1, <1>3, <1>5, FinishGood
<1> QED BY <1>4, <1>6 DEF Good

(* SubActorPoolBase.create_actor: main is told before the client is.       *)
LEMMA SubCreateGood ==
    ASSUME TypeInv, NotifiedOK, NEW t \in Task, ~Notification(t),
           SubCreateStart(t) \/ SubCreatePosted(t) \/ SubNotified(t)
    PROVE  Good
<1>1. EntriesKept /\ UNCHANGED req
  BY SameEntries DEF SubCreateStart, SubCreatePosted, SubNotified
<1>2. ASSUME NEW r, SubCreateResult(t, r), pc[t] \in {"sent", "post"}
      PROVE  Good
  <2>1. CASE FromMain(t) /\ Finish(t, r)
    <3>1. \A j \in Job : t # <<j, 1>>
      BY <2>1, FirstTask
    <3> QED BY <1>1, <1>2, <2>1, <3>1, FinishGood DEF Good
  <2>2. CASE CallPool(t, Main, "notify", r)
    BY <1>1, <1>2, <2>2, CallGood DEF Good
  <2> QED BY <1>2, <2>1, <2>2 DEF SubCreateResult
<1>3. CASE SubCreateStart(t)
  <2>1. pc[t] = "sent" /\ (SubCreateResult(t, "err") \/ Suspend(t, "post"))
    BY <1>3 DEF SubCreateStart
  <2> QED BY <1>1, <1>2, <2>1, SuspendGood DEF Good
<1>4. CASE SubCreatePosted(t)
  BY <1>2, <1>4 DEF SubCreatePosted
<1>5. CASE SubNotified(t)
  <2>1. pc[t] = "notify" /\ pc[Child(t)] = "done" /\ Finish(t, res[t])
    BY <1>5 DEF SubNotified
  <2>2. \A j \in Job : t = <<j, 1>> => req[j].op # "create" \/ Reported(j)
    BY <2>1, FirstTask DEF Reported
  <2> QED BY <1>1, <2>1, <2>2, FinishGood DEF Good
<1> QED BY <1>3, <1>4, <1>5

(* add_sub_pool_actor: the notification is recorded under the address of   *)
(* the sub pool that sent it.                                              *)
LEMMA RegisterGood ==
    ASSUME TypeInv, NotifiedOK, NEW t \in Task, MainRegister(t)
    PROVE  Good
<1>1. /\ pc[t] = "sent" /\ Op(t) = "register" /\ UNCHANGED req
      /\ Record(at[Parent(t)], ActorOf(t), Source(t)) /\ Finish(t, "ok")
  BY DEF MainRegister
<1>2. Source(t) \in Job /\ ActorOf(t) \in Key /\ Req(t) \in Requests
  BY <1>1, TaskSource DEF Key
<1>3. t[2] = 2 /\ at[Parent(t)] \in Sub /\ at[Parent(t)] \in Pool
  <2>1. Req(t).op # "register"
    BY <1>2, ActorPoolAssumption
  <2> QED BY <1>1, <2>1, MainIsPool DEF Op
<1>4. EntriesKept /\ allocated'[at[Parent(t)]][ActorOf(t)] # NoJob
  BY <1>1, <1>2, <1>3, RecordEntries
<1>5. \A j \in Job : t # <<j, 1>>
  BY <1>3
<1>6. CASE ~Notification(t)
  BY <1>1, <1>4, <1>5, <1>6, FinishGood DEF Good
<1>7. CASE Notification(t)
  <2> PICK j \in Job : t = <<j, 2>> /\ pc[<<j, 1>>] = "notify" /\ req[j].op = "create"
    BY <1>7 DEF Notification
  <2>1. Parent(t) = <<j, 1>> /\ ActorOf(t) = req[j].actor
    <3>1. t[1] = j /\ t[2] = 2 /\ j # Monitor
      BY ActorPoolAssumption
    <3>2. Source(t) = j /\ Parent(t) = <<j, 1>>
      BY <3>1 DEF Source, Parent
    <3> QED BY <3>2 DEF ActorOf, Req
  <2>2. /\ \A x \in Task : pc'[x] = IF x = t THEN "done" ELSE pc[x]
        /\ at' = at
    BY <1>1 DEF TypeInv, TypeOK, Finish
  <2>3. ASSUME NEW k \in Job
        PROVE  <<k, 1>> \in Task /\ <<k, 2>> \in Task /\ <<k, 1>> # <<k, 2>>
    BY DEF Task
  <2>4. NotifiedOK'
    BY <1>1, <2>2, <2>3 DEF NotifiedOK
  <2>5. Home(j)' = at[<<j, 1>>]
    BY <1>3, <2>1, <2>2, MainIsPool DEF Home
  <2>6. Justified(j)
    BY <1>1, <1>4, <2>1, <2>5 DEF Justified
  <2>7. ASSUME NEW k \in Job, k # j
        PROVE  Justified(k)
    <3>1. t # <<k, 1>> /\ t # <<k, 2>>
      BY <2>7
    <3> QED BY <1>1, <3>1, FinishReports, Zenon DEF Justified
  <2> QED BY <1>4, <2>4, <2>6, <2>7 DEF Good
<1> QED BY <1>6, <1>7

(* Destroying drops entries of the actor to destroy only.                  *)
LEMMA DestroyGood ==
    ASSUME TypeInv, TypeInv', NotifiedOK, NEW t \in Task, ~Notification(t),
           MainDestroyStart(t) \/ MainDestroyPre(t) \/ SubDestroyStart(t) \/ SubDestroyPre(t)
    PROVE  Good
<1>1. pc[t] \in {"sent", "pre"} /\ Req(t).op = "destroy" /\ UNCHANGED req
  <2>1. CASE MainDestroyStart(t) \/ SubDestroyStart(t)
    <3>1. pc[t] = "sent" /\ Op(t) = "destroy" /\ UNCHANGED req
      BY <2>1, Zenon DEF MainDestroyStart, SubDestroyStart
    <3> QED BY <3>1, OpIsRequest
  <2>2. CASE MainDestroyPre(t) \/ SubDestroyPre(t)
    <3>1. pc[t] = "pre" /\ UNCHANGED req
      BY <2>2, Zenon DEF MainDestroyPre, SubDestroyPre
    <3> QED BY <3>1, HookIsOp
  <2> QED BY <2>1, <2>2
<1>2. \A j \in Job : t = <<j, 1>> => req[j].op # "create"
  BY <1>1, FirstTask
<1>3. DestroyIssued(ActorOf(t))' /\ ActorOf(t) \in Key /\ ActorOf(t)' = ActorOf(t)
  <2>1. mon'.job = mon.job
    BY MonUnchanged, UnseenKeeps
       DEF MainDestroyStart, MainDestroyPre, SubDestroyStart, SubDestroyPre, Pop, Dict, MonSame
  <2> QED BY <1>1, <2>1, DestroyWasIssued, TaskSource, Zenon DEF Key, ActorOf, Req, Source
<1>4. EntriesKept
  <2>1. CASE UNCHANGED allocated
    BY <2>1, SameEntries
  <2>2. ASSUME NEW p \in Pool, Pop(p, ActorOf(t))
        PROVE  EntriesKept
    <3> DEFINE a == ActorOf(t)
    <3>1. DestroyIssued(a)'
      BY <1>3
    <3> QED BY <1>3, <2>2, <3>1, PopEntries
  <2> QED BY <2>1, <2>2, MainIsPool, Zenon
          DEF MainDestroyStart, MainDestroyPre, SubDestroyStart, SubDestroyPre, Dict
<1>5. \/ \E r : Finish(t, r)
      \/ pc[t] = "sent" /\ Suspend(t, "pre")
      \/ \E p : CallPool(t, p, "call", "none")
      \/ CallPool(t, Main, "notify", "ok")
  BY Zenon DEF MainDestroyStart, MainDestroyPre, SubDestroyStart, SubDestroyPre
<1>6. CASE \E r : Finish(t, r)
  BY <1>1, <1>2, <1>4, <1>6, FinishGood, Zenon DEF Good
<1>7. CASE pc[t] = "sent" /\ Suspend(t, "pre")
  BY <1>1, <1>4, <1>7, SuspendGood DEF Good
<1>8. CASE (\E p : CallPool(t, p, "call", "none")) \/ CallPool(t, Main, "notify", "ok")
  BY <1>1, <1>4, <1>8, CallGood DEF Good
<1> QED BY <1>5, <1>6, <1>7, <1>8

(* Forwarding, sending, and calls that fail.                               *)
LEMMA ForwardGood ==
    ASSUME TypeInv, NotifiedOK, NEW t \in Task, ~Notification(t),
           \/ MainForwardReply(t) \/ CallLost(t) \/ CancelCall(t)
           \/ SendLocal(t) \/ SendReturn(t) \/ SendElsewhere(t)
    PROVE  Good
<1>1. pc[t] \in {"sent", "run", "call"} /\ UNCHANGED <<allocated, req>>
  BY Zenon DEF MainForwardReply, CallLost, CancelCall, SendLocal, SendReturn, SendElsewhere
<1>2. EntriesKept
  BY <1>1, SameEntries
<1>3. ASSUME NEW r, Finish(t, r), \A j \in Job : t = <<j, 1>> => r # "ok" \/ req[j].op # "create"
      PROVE  Good
  BY <1>1, <1>2, <1>3, FinishGood, Zenon DEF Good
<1>4. CASE MainForwardReply(t)
  <2>1. Op(t) # "create" /\ Finish(t, res[Child(t)])
    BY <1>4 DEF MainForwardReply
  <2>2. ASSUME NEW j \in Job, t = <<j, 1>>
        PROVE  req[j].op # "create"
    <3>1. Op(<<j, 1>>) = req[j].op
      BY FirstTask
    <3> QED BY <2>1, <2>2, <3>1
  <2> QED BY <1>3, <2>1, <2>2
<1>5. CASE CallLost(t) \/ CancelCall(t)
  <2>1. Finish(t, "err")
    BY <1>5, Zenon DEF CallLost, CancelCall
  <2> QED BY <1>3, <2>1
<1>6. CASE SendReturn(t)
  <2>1. \A j \in Job : t = <<j, 1>> => req[j].op # "create"
    <3> SUFFICES ASSUME NEW j \in Job, t = <<j, 1>>
                 PROVE  req[j].op # "create"
      OBVIOUS
    <3>1. JobOK(j)
      BY DEF TypeInv, TaskOK
    <3>2. pc[<<j, 1>>] = "run"
      BY <1>6 DEF SendReturn
    <3>3. req[j].op = "send"
      BY Levels, <3>1, <3>2 DEF JobOK
    <3> QED BY <3>3
  <2> QED BY <1>3, <1>6, <2>1 DEF SendReturn
<1>7. CASE SendLocal(t)
  BY <1>1, <1>2, <1>7, SuspendGood DEF SendLocal, Good
<1>8. CASE SendElsewhere(t)
  <2>1. CASE UNCHANGED <<pc, at, res>>
    BY <1>1, <1>2, <2>1 DEF Good, NotifiedOK, Justified, Reported, Home
  <2>2. CASE \E p : CallPool(t, p, "call", "none")
    <3>1. pc[t] = "sent"
      BY <1>8, Zenon DEF SendElsewhere
    <3> QED BY <1>1, <1>2, <2>2, <3>1, CallGood DEF Good
  <2>3. CASE Finish(t, "err")
    BY <1>3, <2>3
  <2>4. \/ UNCHANGED <<pc, at, res>>
        \/ Finish(t, "err")
        \/ \E p : CallPool(t, p, "call", "none")
    BY <1>8 DEF SendElsewhere
  <2> QED BY <2>1, <2>2, <2>3, <2>4
<1> QED BY <1>4, <1>5, <1>6, <1>7, <1>8

(* A new request reports nothing.                                          *)
LEMMA ClientSendGood ==
    ASSUME TypeInv, NotifiedOK, NEW i \in Job, NEW r \in Requests, ClientSend(i, r)
    PROVE  Good /\ IssuedKept
<1>1. /\ pc[<<i, 1>>] = "none" /\ UNCHANGED <<allocated, res>>
      /\ \A x \in Task : pc'[x] = IF x = <<i, 1>> THEN "sent" ELSE pc[x]
      /\ \A x \in Task : x # <<i, 1>> => at'[x] = at[x]
      /\ \A j \in Job : j # i => req'[j] = req[j]
  BY DEF ClientSend, Issued, TypeInv, TypeOK
<1>2. ASSUME NEW j \in Job
      PROVE  /\ <<j, 1>> \in Task /\ <<j, 2>> \in Task /\ <<j, 2>> # <<i, 1>>
             /\ <<j, 1>> = <<i, 1>> <=> j = i
  BY DEF Task
<1>3. NotifiedOK'
  BY <1>1, <1>2, Zenon DEF NotifiedOK
<1>4. \A j \in Job : Justified(j)
  <2> SUFFICES ASSUME NEW j \in Job, Reported(j)'
               PROVE  Reported(j) /\ Home(j)' = Home(j)
    BY DEF Justified
  <2>1. j # i
    BY <1>1, <1>2 DEF Reported
  <2> QED BY <1>1, <1>2, <2>1, Zenon DEF Reported, Home
<1>5. IssuedKept
  BY <1>1, <1>2, Zenon DEF IssuedKept, Issued
<1> QED BY <1>1, <1>3, <1>4, <1>5, SameEntries DEF Good

(* A crash fails requests; it makes none succeed.                          *)
LEMMA CrashGood ==
    ASSUME TypeInv, NotifiedOK, NEW p \in Sub, Crash(p)
    PROVE  Good
<1>1. UNCHANGED <<allocated, req, at>>
  BY DEF Crash
<1> DEFINE here == {t \in Task : at[t] = p /\ pc[t] \notin {"none", "done", "lost"}}
           awaited == {t \in Task : at[t] = p /\ pc[t] = "done" /\ t[2] > 1 /\ pc[Parent(t)] = "call"}
<1>2. PICK dropped \in SUBSET awaited :
         /\ pc' = [t \in Task |-> IF t \in here \cup dropped
                                  THEN IF t[1] \in Job /\ t[2] = 1 THEN "done" ELSE "lost"
                                  ELSE pc[t]]
         /\ res' = [t \in Task |-> IF t \in here THEN "err" ELSE res[t]]
  BY DEF Crash
<1>3. ASSUME NEW j \in Job
      PROVE  /\ \/ pc'[<<j, 1>>] = pc[<<j, 1>>] /\ res'[<<j, 1>>] = res[<<j, 1>>]
                \/ pc'[<<j, 1>>] = "done" /\ res'[<<j, 1>>] = "err"
             /\ \/ pc'[<<j, 2>>] = pc[<<j, 2>>]
                \/ at[<<j, 2>>] = p /\ pc[<<j, 2>>] # "none" /\ pc'[<<j, 2>>] = "lost"
  <2>1. <<j, 1>> \in Task /\ <<j, 2>> \in Task
    BY DEF Task
  <2>2. <<j, 1>>[1] = j /\ <<j, 1>>[2] = 1 /\ <<j, 2>>[2] = 2 /\ <<j, 1>> \notin dropped
    BY <1>2
  <2>3. \/ pc'[<<j, 1>>] = pc[<<j, 1>>] /\ res'[<<j, 1>>] = res[<<j, 1>>]
        \/ pc'[<<j, 1>>] = "done" /\ res'[<<j, 1>>] = "err"
    BY <1>2, <2>1, <2>2
  <2>4. \/ pc'[<<j, 2>>] = pc[<<j, 2>>]
        \/ at[<<j, 2>>] = p /\ pc[<<j, 2>>] # "none" /\ pc'[<<j, 2>>] = "lost"
    BY <1>2, <2>1, <2>2
  <2> QED BY <2>3, <2>4
<1> HIDE DEF here, awaited
<1>4. NotifiedOK'
  BY <1>1, <1>3, MainIsPool DEF NotifiedOK
<1>5. ASSUME NEW j \in Job, Reported(j)'
      PROVE  Reported(j) /\ Home(j)' = Home(j)
  <2>1. pc'[<<j, 2>>] # "none" <=> pc[<<j, 2>>] # "none"
    BY <1>3, Zenon
  <2>2. Home(j)' = Home(j)
    BY <1>1, <2>1 DEF Home
  <2>3. Reported(j)
    BY <1>1, <1>3, <1>5 DEF Reported
  <2> QED BY <2>2, <2>3
<1> QED BY <1>1, <1>4, <1>5, SameEntries DEF Good, Justified

(* The monitor drops no entry when pools are recovered with their actors,  *)
(* and touches no request.                                                 *)
LEMMA MonitorGood ==
    ASSUME TypeInv, NotifiedOK, MonitorStep, AutoRecover = "actor"
    PROVE  Good
<1>1. UNCHANGED <<allocated, req, res>>
  BY Zenon DEF MonitorStep, MonitorDetect, MonitorStarted, MonitorNext, MonitorLost
<1>2. ASSUME NEW j \in Job, NEW i \in 1..3
      PROVE  pc'[<<j, i>>] = pc[<<j, i>>] /\ at'[<<j, i>>] = at[<<j, i>>]
  <2>1. CASE UNCHANGED <<pc, at>>
    BY <2>1
  <2>2. CASE /\ pc' = [pc EXCEPT ![<<Monitor, 1>>] = "sent", ![Child(<<Monitor, 1>>)] = "none"]
             /\ at' = [at EXCEPT ![<<Monitor, 1>>] = mon.pool]
    <3>1. /\ <<j, i>> \in Task /\ <<j, i>> # <<Monitor, 1>> /\ <<j, i>> # <<Monitor, 2>>
          /\ Child(<<Monitor, 1>>) = <<Monitor, 2>>
      <4>1. Child(<<Monitor, 1>>) = <<Monitor, 2>>
        BY DEF Child
      <4>2. <<j, i>> # <<Monitor, 1>> /\ <<j, i>> # <<Monitor, 2>>
        BY <1>2, ActorPoolAssumption
      <4>3. <<j, i>> \in Task
        BY <1>2, TaskPairs, Zenon
      <4> QED BY <4>1, <4>2, <4>3
    <3> QED BY <2>2, <3>1 DEF TypeInv, TypeOK
  <2> QED BY <2>1, <2>2, Zenon DEF MonitorStep, MonitorDetect, MonitorStarted, MonitorNext, MonitorLost
<1>j. ASSUME NEW j \in Job
      PROVE  /\ pc'[<<j, 1>>] = pc[<<j, 1>>] /\ at'[<<j, 1>>] = at[<<j, 1>>]
             /\ pc'[<<j, 2>>] = pc[<<j, 2>>] /\ at'[<<j, 2>>] = at[<<j, 2>>]
  <2>1. 1 \in 1..3 /\ 2 \in 1..3
    OBVIOUS
  <2> QED BY <1>2, <2>1, Zenon
<1>3. NotifiedOK'
  BY <1>1, <1>j DEF NotifiedOK
<1>4. ASSUME NEW j \in Job
      PROVE  Justified(j)
  BY <1>1, <1>j, <1>4 DEF Justified, Reported, Home
<1> QED BY <1>1, <1>3, <1>4, SameEntries DEF Good
-----------------------------------------------------------------------------
(* The strengthened invariant is inductive.                                *)
LEMMA RegistryStep ==
    ASSUME AutoRecover = "actor", RegistryInv, [Next]_vars
    PROVE  RegistryInv'
<1>1. TypeInv /\ TypeInv' /\ NotifiedOK /\ ReportedOK
  BY NextTypeInv DEF RegistryInv
<1>2. CASE UNCHANGED vars
  BY <1>1, <1>2, Zenon DEF vars, RegistryInv, NotifiedOK, ReportedOK, Reported, DestroyIssued, Issued, Home
<1>3. ASSUME Good, IssuedKept
      PROVE  RegistryInv'
  BY <1>1, <1>3, ReportedKeeps DEF Good, RegistryInv
<1>4. ASSUME NEW j \in Job, NEW r \in Requests, ClientSend(j, r)
      PROVE  RegistryInv'
  BY <1>1, <1>3, <1>4, ClientSendGood
<1>5. ASSUME Good, UNCHANGED req
      PROVE  RegistryInv'
  BY <1>1, <1>3, <1>5, IssuedSame
<1>6. ASSUME NEW t \in Task, TaskStep(t) \/ CancelCall(t)
      PROVE  RegistryInv'
  <2>1. UNCHANGED req
    BY <1>6, Zenon DEF TaskStep, MainCreateStart, MainCreatePosted, MainCreateReply, SubCreateStart,
            SubCreatePosted, SubNotified, MainRegister, MainDestroyStart, MainDestroyPre,
            MainForwardReply, SubDestroyStart, SubDestroyPre, SendLocal, SendReturn,
            SendElsewhere, CallLost, CancelCall
  <2>2. CASE MainRegister(t)
    BY <1>1, <1>5, <2>1, <2>2, RegisterGood
  <2>3. CASE ~MainRegister(t)
    <3>1. ~Notification(t)
      BY <1>1, <1>6, <2>3, NotificationStep
    <3> QED BY <1>1, <1>5, <1>6, <2>1, <2>3, <3>1, MainCreateGood, EndCreateGood, SubCreateGood,
               DestroyGood, ForwardGood DEF TaskStep
  <2> QED BY <2>2, <2>3
<1>7. ASSUME NEW p \in Sub, Crash(p)
      PROVE  RegistryInv'
  BY <1>1, <1>5, <1>7, CrashGood, Zenon DEF Crash
<1>8. CASE MonitorStep
  <2>1. UNCHANGED req
    BY <1>8, Zenon DEF MonitorStep, MonitorDetect, MonitorStarted, MonitorNext, MonitorLost
  <2> QED BY <1>1, <1>5, <1>8, <2>1, MonitorGood
<1> QED BY <1>2, <1>4, <1>6, <1>7, <1>8 DEF Next, Rest

(* Main never forgets an acknowledged actor nobody asked to destroy, while *)
(* pools are recovered with their actors (MainActorPoolBase.create_actor,  *)
(* add_sub_pool_actor, destroy_actor and process_sub_pool_lost).           *)
THEOREM ActorsNotForgotten == Spec => []NoActorForgotten
<1>1. CASE AutoRecover = "actor"
  <2>1. Init => RegistryInv
    <3> SUFFICES ASSUME Init PROVE NotifiedOK /\ ReportedOK
      BY InitTypeInv DEF RegistryInv
    <3>1. \A j \in Job : pc[<<j, 1>>] = "none"
      <4>1. \A j \in Job : <<j, 1>> \in Task
        BY DEF Task
      <4> QED BY <4>1, Zenon DEF Init
    <3> QED BY <3>1 DEF NotifiedOK, ReportedOK, Reported
  <2>2. RegistryInv /\ [Next]_vars => RegistryInv'
    BY <1>1, RegistryStep
  <2>3. RegistryInv => NoActorForgotten
    BY Zenon DEF RegistryInv, ReportedOK, NoActorForgotten, Reported, Created, Acknowledged
  <2> QED BY <2>1, <2>2, <2>3, PTL DEF Spec
<1>2. CASE AutoRecover # "actor"
  <2>1. NoActorForgotten
    BY <1>2, Zenon DEF NoActorForgotten
  <2> QED BY <2>1, PTL
<1> QED BY <1>1, <1>2
=============================================================================
