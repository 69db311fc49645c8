-------------------------- MODULE ActorPoolProofs --------------------------
(***************************************************************************)
(* Proofs about ActorPool for every set of pools, actors and requests,     *)
(* every recovery mode, and any number of crashes.                         *)
(***************************************************************************)
EXTENDS ActorPool, TLAPS

(* A task is a job or the monitor, and a level.                            *)
LEMMA TaskShape ==
    ASSUME NEW t \in Task
    PROVE  /\ t = <<t[1], t[2]>>
           /\ t[1] \in Job \cup {Monitor}
           /\ t[2] \in 1..3
BY DEF Task

(* The main pool is a pool, and not a sub pool.                            *)
LEMMA MainIsPool == Main \in Pool /\ Main \notin Sub /\ Sub \subseteq Pool
BY AddressesAssumption DEF Main, Pool, Sub

(* The invariant holds initially.                                          *)
LEMMA InitTypeInv == Init => TypeInv
BY MainIsPool, ActorPoolAssumption
   DEF Init, TypeInv, TypeOK, OrderOK, StoredOK, TaskOK, JobOK, LevelOK, MonitorOK, Task, Pcs, Results,
       Key,
       MonitorStates

(* The job and the actor a task in progress works for.                     *)
LEMMA TaskSource ==
    ASSUME TypeInv, NEW t \in Task, pc[t] # "none"
    PROVE  /\ Source(t) \in Job
           /\ Req(t) \in Requests
           /\ ActorOf(t) \in Actor
<1>1. Source(t) \in Job /\ req[Source(t)] # NoRequest
  <2>1. CASE t[1] = Monitor
    <3>1. t[2] \in 1..3 /\ pc[<<Monitor, t[2]>>] # "none"
      BY <2>1, TaskShape
    <3> QED BY <2>1, <3>1, Zenon DEF Source, TypeInv, TypeOK, MonitorOK, MonitorStates
  <2>2. CASE t[1] # Monitor
    <3>1. t[1] \in Job /\ t[2] \in 1..3 /\ pc[<<t[1], t[2]>>] # "none"
      BY <2>2, TaskShape
    <3>2. t[2] = 1 \/ t[2] = 2 \/ t[2] = 3
      BY <3>1
    <3>3. JobOK(t[1])
      BY <3>1 DEF TypeInv, TaskOK
    <3> QED BY <2>2, <3>1, <3>2, <3>3 DEF Source, JobOK
  <2> QED BY <2>1, <2>2
<1> QED BY <1>1, ActorPoolAssumption DEF Req, ActorOf, TypeInv, TypeOK

(* The levels, spelt out.                                                  *)
LEMMA Levels == 1 \in 1..3 /\ 2 \in 1..3 /\ 3 \in 1..3
OBVIOUS

(* Tasks are told apart by their components.                               *)
LEMMA TaskPairs ==
    /\ \A j \in Job \cup {Monitor}, i \in 1..3 : <<j, i>> \in Task
    /\ \A j, k, i, n : <<j, i>> = <<k, n>> <=> j = k /\ i = n
BY DEF Task

(* What the tables and the tasks must still satisfy after a step.          *)
MonSame == /\ mon' \in MonitorStates
           /\ mon'.pc = mon.pc /\ mon'.pool = mon.pool /\ mon'.job = mon.job

DictKept == /\ allocated' \in [Pool -> [Key -> Job \cup {NoJob}]]
            /\ order' \in [Pool -> Seq(Key)]
            /\ OrderOK' /\ StoredOK'

TasksKept == /\ pc' \in [Task -> Pcs]
             /\ at' \in [Task -> Pool]
             /\ res' \in [Task -> Results]
             /\ TaskOK' /\ LevelOK' /\ MonitorOK'

(* A handler returns.                                                      *)
LEMMA FinishKeeps ==
    ASSUME TypeInv, NEW t \in Task, pc[t] # "none", NEW r \in Results, Finish(t, r),
           MonSame, UNCHANGED req
    PROVE  TasksKept
<1> PICK s \in Job \cup {Monitor}, l \in 1..3 : t = <<s, l>>
  BY TaskShape
<1>1. /\ pc' = [pc EXCEPT ![<<s, l>>] = "done"]
      /\ res' = [res EXCEPT ![<<s, l>>] = r]
      /\ at' = at
      /\ pc[<<s, l>>] # "none"
  BY DEF Finish
<1>2. pc \in [Task -> Pcs] /\ res \in [Task -> Results] /\ at \in [Task -> Pool]
  BY DEF TypeInv, TypeOK
<1>3. /\ pc' \in [Task -> Pcs]
      /\ \A j \in Job \cup {Monitor}, i \in 1..3 :
            pc'[<<j, i>>] = IF j = s /\ i = l THEN "done" ELSE pc[<<j, i>>]
  <2>1. "done" \in Pcs
    BY DEF Pcs
  <2> QED BY <1>1, <1>2, <2>1, TaskPairs
<1>4. res' \in [Task -> Results]
  BY <1>1, <1>2
<1>5. TaskOK'
  <2> SUFFICES ASSUME NEW j \in Job
               PROVE  JobOK(j)'
    BY DEF TaskOK
  <2>1. JobOK(j)
    BY DEF TypeInv, TaskOK
  <2> QED BY <1>1, <1>3, <2>1 DEF JobOK
<1>6. MonitorOK'
  BY <1>1, <1>3 DEF TypeInv, MonitorOK, MonSame
<1>7. LevelOK'
  <2> SUFFICES ASSUME NEW j \in Job \cup {Monitor}
               PROVE  /\ pc'[<<j, 3>>] # "none" => at[<<j, 3>>] \in Sub
                      /\ \A i \in 1..3 : pc'[<<j, i>>] = "call" => at[<<j, i>>] = Main
    BY <1>1, Zenon DEF LevelOK
  <2>1. /\ pc[<<j, 3>>] # "none" => at[<<j, 3>>] \in Sub
        /\ \A i \in 1..3 : pc[<<j, i>>] = "call" => at[<<j, i>>] = Main
    BY DEF TypeInv, LevelOK
  <2> QED BY <1>1, <1>3, <2>1
<1> QED BY <1>1, <1>2, <1>3, <1>4, <1>5, <1>6, <1>7 DEF TasksKept

(* A handler enters a hook or a method of an actor.                        *)
LEMMA SuspendKeeps ==
    ASSUME TypeInv, NEW t \in Task, pc[t] = "sent", NEW v, Suspend(t, v),
           \/ v = "post" /\ Req(t).op = "create"
           \/ v = "run" /\ Req(t).op = "send"
           \/ v = "pre" /\ Req(t).op = "destroy",
           MonSame, UNCHANGED req
    PROVE  TasksKept
<1> PICK s \in Job \cup {Monitor}, l \in 1..3 : t = <<s, l>>
  BY TaskShape
<1>1. /\ pc' = [pc EXCEPT ![<<s, l>>] = v]
      /\ res' = res
      /\ at' = at
      /\ pc[<<s, l>>] = "sent"
      /\ Req(t) = req[IF s = Monitor THEN mon.job ELSE s]
  BY DEF Suspend, Req, Source
<1>2. pc \in [Task -> Pcs] /\ res \in [Task -> Results] /\ at \in [Task -> Pool]
  BY DEF TypeInv, TypeOK
<1>3. /\ pc' \in [Task -> Pcs]
      /\ \A j \in Job \cup {Monitor}, i \in 1..3 :
            pc'[<<j, i>>] = IF j = s /\ i = l THEN v ELSE pc[<<j, i>>]
  <2>1. v \in Pcs
    BY DEF Pcs
  <2> QED BY <1>1, <1>2, <2>1, TaskPairs
<1>5. TaskOK'
  <2> SUFFICES ASSUME NEW j \in Job
               PROVE  JobOK(j)'
    BY DEF TaskOK
  <2>1. JobOK(j)
    BY DEF TypeInv, TaskOK
  <2> QED BY <1>1, <1>3, <2>1, ActorPoolAssumption DEF JobOK
<1>6. MonitorOK'
  BY <1>1, <1>3 DEF TypeInv, MonitorOK, MonSame
<1>7. LevelOK'
  <2> SUFFICES ASSUME NEW j \in Job \cup {Monitor}
               PROVE  /\ pc'[<<j, 3>>] # "none" => at[<<j, 3>>] \in Sub
                      /\ \A i \in 1..3 : pc'[<<j, i>>] = "call" => at[<<j, i>>] = Main
    BY <1>1, Zenon DEF LevelOK
  <2>1. /\ pc[<<j, 3>>] # "none" => at[<<j, 3>>] \in Sub
        /\ \A i \in 1..3 : pc[<<j, i>>] = "call" => at[<<j, i>>] = Main
    BY DEF TypeInv, LevelOK
  <2> QED BY <1>1, <1>3, <2>1
<1> QED BY <1>1, <1>2, <1>3, <1>5, <1>6, <1>7 DEF TasksKept

(* A handler sends a message to another pool and waits.                    *)
LEMMA CallKeeps ==
    ASSUME TypeInv, NEW t \in Task, NEW p \in Pool, NEW v, NEW r \in Results,
           CallPool(t, p, v, r),
           \/ v = "call" /\ at[t] = Main /\ p \in Sub
           \/ v = "notify" /\ at[t] \in Sub /\ t[2] = 1,
           pc[t] \in {"sent", "post", "pre"},
           MonSame, UNCHANGED req
    PROVE  TasksKept
<1> PICK s \in Job \cup {Monitor}, l \in 1..3 : t = <<s, l>>
  BY TaskShape
<1>1. /\ pc' = [pc EXCEPT ![<<s, l>>] = v, ![<<s, l + 1>>] = "sent"]
      /\ res' = [res EXCEPT ![<<s, l>>] = r]
      /\ at' = [at EXCEPT ![<<s, l + 1>>] = p]
      /\ pc[<<s, l>>] \in {"sent", "post", "pre"}
  BY DEF CallPool, Child
<1>v. /\ \/ v = "call" /\ at[<<s, l>>] = Main
         \/ v = "notify" /\ at[<<s, l>>] \in Sub
      /\ v \notin {"none", "sent", "post", "pre", "run"}
      /\ t[2] = l
  OBVIOUS
<1>2. pc \in [Task -> Pcs] /\ res \in [Task -> Results] /\ at \in [Task -> Pool]
  BY DEF TypeInv, TypeOK
<1>3. /\ pc' \in [Task -> Pcs]
      /\ \A j \in Job \cup {Monitor}, i \in 1..3 :
            pc'[<<j, i>>] = IF j = s /\ i = l THEN v
                            ELSE IF j = s /\ i = l + 1 THEN "sent" ELSE pc[<<j, i>>]
  <2>1. v \in Pcs /\ "sent" \in Pcs
    BY DEF Pcs
  <2>2. l + 1 # l
    OBVIOUS
  <2>3. pc' \in [Task -> Pcs]
    BY <1>1, <1>2, <2>1, Zenon
  <2>4. \A x \in Task : pc'[x] = IF x = <<s, l + 1>> THEN "sent"
                                 ELSE IF x = <<s, l>> THEN v ELSE pc[x]
    BY <1>1, <1>2, TaskPairs
  <2> QED BY <2>2, <2>3, <2>4, TaskPairs
<1>4. /\ at' \in [Task -> Pool]
      /\ \A j \in Job \cup {Monitor}, i \in 1..3 :
            at'[<<j, i>>] = IF j = s /\ i = l + 1 THEN p ELSE at[<<j, i>>]
  BY <1>1, <1>2, TaskPairs, Zenon
<1>5. res' \in [Task -> Results]
  BY <1>1, <1>2
<1>6. TaskOK'
  <2> SUFFICES ASSUME NEW j \in Job
               PROVE  JobOK(j)'
    BY DEF TaskOK
  <2>1. JobOK(j)
    BY DEF TypeInv, TaskOK
  <2>2. \/ l = 1 /\ l + 1 = 2
        \/ l = 2 /\ l + 1 = 3
        \/ l = 3 /\ l + 1 = 4
    OBVIOUS
  <2>k. \A i \in 1..3 : /\ pc'[<<j, i>>] = IF j = s /\ i = l THEN v
                                            ELSE IF j = s /\ i = l + 1 THEN "sent" ELSE pc[<<j, i>>]
                        /\ at'[<<j, i>>] = IF j = s /\ i = l + 1 THEN p ELSE at[<<j, i>>]
    BY <1>3, <1>4, Zenon
  <2>3. CASE j # s
    <3>1. \A i \in 1..3 : pc'[<<j, i>>] = pc[<<j, i>>] /\ at'[<<j, i>>] = at[<<j, i>>]
      BY <2>k, <2>3
    <3> QED BY Levels, <2>1, <3>1 DEF JobOK
  <2>4. CASE j = s /\ l = 1
    <3>1. /\ pc'[<<j, 1>>] = v /\ pc'[<<j, 2>>] = "sent" /\ pc'[<<j, 3>>] = pc[<<j, 3>>]
          /\ at'[<<j, 1>>] = at[<<j, 1>>]
      BY Levels, <2>k, <2>4
    <3> QED BY <1>1, <1>v, <2>1, <2>4, <3>1 DEF JobOK
  <2>5. CASE j = s /\ l = 2
    <3>1. /\ pc'[<<j, 1>>] = pc[<<j, 1>>] /\ pc'[<<j, 2>>] = v /\ pc'[<<j, 3>>] = "sent"
          /\ at'[<<j, 1>>] = at[<<j, 1>>]
      BY Levels, <2>k, <2>5
    <3> QED BY <1>1, <1>v, <2>1, <2>5, <3>1 DEF JobOK
  <2>6. CASE j = s /\ l = 3
    <3>1. /\ pc'[<<j, 1>>] = pc[<<j, 1>>] /\ pc'[<<j, 2>>] = pc[<<j, 2>>] /\ pc'[<<j, 3>>] = v
          /\ at'[<<j, 1>>] = at[<<j, 1>>]
      BY Levels, <2>k, <2>6
    <3>2. \A i \in 1..3 : pc'[<<j, i>>] \in {pc[<<j, i>>], v}
      BY <2>k, <2>6
    <3>3. pc[<<j, 3>>] # "none" /\ v \notin {"post", "pre", "run", "none"}
      BY <1>1, <1>v, <2>6
    <3> QED BY <2>1, <3>1, <3>2, <3>3 DEF JobOK
  <2> QED BY <2>2, <2>3, <2>4, <2>5, <2>6
<1>7. MonitorOK'
  <2>m. Monitor \in Job \cup {Monitor} /\ 1 \in 1..3
    OBVIOUS
  <2>1. \A i \in 1..3 : pc'[<<Monitor, i>>] # "none" => mon.job # NoJob
    <3>1. CASE s = Monitor
      BY <1>1, <3>1 DEF TypeInv, MonitorOK
    <3>2. CASE s # Monitor
      BY <1>3, <2>m, <3>2 DEF TypeInv, MonitorOK
    <3> QED BY <3>1, <3>2
  <2>2. \A i \in 1..3 : pc'[<<Monitor, i>>] # "pre"
    <3> TAKE i \in 1..3
    <3>1. pc'[<<Monitor, i>>] \in {v, "sent", pc[<<Monitor, i>>]}
      BY <1>3, <2>m, Zenon
    <3>2. pc[<<Monitor, i>>] # "pre"
      BY DEF TypeInv, MonitorOK
    <3> QED BY <1>v, <3>1, <3>2
  <2>3. pc'[<<Monitor, 1>>] # "none" => at'[<<Monitor, 1>>] \in Sub
    <3>1. 1 # l + 1
      OBVIOUS
    <3>2. at'[<<Monitor, 1>>] = at[<<Monitor, 1>>]
      BY <1>4, <2>m, <3>1, Zenon
    <3>3. pc'[<<Monitor, 1>>] # "none" => pc[<<Monitor, 1>>] # "none"
      <4>1. CASE s = Monitor /\ l = 1
        BY <1>1, <4>1
      <4>2. CASE ~(s = Monitor /\ l = 1)
        BY <1>3, <2>m, <3>1, <4>2, Zenon
      <4> QED BY <4>1, <4>2
    <3> QED BY <3>2, <3>3 DEF TypeInv, MonitorOK
  <2> QED BY <2>1, <2>2, <2>3 DEF TypeInv, MonitorOK, MonSame
<1>8. LevelOK'
  <2> SUFFICES ASSUME NEW j \in Job \cup {Monitor}
               PROVE  /\ pc'[<<j, 3>>] # "none" => at'[<<j, 3>>] \in Sub
                      /\ \A i \in 1..3 : pc'[<<j, i>>] = "call" => at'[<<j, i>>] = Main
    BY Zenon DEF LevelOK
  <2>1. /\ pc[<<j, 3>>] # "none" => at[<<j, 3>>] \in Sub
        /\ \A i \in 1..3 : pc[<<j, i>>] = "call" => at[<<j, i>>] = Main
    BY DEF TypeInv, LevelOK
  <2>2. \A i \in 1..3 : pc'[<<j, i>>] = "call" => at'[<<j, i>>] = Main
    BY <1>v, <1>3, <1>4, <2>1
  <2>3. pc'[<<j, 3>>] # "none" => at'[<<j, 3>>] \in Sub
    <3>1. CASE j # s \/ l = 1
      BY <1>3, <1>4, <2>1, <3>1
    <3>2. CASE j = s /\ l = 2
      <4>1. at'[<<j, 3>>] = p /\ t[2] # 1
        <5>1. \A i \in 1..3 : i = l + 1 => at'[<<j, i>>] = p
          BY <1>4, <3>2, Zenon
        <5> QED BY <1>v, <3>2, <5>1
      <4> QED BY <4>1
    <3>3. CASE j = s /\ l = 3
      BY <1>1, <1>3, <1>4, <2>1, <3>3
    <3> QED BY <3>1, <3>2, <3>3
  <2> QED BY <2>2, <2>3
<1> QED BY <1>1, <1>3, <1>4, <1>5, <1>6, <1>7, <1>8 DEF TasksKept
-----------------------------------------------------------------------------
(* The order of a dict lists each key once.                                *)
Once(s) == \A i, n \in 1..Len(s) : s[i] = s[n] => i = n

(* Storing under a key adds at most that key.                              *)
LEMMA InsertedKeeps ==
    ASSUME NEW s \in Seq(Key), NEW k \in Key, Once(s)
    PROVE  /\ Inserted(s, k) \in Seq(Key)
           /\ Once(Inserted(s, k))
           /\ \A i \in 1..Len(Inserted(s, k)) :
                 Inserted(s, k)[i] = k \/ \E n \in 1..Len(s) : Inserted(s, k)[i] = s[n]
<1>1. CASE \E i \in 1..Len(s) : s[i] = k
  <2>1. Inserted(s, k) = s
    BY <1>1 DEF Inserted
  <2> QED BY <2>1
<1>2. CASE ~\E i \in 1..Len(s) : s[i] = k
  <2>1. Inserted(s, k) = Append(s, k)
    BY <1>2 DEF Inserted
  <2>2. /\ Append(s, k) \in Seq(Key)
        /\ Len(Append(s, k)) = Len(s) + 1
        /\ \A i \in 1..(Len(s) + 1) : Append(s, k)[i] = IF i <= Len(s) THEN s[i] ELSE k
    OBVIOUS
  <2> QED BY <1>2, <2>1, <2>2 DEF Once
<1> QED BY <1>1, <1>2

(* Removing a key leaves the others.                                       *)
LEMMA RemovedKeeps ==
    ASSUME NEW s \in Seq(Key), NEW k \in Key, Once(s)
    PROVE  /\ Removed(s, k) \in Seq(Key)
           /\ Once(Removed(s, k))
           /\ \A i \in 1..Len(Removed(s, k)) :
                 /\ Removed(s, k)[i] # k
                 /\ \E n \in 1..Len(s) : Removed(s, k)[i] = s[n]
<1>1. CASE ~\E i \in 1..Len(s) : s[i] = k
  <2>1. Removed(s, k) = s
    BY <1>1 DEF Removed
  <2> QED BY <1>1, <2>1
<1>2. CASE \E i \in 1..Len(s) : s[i] = k
  <2> DEFINE c == CHOOSE i \in 1..Len(s) : s[i] = k
             r == [n \in 1..(Len(s) - 1) |-> IF n < c THEN s[n] ELSE s[n + 1]]
  <2>1. c \in 1..Len(s) /\ s[c] = k
    BY <1>2
  <2>2. Removed(s, k) = r
    BY <1>2 DEF Removed
  <2>3. Len(s) \in Nat /\ Len(s) - 1 \in Nat
    BY <2>1
  <2> HIDE DEF c
  <2>4. \A n \in 1..(Len(s) - 1) : r[n] \in Key
    BY <2>1, <2>3
  <2>5. r \in Seq(Key) /\ Len(r) = Len(s) - 1
    BY <2>3, <2>4
  <2>6. \A i \in 1..Len(r) : r[i] # k /\ \E n \in 1..Len(s) : r[i] = s[n]
    <3> TAKE i \in 1..Len(r)
    <3>1. CASE i < c
      BY <2>1, <2>3, <2>5, <3>1 DEF Once
    <3>2. CASE ~(i < c)
      BY <2>1, <2>3, <2>5, <3>2 DEF Once
    <3> QED BY <3>1, <3>2
  <2>7. Once(r)
    BY <2>1, <2>3, <2>5 DEF Once
  <2> HIDE DEF r
  <2> QED BY <2>2, <2>5, <2>6, <2>7
<1> QED BY <1>1, <1>2

(* A message that may be stored: the creation of an issued job.            *)
Storable(j) == j = NoJob \/ (j \in Job /\ req[j] # NoRequest /\ req[j].op = "create")

(* A step that changes nothing preserves the invariant.                    *)
LEMMA StutterTypeInv == TypeInv /\ UNCHANGED vars => TypeInv'
<1> SUFFICES ASSUME TypeInv, UNCHANGED vars
             PROVE  TypeInv'
  OBVIOUS
<1>1. UNCHANGED <<actors, allocated, order, req, pc, at, res, up, mon, crashes>>
  BY DEF vars
<1>2. TypeOK' /\ OrderOK' /\ StoredOK'
  BY <1>1 DEF TypeInv, TypeOK, OrderOK, StoredOK
<1>3. TaskOK'
  BY <1>1, Zenon DEF TypeInv, TaskOK, JobOK
<1>4. LevelOK' /\ MonitorOK'
  BY <1>1 DEF TypeInv, LevelOK, MonitorOK
<1> QED BY <1>2, <1>3, <1>4 DEF TypeInv

(* One table is replaced by another well-formed one.                       *)
LEMMA TableKeeps ==
    ASSUME TypeInv, NEW p \in Pool, NEW d \in [Key -> Job \cup {NoJob}], NEW o \in Seq(Key),
           Once(o),
           \A i \in 1..Len(o) : d[o[i]] # NoJob,
           \A k \in Key : Storable(d[k]),
           allocated' = [allocated EXCEPT ![p] = d],
           order' = [order EXCEPT ![p] = o],
           UNCHANGED req
    PROVE  DictKept
<1>1. allocated' \in [Pool -> [Key -> Job \cup {NoJob}]] /\ order' \in [Pool -> Seq(Key)]
  BY DEF TypeInv, TypeOK
<1>2. \A q \in Pool : /\ allocated'[q] = IF q = p THEN d ELSE allocated[q]
                      /\ order'[q] = IF q = p THEN o ELSE order[q]
  BY DEF TypeInv, TypeOK
<1>3. OrderOK'
  BY <1>2 DEF TypeInv, OrderOK, Once
<1>4. StoredOK'
  <2> SUFFICES ASSUME NEW q \in Pool, NEW k \in Key, allocated'[q][k] # NoJob
               PROVE  req[allocated'[q][k]] # NoRequest /\ req[allocated'[q][k]].op = "create"
    BY DEF StoredOK
  <2>1. CASE q = p
    <3>1. allocated'[q][k] = d[k] /\ Storable(d[k])
      BY <1>2, <2>1
    <3> QED BY <3>1 DEF Storable
  <2>2. CASE q # p
    <3>1. allocated'[q][k] = allocated[q][k]
      BY <1>2, <2>2
    <3> QED BY <3>1 DEF TypeInv, StoredOK
  <2> QED BY <2>1, <2>2
<1> QED BY <1>1, <1>3, <1>4 DEF DictKept

(* The table of p as it stands.                                            *)
LEMMA TableOK ==
    ASSUME TypeInv, NEW p \in Pool
    PROVE  /\ allocated[p] \in [Key -> Job \cup {NoJob}]
           /\ order[p] \in Seq(Key)
           /\ Once(order[p])
           /\ \A i \in 1..Len(order[p]) : allocated[p][order[p][i]] # NoJob
           /\ \A k \in Key : Storable(allocated[p][k])
<1>1. allocated[p] \in [Key -> Job \cup {NoJob}] /\ order[p] \in Seq(Key)
  BY DEF TypeInv, TypeOK
<1>2. Once(order[p]) /\ \A i \in 1..Len(order[p]) : allocated[p][order[p][i]] # NoJob
  BY DEF TypeInv, OrderOK, Once
<1>3. \A k \in Key : Storable(allocated[p][k])
  BY <1>1 DEF TypeInv, StoredOK, Storable
<1> QED BY <1>1, <1>2, <1>3

(* d[k] = j                                                                *)
LEMMA RecordKeeps ==
    ASSUME TypeInv, NEW p \in Pool, NEW k \in Key, NEW j \in Job, Storable(j), Record(p, k, j),
           UNCHANGED req
    PROVE  DictKept /\ MonSame
<1> DEFINE d == [allocated[p] EXCEPT ![k] = j]
           o == Inserted(order[p], k)
<1>1. allocated' = [allocated EXCEPT ![p] = d] /\ order' = [order EXCEPT ![p] = o] /\ mon' = mon
  BY DEF Record
<1>2. d \in [Key -> Job \cup {NoJob}] /\ \A n \in Key : d[n] = IF n = k THEN j ELSE allocated[p][n]
  BY TableOK
<1>3. /\ o \in Seq(Key) /\ Once(o)
      /\ \A i \in 1..Len(o) : o[i] = k \/ \E n \in 1..Len(order[p]) : o[i] = order[p][n]
  BY TableOK, InsertedKeeps, Zenon
<1> HIDE DEF d, o
<1>4. \A i \in 1..Len(o) : d[o[i]] # NoJob
  <2> TAKE i \in 1..Len(o)
  <2>1. o[i] \in Key
    BY <1>3
  <2>2. o[i] = k \/ allocated[p][o[i]] # NoJob
    BY <1>3, TableOK
  <2> QED BY <1>2, <2>1, <2>2, ActorPoolAssumption
<1>5. \A n \in Key : Storable(d[n])
  BY <1>2, TableOK DEF Storable
<1>6. DictKept
  BY <1>1, <1>2, <1>3, <1>4, <1>5, TableKeeps, Zenon
<1> QED BY <1>1, <1>6 DEF MonSame, TypeInv, TypeOK

(* The monitor forgets that it has seen a key; nothing else of it changes. *)
LEMMA UnseenKeeps ==
    ASSUME TypeInv, NEW p, NEW k, Unseen(p, k)
    PROVE  MonSame
BY Zenon DEF TypeInv, TypeOK, Unseen, MonSame, MonitorStates

(* d.pop(k, None)                                                          *)
LEMMA PopKeeps ==
    ASSUME TypeInv, NEW p \in Pool, NEW k \in Key, Pop(p, k), UNCHANGED req
    PROVE  DictKept /\ MonSame
<1> DEFINE d == [allocated[p] EXCEPT ![k] = NoJob]
           o == Removed(order[p], k)
<1>1. allocated' = [allocated EXCEPT ![p] = d] /\ order' = [order EXCEPT ![p] = o] /\ Unseen(p, k)
  BY DEF Pop
<1>2. d \in [Key -> Job \cup {NoJob}] /\ \A n \in Key : d[n] = IF n = k THEN NoJob ELSE allocated[p][n]
  BY TableOK
<1>3. /\ o \in Seq(Key) /\ Once(o)
      /\ \A i \in 1..Len(o) : o[i] # k /\ \E n \in 1..Len(order[p]) : o[i] = order[p][n]
  <2>1. order[p] \in Seq(Key) /\ Once(order[p])
    BY TableOK
  <2> QED BY <2>1, RemovedKeeps, Zenon
<1> HIDE DEF d, o
<1>4. \A i \in 1..Len(o) : d[o[i]] # NoJob
  <2> TAKE i \in 1..Len(o)
  <2>1. o[i] \in Key
    BY <1>3
  <2>2. o[i] # k /\ allocated[p][o[i]] # NoJob
    BY <1>3, TableOK
  <2> QED BY <1>2, <2>1, <2>2
<1>5. \A n \in Key : Storable(d[n])
  BY <1>2, TableOK DEF Storable
<1>6. DictKept
  BY <1>1, <1>2, <1>3, <1>4, <1>5, TableKeeps, Zenon
<1> QED BY <1>1, <1>6, UnseenKeeps

(* A creation has ended: store the actor if it succeeded, pop None.        *)
LEMMA EndCreationKeeps ==
    ASSUME TypeInv, NEW p \in Pool, NEW a \in Actor, NEW j \in Job, Storable(j), NEW ok \in BOOLEAN,
           EndCreation(p, a, j, ok), UNCHANGED req
    PROVE  DictKept /\ MonSame
<1> DEFINE d == [k \in Key |-> CASE k = Placeholder -> NoJob
                                [] k = a /\ ok -> j
                                [] OTHER -> allocated[p][k]]
           m == IF ok THEN Inserted(order[p], a) ELSE order[p]
           o == Removed(m, Placeholder)
<1>1. /\ allocated' = [allocated EXCEPT ![p] = d]
      /\ order' = [order EXCEPT ![p] = o]
      /\ Unseen(p, Placeholder)
  BY DEF EndCreation
<1>2. /\ a \in Key /\ Placeholder \in Key /\ a # Placeholder
      /\ order[p] \in Seq(Key) /\ Once(order[p])
  BY TableOK, ActorPoolAssumption DEF Key
<1>3. /\ d \in [Key -> Job \cup {NoJob}]
      /\ d[Placeholder] = NoJob
      /\ ok => d[a] = j
      /\ \A k \in Key \ {Placeholder} : d[k] = allocated[p][k] \/ (ok /\ k = a /\ d[k] = j)
  BY <1>2, TableOK
<1>4. /\ m \in Seq(Key) /\ Once(m)
      /\ \A i \in 1..Len(m) : (ok /\ m[i] = a) \/ \E n \in 1..Len(order[p]) : m[i] = order[p][n]
  <2>1. CASE ok
    BY <1>2, <2>1, InsertedKeeps, Zenon
  <2>2. CASE ~ok
    BY <1>2, <2>2
  <2> QED BY <2>1, <2>2
<1> HIDE DEF d, m
<1>5. /\ o \in Seq(Key) /\ Once(o)
      /\ \A i \in 1..Len(o) : o[i] # Placeholder /\ \E n \in 1..Len(m) : o[i] = m[n]
  BY <1>2, <1>4, RemovedKeeps
<1> HIDE DEF o
<1>6. \A i \in 1..Len(o) : d[o[i]] # NoJob
  <2> TAKE i \in 1..Len(o)
  <2>1. o[i] \in Key \ {Placeholder}
    BY <1>5
  <2>2. (ok /\ o[i] = a) \/ \E n \in 1..Len(order[p]) : o[i] = order[p][n]
    <3>1. PICK n \in 1..Len(m) : o[i] = m[n]
      BY <1>5
    <3> QED BY <1>4, <3>1, Zenon
  <2>3. (ok /\ o[i] = a) \/ allocated[p][o[i]] # NoJob
    BY <2>2, TableOK
  <2> QED BY <1>3, <2>1, <2>3, ActorPoolAssumption
<1>7. \A k \in Key : Storable(d[k])
  BY <1>3, TableOK DEF Storable
<1>8. DictKept
  BY <1>1, <1>3, <1>5, <1>6, <1>7, TableKeeps, Zenon
<1> QED BY <1>1, <1>8, UnseenKeeps
-----------------------------------------------------------------------------
(* Tables nobody touched.                                                  *)
LEMMA DictSame ==
    ASSUME TypeInv, UNCHANGED <<allocated, order, req>>
    PROVE  DictKept
BY DEF TypeInv, TypeOK, DictKept, OrderOK, StoredOK

(* A monitor nobody touched.                                               *)
LEMMA MonUnchanged ==
    ASSUME TypeInv, UNCHANGED mon
    PROVE  MonSame
BY DEF TypeInv, TypeOK, MonSame

(* Hosting or dropping an actor keeps the shape of _actors.                *)
LEMMA ActorsKeep ==
    ASSUME TypeInv, NEW t \in Task, pc[t] # "none", NEW p,
           \/ UNCHANGED actors
           \/ actors' = [actors EXCEPT ![p] = @ \cup {ActorOf(t)}]
           \/ actors' = [actors EXCEPT ![p] = @ \ {ActorOf(t)}]
    PROVE  actors' \in [Pool -> SUBSET Actor]
<1>1. ActorOf(t) \in Actor
  BY TaskSource
<1>2. actors \in [Pool -> SUBSET Actor]
  BY DEF TypeInv, TypeOK
<1> QED BY <1>1, <1>2

(* A step of a task that leaves processes and requests alone.              *)
LEMMA Combine ==
    ASSUME TypeInv, DictKept, TasksKept, MonSame, actors' \in [Pool -> SUBSET Actor],
           UNCHANGED <<req, up, crashes>>
    PROVE  TypeInv'
BY DEF TypeInv, TypeOK, DictKept, TasksKept, MonSame

(* The job a create task works for may be stored.                          *)
LEMMA SourceStorable ==
    ASSUME TypeInv, NEW t \in Task, pc[t] # "none", Req(t).op = "create"
    PROVE  Storable(Source(t))
BY TaskSource, ActorPoolAssumption DEF Storable, Req

(* Every message but a notification repeats the request.                   *)
LEMMA OpIsRequest ==
    ASSUME NEW t
    PROVE  /\ Op(t) = "create" => Req(t).op = "create"
           /\ Op(t) = "destroy" => Req(t).op = "destroy"
           /\ Op(t) = "send" => Req(t).op = "send"
BY DEF Op

(* MainActorPoolBase.create_actor up to its first await.                   *)
LEMMA MainCreateTypeInv ==
    ASSUME TypeInv, NEW t \in Task, MainCreateStart(t)
    PROVE  TypeInv'
<1>1. /\ pc[t] = "sent" /\ at[t] = Main /\ Op(t) = "create" /\ UNCHANGED <<req, up, crashes>>
  BY Zenon DEF MainCreateStart
<1>2. /\ Req(t).op = "create" /\ Storable(Source(t)) /\ Source(t) \in Job
      /\ Placeholder \in Key /\ Main \in Pool /\ Sub \subseteq Pool
      /\ {"err", "none"} \subseteq Results
  BY <1>1, OpIsRequest, SourceStorable, TaskSource, MainIsPool DEF Key, Results
<1>3. CASE Finish(t, "err") /\ UNCHANGED <<actors, Dict>>
  BY <1>1, <1>2, <1>3, FinishKeeps, DictSame, MonUnchanged, ActorsKeep, Combine DEF Dict
<1>4. CASE Pop(Main, Placeholder) /\ Finish(t, "err") /\ UNCHANGED actors
  BY <1>1, <1>2, <1>4, FinishKeeps, PopKeeps, ActorsKeep, Combine
<1>5. CASE /\ Record(Main, Placeholder, Source(t))
           /\ actors' = [actors EXCEPT ![Main] = @ \cup {ActorOf(t)}]
           /\ Suspend(t, "post")
  BY <1>1, <1>2, <1>5, SuspendKeeps, RecordKeeps, ActorsKeep, Combine, Zenon
<1>6. ASSUME NEW p \in Sub,
             Record(p, Placeholder, Source(t)),
             CallPool(t, p, "call", "none") \/ Finish(t, "err"),
             UNCHANGED actors
      PROVE  TypeInv'
  <2>1. DictKept /\ MonSame /\ actors' \in [Pool -> SUBSET Actor]
    BY <1>1, <1>2, <1>6, RecordKeeps, ActorsKeep
  <2>2. TasksKept
    BY <1>1, <1>2, <1>6, <2>1, FinishKeeps, CallKeeps
  <2> QED BY <1>1, <2>1, <2>2, Combine
<1> QED BY <1>3, <1>4, <1>5, <1>6, Zenon DEF MainCreateStart

(* The operation behind a hook.                                            *)
LEMMA HookIsOp ==
    ASSUME TypeInv, NEW t \in Task
    PROVE  /\ pc[t] = "post" => Req(t).op = "create"
           /\ pc[t] = "pre" => Req(t).op = "destroy"
<1> PICK s \in Job \cup {Monitor}, l \in 1..3 : t = <<s, l>>
  BY TaskShape
<1>1. CASE s = Monitor
  <2>1. Req(t) = req[mon.job]
    BY <1>1 DEF Req, Source
  <2>2. /\ pc[<<Monitor, l>>] # "none" => req[mon.job].op = "create"
        /\ pc[<<Monitor, l>>] # "pre"
    BY DEF TypeInv, MonitorOK
  <2> QED BY <1>1, <2>1, <2>2
<1>2. CASE s # Monitor
  <2>1. Req(t) = req[s] /\ JobOK(s)
    BY <1>2 DEF Req, Source, TypeInv, TaskOK
  <2> QED BY <2>1 DEF JobOK
<1> QED BY <1>1, <1>2

(* A task that waits for a forwarded message has a child.                  *)
LEMMA ChildOfCall ==
    ASSUME TypeInv, NEW t \in Task, pc[t] = "call"
    PROVE  Child(t) \in Task /\ at[Child(t)] \in Pool /\ res[Child(t)] \in Results
<1> PICK s \in Job \cup {Monitor}, l \in 1..3 : t = <<s, l>>
  BY TaskShape
<1>1. l # 3
  BY MainIsPool, Zenon DEF TypeInv, LevelOK
<1>2. Child(t) \in Task
  <2>1. Child(t) = <<s, l + 1>> /\ l + 1 \in 1..3
    BY <1>1 DEF Child
  <2> QED BY <2>1 DEF Task
<1> QED BY <1>2 DEF TypeInv, TypeOK

(* A creation at main ends.                                                *)
LEMMA EndCreateTypeInv ==
    ASSUME TypeInv, NEW t \in Task, MainCreatePosted(t) \/ MainCreateReply(t)
    PROVE  TypeInv'
<1>1. UNCHANGED <<actors, req, up, crashes>> /\ pc[t] \in {"post", "call"}
  BY Zenon DEF MainCreatePosted, MainCreateReply
<1>2. PICK p \in Pool, ok \in BOOLEAN, r \in Results :
         EndCreation(p, ActorOf(t), Source(t), ok) /\ Finish(t, r)
  <2>1. CASE MainCreatePosted(t)
    BY <2>1, MainIsPool, Zenon DEF MainCreatePosted, MayRaise, Results
  <2>2. CASE MainCreateReply(t)
    BY <2>2, ChildOfCall, Zenon DEF MainCreateReply
  <2> QED BY <2>1, <2>2
<1>3. Req(t).op = "create"
  <2>1. CASE MainCreatePosted(t)
    BY <2>1, HookIsOp DEF MainCreatePosted
  <2>2. CASE MainCreateReply(t)
    <3>1. Op(t) = "create"
      BY <2>2 DEF MainCreateReply
    <3> QED BY <3>1, OpIsRequest
  <2> QED BY <2>1, <2>2
<1>4. Source(t) \in Job /\ Storable(Source(t)) /\ ActorOf(t) \in Actor
  BY <1>1, <1>3, TaskSource, SourceStorable
<1>5. DictKept /\ MonSame
  BY <1>1, <1>2, <1>4, EndCreationKeeps
<1>6. TasksKept
  BY <1>1, <1>2, <1>5, FinishKeeps
<1> QED BY <1>1, <1>5, <1>6, ActorsKeep, Combine

(* A creation at a sub pool.                                               *)
LEMMA SubResultKeeps ==
    ASSUME TypeInv, NEW t \in Task, at[t] \in Sub, pc[t] \in {"sent", "post"}, NEW r \in Results,
           SubCreateResult(t, r), MonSame, UNCHANGED req
    PROVE  TasksKept
<1>1. CASE FromMain(t)
  BY <1>1, FinishKeeps DEF SubCreateResult
<1>2. CASE ~FromMain(t)
  <2>1. CallPool(t, Main, "notify", r)
    BY <1>2 DEF SubCreateResult
  <2>2. t[2] = 1
    BY <1>2, TaskShape DEF FromMain, TypeInv, LevelOK
  <2> QED BY <2>1, <2>2, MainIsPool, CallKeeps
<1> QED BY <1>1, <1>2

(* SubActorPoolBase.create_actor and its notification of main.             *)
LEMMA SubCreateTypeInv ==
    ASSUME TypeInv, NEW t \in Task, SubCreateStart(t) \/ SubCreatePosted(t) \/ SubNotified(t)
    PROVE  TypeInv'
<1>1. CASE SubCreateStart(t)
  <2>1. /\ pc[t] = "sent" /\ at[t] \in Sub /\ Op(t) = "create"
        /\ UNCHANGED <<allocated, order, req, up, mon, crashes>>
    BY <1>1 DEF SubCreateStart
  <2>2. Req(t).op = "create" /\ "err" \in Results
    <3>1. Req(t).op = "create"
      BY <2>1, OpIsRequest
    <3> QED BY <3>1 DEF Results
  <2>3. DictKept /\ MonSame
    BY <2>1, DictSame, MonUnchanged
  <2>4. TasksKept
    BY <1>1, <2>1, <2>2, <2>3, SubResultKeeps, SuspendKeeps, Zenon DEF SubCreateStart
  <2>5. actors' \in [Pool -> SUBSET Actor]
    BY <1>1, <2>1, ActorsKeep DEF SubCreateStart
  <2> QED BY <2>1, <2>3, <2>4, <2>5, Combine
<1>2. CASE SubCreatePosted(t)
  <2>1. /\ pc[t] = "post" /\ at[t] \in Sub
        /\ UNCHANGED <<actors, allocated, order, req, up, mon, crashes>>
    BY <1>2 DEF SubCreatePosted
  <2>2. PICK r \in Results : SubCreateResult(t, r)
    BY <1>2 DEF SubCreatePosted, Results
  <2>3. DictKept /\ MonSame
    BY <2>1, DictSame, MonUnchanged
  <2>4. TasksKept
    BY <2>1, <2>2, <2>3, SubResultKeeps
  <2> QED BY <2>1, <2>3, <2>4, ActorsKeep, Combine
<1>3. CASE SubNotified(t)
  <2>1. /\ pc[t] = "notify" /\ Finish(t, res[t]) /\ res[t] \in Results
        /\ UNCHANGED <<actors, allocated, order, req, up, mon, crashes>>
    BY <1>3 DEF SubNotified, TypeInv, TypeOK
  <2> QED BY <2>1, DictSame, MonUnchanged, FinishKeeps, ActorsKeep, Combine
<1> QED BY <1>1, <1>2, <1>3

(* add_sub_pool_actor.                                                     *)
LEMMA RegisterTypeInv ==
    ASSUME TypeInv, NEW t \in Task, MainRegister(t)
    PROVE  TypeInv'
<1>1. /\ pc[t] = "sent" /\ Op(t) = "register" /\ "ok" \in Results
      /\ Record(at[Parent(t)], ActorOf(t), Source(t)) /\ Finish(t, "ok")
      /\ UNCHANGED <<actors, req, up, crashes>>
  BY DEF MainRegister, Results
<1>2. t[2] = 2 /\ at[Parent(t)] \in Sub /\ Req(t).op = "create"
  <2>1. Req(t).op # "register"
    BY <1>1, TaskSource, ActorPoolAssumption
  <2> QED BY <1>1, <2>1 DEF Op
<1>3. Source(t) \in Job /\ Storable(Source(t)) /\ ActorOf(t) \in Key /\ at[Parent(t)] \in Pool
  BY <1>1, <1>2, TaskSource, SourceStorable, MainIsPool DEF Key
<1>4. DictKept /\ MonSame
  BY <1>1, <1>3, RecordKeeps
<1> QED BY <1>1, <1>4, FinishKeeps, ActorsKeep, Combine

(* destroy_actor of the main pool and of a sub pool.                       *)
LEMMA DestroyTypeInv ==
    ASSUME TypeInv, NEW t \in Task,
           MainDestroyStart(t) \/ MainDestroyPre(t) \/ SubDestroyStart(t) \/ SubDestroyPre(t)
    PROVE  TypeInv'
<1>r. {"ok", "err", "none"} \subseteq Results /\ Main \in Pool /\ Sub \subseteq Pool
  BY MainIsPool DEF Results
<1>1. CASE MainDestroyStart(t)
  <2>1. /\ pc[t] = "sent" /\ at[t] = Main /\ Op(t) = "destroy"
        /\ UNCHANGED <<actors, req, up, crashes>>
    BY <1>1, Zenon DEF MainDestroyStart
  <2>2. Req(t).op = "destroy" /\ ActorOf(t) \in Key
    <3>1. Req(t).op = "destroy"
      BY <2>1, OpIsRequest
    <3>2. ActorOf(t) \in Actor
      BY <2>1, TaskSource
    <3> QED BY <3>1, <3>2 DEF Key
  <2>3. CASE UNCHANGED Dict /\ (Suspend(t, "pre") \/ Finish(t, "err"))
    <3>1. DictKept /\ MonSame
      BY <2>1, <2>3, DictSame, MonUnchanged DEF Dict
    <3>2. TasksKept
      BY <1>r, <2>1, <2>2, <2>3, <3>1, FinishKeeps, SuspendKeeps
    <3> QED BY <2>1, <3>1, <3>2, ActorsKeep, Combine
  <2>4. ASSUME NEW p \in Sub, Pop(p, ActorOf(t)),
               CallPool(t, p, "call", "none") \/ Finish(t, "err")
        PROVE  TypeInv'
    <3>1. DictKept /\ MonSame
      BY <1>r, <2>1, <2>2, <2>4, PopKeeps
    <3>2. TasksKept
      BY <1>r, <2>1, <2>2, <2>4, <3>1, FinishKeeps, CallKeeps
    <3> QED BY <2>1, <3>1, <3>2, ActorsKeep, Combine
  <2> QED BY <1>1, <2>3, <2>4, Zenon DEF MainDestroyStart
<1>2. CASE MainDestroyPre(t)
  <2>1. pc[t] = "pre" /\ UNCHANGED <<req, up, crashes>> /\ ActorOf(t) \in Key
    BY <1>2, TaskSource, Zenon DEF MainDestroyPre, Key
  <2>2. DictKept /\ MonSame
    <3>1. CASE UNCHANGED Dict
      BY <2>1, <3>1, DictSame, MonUnchanged DEF Dict
    <3>2. CASE Pop(Main, ActorOf(t))
      BY <1>r, <2>1, <3>2, PopKeeps
    <3> QED BY <1>2, <3>1, <3>2 DEF MainDestroyPre
  <2>3. PICK r \in Results : Finish(t, r)
    BY <1>2, <1>r, Zenon DEF MainDestroyPre
  <2>4. TasksKept
    BY <2>1, <2>2, <2>3, FinishKeeps
  <2>5. actors' \in [Pool -> SUBSET Actor]
    BY <1>2, <2>1, ActorsKeep, Zenon DEF MainDestroyPre
  <2> QED BY <2>1, <2>2, <2>4, <2>5, Combine
<1>3. CASE SubDestroyStart(t)
  <2>1. /\ pc[t] = "sent" /\ Op(t) = "destroy" /\ (Suspend(t, "pre") \/ Finish(t, "err"))
        /\ UNCHANGED <<actors, allocated, order, req, up, mon, crashes>>
    BY <1>3, Zenon DEF SubDestroyStart
  <2>2. DictKept /\ MonSame /\ Req(t).op = "destroy"
    BY <2>1, DictSame, MonUnchanged, OpIsRequest
  <2>3. TasksKept
    BY <1>r, <2>1, <2>2, FinishKeeps, SuspendKeeps
  <2> QED BY <2>1, <2>2, <2>3, ActorsKeep, Combine
<1>4. CASE SubDestroyPre(t)
  <2>1. /\ pc[t] = "pre" /\ at[t] \in Sub
        /\ UNCHANGED <<allocated, order, req, up, mon, crashes>>
    BY <1>4, Zenon DEF SubDestroyPre
  <2>2. DictKept /\ MonSame
    BY <2>1, DictSame, MonUnchanged
  <2>3. \/ Finish(t, "err") \/ Finish(t, "ok")
        \/ ~FromMain(t) /\ CallPool(t, Main, "notify", "ok")
    BY <1>4, Zenon DEF SubDestroyPre
  <2>4. ~FromMain(t) => t[2] = 1
    BY TaskShape DEF FromMain
  <2>5. TasksKept
    BY <1>r, <2>1, <2>2, <2>3, <2>4, FinishKeeps, CallKeeps
  <2>6. actors' \in [Pool -> SUBSET Actor]
    BY <1>4, <2>1, ActorsKeep, Zenon DEF SubDestroyPre
  <2> QED BY <2>1, <2>2, <2>5, <2>6, Combine
<1> QED BY <1>1, <1>2, <1>3, <1>4

(* Forwarded messages, sends, and calls that fail.                         *)
LEMMA ForwardTypeInv ==
    ASSUME TypeInv, NEW t \in Task,
           \/ MainForwardReply(t) \/ CallLost(t) \/ CancelCall(t)
           \/ SendLocal(t) \/ SendReturn(t) \/ SendElsewhere(t)
    PROVE  TypeInv'
<1>r. {"ok", "err", "none"} \subseteq Results /\ Main \in Pool /\ Sub \subseteq Pool
  BY MainIsPool DEF Results
<1>1. /\ pc[t] \in {"sent", "run", "call"}
      /\ UNCHANGED <<actors, allocated, order, req, up, mon, crashes>>
  BY Zenon DEF MainForwardReply, CallLost, CancelCall, SendLocal, SendReturn, SendElsewhere
<1>2. DictKept /\ MonSame /\ actors' \in [Pool -> SUBSET Actor]
  BY <1>1, DictSame, MonUnchanged, ActorsKeep
<1>3. CASE \E r \in Results : Finish(t, r)
  BY <1>1, <1>2, <1>3, FinishKeeps, Combine
<1>4. CASE MainForwardReply(t)
  BY <1>3, <1>4, ChildOfCall, Zenon DEF MainForwardReply
<1>5. CASE CallLost(t) \/ CancelCall(t) \/ SendReturn(t)
  BY <1>r, <1>3, <1>5, Zenon DEF CallLost, CancelCall, SendReturn
<1>6. CASE SendLocal(t)
  <2>1. pc[t] = "sent" /\ Req(t).op = "send" /\ Suspend(t, "run")
    <3>1. pc[t] = "sent" /\ Op(t) = "send" /\ Suspend(t, "run")
      BY <1>6 DEF SendLocal
    <3> QED BY <3>1, OpIsRequest
  <2> QED BY <1>1, <1>2, <2>1, SuspendKeeps, Combine
<1>7. CASE SendElsewhere(t)
  <2>1. CASE UNCHANGED <<pc, at, res>>
    <3>1. UNCHANGED vars
      BY <1>1, <2>1 DEF vars
    <3> QED BY <3>1, StutterTypeInv
  <2>2. ASSUME NEW p \in Sub, at[t] = Main, pc[t] = "sent", CallPool(t, p, "call", "none")
        PROVE  TypeInv'
    BY <1>r, <1>1, <1>2, <2>2, CallKeeps, Combine, Zenon
  <2> QED BY <1>r, <1>3, <1>7, <2>1, <2>2, Zenon DEF SendElsewhere
<1> QED BY <1>4, <1>5, <1>6, <1>7

(* A client sends a request.                                               *)
LEMMA ClientSendTypeInv ==
    ASSUME TypeInv, NEW j \in Job, NEW r \in Requests, ClientSend(j, r)
    PROVE  TypeInv'
<1>1. /\ pc[<<j, 1>>] = "none"
      /\ req' = [req EXCEPT ![j] = r]
      /\ pc' = [pc EXCEPT ![<<j, 1>>] = "sent"]
      /\ at' = [at EXCEPT ![<<j, 1>>] = r.at]
      /\ UNCHANGED <<actors, allocated, order, res, up, mon, crashes>>
  BY Zenon DEF ClientSend, Issued
<1>2. /\ pc \in [Task -> Pcs] /\ at \in [Task -> Pool] /\ req \in [Job -> Requests \cup {NoRequest}]
      /\ "sent" \in Pcs /\ r.at \in Pool /\ r # NoRequest
  BY ActorPoolAssumption, Zenon DEF TypeInv, TypeOK, Pcs
<1>3. /\ pc' \in [Task -> Pcs]
      /\ \A k \in Job \cup {Monitor}, i \in 1..3 :
            pc'[<<k, i>>] = IF k = j /\ i = 1 THEN "sent" ELSE pc[<<k, i>>]
  BY <1>1, <1>2, TaskPairs, Zenon
<1>4. /\ at' \in [Task -> Pool]
      /\ \A k \in Job \cup {Monitor}, i \in 1..3 :
            at'[<<k, i>>] = IF k = j /\ i = 1 THEN r.at ELSE at[<<k, i>>]
  BY <1>1, <1>2, TaskPairs, Zenon
<1>5. /\ req' \in [Job -> Requests \cup {NoRequest}]
      /\ \A k \in Job : req'[k] = IF k = j THEN r ELSE req[k]
      /\ req[j] = NoRequest
  BY <1>1, <1>2, Zenon DEF TypeInv, TaskOK, JobOK
<1>6. TypeOK'
  BY <1>1, <1>3, <1>4, <1>5 DEF TypeInv, TypeOK
<1>7. OrderOK'
  BY <1>1, Zenon DEF TypeInv, OrderOK
<1>8. StoredOK'
  <2> SUFFICES ASSUME NEW p \in Pool, NEW n \in Key, allocated[p][n] # NoJob
               PROVE  req'[allocated[p][n]] # NoRequest /\ req'[allocated[p][n]].op = "create"
    BY <1>1 DEF StoredOK
  <2>1. /\ allocated[p][n] \in Job /\ req[allocated[p][n]] # NoRequest
        /\ req[allocated[p][n]].op = "create"
    BY TableOK DEF Storable
  <2> QED BY <1>5, <2>1
<1>9. TaskOK'
  <2> SUFFICES ASSUME NEW k \in Job
               PROVE  JobOK(k)'
    BY DEF TaskOK
  <2>1. JobOK(k)
    BY DEF TypeInv, TaskOK
  <2>2. CASE k = j
    <3>1. /\ pc'[<<k, 1>>] = "sent" /\ pc'[<<k, 2>>] = pc[<<k, 2>>] /\ pc'[<<k, 3>>] = pc[<<k, 3>>]
          /\ pc[<<k, 2>>] = "none" /\ pc[<<k, 3>>] = "none"
      <4>1. pc'[<<k, 1>>] = "sent" /\ pc'[<<k, 2>>] = pc[<<k, 2>>] /\ pc'[<<k, 3>>] = pc[<<k, 3>>]
        <5>1. \A i \in 1..3 : pc'[<<k, i>>] = IF i = 1 THEN "sent" ELSE pc[<<k, i>>]
          BY <1>3, <2>2, Zenon
        <5> QED BY <5>1, Levels
      <4>2. pc[<<k, 2>>] = "none" /\ pc[<<k, 3>>] = "none"
        BY <1>1, <2>1, <2>2 DEF JobOK
      <4> QED BY <4>1, <4>2
    <3>2. \A i \in 1..3 : pc'[<<k, i>>] \in {"sent", "none"}
      <4>1. \A i \in 1..3 : i = 1 \/ i = 2 \/ i = 3
        OBVIOUS
      <4> QED BY <3>1, <4>1
    <3>3. req'[k] = r
      BY <1>5, <2>2
    <3> QED BY <1>2, <3>1, <3>2, <3>3 DEF JobOK
  <2>3. CASE k # j
    <3>1. /\ \A i \in 1..3 : pc'[<<k, i>>] = pc[<<k, i>>] /\ at'[<<k, i>>] = at[<<k, i>>]
          /\ req'[k] = req[k]
      BY <1>3, <1>4, <1>5, <2>3
    <3> QED BY Levels, <2>1, <3>1, Zenon DEF JobOK
  <2> QED BY <2>2, <2>3
<1>10. LevelOK'
  <2> SUFFICES ASSUME NEW k \in Job \cup {Monitor}
               PROVE  /\ pc'[<<k, 3>>] # "none" => at'[<<k, 3>>] \in Sub
                      /\ \A i \in 1..3 : pc'[<<k, i>>] = "call" => at'[<<k, i>>] = Main
    BY Zenon DEF LevelOK
  <2>1. /\ pc[<<k, 3>>] # "none" => at[<<k, 3>>] \in Sub
        /\ \A i \in 1..3 : pc[<<k, i>>] = "call" => at[<<k, i>>] = Main
    BY Zenon DEF TypeInv, LevelOK
  <2>2. \A i \in 1..3 : \/ pc'[<<k, i>>] = pc[<<k, i>>] /\ at'[<<k, i>>] = at[<<k, i>>]
                        \/ i = 1 /\ pc'[<<k, i>>] = "sent"
    <3> SUFFICES ASSUME NEW i \in 1..3
                 PROVE  \/ pc'[<<k, i>>] = pc[<<k, i>>] /\ at'[<<k, i>>] = at[<<k, i>>]
                        \/ i = 1 /\ pc'[<<k, i>>] = "sent"
      OBVIOUS
    <3>1. /\ pc'[<<k, i>>] = IF k = j /\ i = 1 THEN "sent" ELSE pc[<<k, i>>]
          /\ at'[<<k, i>>] = IF k = j /\ i = 1 THEN r.at ELSE at[<<k, i>>]
      BY <1>3, <1>4, Zenon
    <3> QED BY <3>1, Zenon
  <2>3. pc'[<<k, 3>>] = pc[<<k, 3>>] /\ at'[<<k, 3>>] = at[<<k, 3>>]
    <3>1. \A i \in 1..3 : i # 1 => pc'[<<k, i>>] = pc[<<k, i>>]
      BY <1>3, Zenon
    <3>2. \A i \in 1..3 : i # 1 => at'[<<k, i>>] = at[<<k, i>>]
      BY <1>4, Zenon
    <3>3. 3 \in 1..3 /\ 3 # 1
      OBVIOUS
    <3> QED BY <3>1, <3>2, <3>3
  <2>4. \A i \in 1..3 : pc'[<<k, i>>] = "call" => at'[<<k, i>>] = Main
    BY <2>1, <2>2
  <2> QED BY <2>1, <2>3, <2>4, Zenon
<1>11. MonitorOK'
  <2>1. \A i \in 1..3 : pc'[<<Monitor, i>>] = pc[<<Monitor, i>>] /\ at'[<<Monitor, i>>] = at[<<Monitor, i>>]
    BY <1>3, <1>4, ActorPoolAssumption, Zenon
  <2>2. mon.job # NoJob => req'[mon.job] = req[mon.job]
    BY <1>5 DEF TypeInv, TypeOK, MonitorOK, MonitorStates
  <2>3. MonitorOK
    BY DEF TypeInv
  <2>4. mon' = mon
    BY <1>1
  <2> QED BY Levels, <2>1, <2>2, <2>3, <2>4 DEF MonitorOK
<1> QED BY <1>6, <1>7, <1>8, <1>9, <1>10, <1>11 DEF TypeInv

(* A sub pool process dies.                                                *)
LEMMA CrashTypeInv ==
    ASSUME TypeInv, NEW p \in Sub, Crash(p)
    PROVE  TypeInv'
<1>1. /\ crashes < MaxCrashes /\ crashes' = crashes + 1
      /\ up' = [up EXCEPT ![p] = FALSE]
      /\ actors' = [actors EXCEPT ![p] = {}]
      /\ UNCHANGED <<allocated, order, req, at, mon>>
  BY DEF Crash
<1>2. PICK gone \in SUBSET Task :
         /\ \A t \in gone : pc[t] # "none"
         /\ pc' = [t \in Task |-> IF t \in gone
                                  THEN IF t[1] \in Job /\ t[2] = 1 THEN "done" ELSE "lost"
                                  ELSE pc[t]]
  <2> DEFINE here == {t \in Task : at[t] = p /\ pc[t] \notin {"none", "done", "lost"}}
             awaited == {t \in Task : at[t] = p /\ pc[t] = "done" /\ t[2] > 1
                                      /\ pc[Parent(t)] = "call"}
  <2>1. PICK dropped \in SUBSET awaited :
           pc' = [t \in Task |-> IF t \in here \cup dropped
                                 THEN IF t[1] \in Job /\ t[2] = 1 THEN "done" ELSE "lost"
                                 ELSE pc[t]]
    BY DEF Crash
  <2>2. here \cup dropped \in SUBSET Task /\ \A t \in here \cup dropped : pc[t] # "none"
    OBVIOUS
  <2> QED BY <2>1, <2>2, Zenon
<1>3. /\ pc' \in [Task -> Pcs] /\ res' \in [Task -> Results]
  <2>1. pc \in [Task -> Pcs] /\ res \in [Task -> Results]
    BY DEF TypeInv, TypeOK
  <2>2. pc' \in [Task -> Pcs]
    BY <1>2, <2>1 DEF Pcs
  <2>3. PICK here : res' = [t \in Task |-> IF t \in here THEN "err" ELSE res[t]]
    BY Zenon DEF Crash
  <2>4. res' \in [Task -> Results]
    BY <2>1, <2>3 DEF Results
  <2> QED BY <2>2, <2>4
<1>4. TypeOK'
  <2>1. crashes' \in 0..MaxCrashes
    <3>1. crashes \in 0..MaxCrashes
      BY DEF TypeInv, TypeOK
    <3>2. MaxCrashes \in Nat
      BY ActorPoolAssumption
    <3> QED BY <1>1, <3>1, <3>2
  <2>2. actors' \in [Pool -> SUBSET Actor] /\ up' \in [Sub -> BOOLEAN]
    BY <1>1, Zenon DEF TypeInv, TypeOK
  <2> QED BY <1>1, <1>3, <2>1, <2>2 DEF TypeInv, TypeOK
<1>5. OrderOK' /\ StoredOK'
  BY <1>1 DEF TypeInv, OrderOK, StoredOK
<1>6. \A k \in Job \cup {Monitor}, i \in 1..3 :
         \/ pc'[<<k, i>>] = pc[<<k, i>>]
         \/ pc[<<k, i>>] # "none" /\ pc'[<<k, i>>] \in {"done", "lost"}
  BY <1>2, TaskPairs, Zenon
<1>7. TaskOK'
  <2> SUFFICES ASSUME NEW k \in Job
               PROVE  JobOK(k)'
    BY DEF TaskOK
  <2>1. JobOK(k)
    BY DEF TypeInv, TaskOK
  <2>2. \A i \in 1..3 : \/ pc'[<<k, i>>] = pc[<<k, i>>]
                        \/ pc[<<k, i>>] # "none" /\ pc'[<<k, i>>] \in {"done", "lost"}
    BY <1>6, Zenon
  <2>3. req' = req /\ at' = at
    BY <1>1
  <2> QED BY Levels, <2>1, <2>2, <2>3 DEF JobOK
<1>8. LevelOK'
  <2> SUFFICES ASSUME NEW k \in Job \cup {Monitor}
               PROVE  /\ pc'[<<k, 3>>] # "none" => at[<<k, 3>>] \in Sub
                      /\ \A i \in 1..3 : pc'[<<k, i>>] = "call" => at[<<k, i>>] = Main
    BY <1>1, Zenon DEF LevelOK
  <2>1. /\ pc[<<k, 3>>] # "none" => at[<<k, 3>>] \in Sub
        /\ \A i \in 1..3 : pc[<<k, i>>] = "call" => at[<<k, i>>] = Main
    BY Zenon DEF TypeInv, LevelOK
  <2> QED BY Levels, <1>6, <2>1, Zenon
<1>9. MonitorOK'
  <2>1. \A i \in 1..3 : \/ pc'[<<Monitor, i>>] = pc[<<Monitor, i>>]
                        \/ /\ pc[<<Monitor, i>>] # "none"
                           /\ pc'[<<Monitor, i>>] \in {"done", "lost"}
    BY <1>6, Zenon
  <2>2. req' = req /\ at' = at /\ mon' = mon
    BY <1>1
  <2>3. MonitorOK
    BY DEF TypeInv
  <2> QED BY Levels, <2>1, <2>2, <2>3 DEF MonitorOK
<1> QED BY <1>4, <1>5, <1>7, <1>8, <1>9 DEF TypeInv

(* A turn of the replay that sends the next stored message.                *)
LEMMA ReplayTypeInv ==
    ASSUME TypeInv, NEW k \in Key, NEW n \in Nat,
           mon.pc # "idle", allocated[mon.pool][k] # NoJob,
           mon' = [mon EXCEPT !.pc = "calling", !.seen = @ \cup {k}, !.size = n,
                              !.job = allocated[mon.pool][k], !.from_main = k # Placeholder],
           pc' = [pc EXCEPT ![<<Monitor, 1>>] = "sent", ![<<Monitor, 2>>] = "none"],
           at' = [at EXCEPT ![<<Monitor, 1>>] = mon.pool],
           UNCHANGED <<actors, allocated, order, req, res, up, crashes>>
    PROVE  TypeInv'
<1>1. /\ mon \in MonitorStates /\ pc \in [Task -> Pcs] /\ at \in [Task -> Pool]
      /\ mon.pool \in Sub /\ mon.pool \in Pool
  BY MainIsPool DEF TypeInv, TypeOK, MonitorOK
<1>2. /\ allocated[mon.pool][k] \in Job
      /\ req[allocated[mon.pool][k]] # NoRequest /\ req[allocated[mon.pool][k]].op = "create"
  BY <1>1, TableOK DEF Storable
<1>3. /\ mon' \in MonitorStates
      /\ mon'.job = allocated[mon.pool][k] /\ mon'.pool = mon.pool
  BY <1>1, <1>2, Zenon DEF MonitorStates
<1>4. \A x \in Task : pc'[x] = IF x = <<Monitor, 2>> THEN "none"
                               ELSE IF x = <<Monitor, 1>> THEN "sent" ELSE pc[x]
  BY <1>1, TaskPairs
<1>5. pc' \in [Task -> Pcs]
  <2>1. "sent" \in Pcs /\ "none" \in Pcs
    BY DEF Pcs
  <2> QED BY <1>1, <2>1, Zenon
<1>6. at' \in [Task -> Pool] /\ \A x \in Task : at'[x] = IF x = <<Monitor, 1>> THEN mon.pool ELSE at[x]
  BY <1>1, Zenon
<1>j. \A j \in Job, i \in 1..3 : pc'[<<j, i>>] = pc[<<j, i>>] /\ at'[<<j, i>>] = at[<<j, i>>]
  <2> TAKE j \in Job, i \in 1..3
  <2>1. <<j, i>> \in Task /\ <<j, i>> # <<Monitor, 1>> /\ <<j, i>> # <<Monitor, 2>>
    BY TaskPairs, ActorPoolAssumption, Zenon
  <2> QED BY <1>4, <1>6, <2>1, Zenon
<1>k. /\ pc'[<<Monitor, 1>>] = "sent" /\ at'[<<Monitor, 1>>] = mon.pool
      /\ pc'[<<Monitor, 2>>] = "none"
      /\ pc'[<<Monitor, 3>>] = pc[<<Monitor, 3>>] /\ at'[<<Monitor, 3>>] = at[<<Monitor, 3>>]
  <2>1. /\ <<Monitor, 1>> \in Task /\ <<Monitor, 2>> \in Task /\ <<Monitor, 3>> \in Task
        /\ <<Monitor, 1>> # <<Monitor, 2>> /\ <<Monitor, 3>> # <<Monitor, 2>>
        /\ <<Monitor, 3>> # <<Monitor, 1>>
    BY TaskPairs
  <2> QED BY <1>4, <1>6, <2>1, Zenon
<1>7. TypeOK'
  BY <1>3, <1>5, <1>6, Zenon DEF TypeInv, TypeOK
<1>8. OrderOK' /\ StoredOK'
  BY DEF TypeInv, OrderOK, StoredOK
<1>9. TaskOK'
  <2> SUFFICES ASSUME NEW j \in Job
               PROVE  JobOK(j)'
    BY DEF TaskOK
  <2>1. JobOK(j)
    BY DEF TypeInv, TaskOK
  <2>2. \A i \in 1..3 : pc'[<<j, i>>] = pc[<<j, i>>] /\ at'[<<j, i>>] = at[<<j, i>>]
    BY <1>j, Zenon
  <2> QED BY <2>1, <2>2 DEF JobOK
<1>10. LevelOK'
  <2>1. ASSUME NEW j \in Job
        PROVE  /\ pc'[<<j, 3>>] # "none" => at'[<<j, 3>>] \in Sub
               /\ \A i \in 1..3 : pc'[<<j, i>>] = "call" => at'[<<j, i>>] = Main
    <3>1. \A i \in 1..3 : pc'[<<j, i>>] = pc[<<j, i>>] /\ at'[<<j, i>>] = at[<<j, i>>]
      BY <1>j, <2>1, Zenon
    <3>2. /\ pc[<<j, 3>>] # "none" => at[<<j, 3>>] \in Sub
          /\ \A i \in 1..3 : pc[<<j, i>>] = "call" => at[<<j, i>>] = Main
      BY <2>1 DEF TypeInv, LevelOK
    <3> QED BY <3>1, <3>2
  <2>2. /\ pc'[<<Monitor, 3>>] # "none" => at'[<<Monitor, 3>>] \in Sub
        /\ \A i \in 1..3 : pc'[<<Monitor, i>>] = "call" => at'[<<Monitor, i>>] = Main
    <3>1. /\ pc[<<Monitor, 3>>] # "none" => at[<<Monitor, 3>>] \in Sub
          /\ \A i \in 1..3 : pc[<<Monitor, i>>] = "call" => at[<<Monitor, i>>] = Main
      BY DEF TypeInv, LevelOK
    <3>2. \A i \in 1..3 : i = 1 \/ i = 2 \/ i = 3
      OBVIOUS
    <3> QED BY <1>k, <3>1, <3>2
  <2> QED BY <2>1, <2>2, Zenon DEF LevelOK
<1>11. MonitorOK'
  <2>1. \A i \in 1..3 : pc'[<<Monitor, i>>] # "pre"
    <3>1. \A i \in 1..3 : pc[<<Monitor, i>>] # "pre" /\ (i = 1 \/ i = 2 \/ i = 3)
      BY DEF TypeInv, MonitorOK
    <3> QED BY <1>k, <3>1
  <2> QED BY <1>1, <1>2, <1>3, <1>k, <2>1, ActorPoolAssumption DEF MonitorOK
<1> QED BY <1>7, <1>8, <1>9, <1>10, <1>11 DEF TypeInv

(* monitor_sub_pools and recover_sub_pool.                                 *)
LEMMA MonitorTypeInv ==
    ASSUME TypeInv, MonitorStep
    PROVE  TypeInv'
<1>m. /\ mon \in MonitorStates /\ up \in [Sub -> BOOLEAN]
      /\ UNCHANGED <<actors, req, res, crashes>>
  BY Zenon DEF TypeInv, TypeOK, MonitorStep, MonitorDetect, MonitorStarted, MonitorNext, MonitorLost
<1>i. MonitorIdle \in MonitorStates /\ MonitorIdle.pc = "idle" /\ MonitorIdle.job = mon.job
  BY <1>m, Zenon DEF MonitorIdle, MonitorStates
<1>1. ASSUME DictKept, UNCHANGED <<pc, at>>, up' \in [Sub -> BOOLEAN],
             mon' \in MonitorStates, mon'.job = mon.job, mon'.pc # "idle" => mon'.pool \in Sub
      PROVE  TypeInv'
  <2>1. TypeOK'
    BY <1>m, <1>1 DEF TypeInv, TypeOK, DictKept
  <2>2. OrderOK' /\ StoredOK'
    BY <1>1 DEF DictKept
  <2>3. TaskOK' /\ LevelOK'
    BY <1>m, <1>1 DEF TypeInv, TaskOK, JobOK, LevelOK
  <2>4. MonitorOK'
    BY <1>m, <1>1, Zenon DEF TypeInv, MonitorOK
  <2> QED BY <2>1, <2>2, <2>3, <2>4 DEF TypeInv
<1>2. ASSUME NEW p \in Sub, MonitorDetect(p)
      PROVE  TypeInv'
  <2>1. /\ UNCHANGED <<pc, at, up>> /\ p \in Pool
        /\ mon' = IF AutoRecover = "false" THEN mon ELSE [mon EXCEPT !.pc = "starting", !.pool = p]
    BY <1>2, MainIsPool DEF MonitorDetect
  <2>2. mon' \in MonitorStates /\ mon'.job = mon.job /\ (mon'.pc # "idle" => mon'.pool \in Sub)
    BY <1>m, <2>1, Zenon DEF MonitorStates, TypeInv, MonitorOK
  <2>3. DictKept
    <3>1. CASE UNCHANGED <<allocated, order>>
      BY <1>m, <3>1, DictSame
    <3>2. CASE /\ allocated' = [allocated EXCEPT ![p] = [k \in Key |-> NoJob]]
               /\ order' = [order EXCEPT ![p] = <<>>]
      <4>1. /\ [k \in Key |-> NoJob] \in [Key -> Job \cup {NoJob}]
            /\ <<>> \in Seq(Key) /\ Once(<<>>)
            /\ \A i \in 1..Len(<<>>) : [k \in Key |-> NoJob][<<>>[i]] # NoJob
            /\ \A k \in Key : Storable([n \in Key |-> NoJob][k])
        BY DEF Once, Storable
      <4> QED BY <1>m, <2>1, <3>2, <4>1, TableKeeps, Zenon
    <3> QED BY <1>2, <3>1, <3>2 DEF MonitorDetect
  <2> QED BY <1>m, <1>1, <2>1, <2>2, <2>3
<1>3. CASE MonitorStarted
  <2>1. /\ UNCHANGED <<allocated, order, pc, at>> /\ mon.pc = "starting"
        /\ up' = [up EXCEPT ![mon.pool] = TRUE]
        /\ mon' = [mon EXCEPT !.pc = "started"] \/ mon' = MonitorIdle
    BY <1>3 DEF MonitorStarted
  <2>2. mon' \in MonitorStates /\ mon'.job = mon.job /\ (mon'.pc # "idle" => mon'.pool \in Sub)
    BY <1>m, <1>i, <2>1 DEF MonitorStates, TypeInv, MonitorOK
  <2>3. DictKept /\ up' \in [Sub -> BOOLEAN]
    BY <1>m, <2>1, DictSame, Zenon
  <2> QED BY <1>1, <2>1, <2>2, <2>3
<1>4. CASE MonitorNext
  <2>1. /\ mon.pc \in {"started", "calling"}
        /\ UNCHANGED <<actors, allocated, order, req, res, up, crashes>>
        /\ mon.pool \in Pool
    BY <1>4, <1>m, Zenon DEF MonitorNext, MonitorStates
  <2>2. CASE mon' = MonitorIdle /\ UNCHANGED <<pc, at>>
    <3>1. DictKept
      BY <2>1, DictSame
    <3> QED BY <1>m, <1>i, <1>1, <2>1, <2>2, <3>1
  <2>3. ASSUME NEW i \in 1..Len(order[mon.pool]), NEW n \in {Len(order[mon.pool]), mon.size},
               mon' = [mon EXCEPT !.pc = "calling", !.seen = @ \cup {order[mon.pool][i]}, !.size = n,
                                  !.job = allocated[mon.pool][order[mon.pool][i]],
                                  !.from_main = order[mon.pool][i] # Placeholder],
               pc' = [pc EXCEPT ![<<Monitor, 1>>] = "sent", ![Child(<<Monitor, 1>>)] = "none"],
               at' = [at EXCEPT ![<<Monitor, 1>>] = mon.pool]
        PROVE  TypeInv'
    <3>1. Child(<<Monitor, 1>>) = <<Monitor, 2>>
      BY DEF Child
    <3>2. /\ order[mon.pool][i] \in Key
          /\ allocated[mon.pool][order[mon.pool][i]] # NoJob
          /\ n \in Nat
      <4>1. n \in Nat
        <5>1. mon.size \in Nat
          BY <1>m DEF MonitorStates
        <5>2. order[mon.pool] \in Seq(Key)
          BY <2>1, TableOK, Zenon
        <5> QED BY <5>1, <5>2
      <4>2. order[mon.pool] \in Seq(Key) /\ allocated[mon.pool][order[mon.pool][i]] # NoJob
        BY <2>1, TableOK, Zenon
      <4>3. order[mon.pool][i] \in Key
        BY <4>2
      <4> QED BY <4>1, <4>2, <4>3
    <3> QED BY <2>1, <2>3, <3>1, <3>2, ReplayTypeInv, Zenon
  <2> QED BY <1>4, <2>2, <2>3, Zenon DEF MonitorNext
<1>5. CASE MonitorLost
  <2>1. UNCHANGED <<allocated, order, pc, at, up>> /\ mon' = MonitorIdle
    BY <1>5 DEF MonitorLost
  <2>2. DictKept
    BY <1>m, <2>1, DictSame
  <2> QED BY <1>m, <1>i, <1>1, <2>1, <2>2
<1> QED BY <1>2, <1>3, <1>4, <1>5 DEF MonitorStep

(* Every step preserves the invariant.                                     *)
LEMMA NextTypeInv == TypeInv /\ [Next]_vars => TypeInv'
<1> SUFFICES ASSUME TypeInv, [Next]_vars
             PROVE  TypeInv'
  OBVIOUS
<1>1. CASE UNCHANGED vars
  BY <1>1, StutterTypeInv
<1>2. ASSUME NEW j \in Job, NEW r \in Requests, ClientSend(j, r)
      PROVE  TypeInv'
  BY <1>2, ClientSendTypeInv
<1>3. ASSUME NEW t \in Task, TaskStep(t) \/ CancelCall(t)
      PROVE  TypeInv'
  BY <1>3, MainCreateTypeInv, EndCreateTypeInv, SubCreateTypeInv, RegisterTypeInv,
     DestroyTypeInv, ForwardTypeInv DEF TaskStep
<1>4. ASSUME NEW p \in Sub, Crash(p)
      PROVE  TypeInv'
  BY <1>4, CrashTypeInv
<1>5. CASE MonitorStep
  BY <1>5, MonitorTypeInv
<1> QED BY <1>1, <1>2, <1>3, <1>4, <1>5 DEF Next, Rest

(* The state always has its shape, and every handler works for a request   *)
(* some client issued.                                                     *)
THEOREM TypeCorrect == Spec => []TypeOK
<1>1. TypeInv => TypeOK
  BY DEF TypeInv
<1> QED BY <1>1, InitTypeInv, NextTypeInv, PTL DEF Spec
=============================================================================
