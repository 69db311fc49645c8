-------------------------- MODULE ActorBaseProofs --------------------------
(***************************************************************************)
(* Proofs about ActorBase for any number of calls, of whatever kinds and   *)
(* ways, any number of yields, cancellations and incarnations, and both    *)
(* kinds of lock.                                                          *)
(*                                                                         *)
(* A step of the model rewrites the tasks and the locks by a composition   *)
(* of Put, Take, Leave and Interrupted.  The lock's invariant is stated of *)
(* such a value s, with the calls in X left out of account: a call gives   *)
(* up its place, is rewritten while it is out of account, and takes a      *)
(* place again or rests.                                                   *)
(***************************************************************************)
EXTENDS ActorBase, QueueProofs

Results == {"none", "absent", "result", "cancelled", "indexerror"}
TaskStates ==
    [pc : {"none", "sent", "queued", "body", "yielded", "gather", "end"}, kind : Method,
     via : {"message", "forwarded", "local"}, on : 0..MaxActors, seg : Nat, thrown : BOOLEAN,
     child : Calls \cup {Nobody}, pend : SUBSET {1, 2}, res : Results]
ClientStates ==
    [pc : {"idle", "wait", "cancelling", "final", "done"}, got : Results, acked : BOOLEAN, again : BOOLEAN]

(* A call that runs does so on an object; only a generator is at a yield   *)
(* or is thrown an error.                                                  *)
Sound(t) ==
    /\ t \in TaskStates
    /\ t.pc \in {"queued", "body", "yielded", "gather"} => t.on \in Actors
    /\ t.pc = "yielded" \/ t.thrown => t.kind \in Generators
Locked(s) ==
    /\ s = [task |-> s.task, holder |-> s.holder, queue |-> s.queue]
    /\ s.task \in [Calls -> TaskStates] /\ (\A c \in Calls : Sound(s.task[c]))
    /\ s.holder \in [Actors -> Calls \cup {Nobody}]
    /\ s.queue \in [Actors -> Seq(Calls)]

(* A call that takes the lock runs on a; or waits for its lock.            *)
RunsOn(t, a) == t.pc = "body" /\ t.on = a /\ t.kind # "nolock" /\ lockKind # "fake"
WaitsOn(t, a) == t.pc = "queued" /\ t.on = a

(* The lock of a is held by the one call that runs there, and its queue    *)
(* has the calls that wait for it; nobody waits for a free lock.           *)
HolderOK(s, a, X) ==
    /\ s.holder[a] # Nobody => s.holder[a] \in Calls \ X /\ RunsOn(s.task[s.holder[a]], a)
    /\ s.holder[a] = Nobody => s.queue[a] = <<>>
    /\ Distinct(s.queue[a])
    /\ \A c \in X : c \notin Range(s.queue[a])
PlaceOK(s, a, c) ==
    /\ RunsOn(s.task[c], a) => s.holder[a] = c
    /\ WaitsOn(s.task[c], a) <=> c \in Range(s.queue[a])
    /\ WaitsOn(s.task[c], a) => s.task[c].kind # "nolock" /\ lockKind # "fake"
AllBut(X, s) ==
    /\ Locked(s)
    /\ \A a \in Actors : HolderOK(s, a, X)
    /\ \A a \in Actors : \A c \in Calls \ X : PlaceOK(s, a, c)

(* What a step may do to the other calls.                                  *)
Woken(t, u) == u = t \/ (t.pc = "queued" /\ u = [t EXCEPT !.pc = "body"])
OthersSame(s, u, X) == \A d \in Calls \ X : u.task[d] = s.task[d]
OthersWoken(s, u, X) == \A d \in Calls \ X : Woken(s.task[d], u.task[d])

-----------------------------------------------------------------------------
LEMMA ActorFacts == Nobody \notin Calls /\ MaxActors \in Nat /\ 0 \notin Actors /\ Actors \subseteq 0..MaxActors /\ 1 \in Actors
BY ActorAssumption DEF Actors

(* A call that neither runs nor waits has no place.                        *)
LEMMA NoPlace ==
    ASSUME NEW s, AllBut({}, s), NEW c \in Calls, s.task[c].pc \notin {"body", "queued"}
    PROVE  AllBut({c}, s)
<1>1. ASSUME NEW a \in Actors
      PROVE  HolderOK(s, a, {c})
  BY DEF AllBut, HolderOK, PlaceOK, RunsOn, WaitsOn
<1> QED BY <1>1, Zenon DEF AllBut

(* A call whose lock is another's, or that takes none, has no place        *)
(* either: what Leave leaves.                                              *)
LEMMA LeaveFacts ==
    ASSUME NEW s, AllBut({}, s), NEW c \in Calls, s.task[c].pc \in {"body", "gather"}
    PROVE  /\ AllBut({c}, Leave(s, c))
           /\ Leave(s, c).task[c] = s.task[c]
           /\ OthersWoken(s, Leave(s, c), {c})
<1> DEFINE a == s.task[c].on
           q == s.queue[a]
           u == Leave(s, c)
<1>1. Locked(s) /\ s.task[c] \in TaskStates /\ a \in Actors /\ q \in Seq(Calls) /\ c # Nobody
  BY ActorFacts DEF AllBut, Locked, Sound
<1>2. HolderOK(s, a, {}) /\ \A d \in Calls : PlaceOK(s, a, d)
  BY <1>1 DEF AllBut
<1>3. c \notin Range(q)
  BY <1>2 DEF PlaceOK, WaitsOn
<1>4. ASSUME NEW b \in Actors, s.holder[b] = c
      PROVE  b = a
  BY <1>1, <1>4 DEF AllBut, HolderOK, RunsOn
<1>5. ASSUME NEW b \in Actors
      PROVE  c \notin Range(s.queue[b])
  BY <1>5 DEF AllBut, PlaceOK, WaitsOn
<1> HIDE DEF a, q, u
<1>6. CASE s.holder[a] # c
  <2>1. u = s
    BY <1>6 DEF u, Leave, a
  <2>2. ASSUME NEW b \in Actors
        PROVE  HolderOK(s, b, {c})
    BY <1>4, <1>5, <1>6 DEF AllBut, HolderOK
  <2>3. AllBut({c}, s)
    BY <2>2, Zenon DEF AllBut
  <2> QED BY <2>1, <2>3 DEF u, OthersWoken, Woken
<1>7. CASE s.holder[a] = c /\ q = <<>>
  <2>1. u = [s EXCEPT !.holder[a] = Nobody]
    BY <1>7 DEF u, Leave, a, q
  <2>2. /\ u = [task |-> s.task, holder |-> u.holder, queue |-> s.queue]
        /\ u.holder = [s.holder EXCEPT ![a] = Nobody] /\ u.task = s.task /\ u.queue = s.queue
    BY <1>1, <2>1 DEF Locked
  <2>3. Locked(u)
    BY <1>1, <2>2 DEF Locked
  <2>4. u.holder[a] = Nobody /\ \A b \in Actors : b # a => u.holder[b] = s.holder[b]
    BY <1>1, <2>2 DEF Locked
  <2>5. ASSUME NEW b \in Actors
        PROVE  HolderOK(u, b, {c})
    <3>1. CASE b = a
      BY <1>7, <2>2, <2>4, <3>1, EmptyQueue DEF HolderOK, q
    <3>2. CASE b # a
      <4>1. HolderOK(s, b, {}) /\ s.holder[b] # c
        BY <1>4, <3>2 DEF AllBut
      <4> QED BY <1>5, <2>2, <2>4, <3>2, <4>1 DEF HolderOK
    <3> QED BY <3>1, <3>2
  <2>6. ASSUME NEW b \in Actors, NEW d \in Calls \ {c}
        PROVE  PlaceOK(u, b, d)
    <3>1. PlaceOK(s, b, d)
      BY DEF AllBut
    <3> QED BY <1>7, <2>2, <2>4, <3>1 DEF PlaceOK
  <2> QED BY <2>2, <2>3, <2>5, <2>6 DEF u, AllBut, OthersWoken, Woken
<1>8. CASE s.holder[a] = c /\ q # <<>>
  <2> DEFINE h == Head(q)
  <2>1. /\ h \in Calls /\ Tail(q) \in Seq(Calls) /\ Range(q) = Range(Tail(q)) \cup {h}
        /\ Distinct(Tail(q)) /\ h \notin Range(Tail(q))
    BY <1>1, <1>2, <1>8, TailFacts DEF HolderOK, q
  <2>2. WaitsOn(s.task[h], a) /\ h # c /\ s.task[h].kind # "nolock" /\ lockKind # "fake" /\ h # Nobody
    BY <1>2, <1>3, <2>1, ActorFacts DEF PlaceOK, q
  <2>3. u = [s EXCEPT !.holder[a] = h, !.queue[a] = Tail(q), !.task[h].pc = "body"]
    BY <1>8 DEF u, Leave, a, q
  <2> HIDE DEF h
  <2>4. /\ u = [task |-> u.task, holder |-> u.holder, queue |-> u.queue]
        /\ u.holder = [s.holder EXCEPT ![a] = h]
        /\ u.task = [s.task EXCEPT ![h].pc = "body"]
        /\ u.queue = [s.queue EXCEPT ![a] = Tail(q)]
    BY <1>1, <2>3 DEF Locked
  <2>5. /\ u.holder[a] = h /\ \A b \in Actors : b # a => u.holder[b] = s.holder[b]
        /\ u.queue[a] = Tail(q) /\ \A b \in Actors : b # a => u.queue[b] = s.queue[b]
        /\ u.task[h] = [s.task[h] EXCEPT !.pc = "body"] /\ \A d \in Calls : d # h => u.task[d] = s.task[d]
    BY <1>1, <2>1, <2>4 DEF Locked
  <2>6. Sound(u.task[h]) /\ RunsOn(u.task[h], a) /\ \A b \in Actors : ~WaitsOn(u.task[h], b)
    <3>1. Sound(s.task[h])
      BY <1>1, <2>1 DEF Locked
    <3> QED BY <2>2, <2>5, <3>1 DEF Sound, RunsOn, WaitsOn, TaskStates
  <2>7. Locked(u)
    <3>1. u.holder \in [Actors -> Calls \cup {Nobody}] /\ u.queue \in [Actors -> Seq(Calls)]
      BY <1>1, <2>1, <2>4 DEF Locked
    <3>2. \A d \in Calls : Sound(u.task[d])
      BY <1>1, <2>5, <2>6 DEF Locked
    <3>3. u.task \in [Calls -> TaskStates]
      BY <1>1, <2>4, <2>5, <2>6, <3>2 DEF Locked, Sound
    <3> QED BY <2>4, <3>1, <3>2, <3>3 DEF Locked
  <2>8. ASSUME NEW b \in Actors
        PROVE  HolderOK(u, b, {c})
    <3>1. CASE b = a
      BY <1>3, <2>1, <2>2, <2>5, <2>6, <3>1 DEF HolderOK
    <3>2. CASE b # a
      <4>1. HolderOK(s, b, {}) /\ s.holder[b] # c
        BY <1>4, <3>2 DEF AllBut
      <4>2. s.holder[b] # h
        BY <2>2, <4>1 DEF HolderOK, RunsOn, WaitsOn
      <4> QED BY <1>5, <2>5, <3>2, <4>1, <4>2 DEF HolderOK
    <3> QED BY <3>1, <3>2
  <2>9. ASSUME NEW b \in Actors, NEW d \in Calls \ {c}
        PROVE  PlaceOK(u, b, d)
    <3>1. PlaceOK(s, b, d)
      BY DEF AllBut
    <3>2. CASE d = h
      <4>1. d \notin Range(u.queue[b])
        BY <2>1, <2>2, <2>5, <3>1, <3>2 DEF PlaceOK, WaitsOn
      <4>2. RunsOn(u.task[d], b) => b = a
        BY <2>6, <3>2 DEF RunsOn
      <4> QED BY <2>5, <2>6, <3>2, <4>1, <4>2 DEF PlaceOK
    <3>3. CASE d # h
      <4>1. u.task[d] = s.task[d] /\ (d \in Range(u.queue[b]) <=> d \in Range(s.queue[b]))
        BY <2>1, <2>5, <3>3 DEF q
      <4>2. RunsOn(s.task[d], b) => b # a
        BY <1>8, <3>1 DEF PlaceOK
      <4> QED BY <2>5, <3>1, <4>1, <4>2 DEF PlaceOK
    <3> QED BY <3>2, <3>3
  <2>10. OthersWoken(s, u, {c}) /\ u.task[c] = s.task[c]
    BY <2>2, <2>5 DEF OthersWoken, Woken, WaitsOn
  <2> QED BY <2>7, <2>8, <2>9, <2>10 DEF AllBut, u
<1> QED BY <1>6, <1>7, <1>8 DEF u

(* Only the other calls and their places are looked at while c is out of   *)
(* account.                                                                *)
LEMMA PutFacts ==
    ASSUME NEW s, NEW c \in Calls, AllBut({c}, s), NEW t, Sound(t)
    PROVE  /\ AllBut({c}, Put(s, c, t))
           /\ Put(s, c, t).task[c] = t
           /\ OthersSame(s, Put(s, c, t), {c})
<1> DEFINE u == Put(s, c, t)
<1>1. Locked(s) /\ t \in TaskStates
  BY DEF AllBut, Sound
<1>2. /\ u = [task |-> u.task, holder |-> u.holder, queue |-> u.queue]
      /\ u.task = [s.task EXCEPT ![c] = t] /\ u.holder = s.holder /\ u.queue = s.queue
  <2>1. u = [s EXCEPT !.task[c] = t]
    BY DEF Put
  <2> HIDE DEF u
  <2> QED BY <1>1, <2>1 DEF Locked
<1> HIDE DEF u
<1>3. u.task[c] = t /\ \A d \in Calls \ {c} : u.task[d] = s.task[d]
  BY <1>1, <1>2 DEF Locked
<1>4. Locked(u)
  <2>1. u.task \in [Calls -> TaskStates]
    BY <1>1, <1>2 DEF Locked
  <2>2. \A d \in Calls : Sound(u.task[d])
    BY <1>1, <1>3 DEF Locked
  <2> QED BY <1>1, <1>2, <2>1, <2>2 DEF Locked
<1>5. ASSUME NEW a \in Actors
      PROVE  HolderOK(u, a, {c})
  <2>1. HolderOK(s, a, {c})
    BY DEF AllBut
  <2> QED BY <1>2, <1>3, <2>1 DEF HolderOK
<1>6. ASSUME NEW a \in Actors, NEW d \in Calls \ {c}
      PROVE  PlaceOK(u, a, d)
  <2>1. PlaceOK(s, a, d)
    BY DEF AllBut
  <2> QED BY <1>2, <1>3, <2>1 DEF PlaceOK
<1> QED BY <1>3, <1>4, <1>5, <1>6 DEF AllBut, OthersSame, u

(* A call that rests is accounted for.                                     *)
LEMMA RestFacts ==
    ASSUME NEW s, NEW c \in Calls, AllBut({c}, s), s.task[c].pc \notin {"body", "queued"}
    PROVE  AllBut({}, s)
<1>1. ASSUME NEW a \in Actors
      PROVE  HolderOK(s, a, {}) /\ PlaceOK(s, a, c)
  BY DEF AllBut, HolderOK, PlaceOK, RunsOn, WaitsOn
<1> QED BY <1>1 DEF AllBut

(* The call runs or is queued, and has its place.                          *)
LEMMA TakeFacts ==
    ASSUME NEW s, NEW c \in Calls, AllBut({c}, s), s.task[c].on \in Actors
    PROVE  /\ AllBut({}, Take(s, c))
           /\ \E pc \in {"body", "queued"} : Take(s, c).task[c] = [s.task[c] EXCEPT !.pc = pc]
           /\ OthersSame(s, Take(s, c), {c})
<1> DEFINE t == s.task[c]
           a == t.on
           u == Take(s, c)
<1>1. Locked(s) /\ Sound(t) /\ a \in Actors /\ c # Nobody /\ s.queue[a] \in Seq(Calls)
  BY ActorFacts DEF AllBut, Locked
<1>2. PICK pc \in {"body", "queued"} :
        /\ u.task = [s.task EXCEPT ![c].pc = pc]
        /\ u = [task |-> u.task, holder |-> u.holder, queue |-> u.queue]
        /\ \/ /\ pc = "body" /\ (t.kind = "nolock" \/ lockKind = "fake")
              /\ u.holder = s.holder /\ u.queue = s.queue
           \/ /\ pc = "body" /\ t.kind # "nolock" /\ lockKind # "fake" /\ s.holder[a] = Nobody
              /\ u.holder = [s.holder EXCEPT ![a] = c] /\ u.queue = s.queue
           \/ /\ pc = "queued" /\ t.kind # "nolock" /\ lockKind # "fake" /\ s.holder[a] # Nobody
              /\ u.holder = s.holder /\ u.queue = [s.queue EXCEPT ![a] = Append(s.queue[a], c)]
  <2>1. CASE t.kind = "nolock" \/ lockKind = "fake"
    <3>1. u = [s EXCEPT !.task[c].pc = "body"]
      BY <2>1 DEF Take
    <3> QED BY <1>1, <2>1, <3>1 DEF Locked
  <2>2. CASE ~(t.kind = "nolock" \/ lockKind = "fake") /\ s.holder[a] = Nobody
    <3>1. u = [s EXCEPT !.task[c].pc = "body", !.holder[a] = c]
      BY <2>2 DEF Take
    <3> QED BY <1>1, <2>2, <3>1 DEF Locked
  <2>3. CASE ~(t.kind = "nolock" \/ lockKind = "fake") /\ s.holder[a] # Nobody
    <3>1. u = [s EXCEPT !.task[c].pc = "queued", !.queue[a] = Append(@, c)]
      BY <2>3 DEF Take
    <3> QED BY <1>1, <2>3, <3>1 DEF Locked
  <2> QED BY <2>1, <2>2, <2>3
<1> HIDE DEF t, a, u
<1>3. /\ u.task[c] = [t EXCEPT !.pc = pc] /\ Sound(u.task[c]) /\ u.task[c].pc = pc /\ u.task[c].on = a
      /\ u.task[c].kind = t.kind
      /\ \A d \in Calls \ {c} : u.task[d] = s.task[d]
  <2>1. u.task[c] = [t EXCEPT !.pc = pc] /\ \A d \in Calls \ {c} : u.task[d] = s.task[d]
    BY <1>1, <1>2 DEF Locked, t
  <2> QED BY <1>1, <2>1 DEF Sound, TaskStates, a
<1>4. /\ Append(s.queue[a], c) \in Seq(Calls)
      /\ Range(Append(s.queue[a], c)) = Range(s.queue[a]) \cup {c}
      /\ Distinct(s.queue[a]) /\ c \notin Range(s.queue[a]) => Distinct(Append(s.queue[a], c))
  BY <1>1, AppendFacts
<1>5. /\ u.holder \in [Actors -> Calls \cup {Nobody}] /\ u.queue \in [Actors -> Seq(Calls)]
      /\ \A b \in Actors : b # a => u.holder[b] = s.holder[b] /\ u.queue[b] = s.queue[b]
  BY <1>1, <1>2, <1>4 DEF Locked
<1>6. Locked(u)
  <2>1. \A d \in Calls : Sound(u.task[d])
    BY <1>1, <1>3 DEF Locked
  <2>2. u.task \in [Calls -> TaskStates]
    BY <1>1, <1>2, <1>3, <2>1 DEF Locked, Sound
  <2> QED BY <1>2, <1>5, <2>1, <2>2 DEF Locked
<1>7. \A b \in Actors : HolderOK(s, b, {c}) /\ \A d \in Calls \ {c} : PlaceOK(s, b, d)
  BY DEF AllBut
<1>8. ASSUME NEW b \in Actors, b # a
      PROVE  HolderOK(u, b, {}) /\ \A d \in Calls : PlaceOK(u, b, d)
  <2>1. u.holder[b] = s.holder[b] /\ u.queue[b] = s.queue[b]
    BY <1>5, <1>8
  <2>2. HolderOK(u, b, {})
    BY <1>3, <1>7, <2>1 DEF HolderOK
  <2>3. PlaceOK(u, b, c)
    BY <1>3, <1>7, <1>8, <2>1 DEF HolderOK, PlaceOK, RunsOn, WaitsOn
  <2>4. \A d \in Calls \ {c} : PlaceOK(u, b, d)
    BY <1>3, <1>7, <2>1 DEF PlaceOK
  <2> QED BY <2>2, <2>3, <2>4
<1>9. HolderOK(u, a, {}) /\ \A d \in Calls : PlaceOK(u, a, d)
  <2>1. HolderOK(s, a, {c}) /\ \A d \in Calls \ {c} : PlaceOK(s, a, d)
    BY <1>1, <1>7
  <2>2. CASE t.kind = "nolock" \/ lockKind = "fake"
    <3>1. u.holder = s.holder /\ u.queue = s.queue /\ pc = "body"
      BY <1>2, <2>2
    <3>2. HolderOK(u, a, {})
      BY <1>3, <2>1, <3>1 DEF HolderOK
    <3>3. PlaceOK(u, a, c)
      BY <1>3, <2>1, <2>2, <3>1 DEF HolderOK, PlaceOK, RunsOn, WaitsOn
    <3>4. \A d \in Calls \ {c} : PlaceOK(u, a, d)
      BY <1>3, <2>1, <3>1 DEF PlaceOK
    <3> QED BY <3>2, <3>3, <3>4
  <2>3. CASE pc = "body" /\ ~(t.kind = "nolock" \/ lockKind = "fake")
    <3>1. u.holder[a] = c /\ u.queue = s.queue /\ s.holder[a] = Nobody /\ s.queue[a] = <<>>
      BY <1>1, <1>2, <2>1, <2>3 DEF Locked, HolderOK
    <3>2. HolderOK(u, a, {})
      BY <1>1, <1>3, <2>1, <2>3, <3>1 DEF HolderOK, RunsOn
    <3>3. PlaceOK(u, a, c)
      BY <1>3, <2>1, <2>3, <3>1 DEF HolderOK, PlaceOK, RunsOn, WaitsOn
    <3>4. \A d \in Calls \ {c} : PlaceOK(u, a, d)
      BY <1>3, <2>1, <3>1, ActorFacts DEF PlaceOK
    <3> QED BY <3>2, <3>3, <3>4
  <2>4. CASE pc = "queued"
    <3>1. /\ u.holder = s.holder /\ s.holder[a] # Nobody /\ u.queue[a] = Append(s.queue[a], c)
          /\ t.kind # "nolock" /\ lockKind # "fake"
      BY <1>1, <1>2, <2>4 DEF Locked
    <3>2. HolderOK(u, a, {})
      BY <1>3, <1>4, <2>1, <3>1 DEF HolderOK
    <3>3. PlaceOK(u, a, c)
      BY <1>3, <1>4, <2>4, <3>1 DEF PlaceOK, RunsOn, WaitsOn
    <3>4. \A d \in Calls \ {c} : PlaceOK(u, a, d)
      BY <1>3, <1>4, <2>1, <3>1 DEF PlaceOK
    <3> QED BY <3>2, <3>3, <3>4
  <2> QED BY <1>2, <2>2, <2>3, <2>4
<1>10. AllBut({}, u)
  BY <1>6, <1>8, <1>9 DEF AllBut
<1> QED BY <1>3, <1>10 DEF OthersSame, u, t

(* The call begins, or finds no actor.                                     *)
LEMMA NoTaskFacts == NoTask \in TaskStates /\ NoTask.pc = "none" /\ ~NoTask.thrown
BY ActorFacts DEF NoTask, TaskStates, Results, Method

LEMMA NewTaskFacts ==
    ASSUME NEW kind \in Method, NEW via \in {"message", "forwarded", "local"}
    PROVE  /\ Sound([NoTask EXCEPT !.kind = kind]) /\ [NoTask EXCEPT !.kind = kind].pc = "none"
           /\ Sound([NoTask EXCEPT !.pc = "sent", !.kind = kind, !.via = via])
BY NoTaskFacts DEF Sound, TaskStates

LEMMA EndedFacts ==
    ASSUME NEW t, Sound(t), NEW res \in Results
    PROVE  /\ Sound(Ended(t, res)) /\ Ended(t, res).pc = "end" /\ Ended(t, res).res = res
           /\ Ended(t, res).kind = t.kind /\ Ended(t, res).via = t.via
BY NoTaskFacts DEF Sound, Ended, TaskStates

Begun(t, a, v) ==
    \/ v = Absent(t)
    \/ a # 0 /\ \E pc \in {"body", "queued"} : v = [t EXCEPT !.on = a, !.pc = pc]
LEMMA StartFacts ==
    ASSUME NEW s, NEW c \in Calls, AllBut({}, s), s.task[c].pc \in {"none", "sent"},
           NEW t, Sound(t), t.pc \in {"none", "sent"}, NEW a \in 0..MaxActors
    PROVE  /\ AllBut({}, Start(s, c, t, a))
           /\ Begun(t, a, Start(s, c, t, a).task[c])
           /\ OthersSame(s, Start(s, c, t, a), {c})
<1>1. AllBut({c}, s)
  BY NoPlace
<1>2. CASE a = 0
  <2>1. Sound(Absent(t)) /\ Absent(t).pc = "end"
    BY DEF Sound, Absent, TaskStates, Results
  <2>2. Start(s, c, t, a) = Put(s, c, Absent(t))
    BY <1>2 DEF Start
  <2>3. /\ AllBut({c}, Put(s, c, Absent(t))) /\ Put(s, c, Absent(t)).task[c] = Absent(t)
        /\ OthersSame(s, Put(s, c, Absent(t)), {c})
    BY <1>1, <2>1, PutFacts
  <2>4. AllBut({}, Put(s, c, Absent(t)))
    BY <2>1, <2>3, RestFacts
  <2> QED BY <2>2, <2>3, <2>4 DEF Begun
<1>3. CASE a # 0
  <2> DEFINE b == [t EXCEPT !.on = a]
             v == Put(s, c, b)
  <2>1. Sound(b) /\ b.on = a /\ a \in Actors
    BY <1>3, ActorFacts DEF Sound, TaskStates, Actors
  <2>2. Start(s, c, t, a) = Take(v, c)
    BY <1>3 DEF Start
  <2> HIDE DEF b
  <2>3. AllBut({c}, v) /\ v.task[c] = b /\ OthersSame(s, v, {c})
    BY <1>1, <2>1, PutFacts
  <2> HIDE DEF v
  <2>4. /\ AllBut({}, Take(v, c))
        /\ \E pc \in {"body", "queued"} : Take(v, c).task[c] = [b EXCEPT !.pc = pc]
        /\ OthersSame(v, Take(v, c), {c})
    BY <2>1, <2>3, TakeFacts
  <2>5. \A pc \in {"body", "queued"} : [b EXCEPT !.pc = pc] = [t EXCEPT !.on = a, !.pc = pc]
    BY DEF b, Sound, TaskStates
  <2> QED BY <1>3, <2>2, <2>3, <2>4, <2>5 DEF Begun, OthersSame
<1> QED BY <1>2, <1>3

(* A cancelled waiter leaves the queue.                                    *)
LEMMA UnqueueFacts ==
    ASSUME NEW s, NEW c \in Calls, AllBut({}, s), s.task[c].pc = "queued", NEW t, Sound(t), t.pc = "end"
    PROVE  LET u == [Put(s, c, t) EXCEPT !.queue[s.task[c].on] = Without(@, c)]
           IN  AllBut({}, u) /\ u.task[c] = t /\ OthersSame(s, u, {c})
<1> DEFINE u == [Put(s, c, t) EXCEPT !.queue[s.task[c].on] = Without(@, c)]
           a == s.task[c].on
           q == s.queue[a]
           v == [s EXCEPT !.queue[a] = Without(q, c)]
<1>1. Locked(s) /\ a \in Actors /\ q \in Seq(Calls)
  BY DEF AllBut, Locked, Sound
<1>2. HolderOK(s, a, {}) /\ PlaceOK(s, a, c)
  BY <1>1 DEF AllBut
<1>3. Without(q, c) \in Seq(Calls) /\ Distinct(Without(q, c)) /\ Range(Without(q, c)) = Range(q) \ {c}
  BY <1>1, <1>2, WithoutFacts DEF HolderOK
<1>4. /\ v = [task |-> v.task, holder |-> v.holder, queue |-> v.queue]
      /\ v.task = s.task /\ v.holder = s.holder /\ v.queue = [s.queue EXCEPT ![a] = Without(q, c)]
  <2>1. v = [s EXCEPT !.queue[a] = Without(q, c)]
    OBVIOUS
  <2> HIDE DEF a, q, v
  <2> QED BY <1>1, <2>1 DEF Locked
<1>5. u = Put(v, c, t)
  BY <1>1 DEF Locked, Put
<1> HIDE DEF a, q, u, v
<1>6. v.queue[a] = Without(q, c) /\ \A b \in Actors : b # a => v.queue[b] = s.queue[b]
  BY <1>1, <1>4 DEF Locked
<1>7. Locked(v)
  BY <1>1, <1>3, <1>4 DEF Locked
<1>8. ASSUME NEW b \in Actors
      PROVE  HolderOK(v, b, {c})
  <2>1. HolderOK(s, b, {}) /\ PlaceOK(s, b, c)
    BY DEF AllBut
  <2>2. s.holder[b] # c
    BY <2>1, ActorFacts DEF HolderOK, RunsOn
  <2>3. CASE b = a
    <3>1. s.holder[a] # Nobody
      BY <1>2, EmptyQueue DEF HolderOK, PlaceOK, WaitsOn, a
    <3> QED BY <1>3, <1>4, <1>6, <2>1, <2>2, <2>3, <3>1 DEF HolderOK
  <2>4. CASE b # a
    <3>1. c \notin Range(s.queue[b])
      BY <2>1, <2>4 DEF PlaceOK, WaitsOn, a
    <3> QED BY <1>4, <1>6, <2>1, <2>2, <2>4, <3>1 DEF HolderOK
  <2> QED BY <2>3, <2>4
<1>9. ASSUME NEW b \in Actors, NEW d \in Calls \ {c}
      PROVE  PlaceOK(v, b, d)
  <2>1. PlaceOK(s, b, d)
    BY DEF AllBut
  <2>2. d \in Range(v.queue[b]) <=> d \in Range(s.queue[b])
    BY <1>3, <1>6 DEF q
  <2> QED BY <1>4, <2>1, <2>2 DEF PlaceOK
<1>10. AllBut({c}, v)
  BY <1>7, <1>8, <1>9 DEF AllBut
<1>11. AllBut({c}, u) /\ u.task[c] = t /\ OthersSame(v, u, {c})
  BY <1>5, <1>10, PutFacts
<1>12. AllBut({}, u)
  BY <1>11, RestFacts
<1> QED BY <1>4, <1>11, <1>12 DEF OthersSame, u

(* A cancellation ends the call, or leaves an error to be thrown into the  *)
(* generator when it has the lock.                                         *)
Struck(t, v) ==
    /\ v.kind = t.kind /\ v.via = t.via
    /\ \/ t.pc \in {"queued", "body", "gather"} /\ v.pc = "end" /\ v.res \in {"cancelled", "indexerror"}
       \/ t.pc = "yielded" /\ v.pc \in {"body", "queued"} /\ v.thrown
       \/ t.pc \in {"none", "sent", "end"} /\ v = t
LEMMA InterruptedFacts ==
    ASSUME NEW s, NEW c \in Calls, AllBut({}, s)
    PROVE  /\ AllBut({}, Interrupted(s, c))
           /\ Struck(s.task[c], Interrupted(s, c).task[c])
           /\ OthersWoken(s, Interrupted(s, c), {c})
<1> DEFINE t == s.task[c]
           dead == Ended(t, IF t.pc = "gather" /\ t.kind = "mixed" /\ 2 \notin t.pend
                            THEN Gathered(t.kind) ELSE "cancelled")
           u == Interrupted(s, c)
<1>1. Sound(t)
  BY DEF AllBut, Locked
<1>2. /\ Sound(dead) /\ dead.pc = "end" /\ dead.res \in {"cancelled", "indexerror"}
      /\ dead.kind = t.kind /\ dead.via = t.via
  <2> DEFINE r == IF t.pc = "gather" /\ t.kind = "mixed" /\ 2 \notin t.pend THEN Gathered(t.kind) ELSE "cancelled"
  <2>1. r \in {"cancelled", "indexerror"} /\ r \in Results
    BY DEF Gathered, Results
  <2> HIDE DEF r
  <2>2. dead = Ended(t, r)
    BY DEF r
  <2> QED BY <1>1, <2>1, <2>2, EndedFacts
<1> HIDE DEF dead
<1>3. CASE t.pc = "queued"
  <2>1. u = [Put(s, c, dead) EXCEPT !.queue[t.on] = Without(@, c)]
    BY <1>3 DEF Interrupted, dead
  <2>2. AllBut({}, u) /\ u.task[c] = dead /\ OthersSame(s, u, {c})
    BY <1>2, <1>3, <2>1, UnqueueFacts
  <2> QED BY <1>2, <1>3, <2>2 DEF Struck, OthersSame, OthersWoken, Woken
<1>4. CASE t.pc \in {"body", "gather"}
  <2> DEFINE v == Leave(s, c)
  <2>1. u = Put(v, c, dead)
    BY <1>4 DEF Interrupted, dead
  <2>2. AllBut({c}, v) /\ OthersWoken(s, v, {c})
    BY <1>4, LeaveFacts
  <2> HIDE DEF v
  <2>3. AllBut({c}, u) /\ u.task[c] = dead /\ OthersSame(v, u, {c})
    BY <1>2, <2>1, <2>2, PutFacts
  <2>4. AllBut({}, u)
    BY <1>2, <2>3, RestFacts
  <2> QED BY <1>2, <1>4, <2>2, <2>3, <2>4 DEF Struck, OthersSame, OthersWoken
<1>5. CASE t.pc = "yielded"
  <2> DEFINE b == [t EXCEPT !.thrown = TRUE, !.child = Nobody]
             v == Put(s, c, b)
  <2>1. u = Take(v, c)
    BY <1>5 DEF Interrupted
  <2>2. Sound(b) /\ b.on \in Actors /\ b.thrown /\ b.kind = t.kind /\ b.via = t.via /\ b \in TaskStates
    BY <1>1, <1>5 DEF Sound, TaskStates
  <2>3. AllBut({c}, s)
    BY <1>5, NoPlace
  <2> HIDE DEF b
  <2>4. AllBut({c}, v) /\ v.task[c] = b /\ OthersSame(s, v, {c})
    BY <2>2, <2>3, PutFacts
  <2> HIDE DEF v
  <2>5. /\ AllBut({}, u)
        /\ \E pc \in {"body", "queued"} : u.task[c] = [b EXCEPT !.pc = pc]
        /\ OthersSame(v, u, {c})
    BY <2>1, <2>2, <2>4, TakeFacts
  <2>6. Struck(t, u.task[c])
    BY <1>5, <2>2, <2>5 DEF Struck, TaskStates
  <2> QED BY <2>4, <2>5, <2>6 DEF OthersSame, OthersWoken, Woken
<1>6. CASE t.pc \in {"none", "sent", "end"}
  <2>1. u = s
    BY <1>6 DEF Interrupted
  <2> QED BY <1>6, <2>1 DEF Struck, OthersSame, OthersWoken, Woken
<1> QED BY <1>1, <1>3, <1>4, <1>5, <1>6 DEF Sound, TaskStates

-----------------------------------------------------------------------------
(* What the steps do to the calls.                                         *)

(* A call that was cancelled and does not catch the error will not have a  *)
(* result.                                                                 *)
Stopped(t) ==
    \/ t.pc = "end" /\ t.res \in {"cancelled", "indexerror"}
    \/ t.pc \in {"body", "queued"} /\ t.thrown
Advances(t, v) ==
    /\ t.pc = "none" <=> v.pc = "none"
    /\ v.kind = t.kind /\ v.via = t.via
    /\ t.pc = "end" => v = t
    /\ t.kind # "genCatch" /\ Stopped(t) => Stopped(v)
OthersAdvance(X) == \A d \in Calls \ X : Advances(task[d], task'[d])
Places == AllBut({}, Now)

LEMMA WokenAdvances ==
    ASSUME NEW t, NEW v, Sound(t), Woken(t, v)
    PROVE  Advances(t, v)
<1>1. CASE v = t
  BY <1>1 DEF Advances
<1>2. CASE t.pc = "queued" /\ v = [t EXCEPT !.pc = "body"]
  <2>1. v.pc = "body" /\ v.kind = t.kind /\ v.via = t.via /\ v.thrown = t.thrown
    BY <1>2 DEF Sound, TaskStates
  <2> QED BY <1>2, <2>1 DEF Advances, Stopped
<1> QED BY <1>1, <1>2 DEF Woken

LEMMA StruckAdvances ==
    ASSUME NEW t, NEW v, Struck(t, v)
    PROVE  Advances(t, v)
BY DEF Struck, Advances, Stopped

LEMMA NowFacts == Now.task = task /\ Now.holder = holder /\ Now.queue = queue
BY DEF Now

(* The step becomes what it computed.                                      *)
LEMMA BecomeFacts ==
    ASSUME NEW s, AllBut({}, s), Become(s), lockKind' = lockKind
    PROVE  Places' /\ task' = s.task
<1>1. Now' = s
  BY DEF Now, Become, AllBut, Locked
<1>2. AllBut({}, Now)'
  <2>1. Locked(Now)'
    BY <1>1 DEF AllBut, Locked
  <2>2. ASSUME NEW a \in Actors
        PROVE  HolderOK(Now, a, {})'
    BY <1>1 DEF AllBut, HolderOK, RunsOn
  <2>3. ASSUME NEW a \in Actors, NEW c \in Calls
        PROVE  PlaceOK(Now, a, c)'
    <3>1. PlaceOK(s, a, c)
      BY DEF AllBut
    <3> QED BY <1>1, <3>1 DEF PlaceOK, RunsOn, WaitsOn
  <2> QED BY <2>1, <2>2, <2>3 DEF AllBut
<1> QED BY <1>2 DEF Places, Become

LEMMA PlacesSound ==
    ASSUME Places
    PROVE  \A c \in Calls : Sound(task[c])
BY NowFacts DEF Places, AllBut, Locked

(* A call gives its place up and rests.                                    *)
LEMMA LeaveAndRest ==
    ASSUME Places, NEW c \in Calls, task[c].pc \in {"body", "gather"}, NEW t, Sound(t),
           t.pc \notin {"body", "queued"}, Advances(task[c], t),
           Become(Put(Leave(Now, c), c, t)), lockKind' = lockKind
    PROVE  Places' /\ task'[c] = t /\ OthersAdvance({})
<1> DEFINE w == Leave(Now, c)
           u == Put(w, c, t)
<1>1. AllBut({c}, w) /\ OthersWoken(Now, w, {c})
  BY NowFacts, LeaveFacts DEF Places
<1> HIDE DEF w
<1>2. AllBut({c}, u) /\ u.task[c] = t /\ OthersSame(w, u, {c})
  BY <1>1, PutFacts
<1>3. Become(u)
  BY DEF w
<1> HIDE DEF u
<1>4. AllBut({}, u)
  BY <1>2, RestFacts
<1>5. Places' /\ task' = u.task
  BY <1>3, <1>4, BecomeFacts
<1>6. ASSUME NEW d \in Calls \ {c}
      PROVE  Advances(task[d], task'[d])
  <2>1. Woken(task[d], task'[d]) /\ Sound(task[d])
    BY <1>1, <1>2, <1>5, NowFacts, PlacesSound DEF OthersWoken, OthersSame
  <2> QED BY <2>1, WokenAdvances
<1> QED BY <1>2, <1>5, <1>6 DEF OthersAdvance

(* A call without a place takes one.                                       *)
LEMMA TakePlace ==
    ASSUME NEW s, NEW c \in Calls, AllBut({c}, s), NEW t, Sound(t), t.on \in Actors,
           Become(Take(Put(s, c, t), c)), lockKind' = lockKind
    PROVE  /\ Places'
           /\ \E pc \in {"body", "queued"} : task'[c] = [t EXCEPT !.pc = pc]
           /\ \A d \in Calls \ {c} : task'[d] = s.task[d]
<1> DEFINE v == Put(s, c, t)
           u == Take(v, c)
<1>1. AllBut({c}, v) /\ v.task[c] = t /\ OthersSame(s, v, {c})
  BY PutFacts
<1>2. Become(u)
  OBVIOUS
<1> HIDE DEF v
<1>3. /\ AllBut({}, u) /\ OthersSame(v, u, {c})
      /\ \E pc \in {"body", "queued"} : u.task[c] = [t EXCEPT !.pc = pc]
  BY <1>1, TakeFacts
<1> HIDE DEF u
<1>4. Places' /\ task' = u.task
  BY <1>2, <1>3, BecomeFacts
<1> QED BY <1>1, <1>3, <1>4 DEF OthersSame

(* Cancellation of a call and of what it awaits.                           *)
LEMMA StruckTwice ==
    ASSUME NEW t, NEW w, NEW v, Sound(t), t.pc \in {"queued", "body", "yielded", "gather"},
           Woken(t, w) \/ Struck(t, w), Struck(w, v)
    PROVE  Stopped(v)
<1>1. CASE Woken(t, w)
  <2>1. w.pc \in {"queued", "body", "yielded", "gather"}
    BY <1>1 DEF Woken, Sound, TaskStates
  <2> QED BY <2>1 DEF Struck, Stopped
<1>2. CASE Struck(t, w)
  BY <1>2 DEF Struck, Stopped
<1> QED BY <1>1, <1>2

LEMMA AdvancesTwice ==
    ASSUME NEW t, NEW w, NEW v, Advances(t, w), Advances(w, v)
    PROVE  Advances(t, v)
BY DEF Advances

LEMMA InterruptFacts ==
    ASSUME Places, NEW c \in Calls, Interrupt(c), lockKind' = lockKind
    PROVE  /\ Places' /\ OthersAdvance({})
           /\ Active(c) => Stopped(task'[c])
<1> DEFINE d == task[c].child
           w == IF d = Nobody THEN Now ELSE Interrupted(Now, d)
           u == Interrupted(w, c)
<1>1. Sound(task[c]) /\ d \in Calls \cup {Nobody} /\ \A e \in Calls : Sound(task[e])
  BY PlacesSound DEF Sound, TaskStates
<1>2. /\ AllBut({}, w)
      /\ \A e \in Calls : Woken(task[e], w.task[e]) \/ Struck(task[e], w.task[e])
  <2>1. CASE d = Nobody
    BY <2>1, NowFacts DEF Places, Woken
  <2>2. CASE d # Nobody
    <3>1. w = Interrupted(Now, d) /\ d \in Calls
      BY <1>1, <2>2
    <3>2. AllBut({}, w) /\ Struck(task[d], w.task[d]) /\ OthersWoken(Now, w, {d})
      BY <3>1, NowFacts, InterruptedFacts DEF Places
    <3> QED BY <3>2, NowFacts DEF OthersWoken
  <2> QED BY <2>1, <2>2
<1>3. Become(u)
  BY DEF Interrupt
<1> HIDE DEF w, d
<1>4. AllBut({}, u) /\ Struck(w.task[c], u.task[c]) /\ OthersWoken(w, u, {c})
  BY <1>2, InterruptedFacts
<1> HIDE DEF u
<1>5. Places' /\ task' = u.task
  BY <1>3, <1>4, BecomeFacts
<1>6. \A e \in Calls : Sound(w.task[e])
  BY <1>2 DEF AllBut, Locked
<1>7. ASSUME NEW e \in Calls
      PROVE  Advances(task[e], task'[e])
  <2>1. Advances(task[e], w.task[e])
    BY <1>1, <1>2, WokenAdvances, StruckAdvances
  <2>2. Woken(w.task[e], task'[e]) \/ Struck(w.task[e], task'[e])
    BY <1>4, <1>5 DEF OthersWoken
  <2>3. Advances(w.task[e], task'[e])
    BY <1>6, <2>2, WokenAdvances, StruckAdvances
  <2> QED BY <2>1, <2>3, AdvancesTwice
<1>8. ASSUME Active(c)
      PROVE  Stopped(task'[c])
  <2>1. task[c].pc \in {"queued", "body", "yielded", "gather"}
    BY <1>1, <1>8 DEF Active, Sound, TaskStates
  <2> QED BY <1>1, <1>2, <1>4, <1>5, <2>1, StruckTwice
<1> QED BY <1>5, <1>7, <1>8 DEF OthersAdvance

-----------------------------------------------------------------------------
(* The steps of a call.                                                    *)
Idle == \A c \in Calls : client[c].pc = "idle" <=> task[c].pc = "none"
ObjectsOK == live \in 0..MaxActors /\ made \in 0..MaxActors /\ weak \in 0..MaxActors

LEMMA ReceiveFacts ==
    ASSUME Places, ObjectsOK, NEW c \in Calls, Receive(c)
    PROVE  Places' /\ OthersAdvance({})
<1> DEFINE u == Start(Now, c, task[c], live)
<1>1. Sound(task[c]) /\ task[c].pc = "sent" /\ Become(u) /\ lockKind' = lockKind
  BY PlacesSound DEF Receive
<1>2. AllBut({}, u) /\ Begun(task[c], live, u.task[c]) /\ OthersSame(Now, u, {c})
  BY <1>1, NowFacts, StartFacts DEF Places, ObjectsOK, OthersSame
<1> HIDE DEF u
<1>3. Places' /\ task' = u.task
  BY <1>1, <1>2, BecomeFacts
<1>4. Advances(task[c], task'[c])
  BY <1>1, <1>2, <1>3 DEF Begun, Absent, Advances, Stopped, Sound, TaskStates
<1>5. \A d \in Calls \ {c} : Advances(task[d], task'[d])
  BY <1>2, <1>3, NowFacts DEF OthersSame, Advances
<1> QED BY <1>3, <1>4, <1>5 DEF OthersAdvance

LEMMA MakeGeneratorFacts ==
    ASSUME Places, NEW c \in Calls, MakeGenerator(c)
    PROVE  Places' /\ OthersAdvance({})
<1> DEFINE w == Leave(Now, c)
           t == [task[c] EXCEPT !.seg = 1]
<1>1. Sound(task[c]) /\ task[c].pc = "body" /\ Become(Take(Put(w, c, t), c)) /\ lockKind' = lockKind
  BY PlacesSound DEF MakeGenerator, InBody
<1>2. Sound(t) /\ t.on \in Actors /\ t.pc = "body" /\ t.kind = task[c].kind /\ t.via = task[c].via
      /\ t.thrown = task[c].thrown
  BY <1>1 DEF Sound, TaskStates
<1>3. AllBut({c}, w) /\ OthersWoken(Now, w, {c})
  BY <1>1, NowFacts, LeaveFacts DEF Places
<1> HIDE DEF w, t
<1>4. /\ Places' /\ \A d \in Calls \ {c} : task'[d] = w.task[d]
      /\ \E pc \in {"body", "queued"} : task'[c] = [t EXCEPT !.pc = pc]
  BY <1>1, <1>2, <1>3, TakePlace
<1>5. Advances(task[c], task'[c])
  <2>1. task'[c].pc \in {"body", "queued"} /\ task'[c].kind = t.kind /\ task'[c].via = t.via /\ task'[c].thrown = t.thrown
    BY <1>2, <1>4 DEF Sound, TaskStates
  <2> QED BY <1>1, <1>2, <2>1 DEF Advances, Stopped
<1>6. ASSUME NEW d \in Calls \ {c}
      PROVE  Advances(task[d], task'[d])
  BY <1>3, <1>4, NowFacts, PlacesSound, WokenAdvances DEF OthersWoken
<1> QED BY <1>4, <1>5, <1>6 DEF OthersAdvance

LEMMA YieldingFacts ==
    ASSUME Places, NEW c \in Calls, AtYield(c), NEW d \in Calls
    PROVE  /\ Sound(Yielding(task[c])) /\ Yielding(task[c]).pc = "yielded" /\ Advances(task[c], Yielding(task[c]))
           /\ LET t == [Yielding(task[c]) EXCEPT !.child = d]
              IN  Sound(t) /\ t.pc = "yielded" /\ Advances(task[c], t)
<1> DEFINE t == task[c]
           y == Yielding(t)
           z == [y EXCEPT !.child = d]
<1>1. Sound(t) /\ t.pc = "body" /\ t.kind \in Generators /\ (t.thrown => t.kind = "genCatch")
  BY PlacesSound DEF AtYield, InBody
<1>2. Sound(y) /\ y.pc = "yielded" /\ y.kind = t.kind /\ y.via = t.via
  <2>1. t \in TaskStates /\ t.on \in Actors
    BY <1>1 DEF Sound
  <2>2. y \in TaskStates /\ y.pc = "yielded" /\ y.kind = t.kind /\ y.via = t.via /\ y.on = t.on
    <3> HIDE DEF t
    <3> DEFINE m == t.seg + 1
    <3>1. m \in Nat
      BY <2>1 DEF TaskStates
    <3>2. y = [t EXCEPT !.pc = "yielded", !.seg = m, !.thrown = FALSE]
      BY DEF Yielding
    <3> HIDE DEF m, y
    <3> QED BY <2>1, <3>1, <3>2 DEF TaskStates
  <2> QED BY <1>1, <2>1, <2>2 DEF Sound
<1>3. Sound(z) /\ z.pc = "yielded" /\ z.kind = t.kind /\ z.via = t.via
  BY <1>2 DEF Sound, TaskStates
<1> HIDE DEF y, z, t
<1>4. Advances(t, y) /\ Advances(t, z)
  BY <1>1, <1>2, <1>3 DEF Advances, Stopped
<1> QED BY <1>2, <1>3, <1>4 DEF y, z, t

LEMMA YieldFacts ==
    ASSUME Places, NEW c \in Calls, Yield(c)
    PROVE  Places' /\ OthersAdvance({})
<1>1. /\ task[c].pc = "body" /\ lockKind' = lockKind /\ AtYield(c)
      /\ Become(Put(Leave(Now, c), c, Yielding(task[c])))
  BY DEF Yield, AtYield, InBody
<1>2. Sound(Yielding(task[c])) /\ Yielding(task[c]).pc = "yielded" /\ Advances(task[c], Yielding(task[c]))
  BY <1>1, YieldingFacts
<1> QED BY <1>1, <1>2, LeaveAndRest

LEMMA YieldCallFacts ==
    ASSUME Places, ObjectsOK, Idle, NEW c \in Calls, NEW d \in Calls, YieldCall(c, d)
    PROVE  /\ Places' /\ OthersAdvance({d}) /\ d # c
           /\ Begun(NoTask, live, task'[d])
<1> DEFINE t == [Yielding(task[c]) EXCEPT !.child = d]
           w == Leave(Now, c)
           v == Put(w, c, t)
           u == Start(v, d, NoTask, live)
<1>1. /\ task[c].pc = "body" /\ lockKind' = lockKind /\ AtYield(c) /\ task[d].pc = "none"
      /\ Become(u)
  BY DEF YieldCall, AtYield, InBody, Idle
<1>2. Sound(t) /\ t.pc = "yielded" /\ Advances(task[c], t)
  BY <1>1, YieldingFacts
<1> HIDE DEF t
<1>3. AllBut({c}, w) /\ OthersWoken(Now, w, {c})
  BY <1>1, NowFacts, LeaveFacts DEF Places
<1> HIDE DEF w
<1>4. AllBut({c}, v) /\ v.task[c] = t /\ OthersSame(w, v, {c})
  BY <1>2, <1>3, PutFacts
<1> HIDE DEF v
<1>5. AllBut({}, v)
  BY <1>2, <1>4, RestFacts
<1>6. \A e \in Calls \ {c} : Woken(task[e], v.task[e])
  BY <1>3, <1>4, NowFacts DEF OthersWoken, OthersSame
<1>7. d # c /\ v.task[d].pc = "none"
  BY <1>1, <1>6 DEF Woken
<1>8. Sound(NoTask) /\ NoTask.pc = "none"
  BY NoTaskFacts DEF Sound
<1>9. AllBut({}, u) /\ Begun(NoTask, live, u.task[d]) /\ OthersSame(v, u, {d})
  BY <1>5, <1>7, <1>8, StartFacts DEF ObjectsOK, OthersSame
<1> HIDE DEF u
<1>10. Places' /\ task' = u.task
  BY <1>1, <1>9, BecomeFacts
<1>11. ASSUME NEW e \in Calls \ {d}
       PROVE  Advances(task[e], task'[e])
  <2>1. CASE e = c
    BY <1>2, <1>4, <1>9, <1>10, <2>1 DEF OthersSame
  <2>2. CASE e # c
    BY <1>6, <1>9, <1>10, <2>2, PlacesSound, WokenAdvances DEF OthersSame
  <2> QED BY <2>1, <2>2
<1> QED BY <1>7, <1>9, <1>10, <1>11 DEF OthersAdvance

LEMMA ResumeFacts ==
    ASSUME Places, NEW c \in Calls, Resume(c)
    PROVE  Places' /\ OthersAdvance({})
<1> DEFINE t == [task[c] EXCEPT !.child = Nobody]
<1>1. Sound(task[c]) /\ task[c].pc = "yielded" /\ Become(Take(Put(Now, c, t), c)) /\ lockKind' = lockKind
  BY PlacesSound DEF Resume
<1>2. Sound(t) /\ t.on \in Actors /\ t.kind = task[c].kind /\ t.via = task[c].via
  BY <1>1 DEF Sound, TaskStates
<1>3. AllBut({c}, Now)
  BY <1>1, NowFacts, NoPlace DEF Places
<1> HIDE DEF t
<1>4. /\ Places' /\ \A d \in Calls \ {c} : task'[d] = Now.task[d]
      /\ \E pc \in {"body", "queued"} : task'[c] = [t EXCEPT !.pc = pc]
  BY <1>1, <1>2, <1>3, TakePlace
<1>5. Advances(task[c], task'[c])
  <2>1. task'[c].pc \in {"body", "queued"} /\ task'[c].kind = t.kind /\ task'[c].via = t.via
    BY <1>2, <1>4 DEF Sound, TaskStates
  <2> QED BY <1>1, <1>2, <2>1 DEF Advances, Stopped
<1> QED BY <1>4, <1>5, NowFacts DEF OthersAdvance, Advances

LEMMA ReturnFacts ==
    ASSUME Places, NEW c \in Calls, Return(c)
    PROVE  Places' /\ OthersAdvance({})
<1>1. Sound(task[c]) /\ task[c].pc = "body" /\ lockKind' = lockKind
  BY PlacesSound DEF Return, InBody
<1>2. CASE task[c].kind \in {"pair", "mixed"}
  <2> DEFINE t == [task[c] EXCEPT !.pc = "gather", !.pend = {1, 2}]
  <2>1. Become(Put(Leave(Now, c), c, t))
    BY <1>2 DEF Return
  <2>2. Sound(t) /\ t.pc = "gather" /\ t.kind = task[c].kind /\ t.via = task[c].via
    BY <1>1 DEF Sound, TaskStates
  <2>3. ~task[c].thrown
    BY <1>1, <1>2 DEF Sound, Generators
  <2>4. Advances(task[c], t)
    BY <1>1, <2>2, <2>3 DEF Advances, Stopped
  <2> HIDE DEF t
  <2> QED BY <1>1, <2>1, <2>2, <2>4, LeaveAndRest
<1>3. CASE task[c].kind \notin {"pair", "mixed"}
  <2> DEFINE r == IF task[c].thrown /\ task[c].kind # "genCatch" THEN "cancelled" ELSE "result"
             t == Ended(task[c], r)
  <2>1. Become(Put(Leave(Now, c), c, t))
    BY <1>3 DEF Return
  <2>2. r \in Results
    BY DEF Results
  <2>3. Sound(t) /\ t.pc = "end" /\ t.res = r /\ t.kind = task[c].kind /\ t.via = task[c].via
    BY <1>1, <2>2, EndedFacts
  <2>4. Advances(task[c], t)
    BY <1>1, <2>3 DEF Advances, Stopped
  <2> HIDE DEF t
  <2> QED BY <1>1, <2>1, <2>3, <2>4, LeaveAndRest
<1> QED BY <1>2, <1>3

(* A call without a place is rewritten and still has none.                 *)
LEMMA RewriteFacts ==
    ASSUME Places, NEW c \in Calls, task[c].pc = "gather", NEW t, Sound(t), t.pc \in {"gather", "end"},
           t.kind = task[c].kind, t.via = task[c].via, Become(Put(Now, c, t)), lockKind' = lockKind
    PROVE  Places' /\ OthersAdvance({})
<1> DEFINE u == Put(Now, c, t)
<1>1. AllBut({c}, Now)
  BY NowFacts, NoPlace DEF Places
<1>2. AllBut({c}, u) /\ u.task[c] = t /\ OthersSame(Now, u, {c})
  BY <1>1, PutFacts
<1>3. Become(u)
  OBVIOUS
<1> HIDE DEF u
<1>4. AllBut({}, u)
  BY <1>2, RestFacts
<1>5. Places' /\ task' = u.task
  BY <1>3, <1>4, BecomeFacts
<1>6. Advances(task[c], t)
  BY DEF Advances, Stopped
<1> QED BY <1>2, <1>5, <1>6, NowFacts DEF OthersSame, OthersAdvance, Advances

LEMMA GatherFacts ==
    ASSUME Places, NEW c \in Calls, NEW k \in {1, 2}, GatherDone(c, k)
    PROVE  Places' /\ OthersAdvance({})
<1>1. Sound(task[c]) /\ task[c].pc = "gather" /\ lockKind' = lockKind
  BY PlacesSound DEF GatherDone
<1>2. CASE task[c].pend = {k}
  <2> DEFINE t == Ended(task[c], Gathered(task[c].kind))
  <2>1. Become(Put(Now, c, t))
    BY <1>2 DEF GatherDone
  <2>2. Gathered(task[c].kind) \in Results
    BY DEF Gathered, Results
  <2>3. Sound(t) /\ t.pc = "end" /\ t.kind = task[c].kind /\ t.via = task[c].via
    BY <1>1, <2>2, EndedFacts
  <2> HIDE DEF t
  <2> QED BY <1>1, <2>1, <2>3, RewriteFacts
<1>3. CASE task[c].pend # {k}
  <2> DEFINE t == [task[c] EXCEPT !.pend = @ \ {k}]
  <2>1. Become(Put(Now, c, t))
    BY <1>3 DEF GatherDone
  <2>2. Sound(t) /\ t.pc = "gather" /\ t.kind = task[c].kind /\ t.via = task[c].via
    BY <1>1 DEF Sound, TaskStates
  <2> HIDE DEF t
  <2> QED BY <1>1, <2>1, <2>2, RewriteFacts
<1> QED BY <1>2, <1>3
=============================================================================
