----------------------- MODULE ActorCallerRefinement -----------------------
(***************************************************************************)
(* The invariant of ActorCaller, and that every step from a state where it *)
(* holds to a state where it holds is a step of CallOnce.  That it always  *)
(* holds, and what follows, is in ActorCallerProofs.                       *)
(***************************************************************************)
EXTENDS ActorCaller, QueueProofs

DistinctIds(s) == \A i, k \in DOMAIN s : s[i].id = s[k].id => i = k
Ids(s) == {m.id : m \in Range(s)}

(* Where the task of call j is, against the router's lock and its waiters. *)
CallOK(j) ==
    /\ on[j] # None => on[j] \in created
    /\ on[j] = None <=> fut[j] = "none"
    /\ pc[j] \in {"idle", "lock", "connect"} => on[j] = None
    /\ pc[j] \in {"send", "wait"} => on[j] # None
    /\ pc[j] = "send" => fut[j] \notin {"result", "error"}
    /\ pc[j] = "lock" <=> j \in Range(queue)
    /\ pc[j] = "connect" <=> lock = j

RouterOK ==
    /\ Distinct(queue)
    /\ lock # None => cache = None
    /\ cache # None => cache \in created

(* Every client was opened by its call; all but the cached one are closed. *)
ClientOK(c) ==
    /\ c \in created => on[c] # None
    /\ c \in created /\ c # cache => closed[c]
    /\ closed[c] => ~peer[c]
    /\ closed[c] \/ peer[c] => c \in created

(* What the listener of c has come to, and why.                            *)
ListenerOK(c) ==
    /\ c \in created <=> listener[c] # "none"
    /\ listener[c] = "closing" => closed[c]
    /\ listener[c] = "ended" => closed[c] /\ futures[c] = <<>>
    /\ listener[c] = "cancelled" => stop = "stopped"
    /\ listener[c] = "dead" => SomeCancelled(c)

(* A registered future is undecided; an undecided future is registered,    *)
(* unless a cancelled call broke the listener's bookkeeping.               *)
RegisteredOK(c) ==
    /\ Distinct(futures[c])
    /\ \A j \in Range(futures[c]) : on[j] = c /\ fut[j] \in {"pending", "cancelled"}
FutureOK(j) ==
    fut[j] = "pending" => SomeCancelled(on[j]) \/ j \in Range(futures[on[j]])

(* Request or reply j is under way on client c.                            *)
InTransit(j, c) == j \in Range(toServer[c]) \/ <<j, c>> \in working \/ j \in Ids(toClient[c])

(* A request is in one place at a time, on the client of its call.         *)
WireOK(c) ==
    /\ Distinct(toServer[c])
    /\ DistinctIds(toClient[c])
    /\ \A j \in Call :
          /\ InTransit(j, c) =>
                /\ on[j] = c
                /\ pc[j] = "wait" \/ (pc[j] = "raised" /\ fut[j] = "cancelled")
          /\ <<j, c>> \in working => j \notin Range(toServer[c])
          /\ j \in Ids(toClient[c]) => j \notin Range(toServer[c]) /\ <<j, c>> \notin working

(* A listener that will look at what comes next knows the call a reply is  *)
(* for.                                                                    *)
Attentive(c) == listener[c] = "recv" \/ (listener[c] = "check" /\ ~closed[c])
KnownOK(c) ==
    Attentive(c) => \A j \in Call : InTransit(j, c) => SomeCancelled(c) \/ j \in Range(futures[c])

CallerInv ==
    /\ TypeOK
    /\ RouterOK
    /\ \A j \in Call : CallOK(j) /\ FutureOK(j)
    /\ \A c \in Client : ClientOK(c) /\ ListenerOK(c) /\ RegisteredOK(c) /\ WireOK(c) /\ KnownOK(c)
    /\ ErrorsAreTrue
-----------------------------------------------------------------------------
(* The ids of the replies under way.                                       *)
LEMMA EmptyIds == Ids(<<>>) = {} /\ DistinctIds(<<>>)
BY DEF Range, Ids, DistinctIds

LEMMA IdsAppend ==
    ASSUME NEW s \in Seq(Reply), NEW m \in Reply
    PROVE  /\ Append(s, m) \in Seq(Reply)
           /\ Ids(Append(s, m)) = Ids(s) \cup {m.id}
           /\ DistinctIds(s) /\ m.id \notin Ids(s) => DistinctIds(Append(s, m))
<1>1. Append(s, m) \in Seq(Reply) /\ Range(Append(s, m)) = Range(s) \cup {m}
  BY AppendFacts
<1>2. Ids(Append(s, m)) = Ids(s) \cup {m.id}
  BY <1>1 DEF Ids
<1>3. /\ DOMAIN s = 1..Len(s) /\ Len(s) \in Nat
      /\ DOMAIN Append(s, m) = 1..(Len(s) + 1)
      /\ Append(s, m)[Len(s) + 1] = m
      /\ \A i \in 1..Len(s) : Append(s, m)[i] = s[i]
  OBVIOUS
<1>4. ASSUME DistinctIds(s), m.id \notin Ids(s)
      PROVE  DistinctIds(Append(s, m))
  <2>1. \A i \in 1..Len(s) : s[i].id # m.id
    BY <1>3, <1>4 DEF Ids, Range
  <2> QED BY <1>3, <1>4, <2>1 DEF DistinctIds
<1> QED BY <1>1, <1>2, <1>4

LEMMA IdsTail ==
    ASSUME NEW s \in Seq(Reply), s # <<>>
    PROVE  /\ Head(s) \in Reply /\ Tail(s) \in Seq(Reply)
           /\ Ids(s) = Ids(Tail(s)) \cup {Head(s).id}
           /\ DistinctIds(s) => DistinctIds(Tail(s)) /\ Head(s).id \notin Ids(Tail(s))
<1>1. Head(s) \in Reply /\ Tail(s) \in Seq(Reply) /\ Range(s) = Range(Tail(s)) \cup {Head(s)}
  BY TailFacts
<1>2. Ids(s) = Ids(Tail(s)) \cup {Head(s).id}
  BY <1>1 DEF Ids
<1>3. /\ Head(s) = s[1]
      /\ DOMAIN s = 1..Len(s) /\ Len(s) \in Nat \ {0}
      /\ DOMAIN Tail(s) = 1..(Len(s) - 1)
      /\ \A i \in 1..(Len(s) - 1) : Tail(s)[i] = s[i + 1]
  OBVIOUS
<1>4. ASSUME DistinctIds(s)
      PROVE  DistinctIds(Tail(s)) /\ Head(s).id \notin Ids(Tail(s))
  <2>1. DistinctIds(Tail(s))
    BY <1>3, <1>4 DEF DistinctIds
  <2>2. \A i \in 1..(Len(s) - 1) : Tail(s)[i].id # Head(s).id
    BY <1>3, <1>4 DEF DistinctIds
  <2>3. Head(s).id \notin Ids(Tail(s))
    BY <1>3, <2>2 DEF Ids, Range
  <2> QED BY <2>1, <2>3
<1> QED BY <1>1, <1>2, <1>4

-----------------------------------------------------------------------------
(* What the loop over the registered futures does: futures in p that it    *)
(* reaches fail with e; it reaches all of them, unless one was cancelled.  *)
LEMMA FailAllFacts ==
    ASSUME TypeOK, NEW c \in Client, NEW p \in Seq(Call), NEW e, NEW next,
           \A j \in Range(p) : fut[j] \in {"pending", "cancelled"},
           FailAll(c, p, e, next)
    PROVE  /\ futures' = [futures EXCEPT ![c] = <<>>]
           /\ \A j \in Call : \/ fut'[j] = fut[j]
                              \/ j \in Range(p) /\ fut[j] = "pending" /\ fut'[j] = e
           /\ fut' = [j \in Call |-> fut'[j]]
           /\ \/ listener' = [listener EXCEPT ![c] = next] /\ \A j \in Range(p) : fut'[j] = e
              \/ /\ listener' = [listener EXCEPT ![c] = "dead"]
                 /\ \E k \in Range(p) : fut[k] = "cancelled"
<1> DEFINE Reached(i) == \A k \in 1..i : fut[p[k]] = "pending"
<1>1. /\ fut' = [j \in Call |-> IF \E i \in DOMAIN p : p[i] = j /\ Reached(i) THEN e ELSE fut[j]]
      /\ futures' = [futures EXCEPT ![c] = <<>>]
      /\ listener' = [listener EXCEPT ![c] = IF Reached(Len(p)) THEN next ELSE "dead"]
  BY DEF FailAll
<1>2. DOMAIN p = 1..Len(p) /\ Len(p) \in Nat /\ \A i \in 1..Len(p) : p[i] \in Call
  OBVIOUS
<1>3. ASSUME NEW i \in DOMAIN p, Reached(i)
      PROVE  fut[p[i]] = "pending" /\ p[i] \in Range(p)
  BY <1>2, <1>3 DEF Range
<1>4. ASSUME NEW j \in Call
      PROVE  fut'[j] = fut[j] \/ (j \in Range(p) /\ fut[j] = "pending" /\ fut'[j] = e)
  BY <1>1, <1>3
<1>5. ASSUME Reached(Len(p)), NEW j \in Range(p)
      PROVE  fut'[j] = e
  <2>1. PICK i \in 1..Len(p) : j = p[i]
    BY <1>2 DEF Range
  <2>2. Reached(i)
    BY <1>2, <1>5
  <2> QED BY <1>1, <1>2, <2>1, <2>2
<1>6. ASSUME ~Reached(Len(p))
      PROVE  \E k \in Range(p) : fut[k] = "cancelled"
  BY <1>2, <1>6 DEF Range
<1>7. fut' = [j \in Call |-> fut'[j]]
  BY <1>1
<1> QED BY <1>1, <1>4, <1>5, <1>6, <1>7, Zenon

(* A reply that finds no undecided future is on a client where a call was  *)
(* cancelled.                                                              *)
LEMMA UnsettledReply ==
    ASSUME CallerInv, NEW c \in Client, listener[c] = "recv", toClient[c] # <<>>,
           NEW m, m = Head(toClient[c]), ~(m.id \in Range(futures[c]) /\ fut[m.id] = "pending")
    PROVE  SomeCancelled(c)
<1>1. toClient[c] \in Seq(Reply) /\ KnownOK(c) /\ RegisteredOK(c)
  BY DEF CallerInv, TypeOK
<1>2. m.id \in Call /\ m.id \in Ids(toClient[c])
  BY <1>1, IdsTail, Zenon DEF Reply
<1>3. SomeCancelled(c) \/ m.id \in Range(futures[c])
  BY <1>1, <1>2, Zenon DEF KnownOK, Attentive, InTransit
<1>4. m.id \in Range(futures[c]) => on[m.id] = c /\ fut[m.id] = "cancelled"
  BY <1>1 DEF RegisteredOK
<1> QED BY <1>2, <1>3, <1>4 DEF SomeCancelled

(* A reply is taken from the wire.                                         *)
LEMMA TakenReply ==
    ASSUME CallerInv, NEW c \in Client, toClient[c] # <<>>,
           toClient' = [toClient EXCEPT ![c] = Tail(@)]
    PROVE  /\ toClient' \in [Client -> Seq(Reply)]
           /\ Head(toClient[c]).id \in Call
           /\ Head(toClient[c]).id \in Ids(toClient[c]) \ Ids(toClient'[c])
           /\ \A d \in Client : Ids(toClient'[d]) \subseteq Ids(toClient[d]) /\ DistinctIds(toClient'[d])
<1>1. toClient \in [Client -> Seq(Reply)] /\ \A d \in Client : DistinctIds(toClient[d])
  BY DEF CallerInv, TypeOK, WireOK
<1>2. /\ Head(toClient[c]) \in Reply /\ Tail(toClient[c]) \in Seq(Reply)
      /\ Ids(toClient[c]) = Ids(Tail(toClient[c])) \cup {Head(toClient[c]).id}
      /\ DistinctIds(Tail(toClient[c])) /\ Head(toClient[c]).id \notin Ids(Tail(toClient[c]))
  BY <1>1, IdsTail
<1>3. /\ toClient' \in [Client -> Seq(Reply)]
      /\ toClient'[c] = Tail(toClient[c])
      /\ \A d \in Client : d # c => toClient'[d] = toClient[d]
  BY <1>1, <1>2
<1>4. Head(toClient[c]).id \in Call
  BY <1>2 DEF Reply
<1> QED BY <1>1, <1>2, <1>3, <1>4

-----------------------------------------------------------------------------
(* ActorCaller implements CallOnce.  The place of a request, read off the  *)
(* wire; a request in transit is in one place only.                        *)
Moved(j) == pc[j] \in {"wait", "raised"}
Placed(j) == \E c \in Client : InTransit(j, c)
WhereOK(j) ==
    /\ \A c \in Client : /\ j \in Range(toServer[c]) => WhereIs(j) = "sent"
                         /\ <<j, c>> \in working => WhereIs(j) = "working"
                         /\ j \in Ids(toClient[c]) => WhereIs(j) = "answered"
    /\ Placed(j) => Moved(j)
    /\ ~Placed(j) => WhereIs(j) = IF Moved(j) THEN "gone" ELSE "new"

LEMMA WhereFacts == CallerInv => \A j \in Call : WhereOK(j)
<1> SUFFICES ASSUME CallerInv, NEW j \in Call
             PROVE  WhereOK(j)
  OBVIOUS
<1>1. \A c \in Client : j \in Ids(toClient[c]) <=> \E m \in Range(toClient[c]) : m.id = j
  BY DEF Ids
<1>2. WhereIs(j) = IF \E c \in Client : j \in Range(toServer[c]) THEN "sent"
                   ELSE IF \E c \in Client : <<j, c>> \in working THEN "working"
                   ELSE IF \E c \in Client : j \in Ids(toClient[c]) THEN "answered"
                   ELSE IF pc[j] \in {"wait", "raised"} THEN "gone" ELSE "new"
  BY <1>1 DEF WhereIs
<1>3. \A c \in Client : WireOK(c)
  BY DEF CallerInv
<1>4. \A c, d \in Client : InTransit(j, c) /\ InTransit(j, d) => c = d
  <2>1. \A c \in Client : InTransit(j, c) => on[j] = c
    BY <1>3, Zenon DEF WireOK
  <2> QED BY <2>1
<1>5. ASSUME NEW c \in Client
      PROVE  /\ j \in Range(toServer[c]) => WhereIs(j) = "sent"
             /\ <<j, c>> \in working => WhereIs(j) = "working"
             /\ j \in Ids(toClient[c]) => WhereIs(j) = "answered"
  <2>1. j \in Range(toServer[c]) => WhereIs(j) = "sent"
    BY <1>2
  <2>2. ASSUME <<j, c>> \in working
        PROVE  WhereIs(j) = "working"
    <3>1. ~\E d \in Client : j \in Range(toServer[d])
      BY <1>3, <1>4, <2>2, Zenon DEF InTransit, WireOK
    <3> QED BY <1>2, <2>2, <3>1
  <2>3. ASSUME j \in Ids(toClient[c])
        PROVE  WhereIs(j) = "answered"
    <3>1. ~\E d \in Client : j \in Range(toServer[d])
      BY <1>3, <1>4, <2>3, Zenon DEF InTransit, WireOK
    <3>2. ~\E d \in Client : <<j, d>> \in working
      BY <1>3, <1>4, <2>3, Zenon DEF InTransit, WireOK
    <3> QED BY <1>2, <2>3, <3>1, <3>2
  <2> QED BY <2>1, <2>2, <2>3
<1>6. Placed(j) => Moved(j)
  BY <1>3, Zenon DEF Placed, Moved, WireOK
<1>7. ~Placed(j) => WhereIs(j) = IF Moved(j) THEN "gone" ELSE "new"
  BY <1>2 DEF Placed, Moved, InTransit
<1> QED BY <1>5, <1>6, <1>7 DEF WhereOK

LEMMA WhereFactsNext == CallerInv' => (\A j \in Call : WhereOK(j))'
BY WhereFacts, PTL

(* The request of j is where it was, or lost.                              *)
Shrinks(j) ==
    /\ \A c \in Client : /\ j \in Range(toServer'[c]) => j \in Range(toServer[c])
                         /\ <<j, c>> \in working' => <<j, c>> \in working
                         /\ j \in Ids(toClient'[c]) => j \in Ids(toClient[c])
    /\ Moved(j) => Moved(j)'

(* An outcome j has is final; j gets no result.                            *)
Final(j) ==
    /\ fut'[j] = "result" <=> fut[j] = "result"
    /\ fut[j] \notin {"none", "pending"} => fut'[j] \notin {"none", "pending"}
    /\ pc[j] = "raised" => pc'[j] = "raised"

LEMMA FaultStep ==
    ASSUME CallerInv, CallerInv', \A j \in Call : Shrinks(j) /\ Final(j)
    PROVE  Promise!Next
<1>1. ASSUME NEW j \in Call
      PROVE  WhereIs(j)' \in {WhereIs(j), "gone"}
  <2>1. WhereOK(j) /\ WhereOK(j)' /\ Shrinks(j)
    BY WhereFacts, WhereFactsNext
  <2>2. CASE Placed(j)'
    <3>1. PICK c \in Client : InTransit(j, c)'
      BY <2>2 DEF Placed
    <3> QED BY <2>1, <3>1 DEF WhereOK, Shrinks, InTransit
  <2>3. CASE ~Placed(j)'
    BY <2>1, <2>3 DEF WhereOK, Shrinks
  <2> QED BY <2>2, <2>3
<1>2. ASSUME NEW j \in Call
      PROVE  OutcomeOf(j)' = OutcomeOf(j) \/ (OutcomeOf(j) = "open" /\ OutcomeOf(j)' = "failed")
  BY DEF Final, OutcomeOf
<1> QED BY <1>1, <1>2 DEF Promise!Next, Promise!Fault

(* Nothing happens to k.                                                   *)
Same(k) ==
    /\ \A c \in Client : /\ k \in Range(toServer'[c]) <=> k \in Range(toServer[c])
                         /\ <<k, c>> \in working' <=> <<k, c>> \in working
                         /\ k \in Ids(toClient'[c]) <=> k \in Ids(toClient[c])
    /\ pc'[k] = pc[k] /\ fut'[k] = fut[k]

LEMMA SameStep ==
    ASSUME CallerInv, CallerInv', NEW k \in Call, Same(k)
    PROVE  WhereIs(k)' = WhereIs(k) /\ OutcomeOf(k)' = OutcomeOf(k)
<1>1. WhereOK(k) /\ WhereOK(k)'
  BY WhereFacts, WhereFactsNext
<1>2. CASE Placed(k)
  <2>1. PICK c \in Client : InTransit(k, c)
    BY <1>2 DEF Placed
  <2> QED BY <1>1, <2>1 DEF WhereOK, Same, InTransit, OutcomeOf
<1>3. CASE ~Placed(k)
  <2>1. ~Placed(k)' /\ (Moved(k)' <=> Moved(k))
    BY <1>3 DEF Placed, InTransit, Same, Moved
  <2> QED BY <1>1, <1>3, <2>1 DEF WhereOK, Same, OutcomeOf
<1> QED BY <1>2, <1>3

LEMMA MoveStep ==
    ASSUME CallerInv, CallerInv', NEW j \in Call, \A k \in Call : k # j => Same(k),
           OutcomeOf(j)' = OutcomeOf(j),
           <<WhereIs(j), WhereIs(j)'>> \in {<<"new", "sent">>, <<"sent", "working">>, <<"working", "answered">>}
    PROVE  Promise!Next
<1>1. \A k \in Call : k # j => WhereIs(k)' = WhereIs(k)
  BY SameStep
<1>2. \A k \in Call : OutcomeOf(k)' = OutcomeOf(k)
  BY SameStep
<1>3. Promise!Move(j)
  <2>1. [k \in Call |-> WhereIs(k)]' = [[k \in Call |-> WhereIs(k)] EXCEPT ![j] = WhereIs(j)']
    BY <1>1, Zenon
  <2>2. [k \in Call |-> OutcomeOf(k)]' = [k \in Call |-> OutcomeOf(k)]
    BY <1>2
  <2>3. \E p \in Promise!Onward : WhereIs(j) = p[1] /\ WhereIs(j)' = p[2]
    BY DEF Promise!Onward
  <2> QED BY <2>1, <2>2, <2>3, Zenon DEF Promise!Move
<1> QED BY <1>3 DEF Promise!Next
(* The steps of a call at the router and on the wire.                      *)
LEMMA RegisteredMaps ==
    ASSUME CallerInv, CallerInv', NEW j \in Call, NEW c \in Client, on[j] = None, ~Moved(j),
           Registered(j, c), working' = working, toClient' = toClient
    PROVE  Promise!Next
<1>1. /\ fut' = [fut EXCEPT ![j] = "pending"]
      /\ \/ pc' = [pc EXCEPT ![j] = "send"] /\ toServer' = toServer
         \/ /\ pc' = [pc EXCEPT ![j] = "wait"]
            /\ toServer' = [toServer EXCEPT ![c] = Append(@, j)]
  BY DEF Registered
<1>2. TypeOK /\ fut[j] = "none" /\ WhereOK(j) /\ WhereOK(j)'
  BY WhereFacts, WhereFactsNext, Zenon DEF CallerInv, CallOK
<1>3. Range(Append(toServer[c], j)) = Range(toServer[c]) \cup {j}
  BY <1>2, AppendFacts DEF TypeOK
<1>4. CASE pc' = [pc EXCEPT ![j] = "send"] /\ toServer' = toServer
  <2>1. \A k \in Call : Shrinks(k) /\ Final(k)
    BY <1>1, <1>2, <1>4 DEF Shrinks, Final, Moved, TypeOK
  <2> QED BY <2>1, FaultStep
<1>5. CASE pc' = [pc EXCEPT ![j] = "wait"] /\ toServer' = [toServer EXCEPT ![c] = Append(@, j)]
  <2>1. \A k \in Call : k # j => Same(k)
    BY <1>1, <1>2, <1>3, <1>5 DEF Same, TypeOK
  <2>2. WhereIs(j) = "new" /\ WhereIs(j)' = "sent"
    <3>1. j \in Range(toServer'[c])
      BY <1>2, <1>3, <1>5 DEF TypeOK
    <3> QED BY <1>2, <3>1, Zenon DEF WhereOK
  <2>3. OutcomeOf(j)' = OutcomeOf(j)
    BY <1>1, <1>2, <1>5 DEF OutcomeOf, Moved, TypeOK
  <2> QED BY <2>1, <2>2, <2>3, MoveStep
<1> QED BY <1>1, <1>4, <1>5

(* A step of j that leaves every request and every future where it is.     *)
LEMMA QuietMaps ==
    ASSUME CallerInv, CallerInv', NEW j \in Call, pc[j] # "raised", NEW v, pc' = [pc EXCEPT ![j] = v],
           Moved(j) => v = "raised",
           fut' = fut \/ (fut[j] = "pending" /\ fut' = [fut EXCEPT ![j] = "cancelled"]),
           toServer' = toServer, toClient' = toClient, working' = working
    PROVE  Promise!Next
<1>1. TypeOK
  BY DEF CallerInv
<1>2. \A k \in Call : Shrinks(k) /\ Final(k)
  BY <1>1 DEF Shrinks, Final, Moved, TypeOK
<1> QED BY <1>2, FaultStep

LEMMA GetClientMaps ==
    ASSUME CallerInv, CallerInv', NEW j \in Call, pc[j] \in {"idle", "lock"},
           GetClient(j), UNCHANGED <<server, rest>>
    PROVE  Promise!Next
<1>1. on[j] = None /\ TypeOK /\ ~Moved(j) /\ working' = working
  BY Zenon DEF CallerInv, CallOK, Moved, server
<1>2. ASSUME CachedOpen, Registered(j, cache), toClient' = toClient
      PROVE  Promise!Next
  <2>1. cache \in Client
    BY <1>1, <1>2 DEF CachedOpen, TypeOK
  <2> QED BY <1>1, <1>2, <2>1, RegisteredMaps
<1>3. ASSUME Connected(j)
      PROVE  Promise!Next
  BY <1>1, <1>3, RegisteredMaps DEF Connected, Client
<1>4. ASSUME NEW v, pc' = [pc EXCEPT ![j] = v], UNCHANGED <<fut, connection>>
      PROVE  Promise!Next
  BY <1>1, <1>4, QuietMaps, Zenon DEF connection
<1> QED BY <1>2, <1>3, <1>4 DEF GetClient, Refused

LEMMA CallStepMaps ==
    ASSUME CallerInv, CallerInv', NEW j \in Call, CallStep(j)
    PROVE  Promise!Next
<1>0. TypeOK /\ CallOK(j)
  BY DEF CallerInv
<1>1. CASE StartCall(j)
  <2>1. CASE GetClient(j)
    BY <1>1, <2>1, GetClientMaps DEF StartCall
  <2>2. CASE ~GetClient(j)
    <3>1. pc[j] = "idle" /\ pc' = [pc EXCEPT ![j] = "lock"] /\ UNCHANGED <<fut, connection, server>>
      BY <1>1, <2>2 DEF StartCall
    <3> QED BY <3>1, QuietMaps, Zenon DEF connection, server, Moved
  <2> QED BY <2>1, <2>2
<1>2. CASE Acquire(j)
  <2>1. queue \in Seq(Call) /\ queue # <<>> /\ j = Head(queue)
    BY <1>0, <1>2 DEF Acquire, TypeOK
  <2>2. j \in Range(queue)
    BY <2>1, TailFacts
  <2>3. pc[j] = "lock"
    BY <1>0, <2>2 DEF CallOK
  <2> QED BY <1>2, <2>3, GetClientMaps DEF Acquire
<1>3. CASE Connect(j)
  <2>1. on[j] = None /\ ~Moved(j) /\ pc[j] # "raised" /\ working' = working
    BY <1>0, <1>3 DEF Connect, CallOK, Moved, server
  <2>2. CASE Connected(j)
    BY <2>1, <2>2, RegisteredMaps DEF Connected, Client
  <2>3. CASE Refused(j)
    BY <2>1, <2>3, QuietMaps, Zenon DEF Refused, connection
  <2> QED BY <1>3, <2>2, <2>3 DEF Connect
<1>4. CASE SendDone(j)
  <2> DEFINE c == on[j]
  <2>1. /\ pc[j] = "send" /\ pc' = [pc EXCEPT ![j] = "wait"] /\ fut' = fut
        /\ working' = working /\ toClient' = toClient
        /\ toServer' = IF peer[c] THEN [toServer EXCEPT ![c] = Append(@, j)] ELSE toServer
    BY <1>4 DEF SendDone, server
  <2>2. c \in Client /\ ~Moved(j) /\ WhereOK(j) /\ WhereOK(j)'
    BY <1>0, <2>1, WhereFacts, WhereFactsNext DEF CallOK, TypeOK, Moved
  <2>3. CASE ~peer[c]
    BY <2>1, <2>2, <2>3, QuietMaps, Zenon
  <2>4. CASE peer[c]
    <3>1. Range(Append(toServer[c], j)) = Range(toServer[c]) \cup {j}
      BY <1>0, <2>2, AppendFacts DEF TypeOK
    <3>2. \A k \in Call : k # j => Same(k)
      BY <1>0, <2>1, <2>2, <2>4, <3>1 DEF Same, TypeOK
    <3>3. j \in Range(toServer'[c])
      BY <1>0, <2>1, <2>2, <2>4, <3>1 DEF TypeOK
    <3>4. WhereIs(j) = "new" /\ WhereIs(j)' = "sent"
      BY <2>2, <3>3, Zenon DEF WhereOK
    <3>5. OutcomeOf(j)' = OutcomeOf(j)
      BY <1>0, <2>1 DEF OutcomeOf, TypeOK
    <3> QED BY <3>2, <3>4, <3>5, MoveStep
  <2> QED BY <2>3, <2>4
<1>5. CASE SendFails(j)
  BY <1>5, QuietMaps, Zenon DEF SendFails, server
<1> QED BY <1>1, <1>2, <1>3, <1>4, <1>5 DEF CallStep

LEMMA CancelMaps ==
    ASSUME CallerInv, CallerInv', NEW j \in Call, Cancel(j)
    PROVE  Promise!Next
<1>1. /\ pc' = [pc EXCEPT ![j] = "raised"] /\ pc[j] # "raised"
      /\ UNCHANGED <<connection, server>>
      /\ fut' = fut \/ (fut[j] = "pending" /\ fut' = [fut EXCEPT ![j] = "cancelled"])
  BY DEF Cancel, Awaiting
<1> QED BY <1>1, QuietMaps, Zenon DEF connection, server

(* Steps that only lose requests and replies, and fail undecided futures.  *)
LEMMA LossMaps ==
    ASSUME CallerInv, CallerInv', pc' = pc,
           \A k \in Call : fut'[k] = fut[k] \/ (fut[k] = "pending" /\ fut'[k] \notin {"none", "pending", "result"}),
           \A c \in Client : /\ Range(toServer'[c]) \subseteq Range(toServer[c])
                             /\ Ids(toClient'[c]) \subseteq Ids(toClient[c]),
           working' \subseteq working
    PROVE  Promise!Next
<1>1. \A k \in Call : Shrinks(k) /\ Final(k)
  BY DEF Shrinks, Final, Moved
<1> QED BY <1>1, FaultStep

LEMMA FailAllMaps ==
    ASSUME CallerInv, CallerInv', pc' = pc, NEW c \in Client, NEW p \in Seq(Call),
           Range(p) \subseteq Range(futures[c]), NEW e, NEW next, FailAll(c, p, e, next),
           e \notin {"none", "pending", "result"}, UNCHANGED <<toServer, working>>,
           \A d \in Client : Ids(toClient'[d]) \subseteq Ids(toClient[d])
    PROVE  Promise!Next
<1>1. TypeOK /\ RegisteredOK(c)
  BY DEF CallerInv
<1>2. \A j \in Range(p) : fut[j] \in {"pending", "cancelled"}
  BY <1>1 DEF RegisteredOK
<1>3. \A j \in Call : fut'[j] = fut[j] \/ (fut[j] = "pending" /\ fut'[j] = e)
  BY <1>1, <1>2, FailAllFacts
<1> QED BY <1>3, LossMaps

LEMMA ListenReplyMaps ==
    ASSUME CallerInv, CallerInv', NEW c \in Client, ListenReply(c)
    PROVE  Promise!Next
<1>0. toClient[c] # <<>> /\ toClient' = [toClient EXCEPT ![c] = Tail(@)]
  BY DEF ListenReply
<1> PICK j \in Call : j = Head(toClient[c]).id
  BY <1>0, TakenReply, Zenon
<1> DEFINE m == Head(toClient[c])
           known == j \in Range(futures[c])
           settles == known /\ fut[j] = "pending"
<1>1. /\ listener[c] = "recv" /\ toClient[c] # <<>>
      /\ toClient' = [toClient EXCEPT ![c] = Tail(@)]
      /\ pc' = pc /\ toServer' = toServer /\ working' = working
      /\ \/ settles /\ Settle(c, j, IF m.good THEN "result" ELSE "error")
         \/ /\ ~settles /\ m.good
            /\ FailAll(c, Others(c, j), IF known THEN "InvalidState" ELSE "KeyError", "check")
         \/ /\ ~settles /\ ~m.good
            /\ UNCHANGED fut
  BY DEF ListenReply, server
<1>2. /\ j \in Ids(toClient[c]) /\ j \notin Ids(toClient'[c])
      /\ \A d \in Client : Ids(toClient'[d]) \subseteq Ids(toClient[d])
  BY <1>1, TakenReply, Zenon
<1>3. Others(c, j) \in Seq(Call) /\ Range(Others(c, j)) \subseteq Range(futures[c])
  <2>1. futures[c] \in Seq(Call)
    BY DEF CallerInv, TypeOK
  <2> QED BY <2>1, WithoutFacts DEF Others
<1>4. TypeOK /\ WireOK(c) /\ WhereOK(j) /\ WhereOK(j)'
  BY <1>2, WhereFacts, WhereFactsNext, Zenon DEF CallerInv
<1>5. CASE settles /\ ~m.good
  <2>1. fut' = [fut EXCEPT ![j] = "error"] /\ fut[j] = "pending"
    BY <1>1, <1>5 DEF Settle
  <2>2. \A k \in Call : fut'[k] = fut[k] \/ (fut[k] = "pending" /\ fut'[k] = "error")
    BY <1>4, <2>1 DEF TypeOK
  <2> QED BY <1>1, <1>2, <2>2, LossMaps, Zenon
<1>6. CASE settles /\ m.good
  <2>1. fut' = [fut EXCEPT ![j] = "result"] /\ fut[j] = "pending"
    BY <1>1, <1>6 DEF Settle
  <2> HIDE DEF m
  <2>2. pc[j] = "wait" /\ \A d \in Client : InTransit(j, d) => d = c
    <3>1. InTransit(j, c)
      BY <1>2 DEF InTransit
    <3>2. on[j] = c /\ pc[j] = "wait"
      BY <1>2, <1>4, <2>1, <3>1, Zenon DEF WireOK
    <3>3. \A d \in Client : InTransit(j, d) => on[j] = d
      BY <1>2, Zenon DEF CallerInv, WireOK
    <3> QED BY <3>2, <3>3
  <2>3. ~Placed(j)'
    <3>1. j \notin Range(toServer[c]) /\ <<j, c>> \notin working
      BY <1>2, <1>4 DEF WireOK
    <3> QED BY <1>1, <1>2, <2>2, <3>1, Zenon DEF Placed, InTransit
  <2>4. WhereIs(j) = "answered" /\ WhereIs(j)' = "gone"
    BY <1>1, <1>2, <1>4, <2>2, <2>3, Zenon DEF WhereOK, Moved
  <2>5. OutcomeOf(j) = "open" /\ OutcomeOf(j)' = "result"
    BY <1>2, <1>4, <2>1, <2>2, Zenon DEF OutcomeOf, TypeOK
  <2>6. ASSUME NEW k \in Call, k # j
        PROVE  Same(k)
    <3>1. /\ toClient[c] \in Seq(Reply)
          /\ Ids(toClient[c]) = Ids(Tail(toClient[c])) \cup {j}
          /\ toClient'[c] = Tail(toClient[c])
          /\ \A d \in Client : d # c => toClient'[d] = toClient[d]
      BY <1>1, <1>4, IdsTail DEF TypeOK
    <3>2. fut'[k] = fut[k]
      BY <1>4, <2>1, <2>6 DEF TypeOK
    <3> QED BY <1>1, <2>6, <3>1, <3>2 DEF Same
  <2>7. \A k \in Call : k # j => WhereIs(k)' = WhereIs(k) /\ OutcomeOf(k)' = OutcomeOf(k)
    BY <2>6, SameStep
  <2>8. /\ [k \in Call |-> WhereIs(k)]' = [[k \in Call |-> WhereIs(k)] EXCEPT ![j] = "gone"]
        /\ [k \in Call |-> OutcomeOf(k)]' = [[k \in Call |-> OutcomeOf(k)] EXCEPT ![j] = "result"]
    BY <1>2, <2>4, <2>5, <2>7, Zenon
  <2>9. Promise!Result(j)
    BY <1>2, <2>4, <2>5, <2>8 DEF Promise!Result
  <2> QED BY <1>2, <2>9 DEF Promise!Next
<1>7. CASE FailAll(c, Others(c, j), IF known THEN "InvalidState" ELSE "KeyError", "check")
  <2> DEFINE e == IF known THEN "InvalidState" ELSE "KeyError"
  <2>1. e \notin {"none", "pending", "result"} /\ FailAll(c, Others(c, j), e, "check")
    BY <1>7
  <2> HIDE DEF e
  <2> QED BY <1>1, <1>2, <1>3, <2>1, FailAllMaps
<1>8. CASE UNCHANGED fut
  BY <1>1, <1>2, <1>8, LossMaps
<1> QED BY <1>1, <1>5, <1>6, <1>7, <1>8

LEMMA ListenStepMaps ==
    ASSUME CallerInv, CallerInv', NEW c \in Client, ListenStep(c)
    PROVE  Promise!Next
<1>1. futures[c] \in Seq(Call)
  BY DEF CallerInv, TypeOK
<1>2. ASSUME NEW next, FailAll(c, futures[c], "ServerClosed", next),
             UNCHANGED <<pc, connection, server>>
      PROVE  Promise!Next
  BY <1>1, <1>2, FailAllMaps DEF connection, server
<1>3. ASSUME UNCHANGED <<pc, fut, toServer, toClient, server>>
      PROVE  Promise!Next
  BY <1>3, LossMaps DEF server
<1>4. CASE ListenCheck(c)
  <2>1. CASE closed[c]
    BY <1>2, <1>4, <2>1 DEF ListenCheck
  <2>2. CASE ~closed[c]
    BY <1>3, <1>4, <2>2 DEF ListenCheck, connection
  <2> QED BY <2>1, <2>2
<1>5. CASE ListenEOF(c)
  BY <1>3, <1>5 DEF ListenEOF
<1>6. CASE ListenClosed(c)
  BY <1>2, <1>6 DEF ListenClosed
<1> QED BY <1>4, <1>5, <1>6, ListenReplyMaps DEF ListenStep

LEMMA ServerReceiveMaps ==
    ASSUME CallerInv, CallerInv', NEW c \in Client, ServerReceive(c)
    PROVE  Promise!Next
<1>2. TypeOK /\ toServer[c] # <<>>
  BY DEF CallerInv, ServerReceive
<1> PICK j \in Call : j = Head(toServer[c])
  BY <1>2, TailFacts DEF TypeOK
<1>1. /\ working' = working \cup {<<j, c>>}
      /\ toServer' = [toServer EXCEPT ![c] = Tail(@)]
      /\ toClient' = toClient /\ pc' = pc /\ fut' = fut
  BY DEF ServerReceive
<1>3. Range(toServer[c]) = Range(Tail(toServer[c])) \cup {j}
  BY <1>2, TailFacts DEF TypeOK
<1>4. /\ toServer'[c] = Tail(toServer[c])
      /\ \A d \in Client : d # c => toServer'[d] = toServer[d]
      /\ \A k \in Call, d \in Client : <<k, d>> \in working' <=> <<k, d>> \in working \/ (k = j /\ d = c)
  BY <1>1, <1>2 DEF TypeOK
<1>5. \A k \in Call : k # j => Same(k)
  BY <1>1, <1>3, <1>4 DEF Same
<1>6. WhereIs(j) = "sent" /\ WhereIs(j)' = "working"
  <2>1. WhereOK(j) /\ WhereOK(j)'
    BY <1>3, WhereFacts, WhereFactsNext
  <2> QED BY <1>3, <1>4, <2>1, Zenon DEF WhereOK
<1>7. OutcomeOf(j)' = OutcomeOf(j)
  BY <1>1 DEF OutcomeOf
<1> QED BY <1>3, <1>5, <1>6, <1>7, MoveStep

LEMMA ServerReplyMaps ==
    ASSUME CallerInv, CallerInv', NEW j \in Call, NEW c \in Client, NEW good \in BOOLEAN,
           ServerReply(j, c, good)
    PROVE  Promise!Next
<1> DEFINE m == [id |-> j, good |-> good]
<1>1. /\ <<j, c>> \in working
      /\ working' = working \ {<<j, c>>}
      /\ toClient' = IF peer[c] THEN [toClient EXCEPT ![c] = Append(@, m)] ELSE toClient
      /\ toServer' = toServer /\ pc' = pc /\ fut' = fut
  BY DEF ServerReply
<1>2. TypeOK /\ m \in Reply /\ m.id = j
  BY DEF CallerInv, Reply
<1> HIDE DEF m
<1>3. CASE ~peer[c]
  BY <1>1, <1>3, LossMaps
<1>4. CASE peer[c]
  <2>1. Ids(Append(toClient[c], m)) = Ids(toClient[c]) \cup {j}
    BY <1>2, IdsAppend DEF TypeOK
  <2>2. /\ toClient'[c] = Append(toClient[c], m)
        /\ \A d \in Client : d # c => toClient'[d] = toClient[d]
        /\ \A k \in Call, d \in Client : <<k, d>> \in working' <=> <<k, d>> \in working /\ ~(k = j /\ d = c)
    BY <1>1, <1>2, <1>4 DEF TypeOK
  <2>3. \A k \in Call : k # j => Same(k)
    BY <1>1, <2>1, <2>2 DEF Same
  <2>4. WhereIs(j) = "working" /\ WhereIs(j)' = "answered"
    <3>1. WhereOK(j) /\ WhereOK(j)'
      BY WhereFacts, WhereFactsNext
    <3> QED BY <1>1, <2>1, <2>2, <3>1, Zenon DEF WhereOK
  <2>5. OutcomeOf(j)' = OutcomeOf(j)
    BY <1>1 DEF OutcomeOf
  <2> QED BY <2>3, <2>4, <2>5, MoveStep
<1> QED BY <1>3, <1>4

LEMMA NextMaps ==
    ASSUME CallerInv, CallerInv', [Next]_vars
    PROVE  Promise!Next
<1>1. ASSUME UNCHANGED <<pc, fut>>, working' \subseteq working,
             \A c \in Client : toServer'[c] \in {toServer[c], <<>>} /\ toClient'[c] \in {toClient[c], <<>>}
      PROVE  Promise!Next
  BY <1>1, EmptyQueue, EmptyIds, LossMaps
<1>2. TypeOK
  BY DEF CallerInv
<1>3. ASSUME NEW c \in Client, ServerStep(c) \/ BadReply(c)
      PROVE  Promise!Next
  BY <1>3, ServerReceiveMaps, ServerReplyMaps, Zenon DEF ServerStep, BadReply
<1>4. ASSUME NEW c \in Client, ConnectionLost(c)
      PROVE  Promise!Next
  BY <1>1, <1>2, <1>4 DEF ConnectionLost, TypeOK, server
<1>5. ASSUME ServerStop
      PROVE  Promise!Next
  BY <1>1, <1>5, Zenon DEF ServerStop
<1>6. ASSUME ServerStart
      PROVE  Promise!Next
  BY <1>1, <1>6 DEF ServerStart, connection
<1>7. ASSUME StopClose \/ CancelTasks
      PROVE  Promise!Next
  BY <1>1, <1>7 DEF StopClose, CancelTasks, connection, server
<1>8. ASSUME UNCHANGED vars
      PROVE  Promise!Next
  BY <1>1, <1>8 DEF vars
<1> QED BY <1>3, <1>4, <1>5, <1>6, <1>7, <1>8, CallStepMaps, CancelMaps, ListenStepMaps DEF Next
=============================================================================
