------------------------- MODULE ActorCallerProofs -------------------------
(***************************************************************************)
(* Proofs about ActorCaller for any set of calls, both channels, any       *)
(* number of restarts of the serving pool and any cancellations.           *)
(***************************************************************************)
EXTENDS ActorCallerRefinement

(* The invariant holds initially.                                          *)
LEMMA InitCallerInv == Init => CallerInv
<1> SUFFICES ASSUME Init
             PROVE  CallerInv
  OBVIOUS
<1>2. TypeOK
  BY ActorCallerAssumption DEF Init, TypeOK, Client, FutureStates, Running
<1>3. RouterOK
  BY EmptyQueue, EmptyIds DEF Init, RouterOK
<1>4. \A j \in Call : CallOK(j) /\ FutureOK(j)
  BY EmptyQueue, EmptyIds, ActorCallerAssumption DEF Init, CallOK, FutureOK
<1>5. \A c \in Client : ClientOK(c) /\ ListenerOK(c)
  BY DEF Init, ClientOK, ListenerOK
<1>6. \A c \in Client : RegisteredOK(c) /\ WireOK(c) /\ KnownOK(c)
  BY EmptyQueue, EmptyIds DEF Init, RegisteredOK, WireOK, KnownOK, InTransit
<1>7. ErrorsAreTrue
  BY DEF Init, ErrorsAreTrue, ErrorIsTrue
<1> QED BY <1>2, <1>3, <1>4, <1>5, <1>6, <1>7 DEF CallerInv

-----------------------------------------------------------------------------
(* Call j is done with the router: it holds neither the lock nor a place   *)
(* among the waiters.                                                      *)
Leaves(j) ==
    /\ queue' \in Seq(Call) /\ Distinct(queue')
    /\ Range(queue') = Range(queue) \ {j}
    /\ lock \in {None, j} /\ lock' = None

(* What a call meets that is given client c, cached or just opened.        *)
Given(j, c) ==
    /\ cache' = c /\ created' = created \cup {c} /\ c \in created \cup {j}
    /\ \A d \in Client : d \in created' /\ d # c => closed[d]
    /\ ~closed[c] /\ closed' = closed
    /\ listener' \in [Client -> Running \cup {"none", "ended", "dead", "cancelled"}]
    /\ \A d \in Client : d # c => listener'[d] = listener[d] /\ peer'[d] = peer[d]
    /\ listener'[c] = listener[c] \/ listener'[c] = "check"
    /\ listener'[c] # "none"
    /\ Attentive(c)' => Attentive(c) \/ ~\E k \in Call : on[k] = c
    /\ peer' \in [Client -> BOOLEAN]
    /\ UNCHANGED <<toClient, server, rest>>

LEMMA RegisteredKeeps ==
    ASSUME CallerInv, NEW j \in Call, NEW c \in Client, on[j] = None,
           Registered(j, c), Leaves(j), Given(j, c)
    PROVE  CallerInv'
<1>0. c # None /\ None \notin Client
  BY ActorCallerAssumption DEF Client
<1>1. /\ on' = [on EXCEPT ![j] = c]
      /\ fut' = [fut EXCEPT ![j] = "pending"]
      /\ futures' = [futures EXCEPT ![c] = Append(@, j)]
      /\ \/ pc' = [pc EXCEPT ![j] = "send"] /\ toServer' = toServer
         \/ /\ pc' = [pc EXCEPT ![j] = "wait"]
            /\ toServer' = [toServer EXCEPT ![c] = Append(@, j)]
  BY DEF Registered
<1>2. TypeOK /\ fut[j] = "none" /\ \A k \in Call : CallOK(k) /\ FutureOK(k)
  BY DEF CallerInv, CallOK
<1>3. /\ futures[c] \in Seq(Call) /\ toServer[c] \in Seq(Call)
      /\ Append(futures[c], j) \in Seq(Call) /\ Append(toServer[c], j) \in Seq(Call)
      /\ Range(Append(futures[c], j)) = Range(futures[c]) \cup {j}
      /\ Range(Append(toServer[c], j)) = Range(toServer[c]) \cup {j}
  BY <1>2, AppendFacts DEF TypeOK
<1>4. TypeOK'
  <2>1. /\ on' \in [Call -> Client \cup {None}] /\ fut' \in [Call -> FutureStates]
        /\ futures' \in [Client -> Seq(Call)] /\ toServer' \in [Client -> Seq(Call)]
        /\ pc' \in [Call -> {"idle", "lock", "connect", "send", "wait", "raised"}]
    BY <1>1, <1>2, <1>3, Zenon DEF TypeOK, FutureStates
  <2>2. /\ working' = working /\ up' = up /\ stops' = stops /\ stop' = stop /\ kind' = kind
        /\ toClient' = toClient /\ closed' = closed
    BY DEF rest, server, Leaves, Given
  <2> QED BY <2>1, <2>2, <1>2, Zenon DEF TypeOK, Leaves, Given
<1>5. RouterOK'
  BY <1>0 DEF RouterOK, Leaves, Given
<1>6. ASSUME NEW d \in Client, SomeCancelled(d)
      PROVE  SomeCancelled(d)'
  BY <1>0, <1>1, <1>2, <1>6 DEF SomeCancelled, TypeOK
<1>7. ASSUME NEW k \in Call
      PROVE  CallOK(k)'
  <2>1. CASE k = j
    <3>1. on'[k] = c /\ fut'[k] = "pending" /\ pc'[k] \in {"send", "wait"}
      BY <1>1, <1>2, <2>1 DEF TypeOK
    <3>2. c \in created' /\ k \notin Range(queue') /\ lock' # k
      BY <2>1, ActorCallerAssumption DEF Leaves, Given
    <3> QED BY <1>0, <3>1, <3>2 DEF CallOK
  <2>2. CASE k # j
    <3>1. CallOK(k) /\ on'[k] = on[k] /\ fut'[k] = fut[k] /\ pc'[k] = pc[k]
      BY <1>1, <1>2, <2>2 DEF TypeOK
    <3>2. on[k] # None => on[k] \in created'
      BY <1>2 DEF CallOK, Leaves, Given
    <3>3. k \in Range(queue') <=> k \in Range(queue)
      BY <2>2 DEF Leaves, Given
    <3>4. ~(lock = k) /\ ~(lock' = k)
      BY <2>2, ActorCallerAssumption DEF Leaves, Given
    <3> QED BY <3>1, <3>2, <3>3, <3>4 DEF CallOK
  <2> QED BY <2>1, <2>2
<1>8. ASSUME NEW k \in Call
      PROVE  FutureOK(k)'
  <2>1. CASE k = j
    BY <1>1, <1>2, <1>3, <2>1 DEF FutureOK, TypeOK
  <2>2. CASE k # j
    <3>1. FutureOK(k) /\ on'[k] = on[k] /\ fut'[k] = fut[k]
      BY <1>1, <1>2, <2>2 DEF TypeOK
    <3>2. fut[k] = "pending" => on[k] \in Client
      BY <1>2 DEF CallOK, TypeOK
    <3>3. \A d \in Client : Range(futures[d]) \subseteq Range(futures'[d])
      BY <1>1, <1>2, <1>3 DEF TypeOK
    <3> QED BY <3>1, <3>2, <3>3, <1>6 DEF FutureOK
  <2> QED BY <2>1, <2>2
<1>9. ASSUME NEW d \in Client
      PROVE  ClientOK(d)'
  <2>1. ClientOK(d)
    BY DEF CallerInv
  <2>2. ClientOK(c) /\ d \in Call /\ c \in Call
    BY DEF CallerInv, Client
  <2>3. d \in created' => on'[d] # None
    BY <1>0, <1>1, <1>2, <2>1, <2>2 DEF TypeOK, ClientOK, Leaves, Given
  <2> QED BY <2>1, <2>3 DEF ClientOK, Leaves, Given
<1>10. ASSUME NEW d \in Client
       PROVE  ListenerOK(d)'
  <2>1. ListenerOK(d)
    BY DEF CallerInv
  <2>2. CASE d = c
    BY <2>1, <2>2, <1>6 DEF ListenerOK, rest, Leaves, Given
  <2>3. CASE d # c
    <3>1. futures'[d] = futures[d]
      BY <1>1, <1>2, <2>3 DEF TypeOK
    <3> QED BY <2>1, <2>3, <3>1, <1>6 DEF ListenerOK, rest, Leaves, Given
  <2> QED BY <2>2, <2>3
<1>11. ASSUME NEW d \in Client
       PROVE  RegisteredOK(d)'
  <2>1. RegisteredOK(d)
    BY DEF CallerInv
  <2>2. j \notin Range(futures[d])
    BY <2>1, <1>0 DEF RegisteredOK
  <2>3. \A k \in Range(futures[d]) : on'[k] = on[k] /\ fut'[k] = fut[k]
    <3>1. Range(futures[d]) \subseteq Call
      BY <1>2 DEF TypeOK, Range
    <3> QED BY <1>1, <1>2, <2>2, <3>1 DEF TypeOK
  <2>4. CASE d = c
    <3>1. futures'[c] = Append(futures[c], j) /\ on'[j] = c /\ fut'[j] = "pending"
      BY <1>1, <1>2 DEF TypeOK
    <3>2. Distinct(futures'[c])
      BY <1>3, <2>1, <2>2, <2>4, <3>1, AppendFacts DEF RegisteredOK
    <3> QED BY <1>3, <2>1, <2>3, <2>4, <3>1, <3>2 DEF RegisteredOK
  <2>5. CASE d # c
    <3>1. futures'[d] = futures[d]
      BY <1>1, <1>2, <2>5 DEF TypeOK
    <3> QED BY <2>1, <2>3, <3>1 DEF RegisteredOK
  <2> QED BY <2>4, <2>5
<1>12. ASSUME NEW d \in Client
       PROVE  WireOK(d)'
  <2>1. WireOK(d)
    BY DEF CallerInv
  <2>2. ~InTransit(j, d)
    BY <2>1, <1>0, Zenon DEF WireOK
  <2>3. working' = working /\ toClient' = toClient
    BY DEF server, Leaves, Given
  <2>4. \A k \in Call : k # j => on'[k] = on[k] /\ fut'[k] = fut[k] /\ pc'[k] = pc[k]
    BY <1>1, <1>2 DEF TypeOK
  <2>5. CASE toServer'[d] = toServer[d]
    <3>1. \A k \in Call : InTransit(k, d)' <=> InTransit(k, d)
      BY <2>3, <2>5 DEF InTransit
    <3> QED BY <2>1, <2>2, <2>3, <2>4, <2>5, <3>1 DEF WireOK
  <2>6. CASE d = c /\ toServer' = [toServer EXCEPT ![c] = Append(@, j)] /\ pc' = [pc EXCEPT ![j] = "wait"]
    <3>1. toServer'[d] = Append(toServer[d], j) /\ on'[j] = c /\ pc'[j] = "wait"
      BY <1>1, <1>2, <2>6 DEF TypeOK
    <3>2. \A k \in Call : InTransit(k, d)' <=> InTransit(k, d) \/ k = j
      BY <1>3, <2>3, <2>6, <3>1 DEF InTransit
    <3>3. Distinct(toServer'[d])
      BY <1>3, <2>1, <2>2, <2>6, <3>1, AppendFacts DEF WireOK, InTransit
    <3>4. Range(toServer'[d]) = Range(toServer[d]) \cup {j}
      BY <1>3, <2>6, <3>1
    <3>5. <<j, d>> \notin working /\ j \notin Ids(toClient[d])
      BY <2>2 DEF InTransit
    <3>6. ASSUME NEW k \in Call, k # j
          PROVE  /\ InTransit(k, d)' =>
                       /\ on'[k] = d
                       /\ pc'[k] = "wait" \/ (pc'[k] = "raised" /\ fut'[k] = "cancelled")
                 /\ <<k, d>> \in working' => k \notin Range(toServer'[d])
                 /\ k \in Ids(toClient'[d]) => k \notin Range(toServer'[d]) /\ <<k, d>> \notin working'
      BY <2>1, <2>3, <2>4, <3>2, <3>4, <3>6 DEF WireOK
    <3>7. DistinctIds(toClient'[d])
      BY <2>1, <2>3 DEF WireOK
    <3> QED BY <2>3, <2>6, <3>1, <3>3, <3>5, <3>6, <3>7 DEF WireOK
  <2> QED BY <1>1, <1>2, <2>5, <2>6 DEF TypeOK
<1>13. ASSUME NEW d \in Client
       PROVE  KnownOK(d)'
  <2> SUFFICES ASSUME Attentive(d)', NEW k \in Call, InTransit(k, d)'
               PROVE  SomeCancelled(d)' \/ k \in Range(futures'[d])
    BY DEF KnownOK
  <2>1. WireOK(d) /\ KnownOK(d)
    BY DEF CallerInv
  <2>2. Attentive(d) \/ (d = c /\ ~\E i \in Call : on[i] = d)
    BY DEF Attentive, Leaves, Given
  <2>3. InTransit(k, d) \/ (k = j /\ d = c)
    <3>1. working' = working /\ toClient' = toClient
      BY DEF server, Leaves, Given
    <3>2. Range(toServer'[d]) \subseteq Range(toServer[d]) \cup (IF d = c THEN {j} ELSE {})
      BY <1>1, <1>2, <1>3, Zenon DEF TypeOK
    <3> QED BY <3>1, <3>2 DEF InTransit
  <2>4. Range(futures[d]) \subseteq Range(futures'[d]) /\ j \in Range(futures'[c])
    BY <1>1, <1>2, <1>3 DEF TypeOK
  <2>5. CASE InTransit(k, d)
    <3>1. on[k] = d
      BY <2>1, <2>5, Zenon DEF WireOK
    <3>2. Attentive(d)
      BY <2>2, <3>1
    <3> QED BY <2>1, <2>4, <2>5, <3>2, <1>6 DEF KnownOK
  <2> QED BY <2>3, <2>4, <2>5
<1>14. ErrorsAreTrue'
  <2> SUFFICES ASSUME NEW k \in Call
               PROVE  ErrorIsTrue(k)'
    BY DEF ErrorsAreTrue
  <2>1. CASE k = j
    BY <1>1, <1>2, <2>1 DEF TypeOK, ErrorIsTrue
  <2>2. CASE k # j
    <3>1. on'[k] = on[k] /\ fut'[k] = fut[k]
      BY <1>1, <1>2, <2>2 DEF TypeOK
    <3>2. ErrorIsTrue(k)
      BY DEF CallerInv, ErrorsAreTrue
    <3>3. fut[k] \in {"ServerClosed", "KeyError", "InvalidState"} => on[k] \in Client
      BY <1>2 DEF CallOK, TypeOK
    <3> QED BY <3>1, <3>2, <3>3, <1>6 DEF ErrorIsTrue, Leaves, Given
  <2> QED BY <2>1, <2>2
<1> QED BY <1>4, <1>5, <1>7, <1>8, <1>9, <1>10, <1>11, <1>12, <1>13, <1>14 DEF CallerInv

(* A step of call j at the router, before it has a client.                 *)
AtRouter(j, v) ==
    /\ pc' = [pc EXCEPT ![j] = v]
    /\ queue' \in Seq(Call) /\ Distinct(queue')
    /\ \A k \in Call : k \in Range(queue') <=> IF k = j THEN v = "lock" ELSE k \in Range(queue)
    /\ lock' \in Call \cup {None}
    /\ \A k \in Call : lock' = k <=> IF k = j THEN v = "connect" ELSE lock = k
    /\ cache' = cache \/ (cache' = None /\ ~CachedOpen)
    /\ lock' # None => cache' = None
    /\ UNCHANGED <<on, fut, created, futures, listener, connection, server, rest>>

LEMMA RouterStepKeeps ==
    ASSUME CallerInv, NEW j \in Call, on[j] = None, NEW v \in {"lock", "connect", "raised"},
           AtRouter(j, v)
    PROVE  CallerInv'
<1>0. None \notin Client
  BY ActorCallerAssumption DEF Client
<1>1. /\ TypeOK
      /\ on' = on /\ fut' = fut /\ created' = created /\ futures' = futures /\ listener' = listener
      /\ closed' = closed /\ peer' = peer /\ toServer' = toServer /\ toClient' = toClient
      /\ working' = working /\ up' = up /\ stops' = stops /\ stop' = stop /\ kind' = kind
  BY Zenon DEF CallerInv, connection, server, rest, AtRouter
<1>2. TypeOK'
  BY <1>1 DEF TypeOK, AtRouter
<1>3. RouterOK'
  BY <1>0, <1>1, Zenon DEF CallerInv, RouterOK, AtRouter
<1>4. \A c \in Client : SomeCancelled(c)' <=> SomeCancelled(c)
  BY <1>1 DEF SomeCancelled
<1>5. ASSUME NEW k \in Call
      PROVE  CallOK(k)' /\ FutureOK(k)'
  <2>1. CallOK(k) /\ FutureOK(k) /\ pc'[k] = IF k = j THEN v ELSE pc[k]
    BY <1>1 DEF CallerInv, TypeOK, AtRouter
  <2>2. FutureOK(k)'
    BY <1>1, <2>1 DEF FutureOK, SomeCancelled
  <2> QED BY <1>1, <2>1, <2>2 DEF CallOK, AtRouter
<1>6. ASSUME NEW c \in Client
      PROVE  /\ ClientOK(c)' /\ ListenerOK(c)' /\ RegisteredOK(c)'
             /\ WireOK(c)' /\ KnownOK(c)'
  <2>1. ClientOK(c) /\ ListenerOK(c) /\ RegisteredOK(c) /\ WireOK(c) /\ KnownOK(c)
    BY DEF CallerInv
  <2>2. ClientOK(c)'
    BY <1>1, <2>1, <1>0, Zenon DEF ClientOK, CachedOpen, AtRouter
  <2>3. ListenerOK(c)'
    BY <1>1, <1>4, <2>1 DEF ListenerOK
  <2>4. RegisteredOK(c)'
    BY <1>1, <2>1 DEF RegisteredOK
  <2>5. \A k \in Call : InTransit(k, c)' <=> InTransit(k, c)
    BY <1>1, Zenon DEF InTransit
  <2>6. ~InTransit(j, c)
    BY <1>0, <2>1, Zenon DEF WireOK
  <2>7. \A k \in Call : k # j => pc'[k] = pc[k]
    BY <1>1 DEF TypeOK, AtRouter
  <2>8. WireOK(c)'
    BY <1>1, <2>1, <2>5, <2>6, <2>7 DEF WireOK
  <2>9. KnownOK(c)'
    BY <1>1, <1>4, <2>1, <2>5 DEF KnownOK, Attentive
  <2> QED BY <2>2, <2>3, <2>4, <2>8, <2>9
<1>7. ErrorsAreTrue'
  BY <1>1, Zenon DEF CallerInv, ErrorsAreTrue, ErrorIsTrue, SomeCancelled
<1> QED BY <1>2, <1>3, <1>5, <1>6, <1>7 DEF CallerInv

(* A connection that is opened makes a client; the call is registered.     *)
LEMMA ConnectedKeeps ==
    ASSUME CallerInv, NEW j \in Call, pc[j] \in {"idle", "lock", "connect"},
           ~CachedOpen, Connected(j), Leaves(j), UNCHANGED <<server, rest>>
    PROVE  CallerInv'
<1>1. on[j] = None /\ TypeOK /\ RouterOK /\ ClientOK(j) /\ j \in Client
  BY DEF CallerInv, CallOK, Client
<1>2. /\ cache' = j /\ created' = created \cup {j}
      /\ listener' = [listener EXCEPT ![j] = "check"]
      /\ peer' = [peer EXCEPT ![j] = TRUE]
      /\ closed' = closed /\ toClient' = toClient
      /\ Registered(j, j)
  BY DEF Connected
<1>3. j \notin created /\ ~closed[j]
  BY <1>1 DEF ClientOK
<1>4. \A k \in Call : on[k] # j
  BY <1>3, ActorCallerAssumption DEF CallerInv, CallOK
<1>5. \A d \in Client : d \in created => closed[d]
  <2> SUFFICES ASSUME NEW d \in Client, d \in created
               PROVE  closed[d]
    OBVIOUS
  <2>1. ClientOK(d)
    BY DEF CallerInv
  <2>2. CASE d = cache
    BY <2>2, ActorCallerAssumption DEF CachedOpen, Client
  <2>3. CASE d # cache
    BY <2>1, <2>3 DEF ClientOK
  <2> QED BY <2>2, <2>3
<1>6. Given(j, j)
  <2>1. /\ listener' \in [Client -> Running \cup {"none", "ended", "dead", "cancelled"}]
        /\ \A d \in Client : d # j => listener'[d] = listener[d] /\ peer'[d] = peer[d]
        /\ listener'[j] = "check"
        /\ peer' \in [Client -> BOOLEAN]
    BY <1>1, <1>2 DEF TypeOK, Running
  <2> QED BY <1>1, <1>2, <1>3, <1>4, <1>5, <2>1 DEF Given
<1> QED BY <1>1, <1>2, <1>6, RegisteredKeeps

(* A refused connection ends the call.                                     *)
LEMMA RefusedKeeps ==
    ASSUME CallerInv, NEW j \in Call, pc[j] \in {"idle", "lock", "connect"},
           ~CachedOpen, Refused(j), Leaves(j), UNCHANGED <<server, rest>>
    PROVE  CallerInv'
<1>1. on[j] = None
  BY DEF CallerInv, CallOK
<1>2. \A k \in Call : lock' # k
  BY ActorCallerAssumption DEF Leaves
<1>3. \A k \in Call : k # j => lock # k
  BY ActorCallerAssumption DEF Leaves
<1> QED BY <1>1, <1>2, <1>3, RouterStepKeeps, Zenon DEF Refused, Leaves, AtRouter

(* get_client inside the lock.                                             *)
LEMMA GetClientKeeps ==
    ASSUME CallerInv, NEW j \in Call, pc[j] \in {"idle", "lock"}, lock = None,
           queue' \in Seq(Call), Distinct(queue'), Range(queue') = Range(queue) \ {j},
           GetClient(j), UNCHANGED <<server, rest>>
    PROVE  CallerInv'
<1>1. on[j] = None /\ TypeOK /\ RouterOK
  BY DEF CallerInv, CallOK
<1>2. CASE /\ CachedOpen
           /\ Registered(j, cache)
           /\ UNCHANGED <<lock, cache, created, closed, listener, peer, toClient>>
  <2>1. cache \in Client /\ ~closed[cache] /\ cache \in created
    BY <1>1, <1>2 DEF CachedOpen, TypeOK, RouterOK, Client
  <2>2. \A d \in Client : d \in created /\ d # cache => closed[d]
    BY DEF CallerInv, ClientOK
  <2>3. Attentive(cache)' => Attentive(cache)
    BY <1>2 DEF Attentive
  <2>4. listener[cache] # "none"
    BY <2>1 DEF CallerInv, ListenerOK
  <2>5. /\ listener \in [Client -> Running \cup {"none", "ended", "dead", "cancelled"}]
        /\ peer \in [Client -> BOOLEAN]
    BY <1>1 DEF TypeOK
  <2>6. Given(j, cache)
    BY <1>2, <2>1, <2>2, <2>3, <2>4, <2>5 DEF Given
  <2>7. Leaves(j)
    BY <1>2 DEF Leaves
  <2> QED BY <1>1, <1>2, <2>1, <2>6, <2>7, RegisteredKeeps
<1>3. CASE /\ ~CachedOpen /\ kind = "socket"
           /\ lock' = j
           /\ cache' = None
           /\ pc' = [pc EXCEPT ![j] = "connect"]
           /\ UNCHANGED <<on, fut, created, futures, listener, connection>>
  <2>1. \A k \in Call : lock # k
    BY ActorCallerAssumption
  <2> QED BY <1>1, <1>3, <2>1, RouterStepKeeps, Zenon DEF AtRouter
<1>4. CASE /\ ~CachedOpen /\ kind = "dummy"
           /\ Connected(j) \/ Refused(j)
           /\ UNCHANGED lock
  <2>1. Leaves(j)
    BY <1>4 DEF Leaves
  <2> QED BY <1>4, <2>1, ConnectedKeeps, RefusedKeeps
<1> QED BY <1>2, <1>3, <1>4 DEF GetClient

LEMMA StartCallKeeps ==
    ASSUME CallerInv, NEW j \in Call, StartCall(j)
    PROVE  CallerInv'
<1>1. /\ pc[j] = "idle" /\ TypeOK /\ RouterOK /\ on[j] = None
      /\ j \notin Range(queue) /\ lock # j
      /\ UNCHANGED <<server, rest>>
  BY DEF CallerInv, CallOK, StartCall
<1>2. CASE lock = None /\ queue = <<>>
  <2>1. GetClient(j) /\ queue' = queue
    BY <1>2 DEF StartCall
  <2>2. queue' \in Seq(Call) /\ Distinct(queue') /\ Range(queue') = Range(queue) \ {j}
    BY <1>1, <2>1 DEF TypeOK, RouterOK
  <2> QED BY <1>1, <1>2, <2>1, <2>2, GetClientKeeps
<1>3. CASE ~(lock = None /\ queue = <<>>)
  <2>1. /\ queue' = Append(queue, j)
        /\ pc' = [pc EXCEPT ![j] = "lock"]
        /\ UNCHANGED <<on, fut, lock, cache, created, futures, listener, connection>>
    BY <1>3 DEF StartCall
  <2>2. queue' \in Seq(Call) /\ Distinct(queue') /\ Range(queue') = Range(queue) \cup {j}
    BY <1>1, <2>1, AppendFacts DEF TypeOK, RouterOK
  <2>3. lock' \in Call \cup {None} /\ (lock' # None => cache' = None)
    BY <1>1, <2>1 DEF TypeOK, RouterOK
  <2> QED BY <1>1, <2>1, <2>2, <2>3, RouterStepKeeps, Zenon DEF AtRouter
<1> QED BY <1>2, <1>3

LEMMA AcquireKeeps ==
    ASSUME CallerInv, NEW j \in Call, Acquire(j)
    PROVE  CallerInv'
<1>1. /\ lock = None /\ queue # <<>> /\ j = Head(queue)
      /\ queue' = Tail(queue)
      /\ GetClient(j)
      /\ UNCHANGED <<server, rest>>
  BY DEF Acquire
<1>2. queue \in Seq(Call) /\ Distinct(queue)
  BY DEF CallerInv, TypeOK, RouterOK
<1>3. /\ queue' \in Seq(Call) /\ Distinct(queue')
      /\ Range(queue') = Range(queue) \ {j} /\ j \in Range(queue)
  BY <1>1, <1>2, TailFacts
<1>4. pc[j] = "lock"
  BY <1>3 DEF CallerInv, CallOK
<1> QED BY <1>1, <1>3, <1>4, GetClientKeeps

LEMMA ConnectKeeps ==
    ASSUME CallerInv, NEW j \in Call, Connect(j)
    PROVE  CallerInv'
<1>1. /\ pc[j] = "connect"
      /\ Connected(j) \/ Refused(j)
      /\ lock' = None /\ queue' = queue
      /\ UNCHANGED <<server, rest>>
  BY DEF Connect
<1>2. /\ lock = j /\ j \notin Range(queue) /\ TypeOK /\ RouterOK
  BY <1>1 DEF CallerInv, CallOK
<1>3. ~CachedOpen
  BY <1>2, ActorCallerAssumption DEF RouterOK, CachedOpen
<1>4. Leaves(j)
  BY <1>1, <1>2 DEF Leaves, TypeOK, RouterOK
<1> QED BY <1>1, <1>3, <1>4, ConnectedKeeps, RefusedKeeps

-----------------------------------------------------------------------------
(* Steps that only take something away: a client is closed, messages are   *)
(* lost, a call gives up while it sends, a listener goes on to receive, to *)
(* close or is cancelled.                                                  *)
Loses ==
    /\ UNCHANGED <<on, fut, routing, futures, kind>>
    /\ pc' \in [Call -> {"idle", "lock", "connect", "send", "wait", "raised"}]
    /\ \A k \in Call : pc'[k] = pc[k] \/ (pc[k] = "send" /\ pc'[k] = "raised")
    /\ closed' \in [Client -> BOOLEAN] /\ peer' \in [Client -> BOOLEAN]
    /\ \A c \in Client : /\ closed[c] => closed'[c]
                         /\ peer'[c] => peer[c]
                         /\ closed'[c] => ~peer'[c] /\ c \in created
    /\ toServer' \in [Client -> Seq(Call)] /\ toClient' \in [Client -> Seq(Reply)]
    /\ \A c \in Client : toServer'[c] \in {toServer[c], <<>>} /\ toClient'[c] \in {toClient[c], <<>>}
    /\ working' \subseteq working
    /\ up' \in BOOLEAN /\ stops' \in 0..MaxStops /\ stop' \in {"no", "closing", "stopped"}
    /\ stop = "stopped" => stop' = "stopped"
    /\ listener' \in [Client -> Running \cup {"none", "ended", "dead", "cancelled"}]
    /\ \A c \in Client :
          \/ listener'[c] = listener[c]
          \/ listener[c] = "check" /\ ~closed[c] /\ listener'[c] = "recv"
          \/ listener[c] # "none" /\ listener'[c] = "closing" /\ closed'[c]
          \/ listener[c] # "none" /\ listener'[c] = "cancelled" /\ stop' = "stopped"

LEMMA LossKeeps == ASSUME CallerInv, Loses PROVE CallerInv'
<1>1. /\ TypeOK
      /\ on' = on /\ fut' = fut /\ created' = created /\ futures' = futures
      /\ lock' = lock /\ queue' = queue /\ cache' = cache /\ kind' = kind
  BY Zenon DEF CallerInv, routing, Loses
<1>2. TypeOK'
  BY <1>1 DEF TypeOK, Loses
<1>3. RouterOK'
  BY <1>1 DEF CallerInv, RouterOK
<1>4. \A c \in Client : SomeCancelled(c)' <=> SomeCancelled(c)
  BY <1>1 DEF SomeCancelled
<1>5. ASSUME NEW k \in Call
      PROVE  CallOK(k)' /\ FutureOK(k)' /\ ErrorIsTrue(k)'
  <2>1. CallOK(k) /\ FutureOK(k) /\ ErrorIsTrue(k) /\ on[k] \in Client \cup {None}
    BY <1>1, Zenon DEF CallerInv, TypeOK, ErrorsAreTrue
  <2>2. CallOK(k)'
    BY <1>1, <2>1 DEF CallOK, Loses
  <2>3. FutureOK(k)'
    BY <1>1, <2>1 DEF FutureOK, SomeCancelled
  <2>4. ErrorIsTrue(k)'
    <3>1. fut[k] \in {"ServerClosed", "KeyError", "InvalidState"} => on[k] \in Client
      BY <2>1 DEF CallOK
    <3> QED BY <1>1, <1>4, <2>1, <3>1, Zenon DEF ErrorIsTrue, Loses
  <2> QED BY <2>2, <2>3, <2>4
<1>6. ASSUME NEW c \in Client
      PROVE  /\ ClientOK(c)' /\ ListenerOK(c)' /\ RegisteredOK(c)'
             /\ WireOK(c)' /\ KnownOK(c)'
  <2>1. ClientOK(c) /\ ListenerOK(c) /\ RegisteredOK(c) /\ WireOK(c) /\ KnownOK(c)
    BY DEF CallerInv
  <2>2. ClientOK(c)'
    BY <1>1, <2>1, Zenon DEF ClientOK, Loses
  <2>3. ListenerOK(c)'
    BY <1>1, <1>4, <2>1, Zenon DEF ListenerOK, Loses
  <2>4. RegisteredOK(c)'
    BY <1>1, <2>1 DEF RegisteredOK
  <2>5. /\ Range(toServer'[c]) \subseteq Range(toServer[c])
        /\ Ids(toClient'[c]) \subseteq Ids(toClient[c])
        /\ Distinct(toServer'[c]) /\ DistinctIds(toClient'[c])
    BY <2>1, EmptyQueue, EmptyIds, Zenon DEF WireOK, Loses
  <2>6. \A k \in Call : InTransit(k, c)' => InTransit(k, c)
    <3>1. working' \subseteq working
      BY DEF Loses
    <3> QED BY <2>5, <3>1, Zenon DEF InTransit
  <2>7. WireOK(c)'
    <3>0. \A k \in Call : pc'[k] = pc[k] \/ (pc[k] = "send" /\ pc'[k] = "raised")
      BY DEF Loses
    <3>1. ASSUME NEW k \in Call, InTransit(k, c)'
          PROVE  on'[k] = c /\ (pc'[k] = "wait" \/ (pc'[k] = "raised" /\ fut'[k] = "cancelled"))
      BY <1>1, <2>1, <2>6, <3>0, <3>1, Zenon DEF WireOK
    <3>2. \A k \in Call : <<k, c>> \in working' => k \notin Range(toServer'[c])
      BY <2>1, <2>5, Zenon DEF WireOK, Loses
    <3>3. \A k \in Call : k \in Ids(toClient'[c]) => k \notin Range(toServer'[c]) /\ <<k, c>> \notin working'
      BY <2>1, <2>5, Zenon DEF WireOK, Loses
    <3> QED BY <2>5, <3>1, <3>2, <3>3 DEF WireOK
  <2>8. Attentive(c)' => Attentive(c)
    BY Zenon DEF Attentive, Loses
  <2>9. KnownOK(c)'
    BY <1>1, <1>4, <2>1, <2>6, <2>8 DEF KnownOK
  <2> QED BY <2>2, <2>3, <2>4, <2>7, <2>9
<1> QED BY <1>2, <1>3, <1>5, <1>6 DEF CallerInv, ErrorsAreTrue

LEMMA SendFailsKeeps ==
    ASSUME CallerInv, NEW j \in Call, SendFails(j)
    PROVE  CallerInv'
<1>1. TypeOK /\ on[j] \in Client /\ on[j] \in created
  BY DEF CallerInv, TypeOK, CallOK, SendFails
<1>2. \A c \in Client : ClientOK(c)
  BY DEF CallerInv
<1>3. /\ pc' = [pc EXCEPT ![j] = "raised"] /\ pc[j] = "send"
      /\ closed' = [closed EXCEPT ![on[j]] = TRUE]
      /\ peer' = [peer EXCEPT ![on[j]] = FALSE]
      /\ UNCHANGED <<on, fut, routing, futures, listener, toServer, toClient, server, rest>>
  BY DEF SendFails
<1>4. /\ pc' \in [Call -> {"idle", "lock", "connect", "send", "wait", "raised"}]
      /\ \A k \in Call : pc'[k] = pc[k] \/ (pc[k] = "send" /\ pc'[k] = "raised")
      /\ closed' \in [Client -> BOOLEAN] /\ peer' \in [Client -> BOOLEAN]
      /\ \A c \in Client : /\ closed[c] => closed'[c]
                           /\ peer'[c] => peer[c]
                           /\ closed'[c] => ~peer'[c] /\ c \in created
  BY <1>1, <1>2, <1>3 DEF TypeOK, ClientOK
<1> QED BY <1>1, <1>3, <1>4, LossKeeps DEF TypeOK, server, rest, Loses

(* What LossKeeps asks for, of connections that do not change.             *)
LEMMA Kept ==
    ASSUME CallerInv
    PROVE  /\ TypeOK
           /\ \A c \in Client : (closed[c] => ~peer[c]) /\ (closed[c] \/ peer[c] => c \in created)
BY DEF CallerInv, ClientOK

LEMMA ListenEOFKeeps ==
    ASSUME CallerInv, NEW c \in Client, ListenEOF(c)
    PROVE  CallerInv'
<1>1. /\ listener[c] = "recv" /\ (closed[c] \/ ~peer[c])
      /\ listener' = [listener EXCEPT ![c] = "closing"]
      /\ closed' = [closed EXCEPT ![c] = TRUE]
      /\ peer' = [peer EXCEPT ![c] = FALSE]
      /\ UNCHANGED <<pc, on, fut, routing, futures, toServer, toClient, server, rest>>
  BY DEF ListenEOF
<1>2. c \in created
  BY <1>1 DEF ListenEOF, CallerInv, ListenerOK
<1>3. /\ listener' \in [Client -> Running \cup {"none", "ended", "dead", "cancelled"}]
      /\ \A d \in Client : \/ listener'[d] = listener[d]
                           \/ listener[d] # "none" /\ listener'[d] = "closing" /\ closed'[d]
      /\ closed' \in [Client -> BOOLEAN] /\ peer' \in [Client -> BOOLEAN]
      /\ \A d \in Client : /\ closed[d] => closed'[d]
                           /\ peer'[d] => peer[d]
                           /\ closed'[d] => ~peer'[d] /\ d \in created
  BY <1>1, <1>2, Kept DEF TypeOK, Running
<1> QED BY <1>1, <1>3, Kept, LossKeeps DEF TypeOK, server, rest, Loses

LEMMA ServerStopKeeps ==
    ASSUME CallerInv, ServerStop
    PROVE  CallerInv'
<1>1. /\ up' = FALSE /\ stops' = stops + 1 /\ stops < MaxStops /\ working' = {}
      /\ peer' = [c \in Client |-> FALSE]
      /\ closed' = [c \in Client |-> closed[c] \/ (kind = "dummy" /\ peer[c])]
      /\ toServer' = [c \in Client |-> <<>>]
      /\ UNCHANGED <<pc, on, fut, routing, futures, listener, toClient, rest>>
  BY DEF ServerStop
<1>2. /\ closed' \in [Client -> BOOLEAN] /\ peer' \in [Client -> BOOLEAN]
      /\ toServer' \in [Client -> Seq(Call)]
      /\ stops' \in 0..MaxStops
      /\ \A d \in Client : /\ closed[d] => closed'[d]
                           /\ peer'[d] => peer[d]
                           /\ closed'[d] => ~peer'[d] /\ d \in created
                           /\ toServer'[d] = <<>>
  BY <1>1, Kept, ActorCallerAssumption DEF TypeOK
<1> QED BY <1>1, <1>2, Kept, LossKeeps, Zenon DEF TypeOK, rest, Loses

LEMMA ServerStartKeeps ==
    ASSUME CallerInv, ServerStart
    PROVE  CallerInv'
BY Kept, LossKeeps DEF TypeOK, ServerStart, connection, rest, Loses

LEMMA ConnectionLostKeeps ==
    ASSUME CallerInv, NEW c \in Client, ConnectionLost(c)
    PROVE  CallerInv'
<1>1. /\ c \in created /\ ~peer[c]
      /\ closed' = [closed EXCEPT ![c] = TRUE]
      /\ toClient' = [toClient EXCEPT ![c] = <<>>]
      /\ UNCHANGED <<pc, on, fut, routing, futures, listener, peer, toServer, server, rest>>
  BY DEF ConnectionLost
<1>2. /\ closed' \in [Client -> BOOLEAN]
      /\ toClient' \in [Client -> Seq(Reply)]
      /\ \A d \in Client : /\ closed[d] => closed'[d]
                           /\ closed'[d] => ~peer[d] /\ d \in created
                           /\ toClient'[d] \in {toClient[d], <<>>}
  BY <1>1, Kept DEF TypeOK
<1> QED BY <1>1, <1>2, Kept, LossKeeps DEF TypeOK, server, rest, Loses

LEMMA StopCloseKeeps ==
    ASSUME CallerInv, StopClose
    PROVE  CallerInv'
<1>1. /\ stop = "no" /\ stop' = "closing"
      /\ closed' = [c \in Client |-> closed[c] \/ c \in created]
      /\ peer' = [c \in Client |-> FALSE]
      /\ UNCHANGED <<pc, on, fut, routing, futures, listener, toServer, toClient, server, kind>>
  BY DEF StopClose
<1>2. /\ closed' \in [Client -> BOOLEAN] /\ peer' \in [Client -> BOOLEAN]
      /\ \A d \in Client : /\ closed[d] => closed'[d]
                           /\ peer'[d] => peer[d]
                           /\ closed'[d] => ~peer'[d] /\ d \in created
  BY <1>1, Kept DEF TypeOK
<1> QED BY <1>1, <1>2, Kept, LossKeeps DEF TypeOK, server, Loses

LEMMA CancelTasksKeeps ==
    ASSUME CallerInv, CancelTasks
    PROVE  CallerInv'
<1>1. /\ stop' = "stopped"
      /\ listener' = [c \in Client |-> IF listener[c] \in Running THEN "cancelled" ELSE listener[c]]
      /\ UNCHANGED <<pc, on, fut, routing, connection, futures, server, kind>>
  BY Zenon DEF CancelTasks
<1>2. /\ listener' \in [Client -> Running \cup {"none", "ended", "dead", "cancelled"}]
      /\ \A c \in Client : \/ listener'[c] = listener[c]
                           \/ listener[c] # "none" /\ listener'[c] = "cancelled"
  BY <1>1, Kept DEF TypeOK, Running
<1> QED BY <1>1, <1>2, Kept, LossKeeps DEF TypeOK, connection, server, Loses

LEMMA StutterKeeps ==
    ASSUME CallerInv, UNCHANGED vars
    PROVE  CallerInv'
<1>1. UNCHANGED <<pc, on, fut, routing, connection, futures, listener, server, rest>>
  BY DEF vars, routing, connection, server, rest
<1> QED BY <1>1, Kept, LossKeeps DEF TypeOK, connection, server, rest, Loses

-----------------------------------------------------------------------------
(* A call that is still sending is registered, or was failed because its   *)
(* client is closed, or shares the client with a cancelled call.           *)
LEMMA SendDoneKeeps ==
    ASSUME CallerInv, NEW j \in Call, SendDone(j)
    PROVE  CallerInv'
<1> DEFINE c == on[j]
<1>1. /\ pc[j] = "send" /\ ~closed[c]
      /\ pc' = [pc EXCEPT ![j] = "wait"]
      /\ toServer' = IF peer[c] THEN [toServer EXCEPT ![c] = Append(@, j)] ELSE toServer
      /\ on' = on /\ fut' = fut /\ created' = created /\ futures' = futures
      /\ lock' = lock /\ queue' = queue /\ cache' = cache /\ kind' = kind
      /\ closed' = closed /\ peer' = peer /\ toClient' = toClient /\ listener' = listener
      /\ working' = working /\ up' = up /\ stops' = stops /\ stop' = stop
  BY Zenon DEF SendDone, routing, server, rest
<1>2. TypeOK /\ CallOK(j) /\ FutureOK(j) /\ ErrorIsTrue(j) /\ c \in Client
  BY <1>1 DEF CallerInv, ErrorsAreTrue, TypeOK, CallOK
<1>3. SomeCancelled(c) \/ j \in Range(futures[c])
  <2>1. fut[j] \in {"pending", "ServerClosed", "InvalidState", "KeyError", "cancelled"}
    BY <1>1, <1>2 DEF TypeOK, FutureStates, CallOK
  <2>2. CASE fut[j] = "cancelled"
    BY <2>2 DEF SomeCancelled
  <2> QED BY <1>1, <1>2, <2>1, <2>2, Zenon DEF FutureOK, ErrorIsTrue
<1> HIDE DEF c
<1>4. /\ toServer[c] \in Seq(Call) /\ Append(toServer[c], j) \in Seq(Call)
      /\ Range(Append(toServer[c], j)) = Range(toServer[c]) \cup {j}
      /\ Distinct(toServer[c]) /\ j \notin Range(toServer[c]) => Distinct(Append(toServer[c], j))
  BY <1>2, AppendFacts DEF TypeOK
<1>5. TypeOK'
  BY <1>1, <1>2, <1>4 DEF TypeOK
<1>6. RouterOK'
  BY <1>1, Zenon DEF CallerInv, RouterOK
<1>7. \A d \in Client : SomeCancelled(d)' <=> SomeCancelled(d)
  BY <1>1 DEF SomeCancelled
<1>8. ASSUME NEW k \in Call
      PROVE  CallOK(k)' /\ FutureOK(k)' /\ ErrorIsTrue(k)'
  <2>1. CallOK(k) /\ FutureOK(k) /\ ErrorIsTrue(k)
    BY DEF CallerInv, ErrorsAreTrue
  <2>2. pc'[k] = IF k = j THEN "wait" ELSE pc[k]
    BY <1>1, <1>2 DEF TypeOK
  <2>3. CallOK(k)'
    BY <1>1, <2>1, <2>2 DEF CallOK
  <2>4. FutureOK(k)' /\ ErrorIsTrue(k)'
    BY <1>1, <2>1, Zenon DEF FutureOK, ErrorIsTrue, SomeCancelled
  <2> QED BY <2>3, <2>4
<1>9. ASSUME NEW d \in Client
      PROVE  /\ ClientOK(d)' /\ ListenerOK(d)' /\ RegisteredOK(d)'
             /\ WireOK(d)' /\ KnownOK(d)'
  <2>1. ClientOK(d) /\ ListenerOK(d) /\ RegisteredOK(d) /\ WireOK(d) /\ KnownOK(d)
    BY DEF CallerInv
  <2>2. ClientOK(d)' /\ ListenerOK(d)' /\ RegisteredOK(d)'
    BY <1>1, <1>7, <2>1, Zenon DEF ClientOK, ListenerOK, RegisteredOK
  <2>3. ~InTransit(j, d)
    BY <1>1, <2>1, Zenon DEF WireOK
  <2>4. Attentive(d)' <=> Attentive(d)
    BY <1>1, Zenon DEF Attentive
  <2>5. \A k \in Call : k # j => pc'[k] = pc[k]
    BY <1>1, <1>2 DEF TypeOK
  <2>6. CASE toServer'[d] = toServer[d]
    <3>1. \A k \in Call : InTransit(k, d)' <=> InTransit(k, d)
      BY <1>1, <2>6, Zenon DEF InTransit
    <3>2. WireOK(d)'
      BY <1>1, <2>1, <2>3, <2>5, <2>6, <3>1, Zenon DEF WireOK
    <3>3. KnownOK(d)'
      BY <1>1, <1>7, <2>1, <2>4, <3>1, Zenon DEF KnownOK
    <3> QED BY <2>2, <3>2, <3>3
  <2>7. CASE d = c /\ toServer'[d] = Append(toServer[d], j)
    <3>1. /\ Range(toServer'[d]) = Range(toServer[d]) \cup {j}
          /\ Distinct(toServer'[d]) /\ DistinctIds(toClient'[d])
          /\ \A k \in Call : InTransit(k, d)' <=> InTransit(k, d) \/ k = j
      BY <1>1, <1>4, <2>1, <2>3, <2>7, Zenon DEF InTransit, WireOK
    <3>2. on'[j] = d /\ pc'[j] = "wait"
      BY <1>1, <1>2, <2>7 DEF TypeOK, c
    <3>3. ASSUME NEW k \in Call
          PROVE  /\ InTransit(k, d)' =>
                       /\ on'[k] = d
                       /\ pc'[k] = "wait" \/ (pc'[k] = "raised" /\ fut'[k] = "cancelled")
                 /\ <<k, d>> \in working' => k \notin Range(toServer'[d])
                 /\ k \in Ids(toClient'[d]) => k \notin Range(toServer'[d]) /\ <<k, d>> \notin working'
      <4>1. CASE k = j
        BY <1>1, <2>3, <3>2, <4>1 DEF InTransit
      <4>2. CASE k # j
        BY <1>1, <2>1, <2>5, <3>1, <4>2, Zenon DEF WireOK
      <4> QED BY <4>1, <4>2, Zenon
    <3>4. WireOK(d)'
      BY <3>1, <3>3, Zenon DEF WireOK
    <3>5. KnownOK(d)'
      BY <1>1, <1>3, <1>7, <2>1, <2>4, <2>7, <3>1, Zenon DEF KnownOK
    <3> QED BY <2>2, <3>4, <3>5
  <2> QED BY <1>1, <1>2, <2>6, <2>7 DEF TypeOK
<1> QED BY <1>5, <1>6, <1>8, <1>9 DEF CallerInv, ErrorsAreTrue

(* The task that awaits a future is cancelled, and the future with it.     *)
CancelAwait(j) ==
    /\ Awaiting(j)
    /\ fut' = [fut EXCEPT ![j] = "cancelled"]
    /\ pc' = [pc EXCEPT ![j] = "raised"]
    /\ UNCHANGED <<on, routing, futures, listener, connection, server, rest>>

LEMMA CancelAwaitKeeps == ASSUME CallerInv, NEW j \in Call, CancelAwait(j) PROVE CallerInv'
<1>1. /\ pc[j] = "wait" /\ fut[j] = "pending"
      /\ on' = on /\ created' = created /\ futures' = futures
      /\ lock' = lock /\ queue' = queue /\ cache' = cache /\ kind' = kind
      /\ closed' = closed /\ peer' = peer /\ toClient' = toClient /\ listener' = listener
      /\ toServer' = toServer
      /\ working' = working /\ up' = up /\ stops' = stops /\ stop' = stop
  BY DEF Awaiting, routing, connection, server, rest, CancelAwait
<1>2. TypeOK
  BY DEF CallerInv
<1>3. /\ \A k \in Call : fut'[k] = IF k = j THEN "cancelled" ELSE fut[k]
      /\ \A k \in Call : pc'[k] = IF k = j THEN "raised" ELSE pc[k]
  BY <1>2 DEF TypeOK, CancelAwait
<1>4. TypeOK'
  BY <1>1, <1>2 DEF TypeOK, FutureStates, CancelAwait
<1>5. RouterOK'
  BY <1>1, Zenon DEF CallerInv, RouterOK
<1>6. \A d \in Client : SomeCancelled(d) => SomeCancelled(d)'
  BY <1>1, <1>3, Zenon DEF SomeCancelled
<1>7. ASSUME NEW k \in Call
      PROVE  CallOK(k)' /\ FutureOK(k)' /\ ErrorIsTrue(k)'
  <2>1. CallOK(k) /\ FutureOK(k) /\ ErrorIsTrue(k) /\ on[k] \in Client \cup {None}
    BY <1>2, Zenon DEF CallerInv, ErrorsAreTrue, TypeOK
  <2>2. CallOK(k)'
    BY <1>1, <1>3, <2>1, Zenon DEF CallOK
  <2>3. FutureOK(k)' /\ ErrorIsTrue(k)'
    <3>1. fut[k] # "none" => on[k] \in Client
      BY <2>1, Zenon DEF CallOK
    <3>2. SomeCancelled(on[k])' <=> \E i \in Call : on'[i] = on'[k] /\ fut'[i] = "cancelled"
      BY DEF SomeCancelled
    <3>3. on[k] \in Client /\ SomeCancelled(on[k]) => SomeCancelled(on[k])'
      BY <1>1, <1>3, Zenon DEF SomeCancelled
    <3> QED BY <1>1, <1>3, <2>1, <3>1, <3>3, Zenon DEF FutureOK, ErrorIsTrue
  <2> QED BY <2>2, <2>3
<1>8. ASSUME NEW d \in Client
      PROVE  /\ ClientOK(d)' /\ ListenerOK(d)' /\ RegisteredOK(d)'
             /\ WireOK(d)' /\ KnownOK(d)'
  <2>1. ClientOK(d) /\ ListenerOK(d) /\ RegisteredOK(d) /\ WireOK(d) /\ KnownOK(d)
    BY DEF CallerInv
  <2>2. ClientOK(d)' /\ ListenerOK(d)'
    BY <1>1, <1>6, <2>1, Zenon DEF ClientOK, ListenerOK
  <2>3. RegisteredOK(d)'
    <3>1. Range(futures[d]) \subseteq Call
      BY <1>2 DEF TypeOK, Range, CancelAwait
    <3> QED BY <1>1, <1>3, <2>1, <3>1, Zenon DEF RegisteredOK
  <2>4. \A k \in Call : InTransit(k, d)' <=> InTransit(k, d)
    BY <1>1 DEF InTransit
  <2>5. WireOK(d)'
    BY <1>1, <1>3, <2>1, <2>4, Zenon DEF WireOK
  <2>6. KnownOK(d)'
    BY <1>1, <1>6, <2>1, <2>4, Zenon DEF KnownOK, Attentive
  <2> QED BY <2>2, <2>3, <2>5, <2>6
<1> QED BY <1>4, <1>5, <1>7, <1>8 DEF CallerInv, ErrorsAreTrue

LEMMA CancelKeeps ==
    ASSUME CallerInv, NEW j \in Call, Cancel(j)
    PROVE  CallerInv'
<1>1. /\ pc' = [pc EXCEPT ![j] = "raised"]
      /\ UNCHANGED <<on, cache, created, futures, listener, connection, server, rest>>
  BY DEF Cancel
<1>2. TypeOK /\ RouterOK /\ CallOK(j)
  BY DEF CallerInv
<1>3. CASE pc[j] = "lock" /\ queue' = Without(queue, j) /\ UNCHANGED <<lock, fut>>
  <2>1. queue' \in Seq(Call) /\ Distinct(queue') /\ Range(queue') = Range(queue) \ {j}
    BY <1>2, <1>3, WithoutFacts DEF TypeOK, RouterOK
  <2>2. on[j] = None /\ lock # j /\ lock' \in Call \cup {None} /\ (lock' # None => cache' = None)
    BY <1>1, <1>2, <1>3 DEF CallOK, TypeOK, RouterOK
  <2> QED BY <1>1, <1>3, <2>1, <2>2, RouterStepKeeps, Zenon DEF AtRouter
<1>4. CASE pc[j] = "connect" /\ lock' = None /\ UNCHANGED <<queue, fut>>
  <2>1. /\ on[j] = None /\ lock = j /\ j \notin Range(queue)
        /\ queue' \in Seq(Call) /\ Distinct(queue')
        /\ \A k \in Call : lock' # k /\ (k # j => lock # k)
    BY <1>2, <1>4, ActorCallerAssumption DEF CallOK, TypeOK, RouterOK
  <2>2. /\ \A k \in Call : lock' = k <=> IF k = j THEN "raised" = "connect" ELSE lock = k
        /\ \A k \in Call : k \in Range(queue') <=> IF k = j THEN "raised" = "lock" ELSE k \in Range(queue)
    BY <1>4, <2>1, Zenon
  <2>3. lock' \in Call \cup {None} /\ (lock' # None => cache' = None) /\ cache' = cache
    BY <1>1, <1>4
  <2> QED BY <1>1, <1>4, <2>1, <2>2, <2>3, RouterStepKeeps, Zenon DEF AtRouter
<1>5. CASE pc[j] = "send" /\ UNCHANGED <<lock, queue, fut>>
  <2>1. /\ pc' \in [Call -> {"idle", "lock", "connect", "send", "wait", "raised"}]
        /\ \A k \in Call : pc'[k] = pc[k] \/ (pc[k] = "send" /\ pc'[k] = "raised")
    BY <1>1, <1>2, <1>5 DEF TypeOK
  <2> QED BY <1>1, <1>2, <1>5, <2>1, Kept, LossKeeps, Zenon DEF TypeOK, routing, connection, server, rest, Loses
<1>6. CASE Awaiting(j) /\ fut' = [fut EXCEPT ![j] = "cancelled"] /\ UNCHANGED <<lock, queue>>
  BY <1>1, <1>6, CancelAwaitKeeps, Zenon DEF routing, CancelAwait
<1> QED BY <1>3, <1>4, <1>5, <1>6 DEF Cancel

-----------------------------------------------------------------------------
(* The registered futures of a client fail: because it is closed, or       *)
(* because a cancelled call broke the bookkeeping.                         *)
FailsAll(c, p, e, next) ==
    /\ FailAll(c, p, e, next)
    /\ listener[c] # "none"
    /\ \/ e = "ServerClosed" /\ closed[c] /\ p = futures[c] /\ next \in {"ended", "check"}
       \/ e \in {"KeyError", "InvalidState"} /\ SomeCancelled(c) /\ next = "check"
    /\ toClient' \in [Client -> Seq(Reply)]
    /\ \A d \in Client : Ids(toClient'[d]) \subseteq Ids(toClient[d]) /\ DistinctIds(toClient'[d])
    /\ UNCHANGED <<pc, on, routing, closed, peer, toServer, server, rest>>

LEMMA FailAllKeeps ==
    ASSUME CallerInv, NEW c \in Client, NEW p \in Seq(Call), Range(p) \subseteq Range(futures[c]),
           NEW e, NEW next, FailsAll(c, p, e, next)
    PROVE  CallerInv'
<1>1. /\ pc' = pc /\ on' = on /\ created' = created
      /\ lock' = lock /\ queue' = queue /\ cache' = cache /\ kind' = kind
      /\ closed' = closed /\ peer' = peer /\ toServer' = toServer
      /\ working' = working /\ up' = up /\ stops' = stops /\ stop' = stop
  BY DEF routing, server, rest, FailsAll
<1>2. TypeOK /\ RegisteredOK(c) /\ ClientOK(c) /\ Range(p) \subseteq Call
  BY DEF CallerInv, Range
<1>3. /\ futures' = [futures EXCEPT ![c] = <<>>]
      /\ \A j \in Call : \/ fut'[j] = fut[j]
                         \/ j \in Range(p) /\ fut[j] = "pending" /\ fut'[j] = e
      /\ fut' = [j \in Call |-> fut'[j]]
      /\ \/ listener' = [listener EXCEPT ![c] = next] /\ \A j \in Range(p) : fut'[j] = e
         \/ /\ listener' = [listener EXCEPT ![c] = "dead"]
            /\ \E k \in Range(p) : fut[k] = "cancelled"
  <2>1. \A j \in Range(p) : fut[j] \in {"pending", "cancelled"}
    BY <1>2 DEF RegisteredOK
  <2> QED BY <1>2, <2>1, FailAllFacts DEF FailsAll
<1>4. e \in FutureStates \ {"none", "pending", "result", "error", "cancelled"}
  BY DEF FutureStates, FailsAll
<1>5. TypeOK'
  <2>1. fut' \in [Call -> FutureStates]
    <3>1. \A j \in Call : fut[j] \in FutureStates
      BY <1>2 DEF TypeOK
    <3>2. \A j \in Call : fut'[j] \in FutureStates
      BY <1>3, <1>4, <3>1
    <3> DEFINE g == fut'
    <3> HIDE DEF g
    <3>3. g = [j \in Call |-> g[j]] /\ \A j \in Call : g[j] \in FutureStates
      BY <1>3, <3>2 DEF g
    <3>4. g \in [Call -> FutureStates]
      BY <3>3
    <3> QED BY <3>4 DEF g
  <2>2. futures' \in [Client -> Seq(Call)]
    BY <1>2, <1>3 DEF TypeOK
  <2>3. listener' \in [Client -> Running \cup {"none", "ended", "dead", "cancelled"}]
    BY <1>2, <1>3, Zenon DEF TypeOK, Running, FailsAll
  <2> QED BY <1>1, <1>2, <2>1, <2>2, <2>3, Zenon DEF TypeOK, FailsAll
<1>6. RouterOK'
  BY <1>1 DEF CallerInv, RouterOK
<1>7. \A j \in Call : fut[j] = "cancelled" <=> fut'[j] = "cancelled"
  BY <1>3, <1>4
<1>8. \A d \in Client : SomeCancelled(d) <=> SomeCancelled(d)'
  BY <1>1, <1>7, Zenon DEF SomeCancelled
<1>9. (\E k \in Range(p) : fut[k] = "cancelled") => SomeCancelled(c)
  BY <1>2 DEF RegisteredOK, SomeCancelled
<1>10. \A d \in Client : /\ d # c => futures'[d] = futures[d] /\ listener'[d] = listener[d]
                         /\ futures'[c] = <<>>
                         /\ listener'[c] = next \/ (listener'[c] = "dead" /\ SomeCancelled(c))
  BY <1>2, <1>3, <1>9 DEF TypeOK
<1>11. ASSUME NEW k \in Call
       PROVE  CallOK(k)' /\ FutureOK(k)' /\ ErrorIsTrue(k)'
  <2>1. CallOK(k) /\ FutureOK(k) /\ ErrorIsTrue(k) /\ on[k] \in Client \cup {None}
    BY <1>2, Zenon DEF CallerInv, ErrorsAreTrue, TypeOK
  <2>2. \/ fut'[k] = fut[k]
        \/ fut[k] = "pending" /\ fut'[k] = e /\ k \in Range(p) /\ on[k] = c
    BY <1>2, <1>3 DEF RegisteredOK
  <2>3. CallOK(k)'
    BY <1>1, <1>4, <2>1, <2>2, Zenon DEF CallOK
  <2>4. fut[k] # "none" => on[k] \in Client
    BY <2>1, Zenon DEF CallOK
  <2>5. on[k] \in Client => (SomeCancelled(on[k])' <=> SomeCancelled(on[k]))
    BY <1>1, <1>7 DEF SomeCancelled
  <2>6. FutureOK(k)'
    <3> SUFFICES ASSUME fut'[k] = "pending"
                 PROVE  SomeCancelled(on[k])' \/ k \in Range(futures'[on'[k]])
      BY DEF FutureOK
    <3>1. fut[k] = "pending" /\ on[k] \in Client /\ (SomeCancelled(on[k]) \/ k \in Range(futures[on[k]]))
      BY <1>4, <2>1, <2>2, <2>4 DEF FutureOK
    <3>2. CASE on[k] # c
      BY <1>1, <1>10, <2>5, <3>1, <3>2, Zenon
    <3>3. CASE on[k] = c
      <4>1. SomeCancelled(c)
        BY <1>3, <1>4, <1>9, <3>1, <3>3 DEF FailsAll
      <4> QED BY <2>5, <3>1, <3>3, <4>1, Zenon
    <3> QED BY <3>2, <3>3, Zenon
  <2>7. ErrorIsTrue(k)'
    <3>1. CASE fut'[k] = fut[k]
      BY <1>1, <2>1, <2>4, <2>5, <3>1, Zenon DEF ErrorIsTrue
    <3>2. CASE fut'[k] = e /\ on[k] = c
      BY <1>1, <1>2, <2>5, <3>2, Zenon DEF ErrorIsTrue, ClientOK, FailsAll
    <3> QED BY <2>2, <3>1, <3>2
  <2> QED BY <2>3, <2>6, <2>7
<1>12. ASSUME NEW d \in Client
       PROVE  /\ ClientOK(d)' /\ ListenerOK(d)' /\ RegisteredOK(d)'
              /\ WireOK(d)' /\ KnownOK(d)'
  <2>1. ClientOK(d) /\ ListenerOK(d) /\ RegisteredOK(d) /\ WireOK(d) /\ KnownOK(d)
    BY DEF CallerInv
  <2>2. ClientOK(d)'
    BY <1>1, <2>1, Zenon DEF ClientOK
  <2>3. ListenerOK(d)'
    BY <1>1, <1>8, <1>10, <2>1, Zenon DEF ListenerOK, FailsAll
  <2>4. RegisteredOK(d)'
    <3>1. CASE d = c
      BY <1>10, <3>1, EmptyQueue, EmptyIds DEF RegisteredOK
    <3>2. CASE d # c
      <4>1. Range(futures[d]) \subseteq Call /\ futures'[d] = futures[d]
        <5>1. futures[d] \in Seq(Call) /\ futures'[d] = futures[d]
          BY <1>2, <1>10, <3>2, Zenon DEF TypeOK
        <5> QED BY <5>1 DEF Range
      <4>2. \A k \in Range(futures[d]) : k \notin Range(p)
        BY <1>2, <2>1, <3>2, Zenon DEF RegisteredOK, FailsAll
      <4> QED BY <1>1, <1>3, <2>1, <4>1, <4>2 DEF RegisteredOK
    <3> QED BY <3>1, <3>2
  <2>5. \A k \in Call : InTransit(k, d)' => InTransit(k, d)
    BY <1>1, Zenon DEF InTransit, FailsAll
  <2>6. WireOK(d)'
    <3>1. ASSUME NEW k \in Call, InTransit(k, d)'
          PROVE  on'[k] = d /\ (pc'[k] = "wait" \/ (pc'[k] = "raised" /\ fut'[k] = "cancelled"))
      BY <1>1, <1>7, <2>1, <2>5, <3>1, Zenon DEF WireOK
    <3> QED BY <1>1, <2>1, <3>1, Zenon DEF WireOK, FailsAll
  <2>7. KnownOK(d)'
    <3>1. CASE d = c
      BY <1>1, <1>8, <1>10, <3>1, Zenon DEF KnownOK, Attentive, FailsAll
    <3>2. CASE d # c
      BY <1>1, <1>8, <1>10, <2>1, <2>5, <3>2, Zenon DEF KnownOK, Attentive
    <3> QED BY <3>1, <3>2
  <2> QED BY <2>2, <2>3, <2>4, <2>6, <2>7
<1> QED BY <1>5, <1>6, <1>11, <1>12 DEF CallerInv, ErrorsAreTrue

LEMMA ListenCheckKeeps ==
    ASSUME CallerInv, NEW c \in Client, ListenCheck(c)
    PROVE  CallerInv'
<1>1. TypeOK /\ WireOK(c) /\ \A d \in Client : WireOK(d)
  BY DEF CallerInv
<1>2. CASE closed[c]
  <2>1. /\ FailAll(c, futures[c], "ServerClosed", "ended") /\ listener[c] # "none"
        /\ UNCHANGED <<pc, on, routing, connection, server, rest>>
    BY <1>2, Zenon DEF ListenCheck
  <2>2. futures[c] \in Seq(Call) /\ toClient' = toClient
    BY <1>1, <2>1 DEF TypeOK, connection
  <2>3. toClient' \in [Client -> Seq(Reply)] /\ \A d \in Client : DistinctIds(toClient'[d])
    BY <1>1, <2>2 DEF TypeOK, WireOK
  <2> QED BY <1>2, <2>1, <2>2, <2>3, FailAllKeeps, Zenon DEF connection, FailsAll
<1>3. CASE ~closed[c]
  <2>1. /\ listener[c] = "check" /\ listener' = [listener EXCEPT ![c] = "recv"]
        /\ UNCHANGED <<pc, on, fut, futures, routing, connection, server, rest>>
    BY <1>3, Zenon DEF ListenCheck
  <2>2. /\ listener' \in [Client -> Running \cup {"none", "ended", "dead", "cancelled"}]
        /\ \A d \in Client : \/ listener'[d] = listener[d]
                             \/ listener[d] = "check" /\ ~closed[d] /\ listener'[d] = "recv"
    BY <1>1, <1>3, <2>1 DEF TypeOK, Running
  <2> QED BY <2>1, <2>2, Kept, LossKeeps, Zenon DEF TypeOK, connection, server, rest, Loses
<1> QED BY <1>2, <1>3

LEMMA ListenClosedKeeps ==
    ASSUME CallerInv, NEW c \in Client, ListenClosed(c)
    PROVE  CallerInv'
<1>1. TypeOK /\ closed[c] /\ \A d \in Client : WireOK(d)
  BY Zenon DEF CallerInv, ListenClosed, ListenerOK
<1>2. /\ FailAll(c, futures[c], "ServerClosed", "check") /\ listener[c] # "none"
      /\ UNCHANGED <<pc, on, routing, connection, server, rest>>
  BY DEF ListenClosed
<1>3. futures[c] \in Seq(Call) /\ toClient' = toClient
  BY <1>1, <1>2 DEF TypeOK, connection
<1>4. toClient' \in [Client -> Seq(Reply)] /\ \A d \in Client : DistinctIds(toClient'[d])
  BY <1>1, <1>3 DEF TypeOK, WireOK
<1> QED BY <1>1, <1>2, <1>3, <1>4, FailAllKeeps, Zenon DEF connection, FailsAll

(* The reply of j settles its future, or kills the listener of a client    *)
(* with a cancelled call.                                                  *)
Popped(c, j) ==
    /\ listener[c] = "recv" /\ toClient[c] # <<>> /\ j = Head(toClient[c]).id
    /\ toClient' = [toClient EXCEPT ![c] = Tail(@)]
    /\ futures' = [futures EXCEPT ![c] = Others(c, j)]
    /\ \/ /\ listener' = [listener EXCEPT ![c] = "check"]
          /\ fut[j] = "pending" /\ j \in Range(futures[c])
          /\ \E state \in {"result", "error"} : fut' = [fut EXCEPT ![j] = state]
       \/ /\ listener' = [listener EXCEPT ![c] = "dead"]
          /\ ~(j \in Range(futures[c]) /\ fut[j] = "pending") /\ fut' = fut
    /\ UNCHANGED <<pc, on, routing, closed, peer, toServer, server, rest>>

LEMMA PoppedKeeps == ASSUME CallerInv, NEW c \in Client, NEW j, Popped(c, j) PROVE CallerInv'
<1>1. /\ pc' = pc /\ on' = on /\ created' = created
      /\ lock' = lock /\ queue' = queue /\ cache' = cache /\ kind' = kind
      /\ closed' = closed /\ peer' = peer /\ toServer' = toServer
      /\ working' = working /\ up' = up /\ stops' = stops /\ stop' = stop
  BY DEF routing, server, rest, Popped
<1>2. /\ toClient' \in [Client -> Seq(Reply)]
      /\ j \in Call /\ j \in Ids(toClient[c]) /\ j \notin Ids(toClient'[c])
      /\ \A d \in Client : Ids(toClient'[d]) \subseteq Ids(toClient[d]) /\ DistinctIds(toClient'[d])
  BY TakenReply, Zenon DEF Popped
<1>3. TypeOK /\ RegisteredOK(c) /\ WireOK(c) /\ InTransit(j, c)
  BY <1>2, Zenon DEF CallerInv, InTransit
<1>4. on[j] = c /\ (pc[j] = "wait" \/ fut[j] = "cancelled")
  BY <1>2, <1>3, Zenon DEF WireOK
<1>5. /\ Others(c, j) \in Seq(Call) /\ Distinct(Others(c, j))
      /\ Range(Others(c, j)) = Range(futures[c]) \ {j}
  BY <1>3, WithoutFacts DEF TypeOK, RegisteredOK, Others
<1>6. \/ listener'[c] = "check" /\ fut[j] = "pending" /\ fut'[j] \in {"result", "error"} /\ pc[j] = "wait"
      \/ listener'[c] = "dead" /\ SomeCancelled(c) /\ fut'[j] = fut[j] /\ fut[j] # "pending"
      \/ listener'[c] = "dead" /\ SomeCancelled(c) /\ fut'[j] = fut[j] /\ j \notin Range(futures[c])
  BY <1>2, <1>3, <1>4, UnsettledReply, Zenon DEF TypeOK, Popped
<1>7. \A k \in Call : k # j => fut'[k] = fut[k]
  BY <1>3 DEF TypeOK, Popped
<1>8. \A d \in Client : /\ d # c => futures'[d] = futures[d] /\ listener'[d] = listener[d]
                        /\ futures'[c] = Others(c, j)
  BY <1>3 DEF TypeOK, Popped
<1>9. TypeOK'
  <2>0. fut' = fut \/ \E state \in {"result", "error"} : fut' = [fut EXCEPT ![j] = state]
    BY DEF Popped
  <2>1. fut' \in [Call -> FutureStates]
    BY <1>2, <1>3, <2>0, Zenon DEF TypeOK, FutureStates
  <2>2. futures' \in [Client -> Seq(Call)]
    BY <1>3, <1>5 DEF TypeOK, Popped
  <2>3. listener' \in [Client -> Running \cup {"none", "ended", "dead", "cancelled"}]
    BY <1>3, Zenon DEF TypeOK, Running, Popped
  <2> QED BY <1>1, <1>2, <1>3, <2>1, <2>2, <2>3 DEF TypeOK
<1>10. RouterOK'
  BY <1>1 DEF CallerInv, RouterOK
<1>11. \A k \in Call : fut[k] = "cancelled" <=> fut'[k] = "cancelled"
  BY <1>6, <1>7, Zenon
<1>12. \A d \in Client : SomeCancelled(d) <=> SomeCancelled(d)'
  BY <1>1, <1>11, Zenon DEF SomeCancelled
<1>13. ASSUME NEW k \in Call
       PROVE  CallOK(k)' /\ FutureOK(k)' /\ ErrorIsTrue(k)'
  <2>1. CallOK(k) /\ FutureOK(k) /\ ErrorIsTrue(k) /\ on[k] \in Client \cup {None}
    BY <1>3, Zenon DEF CallerInv, ErrorsAreTrue, TypeOK
  <2>2. CallOK(k)'
    <3>1. CASE k = j
      BY <1>1, <1>6, <2>1, <3>1, Zenon DEF CallOK
    <3>2. CASE k # j
      BY <1>1, <1>7, <2>1, <3>2, Zenon DEF CallOK
    <3> QED BY <3>1, <3>2
  <2>3. fut[k] # "none" => on[k] \in Client
    BY <2>1, Zenon DEF CallOK
  <2>4. on[k] \in Client => (SomeCancelled(on[k])' <=> SomeCancelled(on[k]))
    BY <1>1, <1>11, Zenon DEF SomeCancelled
  <2>5. FutureOK(k)'
    <3> SUFFICES ASSUME fut'[k] = "pending"
                 PROVE  SomeCancelled(on[k])' \/ k \in Range(futures'[on'[k]])
      BY Zenon DEF FutureOK
    <3>1. fut[k] = "pending" /\ on[k] \in Client /\ (SomeCancelled(on[k]) \/ k \in Range(futures[on[k]]))
      BY <1>6, <1>7, <2>1, <2>3, Zenon DEF FutureOK
    <3>2. CASE on[k] # c
      BY <1>1, <1>8, <2>4, <3>1, <3>2, Zenon
    <3>3. CASE on[k] = c /\ k # j
      BY <1>1, <1>5, <1>8, <2>4, <3>1, <3>3, Zenon
    <3>4. CASE k = j
      BY <1>4, <1>6, <2>4, <3>1, <3>4, Zenon
    <3> QED BY <3>2, <3>3, <3>4, Zenon
  <2>6. ErrorIsTrue(k)'
    <3>1. CASE k = j
      BY <1>1, <1>6, <2>1, <2>3, <2>4, <3>1, Zenon DEF ErrorIsTrue
    <3>2. CASE k # j
      BY <1>1, <1>7, <2>1, <2>3, <2>4, <3>2, Zenon DEF ErrorIsTrue
    <3> QED BY <3>1, <3>2
  <2> QED BY <2>2, <2>5, <2>6
<1>14. ASSUME NEW d \in Client
       PROVE  /\ ClientOK(d)' /\ ListenerOK(d)' /\ RegisteredOK(d)'
              /\ WireOK(d)' /\ KnownOK(d)'
  <2>1. ClientOK(d) /\ ListenerOK(d) /\ RegisteredOK(d) /\ WireOK(d) /\ KnownOK(d)
    BY DEF CallerInv
  <2>2. ClientOK(d)'
    BY <1>1, <2>1, Zenon DEF ClientOK
  <2>3. ListenerOK(d)'
    BY <1>1, <1>6, <1>8, <1>12, <2>1, Zenon DEF ListenerOK, Popped
  <2>4. RegisteredOK(d)'
    <3>1. Range(futures[d]) \subseteq Call
      <4>1. futures[d] \in Seq(Call)
        BY <1>3 DEF TypeOK
      <4> QED BY <4>1 DEF Range
    <3>2. CASE d = c
      BY <1>1, <1>5, <1>7, <1>8, <2>1, <3>1, <3>2, Zenon DEF RegisteredOK
    <3>3. CASE d # c
      <4>1. j \notin Range(futures[d])
        BY <1>4, <2>1, <3>3, Zenon DEF RegisteredOK
      <4> QED BY <1>1, <1>7, <1>8, <2>1, <3>1, <3>3, <4>1, Zenon DEF RegisteredOK
    <3> QED BY <3>2, <3>3
  <2>5. \A k \in Call : InTransit(k, d)' => InTransit(k, d)
    BY <1>1, <1>2, Zenon DEF InTransit
  <2>6. WireOK(d)'
    <3>1. ASSUME NEW k \in Call, InTransit(k, d)'
          PROVE  on'[k] = d /\ (pc'[k] = "wait" \/ (pc'[k] = "raised" /\ fut'[k] = "cancelled"))
      BY <1>1, <1>11, <2>1, <2>5, <3>1, Zenon DEF WireOK
    <3> QED BY <1>1, <1>2, <2>1, <3>1, Zenon DEF WireOK
  <2>7. KnownOK(d)'
    <3>1. CASE d = c
      <4>1. ~InTransit(j, c)'
        BY <1>1, <1>2, <1>3, Zenon DEF InTransit, WireOK
      <4> QED BY <1>5, <1>6, <1>8, <1>12, <2>1, <2>5, <3>1, <4>1, Zenon DEF KnownOK, Attentive, Popped
    <3>2. CASE d # c
      BY <1>1, <1>8, <1>12, <2>1, <2>5, <3>2, Zenon DEF KnownOK, Attentive
    <3> QED BY <3>1, <3>2
  <2> QED BY <2>2, <2>3, <2>4, <2>6, <2>7
<1> QED BY <1>9, <1>10, <1>13, <1>14 DEF CallerInv, ErrorsAreTrue

LEMMA ListenReplyKeeps ==
    ASSUME CallerInv, NEW c \in Client, ListenReply(c)
    PROVE  CallerInv'
<1> DEFINE m == Head(toClient[c])
           known == m.id \in Range(futures[c])
           settles == known /\ fut[m.id] = "pending"
<1>1. /\ listener[c] = "recv" /\ toClient[c] # <<>>
      /\ toClient' = [toClient EXCEPT ![c] = Tail(@)]
      /\ UNCHANGED <<pc, on, routing, closed, peer, toServer, server, rest>>
      /\ \/ settles /\ Settle(c, m.id, IF m.good THEN "result" ELSE "error")
         \/ /\ ~settles /\ m.good
            /\ FailAll(c, Others(c, m.id), IF known THEN "InvalidState" ELSE "KeyError", "check")
         \/ /\ ~settles /\ ~m.good
            /\ listener' = [listener EXCEPT ![c] = "dead"]
            /\ futures' = [futures EXCEPT ![c] = Others(c, m.id)]
            /\ UNCHANGED fut
  BY Zenon DEF ListenReply
<1>2. /\ toClient' \in [Client -> Seq(Reply)]
      /\ m.id \in Call
      /\ \A d \in Client : Ids(toClient'[d]) \subseteq Ids(toClient[d]) /\ DistinctIds(toClient'[d])
  BY <1>1, TakenReply, Zenon
<1>3. Others(c, m.id) \in Seq(Call) /\ Range(Others(c, m.id)) \subseteq Range(futures[c])
  <2>1. futures[c] \in Seq(Call)
    BY DEF CallerInv, TypeOK
  <2> QED BY <2>1, WithoutFacts, Zenon DEF Others
<1>4. CASE settles /\ Settle(c, m.id, IF m.good THEN "result" ELSE "error")
  BY <1>1, <1>4, PoppedKeeps, Zenon DEF Settle, Popped
<1>5. CASE /\ ~settles
           /\ FailAll(c, Others(c, m.id), IF known THEN "InvalidState" ELSE "KeyError", "check")
  <2>1. SomeCancelled(c)
    BY <1>1, <1>5, UnsettledReply, Zenon
  <2> DEFINE e == IF known THEN "InvalidState" ELSE "KeyError"
  <2>2. e \in {"KeyError", "InvalidState"} /\ listener[c] # "none"
    BY <1>1, Zenon
  <2>3. FailAll(c, Others(c, m.id), e, "check")
    BY <1>5, Zenon
  <2> HIDE DEF e, m
  <2> QED BY <1>1, <1>2, <1>3, <2>1, <2>2, <2>3, FailAllKeeps, Zenon DEF FailsAll
<1>6. CASE /\ ~settles
           /\ listener' = [listener EXCEPT ![c] = "dead"]
           /\ futures' = [futures EXCEPT ![c] = Others(c, m.id)]
           /\ UNCHANGED fut
  BY <1>1, <1>6, PoppedKeeps, Zenon DEF Popped
<1> QED BY <1>1, <1>4, <1>5, <1>6, Zenon

-----------------------------------------------------------------------------
(* A request moves on at the serving pool: what is under way stays under   *)
(* way, in one place, or is lost.                                          *)
MovesOn(c) ==
    /\ toServer' \in [Client -> Seq(Call)] /\ toClient' \in [Client -> Seq(Reply)]
    /\ working' \subseteq Call \X Client
    /\ \A d \in Client : d # c =>
          /\ toServer'[d] = toServer[d] /\ toClient'[d] = toClient[d]
          /\ \A k \in Call : <<k, d>> \in working' <=> <<k, d>> \in working
    /\ Distinct(toServer'[c]) /\ DistinctIds(toClient'[c])
    /\ \A k \in Call :
          /\ InTransit(k, c)' => InTransit(k, c)
          /\ <<k, c>> \in working' => k \notin Range(toServer'[c])
          /\ k \in Ids(toClient'[c]) => k \notin Range(toServer'[c]) /\ <<k, c>> \notin working'
    /\ UNCHANGED <<pc, on, fut, routing, closed, futures, listener, peer, up, stops, rest>>

LEMMA MovedKeeps == ASSUME CallerInv, NEW c \in Client, MovesOn(c) PROVE CallerInv'
<1>1. /\ pc' = pc /\ on' = on /\ fut' = fut /\ created' = created /\ futures' = futures
      /\ lock' = lock /\ queue' = queue /\ cache' = cache /\ kind' = kind
      /\ closed' = closed /\ peer' = peer /\ listener' = listener
      /\ up' = up /\ stops' = stops /\ stop' = stop
  BY Zenon DEF routing, rest, MovesOn
<1>2. TypeOK'
  BY <1>1, Zenon DEF CallerInv, TypeOK, MovesOn
<1>3. RouterOK'
  BY <1>1 DEF CallerInv, RouterOK
<1>4. \A d \in Client : SomeCancelled(d)' <=> SomeCancelled(d)
  BY <1>1, Zenon DEF SomeCancelled
<1>5. ASSUME NEW k \in Call
      PROVE  CallOK(k)' /\ FutureOK(k)' /\ ErrorIsTrue(k)'
  <2>1. CallOK(k) /\ FutureOK(k) /\ ErrorIsTrue(k)
    BY DEF CallerInv, ErrorsAreTrue
  <2>2. CallOK(k)'
    BY <1>1, <2>1 DEF CallOK
  <2>3. FutureOK(k)'
    BY <1>1, <2>1, Zenon DEF FutureOK, SomeCancelled
  <2>4. ErrorIsTrue(k)'
    BY <1>1, <2>1, Zenon DEF ErrorIsTrue, SomeCancelled
  <2> QED BY <2>2, <2>3, <2>4
<1>6. ASSUME NEW d \in Client
      PROVE  /\ ClientOK(d)' /\ ListenerOK(d)' /\ RegisteredOK(d)'
             /\ WireOK(d)' /\ KnownOK(d)'
  <2>1. ClientOK(d) /\ ListenerOK(d) /\ RegisteredOK(d) /\ WireOK(d) /\ KnownOK(d)
    BY DEF CallerInv
  <2>2. ClientOK(d)' /\ RegisteredOK(d)'
    BY <1>1, <2>1, Zenon DEF ClientOK, RegisteredOK
  <2>3. ListenerOK(d)'
    BY <1>1, <1>4, <2>1, Zenon DEF ListenerOK
  <2>4. \A k \in Call : InTransit(k, d)' => InTransit(k, d)
    BY Zenon DEF InTransit, MovesOn
  <2>5. WireOK(d)'
    <3>1. CASE d = c
      BY <1>1, <2>1, <2>4, <3>1, Zenon DEF WireOK, MovesOn
    <3>2. CASE d # c
      BY <1>1, <2>1, <2>4, <3>2, Zenon DEF WireOK, MovesOn
    <3> QED BY <3>1, <3>2
  <2>6. KnownOK(d)'
    BY <1>1, <1>4, <2>1, <2>4, Zenon DEF KnownOK, Attentive
  <2> QED BY <2>2, <2>3, <2>5, <2>6
<1> QED BY <1>2, <1>3, <1>5, <1>6 DEF CallerInv, ErrorsAreTrue

LEMMA ServerReceiveKeeps ==
    ASSUME CallerInv, NEW c \in Client, ServerReceive(c)
    PROVE  CallerInv'
<1> DEFINE j == Head(toServer[c])
<1>1. /\ toServer[c] # <<>>
      /\ working' = working \cup {<<j, c>>}
      /\ toServer' = [toServer EXCEPT ![c] = Tail(@)]
      /\ toClient' = toClient
      /\ UNCHANGED <<pc, on, fut, routing, closed, futures, listener, peer, up, stops, rest>>
  BY DEF ServerReceive
<1>2. TypeOK /\ WireOK(c)
  BY DEF CallerInv
<1>3. /\ j \in Call /\ Tail(toServer[c]) \in Seq(Call)
      /\ Range(toServer[c]) = Range(Tail(toServer[c])) \cup {j}
      /\ Distinct(Tail(toServer[c])) /\ j \notin Range(Tail(toServer[c]))
  BY <1>1, <1>2, TailFacts DEF TypeOK, WireOK
<1> HIDE DEF j
<1>4. /\ toServer' \in [Client -> Seq(Call)]
      /\ toServer'[c] = Tail(toServer[c])
      /\ working' \subseteq Call \X Client
      /\ \A d \in Client : d # c => toServer'[d] = toServer[d]
  BY <1>1, <1>2, <1>3 DEF TypeOK
<1>5. \A k \in Call, d \in Client : <<k, d>> \in working' <=> <<k, d>> \in working \/ (k = j /\ d = c)
  BY <1>1
<1>6. j \notin Ids(toClient[c]) /\ j \in Range(toServer[c])
  BY <1>2, <1>3, Zenon DEF WireOK
<1>7. ASSUME NEW k \in Call
      PROVE  /\ InTransit(k, c)' => InTransit(k, c)
             /\ <<k, c>> \in working' => k \notin Range(toServer'[c])
             /\ k \in Ids(toClient'[c]) => k \notin Range(toServer'[c]) /\ <<k, c>> \notin working'
  BY <1>1, <1>2, <1>3, <1>4, <1>5, <1>6, Zenon DEF InTransit, WireOK
<1>8. toClient' \in [Client -> Seq(Reply)] /\ DistinctIds(toClient'[c]) /\ Distinct(toServer'[c])
  BY <1>1, <1>2, <1>3, <1>4 DEF TypeOK, WireOK
<1> QED BY <1>1, <1>4, <1>5, <1>7, <1>8, MovedKeeps, Zenon DEF MovesOn

LEMMA ServerReplyKeeps ==
    ASSUME CallerInv, NEW j \in Call, NEW c \in Client, NEW good \in BOOLEAN, ServerReply(j, c, good)
    PROVE  CallerInv'
<1> DEFINE m == [id |-> j, good |-> good]
<1>1. /\ <<j, c>> \in working
      /\ working' = working \ {<<j, c>>}
      /\ toClient' = IF peer[c] THEN [toClient EXCEPT ![c] = Append(@, m)] ELSE toClient
      /\ toServer' = toServer
      /\ UNCHANGED <<pc, on, fut, routing, closed, futures, listener, peer, up, stops, rest>>
  BY DEF ServerReply
<1>2. TypeOK /\ WireOK(c) /\ m \in Reply /\ m.id = j
  BY DEF CallerInv, Reply
<1> HIDE DEF m
<1>3. j \notin Range(toServer[c]) /\ j \notin Ids(toClient[c])
  BY <1>1, <1>2, Zenon DEF WireOK
<1>4. /\ Append(toClient[c], m) \in Seq(Reply)
      /\ Ids(Append(toClient[c], m)) = Ids(toClient[c]) \cup {j}
      /\ DistinctIds(Append(toClient[c], m))
  BY <1>2, <1>3, IdsAppend DEF TypeOK, WireOK
<1>5. /\ toClient' \in [Client -> Seq(Reply)]
      /\ \A d \in Client : d # c => toClient'[d] = toClient[d]
      /\ DistinctIds(toClient'[c])
      /\ Ids(toClient'[c]) \subseteq Ids(toClient[c]) \cup {j}
  BY <1>1, <1>2, <1>4, Zenon DEF TypeOK, WireOK
<1>6. /\ working' \subseteq Call \X Client
      /\ \A k \in Call, d \in Client : <<k, d>> \in working' <=> <<k, d>> \in working /\ ~(k = j /\ d = c)
  BY <1>1, <1>2 DEF TypeOK
<1>7. ASSUME NEW k \in Call
      PROVE  /\ InTransit(k, c)' => InTransit(k, c)
             /\ <<k, c>> \in working' => k \notin Range(toServer'[c])
             /\ k \in Ids(toClient'[c]) => k \notin Range(toServer'[c]) /\ <<k, c>> \notin working'
  BY <1>1, <1>2, <1>3, <1>5, <1>6, Zenon DEF InTransit, WireOK
<1>8. toServer' \in [Client -> Seq(Call)] /\ Distinct(toServer'[c])
  BY <1>1, <1>2 DEF TypeOK, WireOK
<1> QED BY <1>1, <1>5, <1>6, <1>7, <1>8, MovedKeeps, Zenon DEF MovesOn
-----------------------------------------------------------------------------
(* Every step of the specification keeps the invariant.                    *)
LEMMA NextKeepsCallerInv == CallerInv /\ [Next]_vars => CallerInv'
<1> SUFFICES ASSUME CallerInv, [Next]_vars
             PROVE  CallerInv'
  OBVIOUS
<1>1. ASSUME NEW j \in Call, CallStep(j)
      PROVE  CallerInv'
  BY <1>1, StartCallKeeps, AcquireKeeps, ConnectKeeps, SendDoneKeeps, SendFailsKeeps DEF CallStep
<1>2. ASSUME NEW j \in Call, Cancel(j)
      PROVE  CallerInv'
  BY <1>2, CancelKeeps
<1>3. ASSUME NEW c \in Client, ListenStep(c)
      PROVE  CallerInv'
  BY <1>3, ListenCheckKeeps, ListenReplyKeeps, ListenEOFKeeps, ListenClosedKeeps DEF ListenStep
<1>4. ASSUME NEW c \in Client, ServerStep(c) \/ BadReply(c)
      PROVE  CallerInv'
  BY <1>4, ServerReceiveKeeps, ServerReplyKeeps, Zenon DEF ServerStep, BadReply
<1>5. ASSUME NEW c \in Client, ConnectionLost(c)
      PROVE  CallerInv'
  BY <1>5, ConnectionLostKeeps
<1> QED BY <1>1, <1>2, <1>3, <1>4, <1>5, ServerStopKeeps, ServerStartKeeps, StopCloseKeeps,
           CancelTasksKeeps, StutterKeeps DEF Next

(* The invariant holds in every behaviour.                                 *)
LEMMA CallerInvariant == Spec => []CallerInv
BY InitCallerInv, NextKeepsCallerInv, PTL DEF Spec

(* The state of the caller, of its connections and of the serving pool is  *)
(* always of its type.                                                     *)
THEOREM TypeCorrect == Spec => []TypeOK
<1>1. CallerInv => TypeOK
  BY DEF CallerInv
<1> QED BY <1>1, CallerInvariant, PTL

(* However many calls start at once, fail and start again, the lock of     *)
(* Router.get_client leaves at most one open client per address.           *)
THEOREM AtMostOneConnection == Spec => []OneConnection
<1>1. CallerInv => OneConnection
  <2> SUFFICES ASSUME CallerInv, NEW c \in created, NEW d \in created, ~closed[c], ~closed[d]
               PROVE  c = d
    BY DEF OneConnection
  <2>1. c \in Client /\ d \in Client
    BY DEF CallerInv, TypeOK
  <2> QED BY <2>1, Zenon DEF CallerInv, ClientOK
<1> QED BY <1>1, CallerInvariant, PTL

(* ActorCaller._listen tells a call only errors that are true of it.       *)
THEOREM ErrorsAreAlwaysTrue == Spec => []ErrorsAreTrue
<1>1. CallerInv => ErrorsAreTrue
  BY DEF CallerInv
<1> QED BY <1>1, CallerInvariant, PTL

(* A task that awaits a reply is registered with a listener that runs, as  *)
(* long as the caller is not stopped and no call shares its client with a  *)
(* cancelled one.                                                          *)
THEOREM NoCallIsLost == Spec => []NoLostCall
<1>1. CallerInv => NoLostCall
  <2> SUFFICES ASSUME CallerInv, NEW j \in Call, Awaiting(j), stop = "no", ~SomeCancelled(on[j])
               PROVE  listener[on[j]] \in Running /\ j \in Range(futures[on[j]])
    BY Zenon DEF NoLostCall
  <2>1. on[j] \in Client /\ on[j] \in created /\ j \in Range(futures[on[j]]) /\ TypeOK
    BY Zenon DEF CallerInv, TypeOK, CallOK, FutureOK, Awaiting
  <2>2. ListenerOK(on[j])
    BY <2>1, Zenon DEF CallerInv
  <2>3. listener[on[j]] \notin {"none", "dead", "cancelled"}
    BY <2>1, <2>2, Zenon DEF ListenerOK
  <2>4. listener[on[j]] # "ended"
    BY <2>1, <2>2, EmptyQueue, EmptyIds, Zenon DEF ListenerOK
  <2> QED BY <2>1, <2>3, <2>4 DEF TypeOK
<1> QED BY <1>1, CallerInvariant, PTL

-----------------------------------------------------------------------------
(* A remote call keeps the promise of CallOnce for any number of calls,    *)
(* clients and restarts: its request is served at most once, a result it   *)
(* gets is the answer of that one execution, and its outcome is final.     *)
THEOREM ImplementsCallOnce == Spec => CarriedOutOnce
<1>1. Init => Promise!Init
  <2> SUFFICES ASSUME Init
               PROVE  Promise!Init
    OBVIOUS
  <2>1. ASSUME NEW j \in Call
        PROVE  OutcomeOf(j) = "open" /\ WhereIs(j) = "new"
    BY EmptyQueue, EmptyIds DEF Init, OutcomeOf, WhereIs
  <2> QED BY <2>1 DEF Promise!Init
<1>2. CallerInv /\ CallerInv' /\ [Next]_vars => [Promise!Next]_(Promise!callOnce)
  BY NextMaps
<1> QED BY <1>1, <1>2, CallerInvariant, PTL DEF Spec, CarriedOutOnce, Promise!Spec
=============================================================================
