---- MODULE Router ----
(***************************************************************************)
(* The routes from external to internal addresses inside one process: the  *)
(* configs of its pools, the global Router their routers are merged into,  *)
(* and the cache of clients behind get_client.                             *)
(*                                                                         *)
(* A process of main pools (`aliased') shares the mapping of a pool's      *)
(* config with its router; a sub pool gets copies of the config of its     *)
(* main pool in sync_config messages.                                      *)
(***************************************************************************)
EXTENDS Naturals, Sequences, FiniteSets, SequencesExt

CONSTANTS MainPools,   \* pools of a process with main pools
          SubPool,     \* the pool of a sub process
          Home,        \* Home[p]: the external address of pool p
          SubAddress,  \* external addresses of sub pools
          SubsOf,      \* SubsOf[p]: those in the config pool p is created with
          Asks,        \* calls of get_client and get_client_via_type
          Keys,        \* the pairs of an address and a type they ask for
          MaxIndex,    \* bound on process_index_gen
          MaxCaches    \* bound on the changes of the routes

Ext == SubAddress \cup {Home[p] : p \in MainPools \cup {SubPool}}
NoRoute == 0
None == [e \in Ext |-> NoRoute]

VARIABLES aliased,  \* the process is one of main pools
          pool,     \* per pool: new, up, stopped
          conf,     \* per pool: the mapping of its config, NoRoute where absent
          rmap,     \* per pool: _mapping of its router, in a sub process
          news,     \* per pool: configs under way in sync_config commands
          index,    \* process_index_gen
          glob,     \* the global router: external addresses, local, mapping
          caches,   \* number of the current _cache_local
          cache,    \* its cache: client or 0 by address and type
          locks,    \* per _cache_local: the calls that hold or wait for its lock
          ask,      \* the calls
          conns,    \* clients made
          removed   \* history: addresses of sub pools that were removed

routerVars == <<aliased, pool, conf, rmap, news, index, glob, caches, cache, locks, ask, conns, removed>>
poolVars == <<aliased, pool, conf, rmap, news, index, glob, caches, removed>>

Pools == IF aliased THEN MainPools ELSE {SubPool}
Empty == [k \in Keys |-> 0]

NoAsk == [pc |-> "idle", key |-> <<"none", "any">>, lock |-> 0, born |-> 0, to |-> NoRoute]

Init ==
    /\ aliased \in BOOLEAN
    /\ pool = [p \in Pools |-> "new"]
    /\ conf = [p \in Pools |-> [e \in Ext |-> IF e = Home[p] THEN 1
                                          ELSE IF e \in SubsOf[p] THEN 2 ELSE NoRoute]]
    /\ rmap = conf
    /\ news = [p \in Pools |-> <<>>]
    /\ index = 2
    /\ glob = [addrs |-> <<>>, loc |-> {}, map |-> None]
    /\ caches = 1 /\ cache = Empty /\ locks = [g \in 1..MaxCaches |-> <<>>]
    /\ ask = [r \in Asks |-> NoAsk]
    /\ conns = <<>>
    /\ removed = {}

RouterMap(p) == IF aliased THEN conf[p] ELSE rmap[p]

\* add_router and remove_router, without the new _cache_local.
Added(g, p, map) ==
    [addrs |-> Append(g.addrs, Home[p]), loc |-> g.loc \cup {Home[p]},
     map   |-> [e \in Ext |-> IF map[e] # NoRoute THEN map[e] ELSE g.map[e]]]
Removed(g, p, map) ==
    [addrs |-> SelectSeq(g.addrs, LAMBDA a : a # Home[p]), loc |-> g.loc \ {Home[p]},
     map   |-> [e \in Ext |-> IF map[e] # NoRoute THEN NoRoute ELSE g.map[e]]]

\* _cache_local = threading.local()
NewCacheKept == caches < MaxCaches /\ caches' = caches + 1 /\ UNCHANGED cache
NewCache == caches < MaxCaches /\ caches' = caches + 1 /\ cache' = Empty

\* create: _set_global_router merges the router of the pool.
StartPool(p) ==
    /\ pool[p] = "new"
    /\ pool' = [pool EXCEPT ![p] = "up"]
    /\ glob' = Added(glob, p, RouterMap(p))
    /\ NewCache
    /\ UNCHANGED <<aliased, conf, rmap, news, index, locks, ask, conns, removed>>

\* The end of append_sub_pool and of remove_sub_pool: the config, already
\* changed, is sent out to be synced.
Announce(p, c) ==
    /\ pool[p] = "up"
    /\ conf' = [conf EXCEPT ![p] = c]
    /\ news' = [news EXCEPT ![p] = Append(@, c)]
    /\ UNCHANGED <<aliased, pool, rmap, glob, caches, cache, locks, ask, conns>>

AppendSubPool(p, e) ==
    /\ index < MaxIndex
    /\ \A q \in Pools : conf[q][e] = NoRoute
    /\ index' = index + 1
    /\ Announce(p, [conf[p] EXCEPT ![e] = index + 1])
    /\ removed' = removed \ {e}

RemoveSubPool(p, e) ==
    /\ conf[p][e] # NoRoute
    /\ Announce(p, [conf[p] EXCEPT ![e] = NoRoute])
    /\ removed' = removed \cup {e}
    /\ UNCHANGED index

\* _sync_pool_config: the router leaves the global one, takes the mapping and
\* is merged again.
SyncPoolConfigOff(p) ==
    /\ pool[p] = "up" /\ news[p] # <<>>
    /\ news' = [news EXCEPT ![p] = Tail(@)]
    /\ rmap' = [rmap EXCEPT ![p] = IF aliased THEN conf[p] ELSE Head(news[p])]
    /\ glob' = Removed(glob, p, RouterMap(p))
    /\ NewCache
    /\ UNCHANGED <<aliased, pool, conf, index, locks, ask, conns, removed>>
SyncPoolConfig(p) ==
    /\ pool[p] = "up" /\ news[p] # <<>>
    /\ news' = [news EXCEPT ![p] = Tail(@)]
    /\ LET map == IF aliased THEN conf[p] ELSE Head(news[p])
       IN /\ rmap' = [rmap EXCEPT ![p] = map]
          /\ glob' = Added(Removed(glob, p, RouterMap(p)), p, map)
    /\ NewCache
    /\ UNCHANGED <<aliased, pool, conf, index, locks, ask, conns, removed>>

\* stop: the router leaves the global one.
StopPool(p) ==
    /\ pool[p] = "up" /\ news[p] = <<>>
    /\ pool' = [pool EXCEPT ![p] = "stopped"]
    /\ glob' = Removed(glob, p, RouterMap(p))
    /\ NewCache
    /\ UNCHANGED <<aliased, conf, rmap, news, index, locks, ask, conns, removed>>

-----------------------------------------------------------------------------
\* get_internal_address; a call for the client type of the external address
\* (`outer') goes there directly.
Local == 100
Route(key) ==
    IF key[2] = "outer" THEN NoRoute
    ELSE IF key[1] \in glob.loc THEN Local ELSE glob.map[key[1]]

\* get_client: wait for the lock of the _cache_local of now.
Ask(r, key) ==
    /\ ask[r].pc = "idle"
    /\ ask' = [ask EXCEPT ![r] = [@ EXCEPT !.pc = "lock", !.key = key, !.lock = caches]]
    /\ locks' = [locks EXCEPT ![caches] = Append(@, r)]
    /\ UNCHANGED <<poolVars, cache, conns>>

Holds(r) == ask[r].lock # 0 /\ locks[ask[r].lock] # <<>> /\ Head(locks[ask[r].lock]) = r
Unlock(r) == locks' = [locks EXCEPT ![ask[r].lock] = Tail(@)]
Done(r) == ask' = [ask EXCEPT ![r] = [NoAsk EXCEPT !.pc = "done"]]

\* With the lock: a cached client that is open, or a connection by the route.
Cached(r) ==
    /\ ask[r].pc = "lock" /\ Holds(r)
    /\ cache[ask[r].key] # 0 /\ ~conns[cache[ask[r].key]].closed
    /\ Done(r) /\ Unlock(r)
    /\ UNCHANGED <<poolVars, cache, conns>>

Connect(r) ==
    /\ ask[r].pc = "lock" /\ Holds(r)
    /\ cache[ask[r].key] # 0 => conns[cache[ask[r].key]].closed
    /\ cache' = [cache EXCEPT ![ask[r].key] = 0]
    /\ ask' = [ask EXCEPT ![r] = [@ EXCEPT !.pc = "connect", !.to = Route(ask[r].key), !.born = caches]]
    /\ UNCHANGED <<poolVars, locks, conns>>

\* The awaited connect ends; the client goes to the cache of that moment.
Connected(r) ==
    /\ ask[r].pc = "connect"
    /\ conns' = Append(conns, [key |-> ask[r].key, to |-> ask[r].to, lock |-> ask[r].lock,
                               born |-> ask[r].born, stored |-> caches, closed |-> FALSE])
    /\ cache' = [cache EXCEPT ![ask[r].key] = Len(conns) + 1]
    /\ Done(r) /\ Unlock(r)
    /\ UNCHANGED poolVars

ConnectFails(r) ==
    /\ ask[r].pc = "connect"
    /\ Done(r) /\ Unlock(r)
    /\ UNCHANGED <<poolVars, cache, conns>>

\* The other side, or its owner, closes a client.
CloseClient(i) ==
    /\ ~conns[i].closed
    /\ conns' = [conns EXCEPT ![i].closed = TRUE]
    /\ UNCHANGED <<poolVars, cache, locks, ask>>

Next ==
    \/ \E p \in Pools : \/ StartPool(p) \/ SyncPoolConfig(p) \/ StopPool(p)
                        \/ \E e \in SubAddress : AppendSubPool(p, e) \/ RemoveSubPool(p, e)
    \/ \E r \in Asks : \/ Cached(r) \/ Connect(r) \/ Connected(r) \/ ConnectFails(r)
                       \/ \E k \in Keys : Ask(r, k)
    \/ \E i \in DOMAIN conns : CloseClient(i)

-----------------------------------------------------------------------------
Up == {p \in Pools : pool[p] = "up"}

\* When the config of a running pool is synced, the process routes each
\* address of it to the process that serves it now; nothing another pool of
\* the process does takes a route away.  Once everything is synced there is no
\* route to a process of a stopped pool or of another time; only in a process
\* of main pools does the address of a removed sub pool keep its route, for
\* remove_router walks a mapping that is the config the address was already
\* deleted from.
RoutesFollowConfig ==
    /\ \A p \in Up : news[p] = <<>> =>
          /\ Home[p] \in glob.loc /\ Home[p] \in ToSet(glob.addrs)
          /\ \A e \in Ext : conf[p][e] # NoRoute => glob.map[e] = conf[p][e]
    /\ (\A p \in Up : news[p] = <<>>) => \A e \in Ext : glob.map[e] # NoRoute =>
          \/ \E p \in Up : conf[p][e] = glob.map[e]
          \/ aliased /\ e \in removed

\* A cached client goes where the routes of now lead, whatever pools started,
\* synced or stopped since; only a connection that was under way when the
\* routes changed may sit in the new cache with an old route.  And the lock
\* keeps two concurrent calls from connecting twice: two open clients for one
\* key were made under different locks or for different caches.
CacheFollowsRoutes ==
    /\ \A k \in DOMAIN cache : cache[k] # 0 =>
          LET c == conns[cache[k]] IN c.key = k /\ (c.to = Route(k) \/ c.born # c.stored)
    /\ \A i, j \in DOMAIN conns :
          i # j /\ conns[i].key = conns[j].key /\ ~conns[i].closed /\ ~conns[j].closed
              => conns[i].lock # conns[j].lock \/ conns[i].stored # conns[j].stored
====
