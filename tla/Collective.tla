---- MODULE Collective ----
(***************************************************************************)
(* Collective communication: init_process_group makes a RankActor in every *)
(* process, new_group makes process groups, and the eight operations work  *)
(* on a group through gloo or nccl.  The processes run one program; each   *)
(* step of it makes (or finds) a group and calls an operation on it.       *)
(***************************************************************************)
EXTENDS Integers, Sequences, FiniteSets, SequencesExt

CONSTANTS World,      \* number of processes (world_size)
          Programs,   \* sequences of steps: ranks, kind, root, op, stream
          Backends,   \* subset of {"gloo", "nccl"}
          MayLackEnv  \* ranks whose process may lack the address of the master

VARIABLES backend, program,
          lacking,    \* the ranks without the environment variables
          rk,         \* per rank: pc, at (step), groups, group, me, todo, id, inbox, got
          store       \* what every rank has announced: <<key, rank>>

collVars == <<backend, program, lacking, rk, store>>

Ranks == 0 .. World - 1
Sorted(S) == SetToSortSeq(S, LAMBDA a, b : a < b)
Default == Sorted(Ranks)
NoId == <<>>
IdSlot == -1   \* the buffer ccid, which receives a commId
Step(r) == program[rk[r].at]

\* The entries of a rank's todo: announce a key, wait until all of a group
\* have announced it, exchange data point to point (a set of requests that are
\* served in any order).  Gloo's mesh and every native operation is an
\* announcement and a wait.
Announce(key) == [do |-> "set", key |-> key, who |-> {}, reqs |-> {}]
Await(key, who) == [do |-> "wait", key |-> key, who |-> who, reqs |-> {}]
Exchange(reqs) == [do |-> "p2p", key |-> <<>>, who |-> {}, reqs |-> reqs]
Meet(key, who) == <<Announce(key), Await(key, who)>>
\* A request: comm is the sequence of the communicator's ranks, peer an index.
Send(comm, peer, slot, value) ==
    [dir |-> "send", comm |-> comm, peer |-> peer, slot |-> slot, value |-> value]
Recv(comm, peer, slot) ==
    [dir |-> "recv", comm |-> comm, peer |-> peer, slot |-> slot, value |-> {}]

NewRank == [pc |-> "out", at |-> 1, groups |-> {}, group |-> <<>>, me |-> 0,
            todo |-> <<>>, id |-> NoId, inbox |-> {}, got |-> <<>>]

Init ==
    /\ backend \in Backends
    /\ program \in Programs
    /\ lacking \in SUBSET MayLackEnv /\ (backend = "nccl" => lacking = {})
    /\ rk = [r \in Ranks |-> NewRank]
    /\ store = {}

-----------------------------------------------------------------------------
(* Groups *)

\* ProcessGroupGloo: the first group makes the store; connectFullMesh puts
\* this rank's address under the group's prefix and waits for all the others.
GlooGroup(G) == Meet(<<"mesh", G>>, ToSet(G))

\* XoscarNCCLBackend._init_with_tcp_store: rank 0 runs the store and sets the
\* id; after the barrier everyone has it.
InitWithTCPStore == Meet(<<"barrier", Default>>, Ranks) \o Meet(<<"comm", Default>>, Ranks)

\* ProcessGroupNCCL after the first: group rank 0 makes a commId and sends it,
\* over the default group's communicator, to the ranks 1 .. n-1; the others
\* receive it from rank 0.
NcclGroupUnbounded(G, me) ==
    IF me = 0
    THEN [i \in 1 .. Len(G) |-> Exchange({Send(Default, i, IdSlot, <<G>>)})]
    ELSE <<Exchange({Recv(Default, 0, IdSlot)})>>
NcclGroup(G, me) ==
    IF me = 0
    THEN [i \in 1 .. Len(G) - 1 |-> Exchange({Send(Default, i, IdSlot, <<G>>)})]
    ELSE <<Exchange({Recv(Default, 0, IdSlot)})>>
\* nccl.NcclCommunicator(world_size, commId, rank)
Communicator(G) == Meet(<<"comm">>, ToSet(G))

\* RankActor.__post_create__: the default group, unless the address of the
\* master is unknown.
PostCreate(r) ==
    IF r \in lacking THEN [rk[r] EXCEPT !.pc = "failed"]
    ELSE [rk[r] EXCEPT !.pc = "joining", !.group = Default, !.me = r,
                       !.todo = IF backend = "gloo" THEN GlooGroup(Default) ELSE InitWithTCPStore]
InitProcessGroup(r) ==
    /\ rk[r].pc = "out"
    /\ rk' = [rk EXCEPT ![r] = PostCreate(r)]
    /\ UNCHANGED <<backend, program, lacking, store>>

\* The group is there: name_to_pg.
Joined(r) ==
    /\ rk[r].pc = "joining" /\ rk[r].todo = <<>>
    /\ rk' = [rk EXCEPT ![r].groups = @ \cup {rk[r].group}, ![r].id = NoId,
                        ![r].pc = IF rk[r].groups = {} THEN "idle" ELSE "ready"]
    /\ UNCHANGED <<backend, program, lacking, store>>

NextStep(r, end, data) ==
    [rk[r] EXCEPT !.pc = "idle", !.at = @ + 1, !.inbox = {},
                  !.got = Append(@, [end |-> end, data |-> data])]

\* RankActor.new_group: its asserts; ranks is this process' list.
BadRanks(ranks) ==
    \/ Len(ranks) > World
    \/ \E x \in ToSet(ranks) : x \notin Ranks
    \/ Cardinality(ToSet(ranks)) # Len(ranks)
GlobalRanks(ranks) == Sorted(ToSet(ranks))

RankNewGroup(r, ranks) ==
    LET G  == GlobalRanks(ranks)
        me == (CHOOSE i \in DOMAIN G : G[i] = r) - 1
    IN IF BadRanks(ranks) THEN NextStep(r, "error", {})
       ELSE IF r \notin ToSet(ranks) THEN NextStep(r, "none", {})
       ELSE IF Len(ranks) = World THEN [rk[r] EXCEPT !.pc = "ready", !.group = Default, !.me = r]
       ELSE IF G \in rk[r].groups THEN [rk[r] EXCEPT !.pc = "ready", !.group = G, !.me = me]
       ELSE [rk[r] EXCEPT !.pc = "joining", !.group = G, !.me = me,
                          !.id = IF me = 0 THEN <<G>> ELSE NoId,
                          !.todo = IF backend = "gloo" THEN GlooGroup(G)
                                   ELSE NcclGroup(G, me) \o Communicator(G)]

\* new_group: this process asks its RankActor.
NewGroup(r, ranks) ==
    /\ rk[r].pc = "idle" /\ rk[r].at <= Len(program)
    /\ ranks \in Step(r).ranks
    /\ rk' = [rk EXCEPT ![r] = RankNewGroup(r, ranks)]
    /\ UNCHANGED <<backend, program, lacking, store>>

-----------------------------------------------------------------------------
(* Operations *)

\* What the library's operation gives a rank: slots of its receive buffer with
\* the sets of <<rank, part, step>> that were combined there.
Result(kind, n, root, me, k) ==
    LET all(part) == {<<i, part, k>> : i \in 0 .. n - 1}
        at(me2, c) == IF me = me2 THEN c ELSE {}
    IN CASE kind = "reduce"         -> at(root, {<<0, all(0)>>})
         [] kind = "allreduce"      -> {<<0, all(0)>>}
         [] kind = "gather"         -> at(root, {<<i, {<<i, 0, k>>}>> : i \in 0 .. n - 1})
         [] kind = "allgather"      -> {<<i, {<<i, 0, k>>}>> : i \in 0 .. n - 1}
         [] kind = "scatter"        -> {<<0, {<<root, me, k>>}>>}
         [] kind = "reduce_scatter" -> {<<0, all(me)>>}
         [] kind = "alltoall"       -> {<<i, {<<i, me, k>>}>> : i \in 0 .. n - 1}
         [] kind = "broadcast"      -> {<<0, {<<root, 0, k>>}>>}

\* The methods of ProcessGroupGloo, and those of ProcessGroupNCCL that call one
\* operation of the communicator; the default nccl group is cupy's backend.
Native(r) == Meet(<<"op", rk[r].group, rk[r].at>>, ToSet(rk[r].group))

\* The methods of ProcessGroupNCCL that are made of sends and receives between
\* groupStart and groupEnd, with what they copy themselves.
Peers(G, me) == (0 .. Len(G) - 1) \ {me}
NcclGather(G, me, root, k) ==
    [own |-> IF me = root THEN {<<me, {<<me, 0, k>>}>>} ELSE {},
     reqs |-> IF me = root THEN {Recv(G, p, p) : p \in Peers(G, me)}
              ELSE {Send(G, root, 0, {<<me, 0, k>>})}]
NcclScatter(G, me, root, k) ==
    [own |-> IF me = root THEN {<<0, {<<me, me, k>>}>>} ELSE {},
     reqs |-> IF me = root THEN {Send(G, p, 0, {<<me, p, k>>}) : p \in Peers(G, me)}
              ELSE {Recv(G, root, 0)}]
NcclAlltoallOwnPart(G, me, root, k) ==
    [own |-> {<<me, {<<me, me, k>>}>>},
     reqs |-> {Recv(G, p, p) : p \in Peers(G, me)} \cup {Send(G, p, 0, {<<me, me, k>>}) : p \in Peers(G, me)}]
NcclAlltoall(G, me, root, k) ==
    [own |-> {<<me, {<<me, me, k>>}>>},
     reqs |-> {Recv(G, p, p) : p \in Peers(G, me)} \cup {Send(G, p, 0, {<<me, p, k>>}) : p \in Peers(G, me)}]

\* RankActor's assert about the stream, which allreduce and allgather lack,
\* and the reductions that nccl has no counterpart for.
StreamAssert == {"reduce", "gather", "scatter", "reduce_scatter", "alltoall", "broadcast"}
ReduceOpMappingNCCL == {"SUM", "PRODUCT", "MAX", "MIN"}
Reductions == {"reduce", "allreduce", "reduce_scatter"}
Refused(s) ==
    \/ backend = "gloo" /\ s.stream /\ s.kind \in StreamAssert
    \/ backend = "nccl" /\ s.kind \in Reductions /\ s.op \notin ReduceOpMappingNCCL

\* A call of an operation: refused before anything is sent, or on its way.
Invoke(r, kind, own, todo) ==
    /\ rk[r].pc = "ready" /\ Step(r).kind = kind
    /\ rk' = [rk EXCEPT ![r] = IF Refused(Step(r)) THEN NextStep(r, "error", {})
                               ELSE [@ EXCEPT !.pc = "working", !.inbox = own, !.todo = todo]]
    /\ UNCHANGED <<backend, program, lacking, store>>

InvokeNative(r, kind) ==
    Invoke(r, kind, Result(kind, Len(rk[r].group), Step(r).root, rk[r].me, rk[r].at), Native(r))
\* The default group of nccl and every group of gloo have a native operation.
IsNative(r) == backend = "gloo" \/ rk[r].group = Default
InvokeParts(r, kind, parts) ==
    IF IsNative(r) THEN InvokeNative(r, kind) ELSE Invoke(r, kind, parts.own, <<Exchange(parts.reqs)>>)

reduce(r) == InvokeNative(r, "reduce")
allreduce(r) == InvokeNative(r, "allreduce")
gather(r) == InvokeParts(r, "gather", NcclGather(rk[r].group, rk[r].me, Step(r).root, rk[r].at))
allgather(r) == InvokeNative(r, "allgather")
scatter(r) == InvokeParts(r, "scatter", NcclScatter(rk[r].group, rk[r].me, Step(r).root, rk[r].at))
reduce_scatter(r) == InvokeNative(r, "reduce_scatter")
alltoall(r) == InvokeParts(r, "alltoall", NcclAlltoall(rk[r].group, rk[r].me, Step(r).root, rk[r].at))
broadcast(r) == InvokeNative(r, "broadcast")

\* The operation is over for this rank.
Returned(r) ==
    /\ rk[r].pc = "working" /\ rk[r].todo = <<>>
    /\ rk' = [rk EXCEPT ![r] = NextStep(r, "ok", rk[r].inbox)]
    /\ UNCHANGED <<backend, program, lacking, store>>

-----------------------------------------------------------------------------
(* The libraries *)

\* The id of a communicator is the one this rank made or received.
Key(r, e) == IF e.key = <<"comm">> THEN <<"comm", rk[r].id>> ELSE e.key
Busy(r) == rk[r].pc \in {"joining", "working"} /\ rk[r].todo # <<>>

Announces(r) ==
    /\ Busy(r) /\ Head(rk[r].todo).do = "set"
    /\ store' = store \cup {<<Key(r, Head(rk[r].todo)), r>>}
    /\ rk' = [rk EXCEPT ![r].todo = Tail(@)]
    /\ UNCHANGED <<backend, program, lacking>>

Waited(r) ==
    /\ Busy(r) /\ Head(rk[r].todo).do = "wait"
    /\ \A q \in Head(rk[r].todo).who : <<Key(r, Head(rk[r].todo)), q>> \in store
    /\ rk' = [rk EXCEPT ![r].todo = Tail(@)]
    /\ UNCHANGED <<backend, program, lacking, store>>

\* A send and its receive meet; a request of rank r is its part in comm.
Served(r, x, extra) ==
    LET left == Head(rk[r].todo).reqs \ {x}
    IN [extra EXCEPT !.todo = IF left = {} THEN Tail(@) ELSE <<Exchange(left)>> \o Tail(@)]
Transfer(r, q) ==
    /\ r # q /\ Busy(r) /\ Busy(q)
    /\ \E x \in Head(rk[r].todo).reqs, y \in Head(rk[q].todo).reqs :
         /\ x.dir = "send" /\ y.dir = "recv" /\ x.comm = y.comm
         /\ x.comm[x.peer + 1] = q /\ y.comm[y.peer + 1] = r
         /\ (x.slot = IdSlot) = (y.slot = IdSlot)
         /\ rk' = [rk EXCEPT
               ![r] = Served(r, x, @),
               ![q] = Served(q, y, IF y.slot = IdSlot THEN [@ EXCEPT !.id = x.value]
                                   ELSE [@ EXCEPT !.inbox = @ \cup {<<y.slot, x.value>>}])]
    /\ UNCHANGED <<backend, program, lacking, store>>

\* Gloo's wait times out when a rank it waits for has failed.
GiveUp(r) ==
    /\ backend = "gloo" /\ Busy(r) /\ Head(rk[r].todo).do = "wait"
    /\ \E q \in Head(rk[r].todo).who : rk[q].pc = "failed"
    /\ rk' = [rk EXCEPT ![r].pc = "failed"]
    /\ UNCHANGED <<backend, program, lacking, store>>

Next ==
    \E r \in Ranks :
        \/ InitProcessGroup(r) \/ Joined(r) \/ Returned(r) \/ Announces(r) \/ Waited(r) \/ GiveUp(r)
        \/ \E ranks \in UNION {program[k].ranks : k \in DOMAIN program} : NewGroup(r, ranks)
        \/ reduce(r) \/ allreduce(r) \/ gather(r) \/ allgather(r)
        \/ scatter(r) \/ reduce_scatter(r) \/ alltoall(r) \/ broadcast(r)
        \/ \E q \in Ranks : Transfer(r, q)

\* Every process runs, and what the libraries can do they do.
FairSpec == Init /\ [][Next]_collVars /\ WF_collVars(Next)

-----------------------------------------------------------------------------
Ended(r) == rk[r].pc = "failed" \/ (rk[r].pc = "idle" /\ rk[r].at > Len(program))

\* Members that hold a group agree on its size and have its ranks 0 .. n-1,
\* in the order of their world ranks, whatever order new_group was given; so
\* the sends, receives and copies of an operation on part of the world give
\* each member what the library's own operation gives it, with no data of an
\* earlier or later operation.
ResultsRight ==
    \A r \in Ranks : \A k \in DOMAIN rk[r].got :
        LET s == program[k]
            G == Sorted(UNION {ToSet(l) : l \in s.ranks})
            me == Cardinality({q \in ToSet(G) : q < r})
        IN rk[r].got[k].end = "ok" => rk[r].got[k].data = Result(s.kind, Len(G), s.root, me, k)

\* When all processes make their groups in the same order everyone's new_group
\* and every operation ends; if a process cannot join, the others end too.
AllEnd == <>(\A r \in Ranks : Ended(r))
====
