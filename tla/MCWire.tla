---- MODULE MCWire ----
(***************************************************************************)
(* Between two pools: a behaviour is one of the serialization of an object *)
(* (Serialization), of a channel (Channel) or of the routers and their     *)
(* connections (Router), each on its own variables.                        *)
(***************************************************************************)
EXTENDS Naturals, Sequences, TLC

CONSTANTS Thresholds, Senders, InfoSize, HeadSize,
          Main, Other, Sub, Asks, MaxIndex, MaxCaches

VARIABLES which,
          heap, limit, ser, des, stage,
          kind, post, sendq, wire, rcv, arrived, order, cut, shut,
          aliased, pool, conf, rmap, news, index, glob, caches, cache, locks, ask, conns, removed

ClassTable == INSTANCE Message

\* Object graphs: a root, an inner node and a leaf (0 is a value that needs no
\* buffer); lists and dicts may contain themselves, as in test_nested_list.
Seqs(S, n) == UNION {[1..k -> S] : k \in 0..n}
LeafKids(k) == CASE k = "leaf" -> <<0, 0>> [] k = "bad" -> <<0>> [] k = "empty" -> <<>>
Real(h) ==
    /\ h.kind[1] \in {"error", "create_actor"} => h.kind[3] # "empty"
    /\ \A n \in 1..3 : h.kind[n] = "dict" =>
        /\ Len(h.kids[n]) = 2
        /\ \/ h.kids[n][1] \in {0, n}
           \/ h.kind[h.kids[n][1]] \in {"leaf", "bad"}
Graphs(K1, K2, C2, C1) ==
    {h \in {[kind |-> <<k1, k2, k3>>, kids |-> <<c1, c2, LeafKids(k3)>>] :
               k1 \in K1, k2 \in K2, k3 \in {"leaf", "bad", "empty"}, c1 \in C1, c2 \in C2} : Real(h)}
MCHeaps ==
    Graphs({"list", "tuple"}, {"list", "tuple", "dict"}, Seqs({0, 1, 2, 3}, 2),
           {c \in Seqs({1, 2, 3}, 3) : 2 \in {c[i] : i \in DOMAIN c} \/ c = <<3, 3>>})
    \cup UNION {Graphs({t}, {"list", "dict"}, {<<2, 3>>, <<0, 2>>, <<3, 2>>},
                       [DOMAIN ClassTable!ClassOf[t].subs -> {2, 3}]) : t \in ClassTable!MessageType}
    \cup Graphs({"control"}, {"create_actor"}, {<<3, 3, 0>>, <<0, 3, 3>>}, {<<2>>})
    \cup Graphs({"control"}, {"list"}, {<<2, 3>>}, {<<3>>})

\* Messages: without buffers, with several, with an empty one, one that cannot
\* be deserialized, one followed by the data of buffers, one for a missing buffer.
Msg(bufs, data, ref, readable) == [bufs |-> bufs, data |-> data, ref |-> ref, readable |-> readable]
MCShapes == {Msg(<<>>, <<>>, TRUE, TRUE), Msg(<<3, 1>>, <<>>, TRUE, TRUE), Msg(<<0, 3>>, <<>>, TRUE, TRUE),
             Msg(<<3>>, <<>>, TRUE, FALSE), Msg(<<3>>, <<1, 3>>, TRUE, TRUE), Msg(<<>>, <<1>>, FALSE, TRUE)}

\* Two main pools of one process and a sub pool; one sub pool address.
MCMainPools == {Main, Other}
MCHome == Main :> "a" @@ Other :> "b" @@ Sub :> "s"
MCSubs == Main :> {"x"} @@ Other :> {} @@ Sub :> {"x"}
MCSubAddress == {"x"}
MCKeys == {<<"x", "any">>, <<"x", "outer">>, <<"a", "any">>}

S == INSTANCE Serialization WITH Heaps <- MCHeaps
C == INSTANCE Channel WITH Shapes <- MCShapes
R == INSTANCE Router WITH MainPools <- MCMainPools, SubPool <- Sub, Home <- MCHome,
                          SubAddress <- MCSubAddress, SubsOf <- MCSubs, Keys <- MCKeys

NoSerialization == heap = 0 /\ limit = 0 /\ ser = 0 /\ des = 0 /\ stage = 0
NoChannel == /\ kind = 0 /\ post = 0 /\ sendq = 0 /\ wire = 0 /\ rcv = 0
             /\ arrived = 0 /\ order = 0 /\ cut = 0 /\ shut = 0
NoRouter == /\ aliased = 0 /\ pool = 0 /\ conf = 0 /\ rmap = 0 /\ news = 0 /\ index = 0 /\ glob = 0
            /\ caches = 0 /\ cache = 0 /\ locks = 0 /\ ask = 0 /\ conns = 0 /\ removed = 0

serVars == <<heap, limit, ser, des, stage>>
chVars == <<kind, post, sendq, wire, rcv, arrived, order, cut, shut>>
rtVars == <<aliased, pool, conf, rmap, news, index, glob, caches, cache, locks, ask, conns, removed>>
wireVars == <<which, serVars, chVars, rtVars>>
Init ==
    \/ which = "serialization" /\ S!Init /\ NoChannel /\ NoRouter
    \/ which = "channel" /\ C!Init /\ NoSerialization /\ NoRouter
    \/ which = "router" /\ R!Init /\ NoSerialization /\ NoChannel
Next ==
    /\ UNCHANGED which
    /\ \/ which = "serialization" /\ S!Next /\ UNCHANGED <<chVars, rtVars>>
       \/ which = "channel" /\ C!Next /\ UNCHANGED <<serVars, rtVars>>
       \/ which = "router" /\ R!Next /\ UNCHANGED <<serVars, chVars>>
Spec == Init /\ [][Next]_wireVars

Symmetry == Permutations(Senders) \cup Permutations(Asks)

-----------------------------------------------------------------------------
\* What deserialize returns is the graph serialize was given, with sharing and
\* cycles; it raises exactly for a leaf that cannot be read and a tuple that is
\* part of a cycle, and the error of a message names that message.
RoundTrip == which = "serialization" => S!RoundTrip
\* However many calls send at once, messages arrive whole and in order, the
\* receiving loop stops only for a cause (a close, a sender cancelled between
\* two frames, a message the code cannot receive), and without one nothing is
\* lost.
Delivered == which = "channel" => C!Delivered
\* The process routes every address of a pool whose config is synced to where
\* the config says, whatever the other pools of the process do, and has no
\* route to a stopped pool; only a sub pool removed from a main pool keeps its.
RoutesFollowConfig == which = "router" => R!RoutesFollowConfig
\* A cached client goes where the routes of now lead, unless it was being
\* connected when they changed, and concurrent calls of get_client under one
\* lock make one connection.
CacheFollowsRoutes == which = "router" => R!CacheFollowsRoutes
====
