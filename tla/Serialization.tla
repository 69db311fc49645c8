---- MODULE Serialization ----
(***************************************************************************)
(* serialize, serialize_with_spawn and deserialize: the stack machines     *)
(* that turn a graph of Python objects into a nested header and a list of  *)
(* buffers and back, with Placeholders for objects met again.              *)
(*                                                                         *)
(* The graph is a heap of nodes; 0 stands for a primitive or short string, *)
(* which is kept inside the header of the collection that holds it.  The   *)
(* items of a dict are its keys followed by its values; those of a message *)
(* are its subcomponents, its other members are in its header (Message).   *)
(***************************************************************************)
EXTENDS Message, FiniteSets, SequencesExt

CONSTANTS Heaps,      \* the graphs: kind and kids of each node, the root is node 1;
                      \* the kind of a message is its type
          Thresholds  \* spawn_threshold; 0 for serialize, which never spawns

\* leaf: bytes, str or a pickled object, with as many buffers as its kids say;
\* bad: a leaf the reader cannot deserialize; empty: an empty dict, or a dict
\* subclass without an initializer, which are written without a Placeholder.
Collection == {"list", "tuple", "dict"} \cup MessageType
Unbuffered == {"empty"} \cup MessageType
Nil == <<>>
NoId == 1000

VARIABLES heap,     \* the graph being sent
          limit,    \* spawn_threshold
          ser,      \* locals of serialize: stack, current result, context, ids, buffers
          des,      \* locals of deserialize: stack, current result, context, built objects
          stage     \* loop, thread, read, returned, raised

serialVars == <<heap, limit, ser, des, stage>>
Nodes == DOMAIN heap.kind

\* _serial_iterable: the positions of the items to propagate.
Propagated(n) ==
    IF heap.kind[n] \notin Collection THEN <<>>
    ELSE SelectSeq([k \in DOMAIN heap.kids[n] |-> k], LAMBDA k : heap.kids[n][k] # 0)

Header(kind, id, count, final, n) ==
    [ser |-> kind, id |-> id, count |-> count, final |-> final, subs |-> <<>>,
     at |-> IF kind = "ph" THEN <<>> ELSE Propagated(n),
     len |-> IF kind \in Collection THEN Len(heap.kids[n]) ELSE 0,
     msg |-> IF kind \in MessageType THEN Serialized(kind) ELSE <<>>]

\* `buffered': an object in the context is written as a Placeholder.
Met(s, n) == heap.kind[n] \notin Unbuffered /\ n \in s.ctx

\* serial of the Serializers for bytes, str and anything pickled.
Buffers(n) == IF heap.kind[n] \in Collection THEN <<>> ELSE [k \in DOMAIN heap.kids[n] |-> <<n, k>>]

\* _serial_single: an object gets the size of the id map as its ordered id,
\* also when it has one already.
Size(ids) == Cardinality({n \in Nodes : ids[n] # NoId})
Single(s, n) ==
    LET kind == heap.kind[n]
        leaf == kind \notin Collection
    IN IF Met(s, n)
       THEN [hdr |-> Header("ph", s.ids[n], 0, TRUE, n), todo |-> <<>>, bufs |-> <<>>,
             ctx |-> s.ctx, ids |-> s.ids]
       ELSE [hdr |-> Header(kind, Size(s.ids), IF leaf THEN Len(Buffers(n)) ELSE Len(Propagated(n)), leaf, n),
             todo |-> [k \in DOMAIN Propagated(n) |-> heap.kids[n][Propagated(n)[k]]],
             bufs |-> Buffers(n),
             ctx |-> IF kind \in Unbuffered THEN s.ctx ELSE s.ctx \cup {n},
             ids |-> [s.ids EXCEPT ![n] = Size(s.ids)]]

Item(x) == [hdr |-> x.hdr, todo |-> x.todo, done |-> <<>>]
Start == [stack |-> <<>>, cur |-> Nil, ctx |-> {}, ids |-> [n \in Nodes |-> NoId], bufs |-> <<>>, total |-> 0]

\* The beginning of serialize: a root that is a leaf returns at once.
First == LET x == Single(Start, 1)
         IN [Start EXCEPT !.ctx = x.ctx, !.ids = x.ids, !.bufs = x.bufs,
                          !.stack = IF x.todo = <<>> THEN <<>> ELSE <<Item(x)>>,
                          !.cur = IF x.todo = <<>> THEN <<x.hdr>> ELSE Nil]

NoRead == [stack |-> <<>>, cur |-> Nil, ctx |-> <<>>, calls |-> <<>>, out |-> <<>>, pos |-> 0, exc |-> "none"]

Init ==
    /\ heap \in Heaps
    /\ limit \in Thresholds
    /\ ser = First
    /\ des = NoRead
    /\ stage = "loop"

\* One turn of the loop of _serialize_with_stack.
Top(s) == s.stack[Len(s.stack)]
Pop(s) == [s EXCEPT !.stack = Front(@)]
Turn(s) ==
    LET done == Top(s).done \o s.cur
    IN IF Len(done) = Len(Top(s).todo)
       THEN [Pop(s) EXCEPT !.cur = <<[Top(s).hdr EXCEPT !.subs = done]>>, !.total = @ + 1]
       ELSE LET x == Single(s, Top(s).todo[Len(done) + 1])
                t == [s EXCEPT !.stack[Len(s.stack)].done = done, !.total = @ + 1,
                               !.ctx = x.ctx, !.ids = x.ids, !.bufs = @ \o x.bufs]
            IN IF x.todo = <<>> THEN [t EXCEPT !.cur = <<x.hdr>>]
               ELSE [t EXCEPT !.stack = Append(@, Item(x)), !.cur = Nil]

\* After spawn_threshold turns the rest is done in the executor, from the same
\* stack and with the current result.
SerialTurn ==
    /\ stage \in {"loop", "thread"}
    /\ ser.stack # <<>>
    /\ ser' = Turn(ser)
    /\ stage' = IF stage = "loop" /\ 0 < limit /\ limit < ser'.total THEN "thread" ELSE stage
    /\ UNCHANGED <<heap, limit, des>>

-----------------------------------------------------------------------------
\* Values the reader makes: built objects, and Placeholders by their id.
Built(k) == <<"object", k>>
Holder(id) == <<"placeholder", id>>
IsHolder(v) == v # Nil /\ v[1] = "placeholder"

\* deserial of each Serializer; subs are values, or buffers of a leaf.  Nil for
\* an error: a leaf that cannot be read, a tuple that holds a Placeholder.
Placed(h, subs) ==
    [k \in 1..h.len |-> IF \E i \in DOMAIN h.at : h.at[i] = k
                        THEN subs[CHOOSE i \in DOMAIN h.at : h.at[i] = k] ELSE <<"inline">>]
Object(h, subs) ==
    [kind |-> h.ser, kids |-> IF h.ser \in Collection THEN Placed(h, subs) ELSE subs,
     members |-> IF h.ser \in MessageType THEN Members(h.msg) ELSE <<>>]
Fails(h, subs) ==
    h.ser = "bad" \/ (h.ser = "tuple" /\ \E k \in DOMAIN subs : IsHolder(subs[k]))

\* Placeholders in a list or dict register a callback each.
Callbacks(h, subs, k) ==
    IF h.ser \notin {"list", "dict"} THEN {}
    ELSE {<<subs[i][2], k, h.at[i]>> : i \in {j \in DOMAIN subs : IsHolder(subs[j])}}

\* _deserial_single: the value takes its place in the context; if that was a
\* Placeholder, its callbacks put the value where it stands.
Lookup(d, id) == IF \E p \in ToSet(d.ctx) : p[1] = id
                 THEN (CHOOSE p \in ToSet(d.ctx) : p[1] = id)[2] ELSE Nil
ReplaceNothing(out, calls, id, v) == out
Replace(out, calls, id, v) ==
    [n \in DOMAIN out |-> [out[n] EXCEPT !.kids =
        [k \in DOMAIN @ |-> IF <<id, n, k>> \in ToSet(calls) THEN v ELSE @[k]]]]
DeserialSingle(d, h, subs) ==
    LET k    == Len(d.out) + 1
        old  == Lookup(d, h.id)
        res  == IF h.ser # "ph" THEN Built(k) ELSE IF old = Nil THEN Holder(h.id) ELSE old
        out  == IF h.ser = "ph" THEN d.out ELSE Append(d.out, Object(h, subs))
        all  == d.calls \o SetToSeq(Callbacks(h, subs, k))
    IN IF Fails(h, subs) THEN [d EXCEPT !.cur = Nil, !.exc = "error"]
       ELSE [d EXCEPT !.cur = <<res>>, !.calls = all,
                      !.ctx = Append(SelectSeq(@, LAMBDA p : p[1] # h.id), <<h.id, res>>),
                      !.out = IF IsHolder(old) THEN Replace(out, all, h.id, res) ELSE out]

Entry(h) == [hdr |-> h, done |-> <<>>]
Leaf(h) == h.final \/ h.count = 0

\* deserialize starts once the header and the buffers are there.
Read ==
    /\ stage \in {"loop", "thread"}
    /\ ser.stack = <<>>
    /\ stage' = "read"
    /\ des' = IF Leaf(ser.cur[1]) THEN DeserialSingle(NoRead, ser.cur[1], ser.bufs)
              ELSE [NoRead EXCEPT !.stack = <<Entry(ser.cur[1])>>]
    /\ UNCHANGED <<heap, limit, ser>>

\* on_deserial_error: a message turns the error of a subcomponent into a
\* DeserializeMessageFailed with its own id.
Rewritten(d) == IF Top(d).hdr.ser \in MessageType THEN Top(d).hdr.ser ELSE d.exc

\* One turn of its loop: an error empties the stack, a finished object is made
\* from its subcomponents, the next subcomponent is read or pushed.
ReadTurn(d) ==
    LET done == Top(d).done \o d.cur
        h    == Top(d).hdr
        next == h.subs[Len(done) + 1]
    IN IF d.exc # "none" THEN [Pop(d) EXCEPT !.exc = Rewritten(d)]
       ELSE IF Len(done) = Len(h.subs) THEN DeserialSingle(Pop(d), h, done)
       ELSE LET t == [d EXCEPT !.stack[Len(d.stack)].done = done, !.cur = Nil]
            IN IF Leaf(next)
               THEN DeserialSingle([t EXCEPT !.pos = @ + next.count], next,
                                   SubSeq(ser.bufs, d.pos + 1, d.pos + next.count))
               ELSE [t EXCEPT !.stack = Append(@, Entry(next))]

DeserialTurn ==
    /\ stage = "read" /\ des.stack # <<>>
    /\ des' = ReadTurn(des)
    /\ UNCHANGED <<heap, limit, ser, stage>>

ReadEnd ==
    /\ stage = "read" /\ des.stack = <<>>
    /\ stage' = IF des.exc # "none" THEN "raised" ELSE "returned"
    /\ UNCHANGED <<heap, limit, ser, des>>

Next == SerialTurn \/ Read \/ DeserialTurn \/ ReadEnd

-----------------------------------------------------------------------------
Reachable == LET Step(S) == S \cup {m \in Nodes : \E n \in S : heap.kind[n] \in Collection /\ m \in ToSet(heap.kids[n])}
             IN Step(Step(Step({1})))
Reaches(m, n) ==
    LET Step(S) == S \cup {b \in Nodes : \E a \in S : heap.kind[a] \in Collection /\ b \in ToSet(heap.kids[a])}
        Kids == {b \in Nodes : heap.kind[m] \in Collection /\ b \in ToSet(heap.kids[m])}
    IN n \in Step(Step(Kids))

\* Object v is the copy of node n under the correspondence f of nodes with
\* objects: the same kind, the same bytes, the copies of the same items.
Copies(f, n, v) ==
    IF n = 0 THEN v = <<"inline">>
    ELSE /\ v[1] = "object" /\ des.out[v[2]].kind = heap.kind[n]
         /\ heap.kind[n] = "empty" \/ v[2] = f[n]
         /\ \A m \in DOMAIN des.out[v[2]].members : des.out[v[2]].members[m] = m
Isomorphic ==
    \E f \in [Reachable -> DOMAIN des.out] :
        /\ Copies(f, 1, des.cur[1])
        /\ \A n \in Reachable :
             LET kids == des.out[f[n]].kids
             IN IF heap.kind[n] \notin Collection
                THEN heap.kind[n] = "empty" \/ kids = [k \in DOMAIN heap.kids[n] |-> <<n, k>>]
                ELSE /\ Len(kids) = Len(heap.kids[n])
                     /\ \A k \in DOMAIN kids : Copies(f, heap.kids[n][k], kids[k])

\* An empty dict that occurs twice gives the next object an id that is taken.
Twice(n) == Len(SelectSeq(FoldLeft(LAMBDA s, m : s \o (IF heap.kind[m] \in Collection THEN heap.kids[m] ELSE <<>>),
                                   <<>>, SetToSeq(Reachable)), LAMBDA m : m = n)) > 1

\* What comes out is what went in: the same graph, with objects that were
\* shared shared again and cycles closed, wherever the work moved to a thread,
\* unless an empty dict occurs twice.  Reading raises an error exactly for what
\* cannot be read, a bad leaf or a tuple that is part of a cycle; and the error
\* of a message names that message and not one inside it, so that the reader of
\* a channel can fail the call that waits for it.
RoundTrip ==
    /\ stage = "returned" =>
          /\ \A n \in Reachable : heap.kind[n] # "bad"
          /\ (\A n \in Reachable : heap.kind[n] = "empty" => ~Twice(n)) => Isomorphic
    /\ stage = "raised" =>
          /\ \E n \in Reachable : heap.kind[n] = "bad" \/ (heap.kind[n] = "tuple" /\ Reaches(n, n))
          /\ heap.kind[1] \in MessageType => des.exc = heap.kind[1]
====
