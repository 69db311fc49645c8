---- MODULE MCHelpers ----
(***************************************************************************)
(* Around a call: a behaviour is one of a copy to remote objects (CopyTo), *)
(* a cached coroutine function (AsyncLRU), a batched method (Batch), a     *)
(* generator method (Generators), a chain of calls that is traced          *)
(* (CycleTrace) or the table of serializers (TypeDispatcher), each on its  *)
(* own variables.                                                          *)
(***************************************************************************)
EXTENDS Naturals, Sequences, TLC

CONSTANTS MaxObjects, MaxLength, BlockSizes,
          LruCalls, LruKeys, MaxSize, Closers, MaxResets,
          MaxDelays,
          Clients, GenLengths, MaxCopies,
          Callees, MaxChain,
          Depth, Names, MaxChanges

VARIABLES which,
          copy, sender, wire, remote, gone, biggest,
          keepErrors, lru, jobs, lruCall, closing, resets,
          method, batch, item,
          gen, wraps, steps, linear, out,
          chain, owner, reports,
          handlers, lazy, inherit, deser, changes, late, unread

\* Two serializer classes with one serializer_id, and a third.
IdOf == [A |-> 1, B |-> 1, C |-> 2]

P == INSTANCE CopyTo
L == INSTANCE AsyncLRU
B == INSTANCE Batch
G == INSTANCE Generators
T == INSTANCE CycleTrace
D == INSTANCE TypeDispatcher

cpVars == <<copy, sender, wire, remote, gone, biggest>>
lrVars == <<keepErrors, lru, jobs, lruCall, closing, resets>>
btVars == <<method, batch, item>>
gnVars == <<gen, wraps, steps, linear, out>>
cyVars == <<chain, owner, reports>>
tdVars == <<handlers, lazy, inherit, deser, changes, late, unread>>
helperVars == <<which, cpVars, lrVars, btVars, gnVars, cyVars, tdVars>>

NoCopy == copy = 0 /\ sender = 0 /\ wire = 0 /\ remote = 0 /\ gone = 0 /\ biggest = 0
NoLRU == keepErrors = 0 /\ lru = 0 /\ jobs = 0 /\ lruCall = 0 /\ closing = 0 /\ resets = 0
NoBatch == method = 0 /\ batch = 0 /\ item = 0
NoGenerator == gen = 0 /\ wraps = 0 /\ steps = 0 /\ linear = 0 /\ out = 0
NoChain == chain = 0 /\ owner = 0 /\ reports = 0
NoDispatch == handlers = 0 /\ lazy = 0 /\ inherit = 0 /\ deser = 0 /\ changes = 0 /\ late = 0 /\ unread = 0

Init ==
    \/ which = "copy" /\ P!Init /\ NoLRU /\ NoBatch /\ NoGenerator /\ NoChain /\ NoDispatch
    \/ which = "lru" /\ L!Init /\ NoCopy /\ NoBatch /\ NoGenerator /\ NoChain /\ NoDispatch
    \/ which = "batch" /\ B!Init /\ NoCopy /\ NoLRU /\ NoGenerator /\ NoChain /\ NoDispatch
    \/ which = "generator" /\ G!Init /\ NoCopy /\ NoLRU /\ NoBatch /\ NoChain /\ NoDispatch
    \/ which = "trace" /\ T!Init /\ NoCopy /\ NoLRU /\ NoBatch /\ NoGenerator /\ NoDispatch
    \/ which = "dispatch" /\ D!Init /\ NoCopy /\ NoLRU /\ NoBatch /\ NoGenerator /\ NoChain
Next ==
    /\ UNCHANGED which
    /\ \/ which = "copy" /\ P!Next /\ UNCHANGED <<lrVars, btVars, gnVars, cyVars, tdVars>>
       \/ which = "lru" /\ L!Next /\ UNCHANGED <<cpVars, btVars, gnVars, cyVars, tdVars>>
       \/ which = "batch" /\ B!Next /\ UNCHANGED <<cpVars, lrVars, gnVars, cyVars, tdVars>>
       \/ which = "generator" /\ G!Next /\ UNCHANGED <<cpVars, lrVars, btVars, cyVars, tdVars>>
       \/ which = "trace" /\ T!Next /\ UNCHANGED <<cpVars, lrVars, btVars, gnVars, tdVars>>
       \/ which = "dispatch" /\ D!Next /\ UNCHANGED <<cpVars, lrVars, btVars, gnVars, cyVars>>
Spec == Init /\ [][Next]_helperVars

Symmetry == Permutations(LruCalls) \cup Permutations(Clients) \cup Permutations(Callees)

-----------------------------------------------------------------------------
\* A copy that ended while the remote objects lived made them equal to the
\* local ones, and at any time they hold only bytes of their own, in their
\* places (copy_to, copy_to_buffers, copy_to_fileobjs).
CopyExact == which = "copy" => P!CopyExact
\* alru_cache keeps at most maxsize entries and runs one task for a key unless
\* it was evicted or dropped on purpose; a call never gets a result older than
\* the last invalidation, clear or close before it, nor the cancellation of
\* another caller, nor, without cache_exceptions, an error that had happened;
\* and a close that was waited for leaves a cache that can be opened again.
CacheSound ==
    /\ [](which = "lru" => L!CacheSound)
    /\ [][which = "lru" => L!GivesNoOldError]_helperVars
\* A batch that returns ran every item once and answers in their order, and
\* after a cancelled one no item runs on that was not asked to stop.
RunOnce == which = "batch" => B!RunOnce
\* When all wrappers of a generator are gone the actor has let go of it; who is
\* told its end got all values in order; and as long as only the wrapper that
\* collects is sent on, one wrapper collects and its holder finds the generator.
GeneratorKept == which = "generator" => G!GeneratorKept
\* A call that waits for a lock held by a call that awaits it was reported, and
\* what is reported as a cycle is one.
CyclesReported ==
    /\ [](which = "trace" => T!DeadlockReported)
    /\ [][which = "trace" => T!ReportsACycle]_helperVars
\* A type is dispatched to the handler of its nearest base, unless that was
\* registered after the answer was stored, and what a serializer writes is read
\* by the same class.
Dispatched == which = "dispatch" => D!Dispatched
====
