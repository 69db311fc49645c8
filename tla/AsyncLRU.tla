---- MODULE AsyncLRU ----
(***************************************************************************)
(* alru_cache: a coroutine function whose concurrent calls with one key    *)
(* share a task, and whose last results are kept, with cache_invalidate,   *)
(* cache_clear, close and open.                                            *)
(***************************************************************************)
EXTENDS Naturals, Sequences, FiniteSets, SequencesExt

CONSTANTS LruCalls,   \* calls of the wrapped function
          LruKeys,    \* their keys
          MaxSize,    \* maxsize
          Closers,    \* the callers of close, each at most once for an open
          MaxResets   \* bound on invalidations, clears and closes

VARIABLES keepErrors, \* cache_exceptions
          lru,        \* closed, hits, misses, _cache as a sequence of tasks, tasks
          jobs,       \* the tasks made: key, outcome, resets of its key before it, evicted
          lruCall,    \* per call: pc, key, its task, resets of its key before it
          closing,    \* per close: none, called, waiting for tasks, done
          resets      \* history: per key, how often its entry was dropped on purpose

lruVars == <<keepErrors, lru, jobs, lruCall, closing, resets>>

NotClosing == [pc |-> "none", tasks |-> {}]
NoCache == [closed |-> FALSE, hits |-> 0, misses |-> 0, cache |-> <<>>, tasks |-> {}]
Init ==
    /\ keepErrors \in BOOLEAN
    /\ lru = NoCache
    /\ jobs = <<>>
    /\ lruCall = [c \in LruCalls |-> [pc |-> "idle", key |-> "none", job |-> 0, era |-> 0, got |-> "none"]]
    /\ closing = [i \in Closers |-> NotClosing]
    /\ resets = [k \in LruKeys |-> 0]

Without(cache, k) == SelectSeq(cache, LAMBDA j : jobs[j].key # k)
Entry(k) == {j \in ToSet(lru.cache) : jobs[j].key = k}
\* __cache_touch: move_to_end.
Touched(cache, j) == Append(SelectSeq(cache, LAMBDA i : i # j), j)

Begin(c, k) == [lruCall[c] EXCEPT !.key = k, !.era = resets[k]]

\* wrapped, up to its await, when it is closed or finds an entry it may use.
CallClosed(c, k) ==
    /\ lruCall[c].pc = "idle" /\ lru.closed
    /\ lruCall' = [lruCall EXCEPT ![c] = [Begin(c, k) EXCEPT !.pc = "done", !.got = "closed"]]
    /\ UNCHANGED <<keepErrors, lru, jobs, closing, resets>>

Usable(j) == keepErrors \/ jobs[j].state # "error"
CallHit(c, k) ==
    /\ lruCall[c].pc = "idle" /\ ~lru.closed
    /\ \E j \in Entry(k) :
         /\ Usable(j)
         /\ lru' = [lru EXCEPT !.hits = @ + 1, !.cache = Touched(@, j)]
         /\ lruCall' = [lruCall EXCEPT ![c] =
               [Begin(c, k) EXCEPT !.job = j,
                   !.pc = IF jobs[j].state = "running" THEN "wait" ELSE "done",
                   !.got = IF jobs[j].state = "running" THEN "none" ELSE jobs[j].state]]
    /\ UNCHANGED <<keepErrors, jobs, closing, resets>>

\* No entry, or one with an error that is not kept: a new task and future take
\* its place, and the eldest entry goes when there are too many.
CallMiss(c, k) ==
    /\ lruCall[c].pc = "idle" /\ ~lru.closed
    /\ \A j \in Entry(k) : ~Usable(j)
    /\ LET j    == Len(jobs) + 1
           full == Append(Without(lru.cache, k), j)
           new  == Append(jobs, [key |-> k, state |-> "running", era |-> resets[k], evicted |-> FALSE])
       IN /\ jobs' = IF Len(full) > MaxSize THEN [new EXCEPT ![full[1]].evicted = TRUE] ELSE new
          /\ lru' = [lru EXCEPT !.misses = @ + 1, !.tasks = @ \cup {j},
                                !.cache = IF Len(full) > MaxSize THEN Tail(full) ELSE full]
          /\ lruCall' = [lruCall EXCEPT ![c] = [Begin(c, k) EXCEPT !.pc = "wait", !.job = j]]
    /\ UNCHANGED <<keepErrors, closing, resets>>

\* The task ends: _done_callback passes its outcome to the future, the future
\* to everyone who awaits it; tasks.remove.
JobEnds(j, state) ==
    /\ jobs[j].state = "running"
    /\ jobs' = [jobs EXCEPT ![j].state = state]
    /\ lru' = [lru EXCEPT !.tasks = @ \ {j}]
    /\ lruCall' = [c \in LruCalls |-> IF lruCall[c].pc = "wait" /\ lruCall[c].job = j
                                      THEN [lruCall[c] EXCEPT !.pc = "done", !.got = state]
                                      ELSE lruCall[c]]
    /\ UNCHANGED <<keepErrors, closing, resets>>

CancelCallUnshielded(c) ==
    /\ lruCall[c].pc = "wait"
    /\ lruCall' = [d \in LruCalls |-> IF lruCall[d].pc = "wait" /\ lruCall[d].job = lruCall[c].job
                                      THEN [lruCall[d] EXCEPT !.pc = "done", !.got = "cancelled"]
                                      ELSE lruCall[d]]
    /\ UNCHANGED <<keepErrors, lru, jobs, closing, resets>>
\* A caller is cancelled: asyncio.shield keeps the future.
CancelCall(c) ==
    /\ lruCall[c].pc = "wait"
    /\ lruCall' = [lruCall EXCEPT ![c].pc = "cancelled"]
    /\ UNCHANGED <<keepErrors, lru, jobs, closing, resets>>

Resets(ks) == resets' = [k \in LruKeys |-> resets[k] + IF k \in ks THEN 1 ELSE 0]
MayReset == \A k \in LruKeys : resets[k] < MaxResets

Invalidate(k) ==
    /\ MayReset /\ Resets({k})
    /\ lru' = [lru EXCEPT !.cache = Without(@, k)]
    /\ UNCHANGED <<keepErrors, jobs, lruCall, closing>>

Cleared == [lru EXCEPT !.hits = 0, !.misses = 0, !.cache = <<>>, !.tasks = {}]
CacheClear ==
    /\ MayReset /\ Resets(LruKeys)
    /\ lru' = Cleared
    /\ UNCHANGED <<keepErrors, jobs, lruCall, closing>>

\* close: from now on calls are refused.  With cancel the tasks are asked to
\* stop; a task may end as "cancelled" in any case.
Close(i) ==
    /\ MayReset /\ ~lru.closed /\ closing[i].pc = "none"
    /\ lru' = [lru EXCEPT !.closed = TRUE]
    /\ closing' = [closing EXCEPT ![i].pc = "called"]
    /\ UNCHANGED <<keepErrors, jobs, lruCall, resets>>

\* _wait_closed gathers the tasks known when it starts, _close_waited clears.
WaitClosed(i) ==
    /\ closing[i].pc = "called"
    /\ closing' = [closing EXCEPT ![i] = [pc |-> "waiting", tasks |-> lru.tasks]]
    /\ UNCHANGED <<keepErrors, lru, jobs, lruCall, resets>>

\* (with return_exceptions false, which is not the default, as soon as one failed).
CloseWaited(i) ==
    /\ closing[i].pc = "waiting"
    /\ \/ \A j \in closing[i].tasks : jobs[j].state # "running"
       \/ \E j \in closing[i].tasks : jobs[j].state \in {"error", "cancelled"}
    /\ lru' = Cleared
    /\ closing' = [closing EXCEPT ![i] = [pc |-> IF lru.closed THEN "done" ELSE "none", tasks |-> {}]]
    /\ Resets(LruKeys)
    /\ UNCHANGED <<keepErrors, jobs, lruCall>>

\* open raises when the cache was not closed correctly.
Clean == lru.hits = 0 /\ lru.misses = 0 /\ lru.tasks = {} /\ lru.cache = <<>>
Open ==
    /\ lru.closed /\ Clean
    /\ lru' = [lru EXCEPT !.closed = FALSE]
    /\ closing' = [i \in Closers |-> IF closing[i].pc = "done" THEN NotClosing ELSE closing[i]]
    /\ UNCHANGED <<keepErrors, jobs, lruCall, resets>>

Next ==
    \/ \E c \in LruCalls : \/ CancelCall(c)
                           \/ \E k \in LruKeys : CallClosed(c, k) \/ CallHit(c, k) \/ CallMiss(c, k)
    \/ \E j \in DOMAIN jobs, s \in {"ok", "error", "cancelled"} : JobEnds(j, s)
    \/ \E k \in LruKeys : Invalidate(k)
    \/ \E i \in Closers : Close(i) \/ WaitClosed(i) \/ CloseWaited(i)
    \/ CacheClear \/ Open

-----------------------------------------------------------------------------
\* The cache holds at most maxsize entries, and two tasks for one key run at
\* the same time only when the first was evicted or dropped on purpose.
OneJobPerKey ==
    /\ Len(lru.cache) <= MaxSize
    /\ \A i, j \in DOMAIN jobs :
          i < j /\ jobs[i].key = jobs[j].key /\ jobs[i].state = "running"
              => jobs[i].evicted \/ jobs[i].era < jobs[j].era

\* A call never gets a result from before the last invalidation, clear or
\* close that preceded it.
NotStale ==
    \A c \in LruCalls : lruCall[c].job # 0 => jobs[lruCall[c].job].era >= lruCall[c].era

\* Without cache_exceptions no call gets the error of a task that had ended
\* when it was made; a cancellation, however, is kept like a result.
GivesNoOldError ==
    \A c \in LruCalls : ~keepErrors /\ lruCall[c].pc = "idle" /\ lruCall'[c].pc = "done"
                            => lruCall'[c].got # "error"

\* A caller that is cancelled takes nothing from the others: whoever is told
\* that the call was cancelled shares a task that really was.
CancelledAlone ==
    \A c \in LruCalls : lruCall[c].pc = "done" /\ lruCall[c].got = "cancelled"
        => jobs[lruCall[c].job].state = "cancelled"

\* A close that was waited for leaves a cache that can be opened.
ClosedIsClean == \A i \in Closers : closing[i].pc = "done" /\ lru.closed => Clean

\* What alru_cache promises its callers at any time.
CacheSound == OneJobPerKey /\ NotStale /\ CancelledAlone /\ ClosedIsClean
====
