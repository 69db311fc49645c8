---- MODULE Batch ----
(***************************************************************************)
(* Batched methods: a call of an extensible method or of its batch, which  *)
(* runs the method's batch implementation, its single one, or one task for *)
(* every item, and the cancellation of the caller meanwhile.               *)
(***************************************************************************)
EXTENDS Naturals, Sequences, FiniteSets

CONSTANTS MaxDelays   \* items of a batch

VARIABLES method,     \* is_async, whether batch_func is there
          batch,      \* the call: pc, items, has_single_func, cancelled, result
          item        \* per item: state of its own run, how often it was run, asked to cancel

batchVars == <<method, batch, item>>

NoItem == [state |-> "none", runs |-> 0, asked |-> FALSE, notImpl |-> FALSE]
Init ==
    /\ method \in [async : BOOLEAN, batch : BOOLEAN]
    /\ batch = [pc |-> "idle", n |-> 0, single |-> TRUE, cancelled |-> FALSE, end |-> "none", result |-> <<>>]
    /\ item = [i \in 1 .. MaxDelays |-> NoItem]

Items == 1 .. batch.n
Returns(b, end, result) == [b EXCEPT !.pc = "done", !.end = end, !.result = result]
InOrder == [i \in Items |-> i]
\* The run of one item ends with state s.
Ran(i, s) == [item EXCEPT ![i].state = s, ![i].runs = @ + 1, ![i].notImpl = @ \/ s = "notimpl"]
Begun(S) == [i \in DOMAIN item |-> IF i \in S THEN [item[i] EXCEPT !.state = "running"] ELSE item[i]]

\* __call__: one item, its single implementation first.
Call ==
    /\ batch.pc = "idle"
    /\ batch' = [batch EXCEPT !.n = 1, !.pc = "single"]
    /\ item' = Begun({1})
    /\ UNCHANGED method

\* _async_batch and _sync_batch: nothing to do, the single implementation for
\* one item (async only), the batch implementation, or the items separately.
CallWithLists(n) ==
    /\ batch.pc = "idle"
    /\ batch' = LET b == [batch EXCEPT !.n = n] IN
          IF n = 0 THEN Returns(b, "ok", <<>>)
          ELSE [b EXCEPT !.pc = IF method.async /\ n = 1 THEN "single"
                                ELSE IF method.batch THEN "batch"
                                ELSE IF method.async THEN "gather" ELSE "loop"]
    /\ item' = Begun(IF n = 0 THEN {}
                     ELSE IF (method.async /\ n = 1) \/ (~method.batch /\ ~method.async) THEN {1}
                     ELSE IF method.batch THEN {} ELSE 1 .. n)
    /\ UNCHANGED method

\* _async_call and _sync_call: a NotImplementedError of the single
\* implementation makes them use the batch implementation, if there is one.
SingleEnds(s) ==
    /\ batch.pc = "single"
    /\ item' = Ran(1, s)
    /\ batch' = CASE s = "ok" -> Returns(batch, "ok", <<1>>)
                  [] s = "error" -> Returns(batch, "error", <<>>)
                  [] s = "notimpl" -> IF method.batch THEN [batch EXCEPT !.single = FALSE, !.pc = "batch"]
                                      ELSE Returns([batch EXCEPT !.single = FALSE], "error", <<>>)
    /\ UNCHANGED method

\* The batch implementation runs all the items and gives a list, or raises.
BatchEnds(s) ==
    /\ batch.pc = "batch"
    /\ item' = [i \in DOMAIN item |-> IF i \in Items THEN [item[i] EXCEPT !.state = s, !.runs = @ + 1] ELSE item[i]]
    /\ batch' = Returns(batch, s, IF s = "ok" THEN InOrder ELSE <<>>)
    /\ UNCHANGED method

\* _sync_batch, item by item; an error ends the loop.
LoopStep(i, s) ==
    /\ batch.pc = "loop" /\ item[i].state = "running"
    /\ item' = LET ran == Ran(i, s) IN
          IF s = "ok" /\ i < batch.n THEN [ran EXCEPT ![i + 1].state = "running"] ELSE ran
    /\ batch' = IF s # "ok" THEN Returns(batch, "error", <<>>)
                ELSE IF i = batch.n THEN Returns(batch, "ok", InOrder) ELSE batch
    /\ UNCHANGED method

\* A task of _async_batch ends.  The gather returns when all ended well, and
\* raises with the first that did not, whatever the others do.
TaskEnds(i, s) ==
    /\ i \in Items /\ item[i].state = "running" /\ batch.pc \in {"gather", "again", "done"}
    /\ s = "cancelled" => item[i].asked
    /\ item' = Ran(i, s)
    /\ batch' = IF batch.pc = "done" THEN batch
                ELSE IF s # "ok" THEN Returns(batch, IF s = "cancelled" THEN s ELSE "error", <<>>)
                ELSE IF \A j \in Items \ {i} : item[j].state = "ok" THEN Returns(batch, "ok", InOrder)
                ELSE batch
    /\ UNCHANGED method

CancelBatchOnly ==
    /\ batch.pc \in {"single", "batch", "gather"} /\ method.async /\ ~batch.cancelled
    /\ batch' = Returns([batch EXCEPT !.cancelled = TRUE], "cancelled", <<>>)
    /\ UNCHANGED <<method, item>>

\* The caller is cancelled.  While tasks are gathered all of them are cancelled
\* and gathered again; what ended in the meantime counts.
CancelBatch ==
    /\ batch.pc \in {"single", "batch", "gather"} /\ method.async /\ ~batch.cancelled
    /\ IF batch.pc = "gather"
       THEN /\ item' = [i \in DOMAIN item |-> IF i \in Items THEN [item[i] EXCEPT !.asked = TRUE] ELSE item[i]]
            /\ batch' = [batch EXCEPT !.pc = "again", !.cancelled = TRUE]
       ELSE /\ item' = [i \in DOMAIN item |-> IF item[i].state = "running"
                                              THEN [item[i] EXCEPT !.state = "cancelled"] ELSE item[i]]
            /\ batch' = Returns([batch EXCEPT !.cancelled = TRUE], "cancelled", <<>>)
    /\ UNCHANGED method

Next ==
    \/ Call \/ CancelBatch
    \/ \E n \in 0 .. MaxDelays : CallWithLists(n)
    \/ \E s \in {"ok", "error", "notimpl"} : SingleEnds(s)
    \/ \E s \in {"ok", "error"} : BatchEnds(s)
    \/ \E i \in 1 .. MaxDelays, s \in {"ok", "error", "cancelled"} :
          TaskEnds(i, s) \/ (s # "cancelled" /\ LoopStep(i, s))

-----------------------------------------------------------------------------
\* A batch that returns has run every item exactly once and gives the results
\* in the order of the items; an item ran twice only when its own call raised
\* NotImplementedError.  After a cancelled batch no task runs on that was not
\* asked to stop (after an error the others do run on, outside the actor's lock).
RunOnce ==
    /\ \A i \in DOMAIN item : item[i].runs <= 1 + IF item[i].notImpl THEN 1 ELSE 0
    /\ batch.end = "ok" => \A i \in Items : item[i].runs >= 1 /\ item[i].state = "ok" /\ batch.result[i] = i
    /\ batch.cancelled => \A i \in Items : item[i].state = "running" => item[i].asked
====
