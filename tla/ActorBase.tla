---- MODULE ActorBase ----
(***************************************************************************)
(* Calls on one actor: the actor lock and the dispatch of core.pyx, the    *)
(* message task of the pool that runs the actor, and the client that waits *)
(* for the answer or cancels the call.                                     *)
(*                                                                         *)
(* A call reaches the actor as a message to its pool, as a message to the  *)
(* main pool that forwards it, or directly through a LocalActorRef.  The   *)
(* actor may be destroyed and created again under the same uid; each       *)
(* object is an incarnation with its own lock.                             *)
(***************************************************************************)
EXTENDS Queues

CONSTANTS Calls,      \* calls (and the coroutines awaited by them)
          Menu,       \* per call: the pairs of a way to call (message, forwarded,
                      \* local) and a kind of method (see Method) to choose from
          Locks,      \* {"lock"} for Actor, {"fake"} for StatelessActor
          MaxActors,  \* bound on the incarnations of the uid
          MaxYields,  \* bound on the yields of a generator method
          Cancels     \* calls whose client may be cancelled

\* Methods: `locked' and `nolock' await once in their body; `gen' is an async
\* generator, `genCatch' one that catches CancelledError, `genSelf' one that
\* yields a call on its own actor; `pair', `mixed' return a tuple with two
\* awaitables, `mixed' with a plain value in front of them.
Method == {"locked", "nolock", "gen", "genCatch", "genSelf", "pair", "mixed"}
Generators == {"gen", "genCatch", "genSelf"}
Nobody == "nobody"
Actors == 1..MaxActors

ASSUME ActorAssumption ==
    /\ Nobody \notin Calls
    /\ \A c \in Calls : Menu[c] \subseteq {"message", "forwarded", "local"} \X Method
    /\ MaxActors \in Nat \ {0} /\ MaxYields \in Nat

VARIABLES lockKind,  \* _create_lock: a Lock or a _FakeLock
          live,      \* the incarnation in pool._actors, 0 if none
          made,      \* incarnations created
          weak,      \* the incarnation LocalActorRef._actor_weakref was made for
          holder,    \* per incarnation: the call that holds _lock
          queue,     \* per incarnation: the calls waiting for _lock, in order
          task,      \* per call: the coroutine that serves it
          client     \* per call: the caller

vars == <<lockKind, live, made, weak, holder, queue, task, client>>

NoTask == [pc |-> "none", kind |-> "locked", via |-> "local", on |-> 0, seg |-> 0,
           thrown |-> FALSE, child |-> Nobody, pend |-> {}, res |-> "none"]
NoClient == [pc |-> "idle", got |-> "none", acked |-> FALSE, again |-> FALSE]

Init ==
    /\ lockKind \in Locks
    /\ live = 1 /\ made = 1 /\ weak = 1
    /\ holder = [a \in Actors |-> Nobody]
    /\ queue = [a \in Actors |-> <<>>]
    /\ task = [c \in Calls |-> NoTask]
    /\ client = [c \in Calls |-> NoClient]

Active(c) == task[c].pc \notin {"none", "sent", "end"}
InBody(c) == task[c].pc = "body"

\* Somebody refers to the object: the pool, or the coroutine of a call on it.
Alive(a) == a # 0 /\ (a = live \/ \E c \in Calls : Active(c) /\ task[c].on = a)

\* The tasks and the locks, as one value that a step rewrites.
Now == [task |-> task, holder |-> holder, queue |-> queue]
Become(s) == task' = s.task /\ holder' = s.holder /\ queue' = s.queue
Put(s, c, t) == [s EXCEPT !.task[c] = t]

TakeAnyway(s, c) ==
    [s EXCEPT !.task[c].pc = "body",
              !.holder[s.task[c].on] = IF s.task[c].kind = "nolock" \/ lockKind = "fake" THEN @ ELSE c]
\* asyncio.Lock.acquire, _FakeLock.__aenter__, or no lock for a no_lock method:
\* the call runs, or queues behind the holder and the earlier waiters.
Take(s, c) ==
    LET t == s.task[c]
    IN IF t.kind = "nolock" \/ lockKind = "fake"
       THEN [s EXCEPT !.task[c].pc = "body"]
       ELSE IF s.holder[t.on] = Nobody
       THEN [s EXCEPT !.task[c].pc = "body", !.holder[t.on] = c]
       ELSE [s EXCEPT !.task[c].pc = "queued", !.queue[t.on] = Append(@, c)]

\* asyncio.Lock.release: the first waiter runs next.
Leave(s, c) ==
    LET a == s.task[c].on
        q == s.queue[a]
    IN IF s.holder[a] # c THEN s
       ELSE IF q = <<>> THEN [s EXCEPT !.holder[a] = Nobody]
       ELSE [s EXCEPT !.holder[a] = Head(q), !.queue[a] = Tail(q), !.task[Head(q)].pc = "body"]

-----------------------------------------------------------------------------
\* The caller: IndigenActorContext.send sends the message and waits for the
\* future; LocalActorRefMethod.__call__ looks the actor up and runs the method
\* in the caller's own task.
Absent(t) == [t EXCEPT !.pc = "end", !.res = "absent"]
Start(s, c, t, a) == IF a = 0 THEN Put(s, c, Absent(t)) ELSE Take(Put(s, c, [t EXCEPT !.on = a]), c)
ReferentKept == IF weak # 0 THEN weak ELSE live
Referent == IF Alive(weak) THEN weak ELSE live

Call(c, via, kind) ==
    /\ client[c].pc = "idle"
    /\ client' = [client EXCEPT ![c].pc = "wait"]
    /\ \/ /\ via = "local"
          /\ weak' = Referent
          /\ Become(Start(Now, c, [NoTask EXCEPT !.kind = kind], Referent))
       \/ /\ via # "local"
          /\ Become(Put(Now, c, [NoTask EXCEPT !.pc = "sent", !.kind = kind, !.via = via]))
          /\ UNCHANGED weak
    /\ UNCHANGED <<lockKind, live, made>>

\* process_message and ActorPoolBase.send up to the first await in the actor.
Receive(c) ==
    /\ task[c].pc = "sent"
    /\ Become(Start(Now, c, task[c], live))
    /\ UNCHANGED <<lockKind, live, made, weak, client>>

-----------------------------------------------------------------------------
\* __on_receive__ and _run_actor_async_generator, one step per lock section.
Ended(t, res) == [NoTask EXCEPT !.pc = "end", !.kind = t.kind, !.via = t.via, !.res = res]

\* The first section of a generator method only makes the generator, which
\* asks for the lock again at once.
MakeGenerator(c) ==
    /\ InBody(c) /\ task[c].kind \in Generators /\ task[c].seg = 0
    /\ Become(Take(Put(Leave(Now, c), c, [task[c] EXCEPT !.seg = 1]), c))
    /\ UNCHANGED <<lockKind, live, made, weak, client>>

\* asend, or athrow, reaches a yield: the lock is released and the yielded
\* awaitable is handled.
AtYield(c) ==
    /\ InBody(c) /\ task[c].kind \in Generators
    /\ task[c].seg \in 1..MaxYields
    /\ task[c].thrown => task[c].kind = "genCatch"
YieldingAgain(t) == [t EXCEPT !.pc = "yielded", !.thrown = FALSE]
Yielding(t) == [t EXCEPT !.pc = "yielded", !.seg = @ + 1, !.thrown = FALSE]

Yield(c) ==
    /\ AtYield(c)
    /\ Become(Put(Leave(Now, c), c, Yielding(task[c])))
    /\ UNCHANGED <<lockKind, live, made, weak, client>>

\* The awaitable is a call d on the actor itself, made through self.ref().
YieldCall(c, d) ==
    /\ AtYield(c) /\ task[c].kind = "genSelf"
    /\ client[d].pc = "idle"
    /\ client' = [client EXCEPT ![d].pc = "wait"]
    /\ Become(Start(Put(Leave(Now, c), c, [Yielding(task[c]) EXCEPT !.child = d]),
                    d, NoTask, live))
    /\ UNCHANGED <<lockKind, live, made, weak>>

\* The yielded awaitable is done: the generator wants the lock to go on.
Resume(c) ==
    /\ task[c].pc = "yielded"
    /\ task[c].child # Nobody => client[task[c].child].pc = "done"
    /\ Become(Take(Put(Now, c, [task[c] EXCEPT !.child = Nobody]), c))
    /\ UNCHANGED <<lockKind, live, made, weak, client>>

\* The method returns, or the generator ends: StopAsyncIteration and Return
\* are results; a CancelledError it was thrown ends it.  A tuple with
\* awaitables is left to _handle_actor_result, without the lock.
Return(c) ==
    /\ InBody(c)
    /\ task[c].kind \in Generators => task[c].seg > 0
    /\ LET cancelled == task[c].thrown /\ task[c].kind # "genCatch"
       IN Become(Put(Leave(Now, c), c,
             IF task[c].kind \in {"pair", "mixed"}
             THEN [task[c] EXCEPT !.pc = "gather", !.pend = {1, 2}]
             ELSE Ended(task[c], IF cancelled THEN "cancelled" ELSE "result")))
    /\ UNCHANGED <<lockKind, live, made, weak, client>>

\* _handle_actor_result: asyncio.wait over one task per awaitable; then
\* values[pos] = tasks[pos].result(), an IndexError when a plain value stands
\* in front of the awaitables.
Gathered(kind) == IF kind = "mixed" THEN "indexerror" ELSE "result"
GatherDone(c, k) ==
    /\ task[c].pc = "gather" /\ k \in task[c].pend
    /\ Become(Put(Now, c, IF task[c].pend = {k} THEN Ended(task[c], Gathered(task[c].kind))
                          ELSE [task[c] EXCEPT !.pend = @ \ {k}]))
    /\ UNCHANGED <<lockKind, live, made, weak, client>>

-----------------------------------------------------------------------------
\* task.cancel(): CancelledError is raised at the innermost await.  While a
\* yielded awaitable is handled, the bare except of the generator loop keeps
\* the error for athrow, which needs the lock first.
Interrupted(s, c) ==
    LET t == s.task[c]
        dead == Ended(t, IF t.pc = "gather" /\ t.kind = "mixed" /\ 2 \notin t.pend
                         THEN Gathered(t.kind) ELSE "cancelled")
    IN CASE t.pc = "queued" ->
              [Put(s, c, dead) EXCEPT !.queue[t.on] = Without(@, c)]
         [] t.pc \in {"body", "gather"} -> Put(Leave(s, c), c, dead)
         [] t.pc = "yielded" -> Take(Put(s, c, [t EXCEPT !.thrown = TRUE, !.child = Nobody]), c)
         [] OTHER -> s
Interrupt(c) ==
    Become(Interrupted(IF task[c].child = Nobody THEN Now ELSE Interrupted(Now, task[c].child), c))

\* The caller is cancelled: a remote call is first cancelled at the address it
\* was sent to, a local one is interrupted with its caller.
ClientCancel(c) ==
    /\ c \in Cancels
    /\ client[c].pc = "wait"
    /\ \/ /\ task[c].via # "local"
          /\ client' = [client EXCEPT ![c].pc = "cancelling"]
          /\ UNCHANGED <<task, holder, queue>>
       \/ /\ task[c].via = "local" /\ Active(c)
          /\ Interrupt(c)
          /\ UNCHANGED client
    /\ UNCHANGED <<lockKind, live, made, weak>>

ServerCancelAtOnce(c) ==
    /\ client[c].pc = "cancelling"
    /\ task[c].pc # "sent"
    /\ client' = [client EXCEPT ![c].pc = "done", ![c].got = "cancelled", ![c].acked = Active(c)]
    /\ IF Active(c) /\ task[c].via # "forwarded" THEN Interrupt(c) ELSE UNCHANGED <<task, holder, queue>>
    /\ UNCHANGED <<lockKind, live, made, weak>>

\* ActorPoolBase.cancel at that address.  A forwarded call is found there as
\* the forwarding task of the main pool: the call itself goes on.
ServerCancel(c) ==
    /\ client[c].pc = "cancelling"
    /\ task[c].pc # "sent"
    /\ IF Active(c)
       THEN /\ client' = [client EXCEPT ![c].acked = TRUE, ![c].pc = "final"]
            /\ IF task[c].via = "forwarded" THEN UNCHANGED <<task, holder, queue>>
               ELSE Interrupt(c)
       ELSE \* CannotCancelTask
            /\ client' = [client EXCEPT ![c].pc = "done", ![c].got = "cancelled"]
            /\ UNCHANGED <<task, holder, queue>>
    /\ UNCHANGED <<lockKind, live, made, weak>>

\* A second cancellation, while the first one is being carried out.
CancelAgain(c) ==
    /\ c \in Cancels
    /\ client[c].pc \in {"cancelling", "final"}
    /\ client' = [client EXCEPT ![c].pc = "done", ![c].got = "cancelled", ![c].again = TRUE]
    /\ UNCHANGED <<lockKind, live, made, weak, holder, queue, task>>

\* The answer reaches the caller.  A cancelled forwarding answers by itself.
Reply(c) ==
    /\ client[c].pc \in {"wait", "final"}
    /\ LET forwarding == task[c].via = "forwarded" /\ client[c].acked
       IN /\ forwarding \/ task[c].pc = "end"
          /\ client' = [client EXCEPT ![c].pc = "done",
                                      ![c].got = IF forwarding THEN "cancelled" ELSE task[c].res]
    /\ UNCHANGED <<lockKind, live, made, weak, holder, queue, task>>

-----------------------------------------------------------------------------
\* destroy_actor and create_actor of the pool (ActorPool has their details).
Destroy ==
    /\ live # 0
    /\ live' = 0
    /\ UNCHANGED <<lockKind, made, weak, holder, queue, task, client>>

Create ==
    /\ live = 0 /\ made < MaxActors
    /\ live' = made + 1 /\ made' = made + 1
    /\ UNCHANGED <<lockKind, weak, holder, queue, task, client>>

Serve(c) ==
    \/ Receive(c) \/ MakeGenerator(c) \/ Yield(c) \/ Resume(c) \/ Return(c)
    \/ \E d \in Calls : YieldCall(c, d)
    \/ \E k \in {1, 2} : GatherDone(c, k)
    \/ ServerCancel(c) \/ Reply(c)

Next ==
    \/ \E c \in Calls :
         \/ \E m \in Menu[c] : Call(c, m[1], m[2])
         \/ Serve(c) \/ ClientCancel(c) \/ CancelAgain(c)
    \/ Destroy \/ Create

Spec == Init /\ [][Next]_vars

\* Weak fairness of Serve(c), for the event loops run what is ready; Ready(c)
\* is its enabling condition.
Ready(c) ==
    \/ task[c].pc \in {"sent", "body", "gather"}
    \/ task[c].pc = "yielded" /\ (task[c].child # Nobody => client[task[c].child].pc = "done")
    \/ client[c].pc = "cancelling"
    \/ /\ client[c].pc \in {"wait", "final"}
       /\ task[c].pc = "end" \/ (task[c].via = "forwarded" /\ client[c].acked)
FairSpec == Spec /\ \A c \in Calls : []<>~Ready(c) \/ []<><<Serve(c)>>_vars

\* "Stateful actors ensure thread safety": of the calls on one Actor object
\* that take its lock, at most one is between two awaits of its method, and
\* it is the holder; every waiter is queued exactly once and the lock is never
\* held by a call that ended, was cancelled or gave it up at a yield.
OneAtATime ==
    lockKind = "lock" => \A a \in Actors :
        /\ {c \in Calls : InBody(c) /\ task[c].on = a /\ task[c].kind # "nolock"}
              = {holder[a]} \ {Nobody}
        /\ {c \in Calls : task[c].pc = "queued" /\ task[c].on = a} = Range(queue[a])
        /\ holder[a] = Nobody => queue[a] = <<>>

\* Told is over: a caller that is told the outcome of a call sent to the
\* actor's own pool, even by a cancellation, leaves nothing running: the method
\* has ended (a forwarded call and a caller cancelled twice are the exceptions);
\* and unless the method itself catches the CancelledError, an acknowledged
\* cancellation gives an error and never a result.
ToldIsOver ==
    \A c \in Calls : client[c].pc = "done" =>
        /\ task[c].via # "forwarded" /\ ~client[c].again => ~Active(c)
        /\ client[c].acked /\ task[c].kind # "genCatch" => client[c].got \in {"cancelled", "indexerror"}

\* A call through a local reference runs on the registered actor, or on an
\* older object of the same uid only while another call still runs on that.
LocalNotStale ==
    [][\A c \in Calls :
          task[c].pc = "none" /\ task'[c].pc \in {"body", "queued"} /\ task'[c].via = "local"
            => \/ task'[c].on = live
               \/ \E d \in Calls \ {c} : Active(d) /\ task[d].on = task'[c].on]_vars

\* Every call ends and its caller is told, whatever is cancelled or destroyed
\* meanwhile, generators that call their own actor included: the lock is
\* neither lost nor held across a yield.
EveryCallEnds == <>[](\A c \in Calls : client[c].pc \in {"idle", "done"})
====
