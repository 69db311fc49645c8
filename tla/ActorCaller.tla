---------------------------- MODULE ActorCaller ----------------------------
(***************************************************************************)
(* How a call travels to another pool and back (backends/core.py, with     *)
(* Router.get_client, the socket and in-process channels, and the receive  *)
(* loop of the pool that serves the call).                                 *)
(*                                                                         *)
(* All calls of the model go to one address.  A call takes the router's    *)
(* lock, finds or opens a client, registers a future under its message id  *)
(* and sends; one listener task per client matches replies to futures.     *)
(* Code between two awaits is one action.  A call opens at most one        *)
(* client, and a client has the name of the call that opened it.           *)
(***************************************************************************)
EXTENDS Queues

CONSTANTS
    Call,         \* message ids, each used for one call
    None,         \* no call (the lock is free), no client
    Kinds,        \* the channels there may be between the two pools: "socket", "dummy"
    Cancellable,  \* calls whose awaiting task may be cancelled
    BadReplies,   \* may a reply fail to deserialize
    MaxStops,     \* bound: how often the serving pool goes away
    MayStop       \* may the calling side be stopped

ASSUME ActorCallerAssumption ==
    /\ None \notin Call
    /\ Kinds \subseteq {"socket", "dummy"}
    /\ Cancellable \subseteq Call
    /\ {BadReplies, MayStop} \subseteq BOOLEAN
    /\ MaxStops \in Nat

VARIABLES
    pc,        \* call -> where its task is suspended
    on,        \* call -> the client it is sent on
    fut,       \* call -> the state of its future
    lock,      \* who holds Router._lock
    queue,     \* who waits for it, in order
    cache,     \* Router._cache for the address
    created,   \* clients opened so far
    closed,    \* client -> client.closed
    futures,   \* client -> _client_to_message_futures[client], in the dict's order
    listener,  \* client -> where its _listen task is
    peer,      \* client -> the serving side's channel is open
    toServer,  \* client -> requests on their way
    toClient,  \* client -> replies on their way
    working,   \* requests the serving pool is processing, with their client
    up,        \* the serving pool is running
    stops,     \* how often it went away
    stop,      \* ActorCaller.stop: "no", "closing", "stopped"
    kind       \* the channel between the two pools

connection == <<closed, peer, toServer, toClient>>
routing == <<lock, queue, cache, created>>
server == <<working, up, stops>>
rest == <<stop, kind>>
vars == <<pc, on, fut, lock, queue, cache, created, closed, futures, listener,
          peer, toServer, toClient, working, up, stops, stop, kind>>

Client == Call
Reply == [id : Call, good : BOOLEAN]
Running == {"check", "recv", "closing"}

Init ==
    /\ pc = [j \in Call |-> "idle"]
    /\ on = [j \in Call |-> None]
    /\ fut = [j \in Call |-> "none"]
    /\ lock = None
    /\ queue = <<>>
    /\ cache = None
    /\ created = {}
    /\ closed = [c \in Client |-> FALSE]
    /\ futures = [c \in Client |-> <<>>]
    /\ listener = [c \in Client |-> "none"]
    /\ peer = [c \in Client |-> FALSE]
    /\ toServer = [c \in Client |-> <<>>]
    /\ toClient = [c \in Client |-> <<>>]
    /\ working = {}
    /\ up = TRUE
    /\ stops = 0
    /\ stop = "no"
    /\ kind \in Kinds

(* A task awaits the future of j: with wait=True, or through the reference *)
(* that call handed back.                                                  *)
Awaiting(j) == pc[j] = "wait" /\ fut[j] = "pending"

-----------------------------------------------------------------------------
(* call_with_client: the future is registered before the message is sent.  *)
(* A socket send awaits the serialization and drain; an in-process one     *)
(* puts the message into the queue at once.                                *)
Registered(j, c) ==
    /\ on' = [on EXCEPT ![j] = c]
    /\ fut' = [fut EXCEPT ![j] = "pending"]
    /\ futures' = [futures EXCEPT ![c] = Append(@, j)]
    /\ IF kind = "socket"
       THEN pc' = [pc EXCEPT ![j] = "send"] /\ UNCHANGED toServer
       ELSE pc' = [pc EXCEPT ![j] = "wait"] /\ toServer' = [toServer EXCEPT ![c] = Append(@, j)]

CachedOpen == cache # None /\ ~closed[cache]

(* connect succeeded: the client is cached, the caller starts its          *)
(* listener, and the waiting call goes on.                                 *)
Connected(j) ==
    /\ up
    /\ created' = created \cup {j}
    /\ cache' = j
    /\ peer' = [peer EXCEPT ![j] = TRUE]
    /\ listener' = [listener EXCEPT ![j] = "check"]
    /\ Registered(j, j)
    /\ UNCHANGED <<closed, toClient>>

(* Mutant: the refused call is left to a retry that does not exist.        *)
RefusedRetry(j) ==
    /\ ~up
    /\ cache' = None
    /\ pc' = [pc EXCEPT ![j] = "retry"]
    /\ UNCHANGED <<on, fut, created, futures, listener, connection>>

Refused(j) ==
    /\ ~up
    /\ cache' = None
    /\ pc' = [pc EXCEPT ![j] = "raised"]
    /\ UNCHANGED <<on, fut, created, futures, listener, connection>>

(* Router.get_client inside the lock.  Opening a socket suspends and keeps *)
(* the lock.                                                               *)
GetClient(j) ==
    \/ /\ CachedOpen
       /\ Registered(j, cache)
       /\ UNCHANGED <<lock, cache, created, closed, listener, peer, toClient>>
    \/ /\ ~CachedOpen /\ kind = "socket"
       /\ lock' = j
       /\ cache' = None
       /\ pc' = [pc EXCEPT ![j] = "connect"]
       /\ UNCHANGED <<on, fut, created, futures, listener, connection>>
    \/ /\ ~CachedOpen /\ kind = "dummy"
       /\ Connected(j) \/ Refused(j)
       /\ UNCHANGED lock

(* Mutant: get_client without the lock.                                    *)
StartCallUnlocked(j) ==
    /\ pc[j] = "idle"
    /\ GetClient(j)
    /\ UNCHANGED <<queue, server, rest>>

(* ActorCaller.call; asyncio.Lock serves its waiters in order.             *)
StartCall(j) ==
    /\ pc[j] = "idle"
    /\ IF lock = None /\ queue = <<>>
       THEN GetClient(j) /\ UNCHANGED queue
       ELSE /\ queue' = Append(queue, j)
            /\ pc' = [pc EXCEPT ![j] = "lock"]
            /\ UNCHANGED <<on, fut, lock, cache, created, futures, listener, connection>>
    /\ UNCHANGED <<server, rest>>

Acquire(j) ==
    /\ lock = None /\ queue # <<>> /\ j = Head(queue)
    /\ queue' = Tail(queue)
    /\ GetClient(j)
    /\ UNCHANGED <<server, rest>>

Connect(j) ==
    /\ pc[j] = "connect"
    /\ Connected(j) \/ Refused(j)
    /\ lock' = None
    /\ UNCHANGED <<queue, server, rest>>

(* writer.drain returned.  What is written to a connection whose other end *)
(* is gone is lost.                                                        *)
SendDone(j) ==
    /\ pc[j] = "send" /\ ~closed[on[j]]
    /\ pc' = [pc EXCEPT ![j] = "wait"]
    /\ toServer' = IF peer[on[j]] THEN [toServer EXCEPT ![on[j]] = Append(@, j)] ELSE toServer
    /\ UNCHANGED <<on, fut, routing, closed, futures, listener, peer, toClient, server, rest>>

(* drain raised a ConnectionError: close the client, raise ServerClosed.   *)
(* The future stays registered.                                            *)
SendFails(j) ==
    /\ pc[j] = "send" /\ (closed[on[j]] \/ ~peer[on[j]])
    /\ pc' = [pc EXCEPT ![j] = "raised"]
    /\ closed' = [closed EXCEPT ![on[j]] = TRUE]
    /\ peer' = [peer EXCEPT ![on[j]] = FALSE]
    /\ UNCHANGED <<on, fut, routing, futures, listener, toServer, toClient, server, rest>>

(* The task of a call is cancelled where it is suspended.  Only an awaited *)
(* future is cancelled with it; a future that was registered stays.        *)
Cancel(j) ==
    /\ j \in Cancellable
    /\ \/ pc[j] = "lock" /\ queue' = Without(queue, j) /\ UNCHANGED <<lock, fut>>
       \/ pc[j] = "connect" /\ lock' = None /\ UNCHANGED <<queue, fut>>
       \/ pc[j] = "send" /\ UNCHANGED <<lock, queue, fut>>
       \/ Awaiting(j) /\ fut' = [fut EXCEPT ![j] = "cancelled"] /\ UNCHANGED <<lock, queue>>
    /\ pc' = [pc EXCEPT ![j] = "raised"]
    /\ UNCHANGED <<on, cache, created, futures, listener, connection, server, rest>>
-----------------------------------------------------------------------------
(* The loop over message_futures.values(): set_exception raises            *)
(* InvalidStateError at the first future that is already cancelled, and    *)
(* the listener dies of it with the rest of the loop undone.               *)
FailAll(c, pending, e, next) ==
    LET ReachedInOrder(i) == \A k \in 1..i : fut[pending[k]] = "pending"
    IN  /\ fut' = [j \in Call |-> IF \E i \in DOMAIN pending : pending[i] = j /\ ReachedInOrder(i)
                                  THEN e ELSE fut[j]]
        /\ futures' = [futures EXCEPT ![c] = <<>>]
        /\ listener' = [listener EXCEPT ![c] = IF ReachedInOrder(Len(pending)) THEN next ELSE "dead"]

(* _client_to_message_futures[client].pop(message_id) *)
Others(c, j) == Without(futures[c], j)

Settle(c, j, state) ==
    /\ fut' = [fut EXCEPT ![j] = state]
    /\ futures' = [futures EXCEPT ![c] = Others(c, j)]
    /\ listener' = [listener EXCEPT ![c] = "check"]

(* Mutant: nobody is told after the loop.                                  *)
ListenCheckOnly(c) ==
    /\ listener[c] = "check"
    /\ listener' = [listener EXCEPT ![c] = IF closed[c] THEN "ended" ELSE "recv"]
    /\ UNCHANGED <<pc, on, fut, routing, connection, futures, server, rest>>

(* while not client.closed, and what follows the loop *)
ListenCheck(c) ==
    /\ listener[c] = "check"
    /\ IF closed[c]
       THEN FailAll(c, futures[c], "ServerClosed", "ended")
       ELSE listener' = [listener EXCEPT ![c] = "recv"] /\ UNCHANGED <<fut, futures>>
    /\ UNCHANGED <<pc, on, routing, connection, server, rest>>

(* A reply arrived: its future is popped and resolved.  pop raises         *)
(* KeyError for an id that is not registered, set_result and set_exception *)
(* raise InvalidStateError for a cancelled future: either error fails      *)
(* every other registered future, or, while a DeserializeMessageFailed is  *)
(* being handled, ends the listener.                                       *)
ListenReply(c) ==
    /\ listener[c] = "recv" /\ toClient[c] # <<>>
    /\ LET m == Head(toClient[c])
           known == m.id \in Range(futures[c])
           settles == known /\ fut[m.id] = "pending"
       IN  \/ settles /\ Settle(c, m.id, IF m.good THEN "result" ELSE "error")
           \/ /\ ~settles /\ m.good
              /\ FailAll(c, Others(c, m.id), IF known THEN "InvalidState" ELSE "KeyError", "check")
           \/ /\ ~settles /\ ~m.good
              /\ listener' = [listener EXCEPT ![c] = "dead"]
              /\ futures' = [futures EXCEPT ![c] = Others(c, m.id)]
              /\ UNCHANGED fut
    /\ toClient' = [toClient EXCEPT ![c] = Tail(@)]
    /\ UNCHANGED <<pc, on, routing, closed, peer, toServer, server, rest>>

(* Mutant: the client stays open after an EOFError.                        *)
ListenEOFOpen(c) ==
    /\ kind = "socket"
    /\ listener[c] = "recv" /\ toClient[c] = <<>>
    /\ closed[c] \/ ~peer[c]
    /\ listener' = [listener EXCEPT ![c] = "closing"]
    /\ UNCHANGED <<pc, on, fut, routing, futures, connection, server, rest>>

(* Mutant: only a connection closed at this end is noticed.                *)
ListenEOFLocal(c) ==
    /\ kind = "socket"
    /\ listener[c] = "recv" /\ toClient[c] = <<>>
    /\ closed[c]
    /\ listener' = [listener EXCEPT ![c] = "closing"]
    /\ UNCHANGED <<pc, on, fut, routing, futures, connection, server, rest>>

(* recv raised EOFError or a ConnectionError: await client.close() ...     *)
ListenEOF(c) ==
    /\ kind = "socket"
    /\ listener[c] = "recv" /\ toClient[c] = <<>>
    /\ closed[c] \/ ~peer[c]
    /\ listener' = [listener EXCEPT ![c] = "closing"]
    /\ closed' = [closed EXCEPT ![c] = TRUE]
    /\ peer' = [peer EXCEPT ![c] = FALSE]
    /\ UNCHANGED <<pc, on, fut, routing, futures, toServer, toClient, server, rest>>

(* ... and raise ServerClosed, which fails every registered future.        *)
ListenClosed(c) ==
    /\ listener[c] = "closing"
    /\ FailAll(c, futures[c], "ServerClosed", "check")
    /\ UNCHANGED <<pc, on, routing, connection, server, rest>>
-----------------------------------------------------------------------------
(* on_new_channel of the serving pool: a task for every message received.  *)
ServerReceive(c) ==
    /\ up /\ peer[c] /\ toServer[c] # <<>>
    /\ working' = working \cup {<<Head(toServer[c]), c>>}
    /\ toServer' = [toServer EXCEPT ![c] = Tail(@)]
    /\ UNCHANGED <<pc, on, fut, routing, closed, futures, listener, peer, toClient, up, stops, rest>>

(* Mutant: the result is sent again.                                       *)
ServerReplyAgain(j, c, good) ==
    /\ <<j, c>> \in working /\ Len(toClient[c]) < 2
    /\ toClient' = IF peer[c] THEN [toClient EXCEPT ![c] = Append(@, [id |-> j, good |-> good])]
                   ELSE toClient
    /\ UNCHANGED <<pc, on, fut, routing, closed, futures, listener, peer, toServer, server, rest>>

(* process_message ends and _send_channel sends its result or error.  A    *)
(* channel that is closed meanwhile swallows it.                           *)
ServerReply(j, c, good) ==
    /\ <<j, c>> \in working
    /\ working' = working \ {<<j, c>>}
    /\ toClient' = IF peer[c] THEN [toClient EXCEPT ![c] = Append(@, [id |-> j, good |-> good])]
                   ELSE toClient
    /\ UNCHANGED <<pc, on, fut, routing, closed, futures, listener, peer, toServer, up, stops, rest>>

(* The serving pool stops or its process dies: its ends of the connections *)
(* close.  The two ends of an in-process channel share one closed flag.    *)
ServerStop ==
    /\ up /\ stops < MaxStops
    /\ up' = FALSE
    /\ stops' = stops + 1
    /\ working' = {}
    /\ peer' = [c \in Client |-> FALSE]
    /\ closed' = [c \in Client |-> closed[c] \/ (kind = "dummy" /\ peer[c])]
    /\ toServer' = [c \in Client |-> <<>>]
    /\ UNCHANGED <<pc, on, fut, routing, futures, listener, toClient, rest>>

(* It is started again at the same address. *)
ServerStart ==
    /\ ~up
    /\ up' = TRUE
    /\ UNCHANGED <<pc, on, fut, routing, connection, futures, listener, working, stops, rest>>

(* A reset connection: what it still carried is lost, the transport closes.*)
ConnectionLost(c) ==
    /\ kind = "socket" /\ c \in created
    /\ ~peer[c] /\ (~closed[c] \/ toClient[c] # <<>>)
    /\ closed' = [closed EXCEPT ![c] = TRUE]
    /\ toClient' = [toClient EXCEPT ![c] = <<>>]
    /\ UNCHANGED <<pc, on, fut, routing, futures, listener, peer, toServer, server, rest>>

(* ActorCaller.stop closes every client and then cancels the listeners.    *)
(* Closing a socket wakes its listener, which runs before stop goes on;    *)
(* closing an in-process channel wakes nobody.                             *)
StopClose ==
    /\ MayStop /\ stop = "no"
    /\ stop' = "closing"
    /\ closed' = [c \in Client |-> closed[c] \/ c \in created]
    /\ peer' = [c \in Client |-> FALSE]
    /\ UNCHANGED <<pc, on, fut, routing, futures, listener, toServer, toClient, server, kind>>

CancelTasks ==
    /\ stop = "closing"
    /\ kind = "socket" => \A c \in Client : closed[c] => listener[c] \notin Running
    /\ stop' = "stopped"
    /\ listener' = [c \in Client |-> IF listener[c] \in Running THEN "cancelled" ELSE listener[c]]
    /\ UNCHANGED <<pc, on, fut, routing, connection, futures, server, kind>>

CallStep(j) == StartCall(j) \/ Acquire(j) \/ Connect(j) \/ SendDone(j) \/ SendFails(j)
ListenStep(c) == ListenCheck(c) \/ ListenReply(c) \/ ListenEOF(c) \/ ListenClosed(c)
ServerStep(c) == ServerReceive(c) \/ \E j \in Call : ServerReply(j, c, TRUE)
BadReply(c) == BadReplies /\ \E j \in Call : ServerReply(j, c, FALSE)

Next ==
    \/ \E j \in Call : CallStep(j) \/ Cancel(j)
    \/ \E c \in Client : ListenStep(c) \/ ServerStep(c) \/ BadReply(c) \/ ConnectionLost(c)
    \/ ServerStop \/ ServerStart
    \/ StopClose \/ CancelTasks

Spec == Init /\ [][Next]_vars

(* The event loop resumes every task that is ready, and every request the  *)
(* serving pool accepts is answered.                                       *)
FairSpec ==
    /\ Spec
    /\ \A j \in Call : WF_vars(CallStep(j))
    /\ \A c \in Client : WF_vars(ListenStep(c)) /\ WF_vars(ServerReceive(c))
    /\ \A j \in Call, c \in Client : WF_vars(ServerReply(j, c, TRUE) \/ ServerReply(j, c, FALSE))
-----------------------------------------------------------------------------
FutureStates == {"none", "pending", "result", "error", "ServerClosed",
                 "InvalidState", "KeyError", "cancelled"}

(* Type correctness of the caller, the router cache and the connections.   *)
TypeOK ==
    /\ pc \in [Call -> {"idle", "lock", "connect", "send", "wait", "raised"}]
    /\ on \in [Call -> Client \cup {None}]
    /\ fut \in [Call -> FutureStates]
    /\ lock \in Call \cup {None}
    /\ queue \in Seq(Call)
    /\ cache \in Client \cup {None}
    /\ created \subseteq Client
    /\ closed \in [Client -> BOOLEAN]
    /\ futures \in [Client -> Seq(Call)]
    /\ listener \in [Client -> Running \cup {"none", "ended", "dead", "cancelled"}]
    /\ peer \in [Client -> BOOLEAN]
    /\ toServer \in [Client -> Seq(Call)]
    /\ toClient \in [Client -> Seq(Reply)]
    /\ working \subseteq Call \X Client
    /\ up \in BOOLEAN
    /\ stops \in 0..MaxStops
    /\ stop \in {"no", "closing", "stopped"}
    /\ kind \in Kinds

SomeCancelled(c) == \E k \in Call : on[k] = c /\ fut[k] = "cancelled"

(* No call is lost: as long as the caller is not stopped and no call on    *)
(* the same client was cancelled, a task that awaits a reply is still      *)
(* registered with a listener that runs, so a reply, or the end of the     *)
(* connection, will reach it.                                              *)
NoLostCall ==
    \A j \in Call : Awaiting(j) /\ stop = "no" /\ ~SomeCancelled(on[j]) =>
        /\ listener[on[j]] \in Running
        /\ j \in Range(futures[on[j]])

(* An error a call ends with is true of that call.  ServerClosed: its      *)
(* client is closed, and no reply was lost to it while the connection was  *)
(* still good.  The KeyError or InvalidStateError of the listener's        *)
(* bookkeeping is about another call, and reaches it only on a client      *)
(* where some call was cancelled.                                          *)
ErrorIsTrue(j) ==
    /\ fut[j] = "ServerClosed" => closed[on[j]] /\ ~peer[on[j]]
    /\ fut[j] \in {"KeyError", "InvalidState"} => SomeCancelled(on[j])
ErrorsAreTrue == \A j \in Call : ErrorIsTrue(j)

(* The router's lock lets concurrent first calls share one connection: no  *)
(* two clients of the address are open at once.                            *)
OneConnection ==
    \A c, d \in created : ~closed[c] /\ ~closed[d] => c = d

(* ActorCaller implements CallOnce: however connections are shared, closed *)
(* and opened again, replies fail and calls are cancelled, a request is    *)
(* served at most once, a result is its answer, and an outcome is final.   *)
OutcomeOf(j) ==
    IF fut[j] = "result" THEN "result"
    ELSE IF pc[j] = "raised" \/ fut[j] \notin {"none", "pending"} THEN "failed" ELSE "open"
WhereIs(j) ==
    IF \E c \in Client : j \in Range(toServer[c]) THEN "sent"
    ELSE IF \E c \in Client : <<j, c>> \in working THEN "working"
    ELSE IF \E c \in Client : \E m \in Range(toClient[c]) : m.id = j THEN "answered"
    ELSE IF pc[j] \in {"wait", "raised"} THEN "gone" ELSE "new"
Promise == INSTANCE CallOnce WITH Requests <- Call,
                                  outcome <- [j \in Call |-> OutcomeOf(j)],
                                  where <- [j \in Call |-> WhereIs(j)]
CarriedOutOnce == Promise!Spec

(* Every call that is waiting for its reply gets an answer or an error,    *)
(* unless the caller is stopped under it or a call on its client was       *)
(* cancelled.                                                              *)
EveryCallEnds ==
    \A j \in Call : Awaiting(j) ~> (~Awaiting(j) \/ stop # "no" \/ SomeCancelled(on[j]))
=============================================================================
