------------------------------ MODULE TCPStore ------------------------------
(***************************************************************************)
(* The key-value store of the collective rendezvous: the daemon thread of  *)
(* the server, which serves one query at a time, and its clients, each     *)
(* with a connection for operations and one for the callbacks of watched   *)
(* keys.  The daemon keeps its tables by file descriptor, and descriptors  *)
(* are used again.  Source: cpp/collective/rendezvous/src/tcp_store.cpp.   *)
(*                                                                         *)
(* A value is a sequence of chunks: Text, or the decimal numbers that add  *)
(* writes.  A query and a response each travel as one message.             *)
(***************************************************************************)
EXTENDS Naturals, Sequences, SequencesExt, FiniteSets

CONSTANTS
    Client,      \* the TCPStore objects
    Server,      \* the one of them that runs the daemon
    Key,         \* keys of the users
    InitKey,     \* the key initKey_ counts the workers under
    KeyLists,    \* the lists of keys given to wait, check, multiGet, multiSet
    Text,        \* a chunk that is not a number
    NoValue,     \* not a value
    Unwatched,   \* of a key that is not watched
    Values,      \* the values clients write
    NumWorkers,  \* opts.numWorkers
    Ops,         \* the operations clients use
    Timeouts,    \* whether receives may time out
    Leaving,     \* clients that may end
    MaxOps       \* bound: operations of one client after it joined

AllKeys == Key \cup {InitKey}
Sock == Client \X {"op", "cb"}
FD == 1..Cardinality(Sock)
SizeMax == 2147483647   \* stands for the largest size_t

ASSUME StoreAssumption ==
    /\ Server \in Client /\ Leaving \subseteq Client \ {Server}
    /\ InitKey \notin Key
    /\ KeyLists \subseteq Seq(Key) /\ Values \subseteq Seq(Nat \cup {Text})
    /\ NumWorkers \in Nat /\ MaxOps \in Nat /\ Timeouts \in BOOLEAN

VARIABLES
    store,    \* tcpStore_
    waiting,  \* waitingSockets_
    awaited,  \* keysAwaited_
    watched,  \* watchedSockets_
    fd,       \* the descriptor the daemon has for a socket, 0 if it has none
    gone,     \* sockets closed by their client
    req,      \* queries sent and not yet read by the daemon
    resp,     \* responses sent and not yet read by the client
    client,   \* what each client is doing
    view      \* what the callbacks of a client have made of a watched key

vars == <<store, waiting, awaited, watched, fd, gone, req, resp, client, view>>
daemon == <<store, waiting, awaited, watched, fd>>

Query(type, keys, vals) == [type |-> type, keys |-> keys, vals |-> vals]
Reply(type, key, val) == [type |-> type, key |-> key, val |-> val]
StopWaiting == Reply("stop", InitKey, <<>>)

-----------------------------------------------------------------------------
(* The daemon.  A handler maps the daemon's state m to a new one; m.out    *)
(* holds the responses, m.failed says that an exception was thrown.  Sends *)
(* to the descriptors in bad throw.                                        *)

Send(m, n, reply, bad) ==
    CASE m.failed -> m
      [] n \in bad -> [m EXCEPT !.failed = TRUE]
      [] OTHER -> [m EXCEPT !.out = [s \in Sock |-> IF fd[s] = n /\ s \notin gone
                                                       THEN Append(m.out[s], reply) ELSE m.out[s]]]

Fails(m) == [m EXCEPT !.failed = TRUE]

(* wakeupWaitingClients that sends at every key, not at the last one.      *)
WakeupEach(m, key, bad) ==
    LET woken == FoldLeft(LAMBDA a, n : Send([a EXCEPT !.awaited[n] = 0], n, StopWaiting, bad),
                          m, m.waiting[key])
    IN  IF woken.failed THEN woken ELSE [woken EXCEPT !.waiting[key] = <<>>]

Wakeup(m, key, bad) ==
    LET wake(a, n) ==
            LET left == IF a.awaited[n] = 0 THEN SizeMax ELSE a.awaited[n] - 1
                b == [a EXCEPT !.awaited[n] = left]
            IN  CASE a.failed -> a
                  [] left = 0 -> Send(b, n, StopWaiting, bad)
                  [] OTHER -> b
        woken == FoldLeft(wake, m, m.waiting[key])
    IN  IF woken.failed THEN woken ELSE [woken EXCEPT !.waiting[key] = <<>>]

SendKeyUpdates(m, key, type, val, bad) ==
    FoldLeft(LAMBDA a, n : Send(a, n, Reply(type, key, val), bad), m, m.watched[key])

CreatedOrUpdated(m, key) == IF m.store[key] = NoValue THEN "created" ELSE "updated"

DoSet(m, key, val, bad) ==
    SendKeyUpdates(Wakeup([m EXCEPT !.store[key] = val], key, bad),
                   key, CreatedOrUpdated(m, key), val, bad)

(* compareSet without the key updates.                                     *)
CompareSetSilent(m, n, key, expected, desired, bad) ==
    LET writes == expected = IF m.store[key] = NoValue THEN <<>> ELSE m.store[key]
    IN  Send(IF writes THEN [m EXCEPT !.store[key] = desired] ELSE m, n,
             Reply("vec", key, IF m.store[key] = NoValue THEN expected ELSE m.store[key]), bad)

(* The expected value must be the stored one, and empty for a new key.     *)
(* An expected value for a missing key is echoed.  Nobody is woken.        *)
CompareSet(m, n, key, expected, desired, bad) ==
    LET writes == expected = IF m.store[key] = NoValue THEN <<>> ELSE m.store[key]
        written == SendKeyUpdates([m EXCEPT !.store[key] = desired], key,
                                  CreatedOrUpdated(m, key), desired, bad)
        answer == IF m.store[key] = NoValue THEN expected ELSE m.store[key]
    IN  Send(IF writes THEN written ELSE m, n,
             Reply("vec", key, IF writes THEN desired ELSE answer), bad)

(* stoll reads the leading number and throws if there is none.             *)
Add(m, n, key, bad) ==
    LET old == m.store[key]
        sum == IF old = NoValue THEN 1 ELSE old[1] + 1
    IN  IF old # NoValue /\ (old = <<>> \/ old[1] = Text) THEN Fails(m)
        ELSE SendKeyUpdates(Wakeup(Send([m EXCEPT !.store[key] = <<sum>>], n,
                                        Reply("int", key, <<sum>>), bad), key, bad),
                            key, CreatedOrUpdated(m, key), <<sum>>, bad)

Get(m, n, key, bad) ==
    IF m.store[key] = NoValue THEN Fails(m) ELSE Send(m, n, Reply("vec", key, m.store[key]), bad)

(* Answering once for the deletion and once at the end.                    *)
DeleteTwice(m, n, key, bad) ==
    LET had == m.store[key] # NoValue
        told == IF had THEN Send(m, n, Reply("int", key, <<1>>), bad) ELSE m
    IN  Send([told EXCEPT !.store[key] = NoValue], n, Reply("int", key, <<0>>), bad)

Delete(m, n, key, bad) ==
    LET had == m.store[key] # NoValue
        told == IF had THEN SendKeyUpdates(m, key, "deleted", <<>>, bad) ELSE m
    IN  IF told.failed THEN told
        ELSE Send([told EXCEPT !.store[key] = NoValue], n,
                  Reply("int", key, IF had THEN <<1>> ELSE <<0>>), bad)

CheckKeys(m, keys) == \A i \in DOMAIN keys : m.store[keys[i]] # NoValue

(* Counting every key of the list, also those that are set.                *)
WaitAllCounted(m, n, keys, bad) ==
    IF CheckKeys(m, keys) THEN Send(m, n, StopWaiting, bad)
    ELSE FoldLeft(LAMBDA a, key : [a EXCEPT !.waiting[key] =
                                     IF m.store[key] = NoValue THEN Append(@, n) ELSE @],
                  [m EXCEPT !.awaited[n] = Len(keys)], keys)

(* Only keys that are not set are counted.                                 *)
Wait(m, n, keys, bad) ==
    LET missing == SelectSeq(keys, LAMBDA key : m.store[key] = NoValue)
    IN  IF CheckKeys(m, keys) THEN Send(m, n, StopWaiting, bad)
        ELSE FoldLeft(LAMBDA a, key : [a EXCEPT !.waiting[key] = Append(@, n)],
                      [m EXCEPT !.awaited[n] = Len(missing)], missing)

Watch(m, n, key, bad) ==
    Send([m EXCEPT !.watched[key] = Append(@, n)], n, Reply("registered", key, <<>>), bad)

AppendValue(m, key, val, bad) ==
    LET new == m.store[key] = NoValue
        stored == [m EXCEPT !.store[key] = IF new THEN val ELSE @ \o val]
    IN  SendKeyUpdates(Wakeup(stored, key, bad), key, IF new THEN "created" ELSE "appended", val, bad)

(* One key after the other; the first that fails ends it.                  *)
MultiGet(m, n, keys, bad) ==
    FoldLeft(LAMBDA a, key : IF a.failed THEN a ELSE Get(a, n, key, bad), m, keys)
MultiSet(m, keys, val, bad) ==
    FoldLeft(LAMBDA a, key : IF a.failed THEN a ELSE DoSet(a, key, val, bad), m, keys)

Handle(m, n, q, bad) ==
    LET key == q.keys[1]
    IN  CASE q.type = "SET" -> DoSet(m, key, q.vals[1], bad)
          [] q.type = "COMPARE_SET" -> CompareSet(m, n, key, q.vals[1], q.vals[2], bad)
          [] q.type = "ADD" -> Add(m, n, key, bad)
          [] q.type = "GET" -> Get(m, n, key, bad)
          [] q.type = "CHECK" ->
                Send(m, n, Reply("check", key, IF CheckKeys(m, q.keys) THEN <<1>> ELSE <<0>>), bad)
          [] q.type = "WAIT" -> Wait(m, n, q.keys, bad)
          [] q.type = "GETNUMKEYS" ->
                Send(m, n, Reply("int", key, <<Cardinality({k \in AllKeys : m.store[k] # NoValue})>>), bad)
          [] q.type = "WATCH_KEY" -> Watch(m, n, key, bad)
          [] q.type = "DELETE_KEY" -> Delete(m, n, key, bad)
          [] q.type = "APPEND" -> AppendValue(m, key, q.vals[1], bad)
          [] q.type = "MULTI_GET" -> MultiGet(m, n, q.keys, bad)
          [] q.type = "MULTI_SET" -> MultiSet(m, q.keys, q.vals[1], bad)
-----------------------------------------------------------------------------
(* Closing a connection but leaving it in the table of waiting sockets.    *)
ForgetCount(m, n) ==
    /\ waiting' = m.waiting
    /\ awaited' = [m.awaited EXCEPT ![n] = 0]

(* Closing a connection after an exception: its descriptor leaves the      *)
(* tables of waiting clients, and may be given to a later connection.      *)
Forget(m, n) ==
    /\ waiting' = [k \in AllKeys |-> SelectSeq(m.waiting[k], LAMBDA x : x # n)]
    /\ awaited' = [m.awaited EXCEPT ![n] = 0]

Lowest(S) == CHOOSE n \in S : \A x \in S : n <= x
Open == {fd[s] : s \in Sock}

Accept(s) == fd' = [fd EXCEPT ![s] = Lowest(FD \ Open)]

Ready(s) == fd[s] # 0 /\ req[s] # <<>>

(* queryFds for one socket that has a query.  A send to a closed           *)
(* descriptor throws; one to a client that has ended may.                  *)
Serve(s) ==
    /\ Ready(s)
    /\ LET q == Head(req[s])
           now == [store |-> store, waiting |-> waiting, awaited |-> awaited,
                   watched |-> watched, out |-> resp, failed |-> FALSE]
       IN  \E bad \in SUBSET {fd[t] : t \in gone} :
             \E m \in {Handle(now, fd[s], q, bad \cup (FD \ Open))} :
                /\ store' = m.store /\ watched' = m.watched /\ resp' = m.out
                /\ \/ /\ ~m.failed
                      /\ waiting' = m.waiting /\ awaited' = m.awaited
                      /\ req' = [req EXCEPT ![s] = Tail(@)]
                      /\ UNCHANGED fd
                   \/ /\ m.failed
                      /\ Forget(m, fd[s])
                      /\ req' = [req EXCEPT ![s] = <<>>]
                      /\ fd' = [fd EXCEPT ![s] = 0]
                /\ view' = IF q.type = "WATCH_KEY" /\ ~m.failed
                             THEN [view EXCEPT ![s[1]][q.keys[1]] = store[q.keys[1]]] ELSE view
    /\ UNCHANGED <<gone, client>>

(* The client has ended and the daemon reads the end of the stream.        *)
ServeEnd(s) ==
    /\ fd[s] # 0 /\ s \in gone /\ req[s] = <<>>
    /\ Forget([waiting |-> waiting, awaited |-> awaited], fd[s])
    /\ fd' = [fd EXCEPT ![s] = 0]
    /\ UNCHANGED <<store, watched, gone, req, resp, client, view>>

-----------------------------------------------------------------------------
(* The clients.  todo holds the queries of the operation in progress, the  *)
(* first of which has been sent; left is how many responses it still gets. *)

Silent == {"SET", "APPEND", "MULTI_SET"}
Expected(q) ==
    CASE q.type = "WAIT" -> "stop"
      [] q.type = "CHECK" -> "check"
      [] q.type \in {"GET", "MULTI_GET", "COMPARE_SET"} -> "vec"
      [] q.type \in {"ADD", "GETNUMKEYS", "DELETE_KEY"} -> "int"

Asking(c, state, todo) ==
    /\ req' = [req EXCEPT ![<<c, "op">>] = Append(@, Head(todo))]
    /\ client' = [client EXCEPT ![c] =
                    [state EXCEPT !.pc = "wait", !.todo = todo,
                                  !.left = IF Head(todo).type = "MULTI_GET" THEN Len(Head(todo).keys) ELSE 1,
                                  !.timed = @ \/ Head(todo).type = "WAIT"]]

Become(c, pc, stage) ==
    client' = [client EXCEPT ![c].pc = pc, ![c].stage = stage, ![c].todo = <<>>, ![c].left = 0]

CountWorkers == <<Query("WAIT", <<InitKey>>, <<>>), Query("GET", <<InitKey>>, <<>>)>>

(* The constructor: connect and count oneself.                             *)
Connect(c) ==
    /\ client[c].pc = "new" /\ (c = Server \/ client[Server].pc \notin {"new", "gone"})
    /\ Accept(<<c, "op">>)
    /\ Asking(c, [client[c] EXCEPT !.stage = "joining"], <<Query("ADD", <<InitKey>>, <<>>)>>)
    /\ UNCHANGED <<store, waiting, awaited, watched, gone, resp, view>>

ConnectCallback(c) ==
    /\ client[c].pc = "callback"
    /\ Accept(<<c, "cb">>)
    /\ Become(c, "idle", "open")
    /\ UNCHANGED <<store, waiting, awaited, watched, gone, req, resp, view>>

(* The server waits for one worker more than there are.                    *)
AfterJoinNever(c, val) ==
    \/ /\ c = Server /\ (client[c].stage = "joining" \/ val[1] <= NumWorkers)
       /\ Asking(c, [client[c] EXCEPT !.stage = "polling"], CountWorkers)
    \/ /\ c # Server
       /\ Become(c, "callback", "open") /\ UNCHANGED req

(* waitForWorkers: only the server asks, until all have counted themselves *)
(* or, if there is a timeout, it has passed.                               *)
AfterJoin(c, val) ==
    \/ /\ c = Server /\ (client[c].stage = "joining" \/ val[1] < NumWorkers)
       /\ Asking(c, [client[c] EXCEPT !.stage = "polling"], CountWorkers)
    \/ /\ c # Server \/ (client[c].stage = "polling" /\ (val[1] >= NumWorkers \/ Timeouts))
       /\ Become(c, "callback", "open") /\ UNCHANGED req

(* A response: the next one of the same query, the next query of the       *)
(* operation, or its end.                                                  *)
Receive(c) ==
    LET s == <<c, "op">>
        r == Head(resp[s])
        todo == client[c].todo
    IN  /\ client[c].pc = "wait" /\ resp[s] # <<>>
        /\ resp' = [resp EXCEPT ![s] = Tail(@)]
        /\ \/ /\ r.type # Expected(Head(todo))
              /\ Become(c, "broken", client[c].stage) /\ UNCHANGED req
           \/ /\ r.type = Expected(Head(todo)) /\ client[c].left > 1
              /\ client' = [client EXCEPT ![c].left = @ - 1] /\ UNCHANGED req
           \/ /\ r.type = Expected(Head(todo)) /\ client[c].left = 1
              /\ \/ Len(todo) > 1 /\ Asking(c, client[c], Tail(todo))
                 \/ Len(todo) = 1 /\ client[c].stage # "open" /\ AfterJoin(c, r.val)
                 \/ /\ Len(todo) = 1 /\ client[c].stage = "open"
                    /\ Become(c, "idle", "open") /\ UNCHANGED req
        /\ UNCHANGED <<daemon, gone, view>>

(* SO_RCVTIMEO, set by every wait and never taken back.                    *)
Timeout(c) ==
    /\ Timeouts /\ client[c].pc = "wait" /\ client[c].stage = "open" /\ client[c].timed
    /\ resp[<<c, "op">>] = <<>>
    /\ client' = [client EXCEPT ![c].pc = "idle", ![c].todo = <<>>, ![c].left = 0, ![c].gaveUp = TRUE]
    /\ UNCHANGED <<daemon, gone, req, resp, view>>

(* The daemon has closed the connection.                                   *)
Closed(c) ==
    /\ client[c].pc = "wait" /\ fd[<<c, "op">>] = 0 /\ resp[<<c, "op">>] = <<>>
    /\ Become(c, "broken", client[c].stage)
    /\ UNCHANGED <<daemon, gone, req, resp, view>>

(* What an operation sends; get waits in wait and again in getTCP.         *)
Operation(name) ==
    CASE name = "set" -> {<<Query("SET", <<k>>, <<v>>)>> : k \in Key, v \in Values}
      [] name = "compareSet" ->
            {<<Query("COMPARE_SET", <<k>>, <<v, w>>)>> : k \in Key, v \in Values \cup {<<>>}, w \in Values}
      [] name = "add" -> {<<Query("ADD", <<k>>, <<>>)>> : k \in Key}
      [] name = "get" -> {<<Query("WAIT", <<k>>, <<>>), Query("WAIT", <<k>>, <<>>),
                            Query("GET", <<k>>, <<>>)>> : k \in Key}
      [] name = "check" -> {<<Query("CHECK", ks, <<>>)>> : ks \in KeyLists}
      [] name = "wait" -> {<<Query("WAIT", ks, <<>>)>> : ks \in KeyLists}
      [] name = "getNumKeys" -> {<<Query("GETNUMKEYS", <<InitKey>>, <<>>)>>}
      [] name = "deleteKey" -> {<<Query("DELETE_KEY", <<k>>, <<>>)>> : k \in Key}
      [] name = "append" -> {<<Query("APPEND", <<k>>, <<<<Text>>>>)>> : k \in Key}
      [] name = "multiGet" ->
            {<<Query("WAIT", ks, <<>>), Query("MULTI_GET", ks, <<>>)>> : ks \in KeyLists}
      [] name = "multiSet" -> {<<Query("MULTI_SET", ks, <<v>>)>> : ks \in KeyLists, v \in Values}
      [] OTHER -> {}

Begin(c) ==
    /\ client[c].pc = "idle" /\ client[c].ops < MaxOps
    /\ \E name \in Ops : \E todo \in Operation(name) :
          LET counted == [client[c] EXCEPT !.ops = @ + 1]
          IN  \/ /\ Head(todo).type \in Silent
                 /\ client' = [client EXCEPT ![c] = counted]
                 /\ req' = [req EXCEPT ![<<c, "op">>] = Append(@, Head(todo))]
              \/ Head(todo).type \notin Silent /\ Asking(c, counted, todo)
    /\ UNCHANGED <<daemon, gone, resp, view>>

(* watchKey, of a key this client does not watch yet.                      *)
WatchKey(c, k) ==
    /\ "watchKey" \in Ops
    /\ client[c].pc = "idle" /\ client[c].ops < MaxOps /\ view[c][k] = Unwatched
    /\ client' = [client EXCEPT ![c].pc = "watching", ![c].ops = @ + 1]
    /\ req' = [req EXCEPT ![<<c, "cb">>] = Append(@, Query("WATCH_KEY", <<k>>, <<>>))]
    /\ UNCHANGED <<daemon, gone, resp, view>>

Apply(val, r) ==
    CASE r.type \in {"created", "updated"} -> r.val
      [] r.type = "deleted" -> NoValue
      [] r.type = "appended" -> IF val = NoValue THEN r.val ELSE val \o r.val

(* The process of a client ends and its sockets with it; with that of the  *)
(* server the daemon ends too.                                             *)
End(c) ==
    /\ Become(c, "gone", "open")
    /\ gone' = gone \cup {<<c, "op">>, <<c, "cb">>}
    /\ resp' = [resp EXCEPT ![<<c, "op">>] = <<>>, ![<<c, "cb">>] = <<>>]
    /\ IF c = Server
          THEN /\ fd' = [s \in Sock |-> 0]
               /\ waiting' = [k \in AllKeys |-> <<>>] /\ watched' = [k \in AllKeys |-> <<>>]
               /\ awaited' = [n \in FD |-> 0] /\ UNCHANGED store
          ELSE UNCHANGED daemon
    /\ UNCHANGED <<req, view>>

(* The worker daemon: the registration ends watchKey, the rest goes to the *)
(* callback.  For a key without one, at throws out of the thread's         *)
(* function, which terminates the process.                                 *)
Callback(c) ==
    LET s == <<c, "cb">>
        r == Head(resp[s])
        asked == \E i \in DOMAIN req[s] : req[s][i].keys[1] = r.key
        known == view[c][r.key] # Unwatched
        took == resp' = [resp EXCEPT ![s] = Tail(@)] /\ UNCHANGED <<daemon, gone, req>>
    IN  /\ resp[s] # <<>>
        /\ \/ /\ r.type = "registered" /\ took
              /\ client' = [client EXCEPT ![c].pc = "idle"] /\ UNCHANGED view
           \/ /\ r.type # "registered" /\ (known \/ asked) /\ took
              /\ view' = IF known THEN [view EXCEPT ![c][r.key] = Apply(@, r)] ELSE view
              /\ UNCHANGED client
           \/ r.type # "registered" /\ ~known /\ ~asked /\ End(c)

Leave(c) ==
    /\ c \in Leaving /\ client[c].pc \in {"idle", "wait"} /\ client[c].stage = "open"
    /\ End(c)

Init ==
    /\ store = [k \in AllKeys |-> NoValue]
    /\ waiting = [k \in AllKeys |-> <<>>] /\ watched = [k \in AllKeys |-> <<>>]
    /\ awaited = [n \in FD |-> 0]
    /\ fd = [s \in Sock |-> 0] /\ gone = {}
    /\ req = [s \in Sock |-> <<>>] /\ resp = [s \in Sock |-> <<>>]
    /\ client = [c \in Client |-> [pc |-> "new", stage |-> "new", todo |-> <<>>, left |-> 0,
                                   ops |-> 0, timed |-> FALSE, gaveUp |-> FALSE]]
    /\ view = [c \in Client |-> [k \in Key |-> Unwatched]]

ClientStep(c) == Connect(c) \/ ConnectCallback(c) \/ Receive(c) \/ Closed(c) \/ Callback(c)

Next ==
    \/ \E s \in Sock : Serve(s) \/ ServeEnd(s)
    \/ \E c \in Client : ClientStep(c) \/ Begin(c) \/ Timeout(c) \/ Leave(c)
    \/ \E c \in Client, k \in Key : WatchKey(c, k)

Spec == Init /\ [][Next]_vars

(* The daemon's poll loop serves every socket that is ready, and threads   *)
(* run.  Nothing makes a client begin an operation.                        *)
FairSpec ==
    /\ Spec
    /\ \A s \in Sock : ([]<>~Ready(s) \/ []<><<Serve(s)>>_vars) /\ WF_vars(ServeEnd(s))
    /\ \A c \in Client : WF_vars(ClientStep(c))

-----------------------------------------------------------------------------
(* keysAwaited_ of a connection is the number of its entries in            *)
(* waitingSockets_, so the last awaited key and no other answers a wait;   *)
(* and setting a key wakes all who wait for it, so nobody is entered for a *)
(* key that is set.                                                        *)
AwaitedCount ==
    /\ \A s \in Sock :
          LET Entries(k) == {<<k, i>> : i \in {j \in DOMAIN waiting[k] : waiting[k][j] = fd[s]}}
          IN  fd[s] # 0 => awaited[fd[s]] = Cardinality(UNION {Entries(k) : k \in AllKeys})
    /\ \A k \in AllKeys : store[k] # NoValue => waiting[k] = <<>>

(* As long as no worker has ended, the connection of a client that has not *)
(* given up on a response carries at most the responses it is waiting for, *)
(* each of the kind it will be taken for, whatever others time out on.     *)
StreamsInSync ==
    \A c \in Client :
        LET r == resp[<<c, "op">>]
        IN  r # <<>> /\ gone = {} /\ ~client[c].gaveUp =>
                /\ client[c].pc = "wait" /\ Len(r) <= client[c].left
                /\ \A i \in DOMAIN r : r[i].type = Expected(Head(client[c].todo))

(* Nobody goes on early.  Where keys are not deleted, a wait is only       *)
(* answered when every key of its list has been set; and without a timeout *)
(* the server's constructor returns only after all workers have counted    *)
(* themselves.                                                             *)
WaitSound ==
    /\ \A c \in Client :
          client[c].pc = "wait" /\ resp[<<c, "op">>] # <<>> /\ Head(client[c].todo).type = "WAIT"
          => \A i \in DOMAIN Head(client[c].todo).keys : store[Head(client[c].todo).keys[i]] # NoValue
    /\ client[Server].pc \in {"callback", "idle"} =>
          Cardinality({c \in Client : client[c].pc # "new"}) >= NumWorkers

(* As long as no worker has ended, the callbacks of a client that watches  *)
(* a key hear of every change after the registration, in order: what they  *)
(* have heard and what is on its way amount to the stored value.           *)
WatchersFollow ==
    \A c \in Client, k \in Key :
        view[c][k] # Unwatched /\ gone = {}
        => FoldLeft(Apply, view[c][k],
                    SelectSeq(resp[<<c, "cb">>], LAMBDA r : r.key = k /\ r.type # "registered")) = store[k]

(* Whatever times out, fails or ends, only connections the daemon still    *)
(* has are waiting: no wakeup goes to a closed descriptor, and none to the *)
(* next client that is given it.                                           *)
WaitersConnected ==
    \A k \in AllKeys : ToSet(waiting[k]) \subseteq Open

(* Nobody waits for ever: every worker gets through waitForWorkers, and a  *)
(* wait whose keys are all set is answered, whoever set them and in        *)
(* whatever order (keys are not deleted).                                  *)
KeysSet(c) ==
    /\ client[c].pc = "wait" /\ Head(client[c].todo).type = "WAIT"
    /\ \A i \in DOMAIN Head(client[c].todo).keys : store[Head(client[c].todo).keys[i]] # NoValue
WaitEnds ==
    /\ <>(\A c \in Client : client[c].stage = "open")
    /\ \A c \in Client :
          KeysSet(c) ~> client[c].pc # "wait" \/ Head(client[c].todo).type # "WAIT"
=============================================================================
