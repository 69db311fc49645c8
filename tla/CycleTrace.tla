---- MODULE CycleTrace ----
(***************************************************************************)
(* The detection of call cycles (log_cycle_send): every message carries    *)
(* the trace of the calls that wait for it, and a send to an actor of the  *)
(* trace is reported.                                                      *)
(***************************************************************************)
EXTENDS Naturals, Sequences, FiniteSets, SequencesExt

CONSTANTS Callees,    \* actors, each with a lock
          MaxChain    \* bound on calls

VARIABLES chain,      \* the calls: actor, by (the calling call), mode, trace, var, pc
          owner,      \* per actor: the call that holds its lock, 0 for none
          reports     \* the calls whose send was reported

cycleVars == <<chain, owner, reports>>

\* mode of a call: awaited, yielded by a generator method, returned from the
\* method as an awaitable, or told (wait_response is false).
Modes == {"await", "yield", "return", "tell"}

\* The first call comes from a client, with no trace.
NewCall(a, by, mode, trace) ==
    [actor |-> a, by |-> by, mode |-> mode, trace |-> trace, var |-> <<>>, pc |-> "sent"]
Init ==
    /\ \E a \in Callees : chain = <<NewCall(a, 0, "await", <<>>)>>
    /\ owner = [a \in Callees |-> 0]
    /\ reports = {}

\* record_message_trace in the pool's send, then the actor's lock.
RecordedLess(c) == c.trace
Recorded(c) == Append(c.trace, c.actor)
Receive(c) ==
    /\ chain[c].pc = "sent"
    /\ chain' = [chain EXCEPT ![c].pc = "locking", ![c].var = Recorded(chain[c])]
    /\ UNCHANGED <<owner, reports>>
Lock(c) ==
    /\ chain[c].pc = "locking" /\ owner[chain[c].actor] = 0
    /\ chain' = [chain EXCEPT ![c].pc = "running"]
    /\ owner' = [owner EXCEPT ![chain[c].actor] = c]
    /\ UNCHANGED reports

\* The trace of the context a call is made from: pop_message_trace while the
\* result of a generator's step is awaited, no trace for a tell.
SendTrace(c, mode) == IF mode \in {"yield", "tell"} THEN <<>> ELSE chain[c].var

\* detect_cycle_send.  A yielded or returned awaitable runs without the lock.
Send(c, a, mode) ==
    /\ chain[c].pc = "running" /\ Len(chain) < MaxChain
    /\ LET new == NewCall(a, c, mode, SendTrace(c, mode))
       IN /\ chain' = Append([chain EXCEPT ![c].pc = IF mode = "tell" THEN "running" ELSE mode], new)
          /\ reports' = IF a \in ToSet(new.trace) /\ mode # "tell" THEN reports \cup {Len(chain) + 1}
                        ELSE reports
    /\ owner' = IF mode \in {"yield", "return"} THEN [owner EXCEPT ![chain[c].actor] = 0] ELSE owner

Finish(c) ==
    /\ chain[c].pc = "running"
    /\ chain' = [chain EXCEPT ![c].pc = "done"]
    /\ owner' = [owner EXCEPT ![chain[c].actor] = 0]
    /\ UNCHANGED reports

\* The awaited call ended: an awaiting method goes on, a generator takes the
\* lock again (set_message_trace), a method that returned it is over.
Resume(c) ==
    /\ chain[c].pc \in Modes
    /\ \A d \in DOMAIN chain : chain[d].by = c /\ chain[d].mode # "tell" => chain[d].pc = "done"
    /\ chain' = [chain EXCEPT ![c].pc = CASE @ = "await" -> "running"
                                          [] @ = "yield" -> "locking"
                                          [] @ = "return" -> "done"]
    /\ UNCHANGED <<owner, reports>>

Next ==
    \E c \in DOMAIN chain :
        \/ Receive(c) \/ Lock(c) \/ Finish(c) \/ Resume(c)
        \/ \E a \in Callees, mode \in Modes : Send(c, a, mode)

-----------------------------------------------------------------------------
\* The calls that wait for call d, d included; through plain awaits only, or
\* through awaitables returned from a method too.
RECURSIVE Waiting(_, _)
Waiting(d, modes) ==
    {d} \cup IF chain[d].mode \in modes /\ chain[d].by # 0 THEN Waiting(chain[d].by, modes) ELSE {}

\* What is reported is a cycle: a call of the target actor is not over and
\* waits for the reported call.
ReportsACycle ==
    \A d \in reports' \ reports : \E c \in Waiting(chain'[d].by, {"await", "return"}) :
        chain[c].actor = chain'[d].actor /\ chain[c].pc # "done"

\* A call that waits for a lock which is held by a call that awaits it, with
\* no yield between them, was reported.
DeadlockReported ==
    \A d \in DOMAIN chain : chain[d].pc = "locking" =>
        LET o == owner[chain[d].actor]
        IN o # 0 /\ o # d /\ o \in Waiting(d, {"await", "return"}) => d \in reports
====
