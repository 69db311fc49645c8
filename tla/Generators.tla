---- MODULE Generators ----
(***************************************************************************)
(* Generator methods: the actor keeps the generators it made, a client     *)
(* iterates through an IteratorWrapper, which may be sent on, and whoever  *)
(* holds the wrapper that collects the generator destroys it.              *)
(***************************************************************************)
EXTENDS Naturals, Sequences, FiniteSets

CONSTANTS Clients,      \* processes that may hold wrappers
          GenLengths,   \* numbers of values the generators yield
          MaxCopies     \* bound on wrappers made

VARIABLES gen,          \* the generator: locked (of an Actor, not a StatelessActor), length, raises, pos, running, registered
          wraps,        \* wrappers ever made: where, its _gc_destroy, state
          steps,        \* per client: its __anext__: pc, value
          linear,       \* whether only the wrapper that collects is ever sent on
          out           \* history: values handed out, with the client; lost: a wrapper was lost

genVars == <<gen, wraps, steps, linear, out>>

NoStep == [pc |-> "idle", value |-> 0]

\* generator: the method returned a generator, which is registered; its wrapper
\* is in the actor's process, about to be pickled into the reply.
Init ==
    /\ gen \in [locked : BOOLEAN, length : GenLengths, raises : {"no", "plain", "stop"},
                pos : {0}, running : {0}, registered : {TRUE}]
    /\ wraps = <<[at |-> "actor", gc |-> TRUE, state |-> "live"]>>
    /\ linear \in BOOLEAN
    /\ steps = [c \in Clients |-> NoStep]
    /\ out = [values |-> <<>>, lost |-> FALSE, ends |-> [c \in Clients |-> "none"]]

Live(w) == wraps[w].state = "live"
Holds(c) == {w \in DOMAIN wraps : Live(w) /\ wraps[w].at = c}

GetStateKeeping(w, c) == Append(wraps, [at |-> c, gc |-> TRUE, state |-> "flying"])
\* __getstate__ on the way to client c: the copy collects, the original does not.
GetState(w, c) ==
    Append([wraps EXCEPT ![w].gc = FALSE], [at |-> c, gc |-> TRUE, state |-> "flying"])

SendWrapper(w, c) ==
    /\ Len(wraps) < MaxCopies /\ Live(w) /\ wraps[w].at # c
    /\ linear => wraps[w].gc
    /\ wraps' = GetState(w, c)
    /\ UNCHANGED <<gen, steps, linear, out>>

\* The message is unpickled at its receiver, or lost with its connection.
Arrive(w) ==
    /\ wraps[w].state = "flying"
    /\ wraps' = [wraps EXCEPT ![w].state = "live"]
    /\ UNCHANGED <<gen, steps, linear, out>>

Lose(w) ==
    /\ wraps[w].state = "flying"
    /\ wraps' = [wraps EXCEPT ![w].state = "dead"]
    /\ out' = [out EXCEPT !.lost = TRUE]
    /\ UNCHANGED <<gen, steps, linear>>

\* __del__: the wrapper that collects calls __xoscar_destroy_generator__ and
\* waits for it.
Collect(w) ==
    /\ Live(w)
    /\ wraps[w].at \in Clients => steps[wraps[w].at].pc # "asked"
    /\ gen.locked /\ wraps[w].gc => gen.running = 0
    /\ wraps' = [wraps EXCEPT ![w].state = "dead"]
    /\ gen' = [gen EXCEPT !.registered = @ /\ ~wraps[w].gc]
    /\ UNCHANGED <<steps, linear, out>>

\* __anext__ and, in the actor, __xoscar_next__: an unknown generator is an
\* error, and so is a generator that another call is just running.
Ask(c) ==
    /\ steps[c].pc = "idle" /\ Holds(c) # {} /\ out.ends[c] = "none"
    /\ gen.locked => gen.running = 0
    /\ IF ~gen.registered THEN /\ out' = [out EXCEPT !.ends[c] = "unknown"]
                               /\ UNCHANGED <<gen, steps>>
       ELSE IF gen.running > 0 THEN /\ gen' = [gen EXCEPT !.registered = FALSE]
                                    /\ out' = [out EXCEPT !.ends[c] = "busy"]
                                    /\ UNCHANGED steps
       ELSE /\ gen' = [gen EXCEPT !.running = 1]
            /\ steps' = [steps EXCEPT ![c].pc = "asked"]
            /\ UNCHANGED out
    /\ UNCHANGED <<wraps, linear>>

\* The generator yields, stops or raises; a stop and an error destroy it.  The
\* client takes an error whose text has StopIteration for the end.
EndOf(raises) == IF raises = "plain" THEN "error" ELSE "stop"
Answer(c) ==
    /\ steps[c].pc = "asked"
    /\ steps' = [steps EXCEPT ![c] = NoStep]
    /\ IF gen.pos < gen.length
       THEN /\ gen' = [gen EXCEPT !.pos = @ + 1, !.running = 0]
            /\ out' = [out EXCEPT !.values = Append(@, gen.pos + 1)]
       ELSE /\ gen' = [gen EXCEPT !.registered = FALSE, !.running = 0]
            /\ out' = [out EXCEPT !.ends[c] = EndOf(gen.raises)]
    /\ UNCHANGED <<wraps, linear>>

Next ==
    \/ \E c \in Clients : \/ Ask(c) \/ Answer(c)
                          \/ \E w \in DOMAIN wraps : SendWrapper(w, c)
    \/ \E w \in DOMAIN wraps : Arrive(w) \/ Lose(w) \/ Collect(w)

-----------------------------------------------------------------------------
\* Once every wrapper is gone and none was lost, the actor has let go of the
\* generator.
NoLeak ==
    ~out.lost /\ (\A w \in DOMAIN wraps : wraps[w].state = "dead") => ~gen.registered

\* Who is told the end is told the truth: all values were handed out, in their
\* order and whoever asked, and the generator did not fail (an error whose text
\* has StopIteration is the exception).
EndIsEnd ==
    (\E c \in Clients : out.ends[c] = "stop") =>
        gen.raises # "plain" /\ out.values = [i \in 1 .. gen.length |-> i]

\* While only the wrapper that owns the generator is sent on there is one owner,
\* and its holder finds the generator until it ended.
OneOwner ==
    linear =>
    /\ Cardinality({w \in DOMAIN wraps : wraps[w].gc /\ wraps[w].state # "dead"}) <= 1
    /\ (\E w \in DOMAIN wraps : wraps[w].gc /\ wraps[w].state # "dead")
          /\ (\A c \in Clients : out.ends[c] \in {"none", "unknown"}) => gen.registered

\* What the wrapper of a generator promises those who hold it and its actor.
GeneratorKept == NoLeak /\ EndIsEnd /\ OneOwner
====
