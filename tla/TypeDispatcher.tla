---- MODULE TypeDispatcher ----
(***************************************************************************)
(* TypeDispatcher, which finds the handler of the nearest base class of a  *)
(* type, and its use by Serializer.register and unregister.  Types form a  *)
(* chain: the bases of t are t - 1, ..., 1.  A key is a type with a name   *)
(* (NamedType) or with the name "" (the plain type).                       *)
(***************************************************************************)
EXTENDS Naturals, Sequences, FiniteSets, SequencesExt

CONSTANTS Depth,     \* number of types
          Names,     \* names of NamedTypes
          IdOf,      \* IdOf[h]: serializer_id of the serializer class h
          MaxChanges \* bound on registrations and their removals

Classes == DOMAIN IdOf
Types == 1 .. Depth
Keys == (Names \cup {""}) \X Types
NoClass == "none"

VARIABLES handlers,  \* _handlers, by key
          lazy,      \* _lazy_handlers, by the type its string names
          inherit,   \* _inherit_handlers, by key
          deser,     \* _deserializers, by id
          changes,
          late,      \* history: cached keys one of whose bases was registered since
          unread     \* history: classes refused, or whose id was unregistered

dispVars == <<handlers, lazy, inherit, deser, changes, late, unread>>

Init ==
    /\ handlers = [k \in Keys |-> NoClass]
    /\ lazy = [t \in Types |-> NoClass]
    /\ inherit = handlers
    /\ deser = [i \in {IdOf[h] : h \in Classes} |-> NoClass]
    /\ changes = 0 /\ late = {} /\ unread = {}

\* The keys get_handler looks at: each base under the name, then plain.
Bases(k) ==
    FlattenSeq([i \in 1 .. k[2] |-> LET t == k[2] + 1 - i
                                   IN IF k[1] = "" THEN <<<<"", t>>>> ELSE <<<<k[1], t>>, <<"", t>>>>])
Lookup(table, k) ==
    LET found == SelectSeq(Bases(k), LAMBDA b : table[b] # NoClass)
    IN IF found = <<>> THEN NoClass ELSE table[found[1]]

\* register of the dispatcher, and what it makes of the cached answers.
Registered(table, new) == [k \in Keys |-> IF new[k] # NoClass THEN new[k] ELSE table[k]]
LateAfter(new) ==
    late \cup {k \in Keys : inherit[k] # NoClass /\ \E b \in ToSet(Bases(k)) : new[b] # NoClass}

\* The strings that are resolved, as far as the imports go.
Resolved(S) == [k \in Keys |-> IF k[1] = "" /\ k[2] \in S THEN lazy[k[2]] ELSE NoClass]
Pending == {t \in Types : lazy[t] # NoClass}
Loaded == Registered(handlers, Resolved(Pending))

\* _reload_lazy_handlers; an import that fails leaves the strings in place.
ReloadLazyHandlers ==
    /\ handlers' = Loaded
    /\ late' = LateAfter(Resolved(Pending))
    /\ lazy' = [t \in Types |-> NoClass]
ReloadFails ==
    \E S \in SUBSET Pending :
        /\ S # Pending
        /\ handlers' = Registered(handlers, Resolved(S))
        /\ late' = LateAfter(Resolved(S))
        /\ UNCHANGED <<lazy, inherit, deser, changes, unread>>

\* reload_all_lazy_handlers, when a pool is created.
ReloadAll ==
    /\ ReloadLazyHandlers
    /\ UNCHANGED <<inherit, deser, changes, unread>>

\* What get_handler answers; NoClass is its KeyError.
HandlerOf(k) ==
    IF handlers[k] # NoClass THEN handlers[k]
    ELSE IF inherit[k] # NoClass THEN inherit[k] ELSE Lookup(Loaded, k)
\* get_handler changes something only if it finds neither of the first two.
GetHandler(k) ==
    /\ handlers[k] = NoClass /\ inherit[k] = NoClass
    /\ ReloadLazyHandlers
    /\ inherit' = [inherit EXCEPT ![k] = HandlerOf(k)]
    /\ UNCHANGED <<deser, changes, unread>>

Change == changes < MaxChanges /\ changes' = changes + 1

\* Serializer.register: the dispatcher first, then the deserializer, with the
\* assertion that the id is this class's.
KnowsReader(h) ==
    IF deser[IdOf[h]] \in {NoClass, h}
    THEN deser' = [deser EXCEPT ![IdOf[h]] = h] /\ unread' = unread \ {h}
    ELSE UNCHANGED deser /\ unread' = unread \cup {h}
Register(k, h) ==
    LET new == [b \in Keys |-> IF b = k THEN h ELSE NoClass]
    IN /\ Change
       /\ handlers' = Registered(handlers, new)
       /\ late' = LateAfter(new)
       /\ KnowsReader(h)
       /\ UNCHANGED <<lazy, inherit>>
RegisterLazy(t, h) ==
    /\ Change
    /\ lazy' = [lazy EXCEPT ![t] = h]
    /\ KnowsReader(h)
    /\ UNCHANGED <<handlers, inherit, late>>

\* Serializer.unregister, by a type or by a string.
ForgetKeepsInherited == UNCHANGED <<inherit, late>>
Forget == inherit' = [k \in Keys |-> NoClass] /\ late' = {}
NoReader(h) ==
    /\ deser' = [deser EXCEPT ![IdOf[h]] = NoClass]
    /\ unread' = unread \cup {g \in Classes : IdOf[g] = IdOf[h]}
Unregister(k, h) ==
    /\ Change /\ handlers[k] = h
    /\ handlers' = [handlers EXCEPT ![k] = NoClass]
    /\ Forget /\ NoReader(h)
    /\ UNCHANGED lazy
UnregisterLazy(t, h) ==
    /\ Change /\ lazy[t] = h
    /\ lazy' = [lazy EXCEPT ![t] = NoClass]
    /\ Forget /\ NoReader(h)
    /\ UNCHANGED handlers

Next ==
    \/ ReloadAll \/ ReloadFails
    \/ \E k \in Keys : GetHandler(k)
    \/ \E h \in Classes : \/ \E k \in Keys : Register(k, h) \/ Unregister(k, h)
                          \/ \E t \in Types : RegisterLazy(t, h) \/ UnregisterLazy(t, h)

-----------------------------------------------------------------------------
\* get_handler gives the handler of the nearest base, named before plain and
\* strings included, whatever was asked, registered and removed before; only a
\* registration that came after the answer was stored may be overlooked.
NearestHandler ==
    \A k \in Keys : HandlerOf(k) = Lookup(Loaded, k)
                    \/ k \in late \/ \E b \in ToSet(Bases(k)) : b[1] = "" /\ b[2] \in Pending

\* What a dispatched serializer writes is read by the same class, unless its
\* registration was refused for its id or that id has been unregistered.
ReaderMatches ==
    \A k \in Keys : LET h == HandlerOf(k)
                    IN h # NoClass /\ h \notin unread => deser[IdOf[h]] = h

\* Both: a value is written by the nearest serializer and read by the same.
Dispatched == NearestHandler /\ ReaderMatches
====
