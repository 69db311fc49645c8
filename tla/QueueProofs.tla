---------------------------- MODULE QueueProofs ----------------------------
(***************************************************************************)
(* What a queue holds after an element was added at its end, taken from    *)
(* its front or removed: facts about any queue that the proofs about the   *)
(* router's lock, the registered futures and the actor lock rest on.       *)
(***************************************************************************)
EXTENDS Queues, TLAPS

LEMMA EmptyQueue == Range(<<>>) = {} /\ Distinct(<<>>)
BY DEF Range, Distinct

LEMMA AppendFacts ==
    ASSUME NEW S, NEW s \in Seq(S), NEW e \in S
    PROVE  /\ Append(s, e) \in Seq(S)
           /\ Range(Append(s, e)) = Range(s) \cup {e}
           /\ Distinct(s) /\ e \notin Range(s) => Distinct(Append(s, e))
<1>1. /\ Append(s, e) \in Seq(S)
      /\ DOMAIN s = 1..Len(s) /\ Len(s) \in Nat
      /\ DOMAIN Append(s, e) = 1..(Len(s) + 1)
      /\ Append(s, e)[Len(s) + 1] = e
      /\ \A i \in 1..Len(s) : Append(s, e)[i] = s[i]
  OBVIOUS
<1>2. Range(Append(s, e)) = Range(s) \cup {e}
  <2>1. ASSUME NEW x \in Range(Append(s, e))
        PROVE  x \in Range(s) \cup {e}
    BY <1>1 DEF Range
  <2>2. ASSUME NEW x \in Range(s) \cup {e}
        PROVE  x \in Range(Append(s, e))
    BY <1>1 DEF Range
  <2> QED BY <2>1, <2>2
<1>3. Distinct(s) /\ e \notin Range(s) => Distinct(Append(s, e))
  BY <1>1 DEF Distinct, Range
<1> QED BY <1>1, <1>2, <1>3

LEMMA TailFacts ==
    ASSUME NEW S, NEW s \in Seq(S), s # <<>>
    PROVE  /\ Head(s) \in S /\ Tail(s) \in Seq(S)
           /\ Range(s) = Range(Tail(s)) \cup {Head(s)}
           /\ Distinct(s) => Distinct(Tail(s)) /\ Head(s) \notin Range(Tail(s))
<1>1. /\ Head(s) \in S /\ Head(s) = s[1]
      /\ Tail(s) \in Seq(S)
      /\ DOMAIN s = 1..Len(s) /\ Len(s) \in Nat \ {0}
      /\ DOMAIN Tail(s) = 1..(Len(s) - 1)
      /\ \A i \in 1..(Len(s) - 1) : Tail(s)[i] = s[i + 1]
  OBVIOUS
<1>2. Range(s) = Range(Tail(s)) \cup {Head(s)}
  <2>1. ASSUME NEW x \in Range(Tail(s)) \cup {Head(s)}
        PROVE  x \in Range(s)
    BY <1>1 DEF Range
  <2>2. ASSUME NEW i \in DOMAIN s
        PROVE  s[i] \in Range(Tail(s)) \cup {Head(s)}
    <3>1. CASE i = 1
      BY <1>1, <3>1
    <3>2. CASE i # 1
      <4>1. i - 1 \in 1..(Len(s) - 1) /\ Tail(s)[i - 1] = s[i]
        BY <1>1, <3>2
      <4> QED BY <1>1, <4>1 DEF Range
    <3> QED BY <3>1, <3>2
  <2> QED BY <2>1, <2>2 DEF Range
<1>3. Distinct(s) => Distinct(Tail(s)) /\ Head(s) \notin Range(Tail(s))
  BY <1>1 DEF Distinct, Range
<1> QED BY <1>1, <1>2, <1>3

LEMMA WithoutFacts ==
    ASSUME NEW S, NEW s \in Seq(S), NEW j
    PROVE  /\ Without(s, j) \in Seq(S)
           /\ Range(s) \ {j} \subseteq Range(Without(s, j))
           /\ Range(Without(s, j)) \subseteq Range(s)
           /\ Distinct(s) => Distinct(Without(s, j)) /\ Range(Without(s, j)) = Range(s) \ {j}
<1>1. CASE j \notin Range(s)
  BY <1>1 DEF Without
<1>2. CASE j \in Range(s)
  <2> DEFINE n == CHOOSE i \in DOMAIN s : s[i] = j
             t == Without(s, j)
  <2>1. n \in 1..Len(s) /\ s[n] = j /\ Len(s) \in Nat /\ DOMAIN s = 1..Len(s)
    BY <1>2 DEF Range
  <2>2. t = [i \in 1..(Len(s) - 1) |-> IF i < n THEN s[i] ELSE s[i + 1]]
    BY <1>2 DEF Without
  <2> HIDE DEF n, t
  <2>3. \A i \in 1..(Len(s) - 1) : t[i] \in S
    BY <2>1, <2>2
  <2>4. /\ t \in Seq(S)
        /\ DOMAIN t = 1..(Len(s) - 1)
        /\ \A i \in 1..(Len(s) - 1) : t[i] = IF i < n THEN s[i] ELSE s[i + 1]
    BY <2>1, <2>2, <2>3
  <2>5. Range(t) \subseteq Range(s)
    BY <2>1, <2>4 DEF Range
  <2>6. ASSUME NEW i \in DOMAIN s, s[i] # j
        PROVE  s[i] \in Range(t)
    <3>1. CASE i < n
      BY <2>1, <2>4, <3>1 DEF Range
    <3>2. CASE i > n
      <4>1. i - 1 \in 1..(Len(s) - 1) /\ t[i - 1] = s[i]
        BY <2>1, <2>4, <3>2
      <4> QED BY <2>4, <4>1 DEF Range
    <3>3. i # n
      BY <2>1, <2>6
    <3> QED BY <2>1, <3>1, <3>2, <3>3
  <2>7. Range(s) \ {j} \subseteq Range(t)
    BY <2>6 DEF Range
  <2>8. Distinct(s) => Distinct(t) /\ j \notin Range(t)
    <3> SUFFICES ASSUME Distinct(s)
                 PROVE  Distinct(t) /\ j \notin Range(t)
      OBVIOUS
    <3>1. ASSUME NEW i \in 1..(Len(s) - 1), NEW k \in 1..(Len(s) - 1), t[i] = t[k]
          PROVE  i = k
      <4>1. i \in 1..Len(s) /\ k \in 1..Len(s) /\ i + 1 \in 1..Len(s) /\ k + 1 \in 1..Len(s)
        BY <2>1
      <4> QED BY <2>1, <2>4, <3>1, <4>1 DEF Distinct
    <3>2. ASSUME NEW i \in 1..(Len(s) - 1)
          PROVE  t[i] # j
      <4>1. i \in 1..Len(s) /\ i + 1 \in 1..Len(s)
        BY <2>1
      <4>2. CASE i < n
        BY <2>1, <2>4, <4>1, <4>2 DEF Distinct
      <4>3. CASE ~(i < n)
        <5>1. i + 1 # n
          BY <2>1, <4>3
        <5> QED BY <2>1, <2>4, <4>1, <4>3, <5>1 DEF Distinct
      <4> QED BY <4>2, <4>3
    <3>3. j \notin Range(t)
      BY <2>4, <3>2 DEF Range
    <3> QED BY <2>4, <3>1, <3>3 DEF Distinct
  <2> QED BY <2>4, <2>5, <2>7, <2>8 DEF t
<1> QED BY <1>1, <1>2
=============================================================================
