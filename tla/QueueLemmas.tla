----------------------------- MODULE QueueLemmas -----------------------------
(***************************************************************************)
(* What queue.push and queue.shift do to the set of the elements of a      *)
(* queue (Range), and to their being distinct (IsInjective).               *)
(***************************************************************************)
EXTENDS Integers, Sequences, Functions, SequenceTheorems, TLAPS

\* Appending adds one element, and keeps the elements distinct if it is new.
LEMMA AppendRange ==
    ASSUME NEW S, NEW s \in Seq(S), NEW e \in S
    PROVE  /\ Range(Append(s, e)) = Range(s) \union {e}
           /\ IsInjective(s) /\ e \notin Range(s) => IsInjective(Append(s, e))
<1> DEFINE t == Append(s, e)
<1>1. /\ Len(s) \in Nat
      /\ Len(t) = Len(s) + 1
      /\ \A i \in 1..Len(s) : t[i] = s[i]
      /\ t[Len(s) + 1] = e
      /\ DOMAIN s = 1..Len(s) /\ DOMAIN t = 1..Len(t)
  BY AppendProperties, LenProperties
<1> HIDE DEF t
<1>2. Range(t) = Range(s) \union {e}
  <2>1. Range(t) \subseteq Range(s) \union {e}
    <3> SUFFICES ASSUME NEW i \in 1..Len(t)
                 PROVE  t[i] \in Range(s) \union {e}
      BY <1>1 DEF Range
    <3>1. CASE i \in 1..Len(s)
      BY <3>1, <1>1 DEF Range
    <3>2. CASE i = Len(s) + 1
      BY <3>2, <1>1
    <3> QED BY <3>1, <3>2, <1>1
  <2>2. Range(s) \subseteq Range(t)
    BY <1>1 DEF Range
  <2>3. e \in Range(t)
    BY <1>1 DEF Range
  <2> QED BY <2>1, <2>2, <2>3
<1>3. ASSUME IsInjective(s), e \notin Range(s)
      PROVE  IsInjective(t)
  <2> SUFFICES ASSUME NEW i \in 1..Len(t), NEW k \in 1..Len(t), t[i] = t[k]
               PROVE  i = k
    BY <1>1 DEF IsInjective
  <2>1. CASE i \in 1..Len(s) /\ k \in 1..Len(s)
    BY <2>1, <1>1, <1>3 DEF IsInjective
  <2>2. CASE i \in 1..Len(s) /\ k = Len(s) + 1
    BY <2>2, <1>1, <1>3 DEF Range
  <2>3. CASE i = Len(s) + 1 /\ k \in 1..Len(s)
    BY <2>3, <1>1, <1>3 DEF Range
  <2> QED BY <2>1, <2>2, <2>3, <1>1
<1> QED BY <1>2, <1>3 DEF t

\* Taking the head removes one element, which is not in the rest if the
\* elements are distinct.
LEMMA TailRange ==
    ASSUME NEW S, NEW s \in Seq(S), s # <<>>
    PROVE  /\ Range(s) = {Head(s)} \union Range(Tail(s))
           /\ IsInjective(s) => /\ IsInjective(Tail(s))
                              /\ Head(s) \notin Range(Tail(s))
<1> DEFINE h == Head(s)
           t == Tail(s)
<1>1. /\ Len(s) \in Nat \ {0}
      /\ Len(t) = Len(s) - 1
      /\ \A i \in 1..Len(t) : t[i] = s[i + 1]
      /\ h = s[1]
      /\ DOMAIN s = 1..Len(s) /\ DOMAIN t = 1..Len(t)
  BY HeadTailProperties, LenProperties, EmptySeq
<1> HIDE DEF h, t
<1>2. Range(s) = {h} \union Range(t)
  <2>1. Range(s) \subseteq {h} \union Range(t)
    <3> SUFFICES ASSUME NEW i \in 1..Len(s)
                 PROVE  s[i] \in {h} \union Range(t)
      BY <1>1 DEF Range
    <3>1. CASE i = 1
      BY <3>1, <1>1
    <3>2. CASE i # 1
      <4>1. i - 1 \in 1..Len(t) /\ t[i - 1] = s[i]
        BY <3>2, <1>1
      <4> QED BY <4>1, <1>1 DEF Range
    <3> QED BY <3>1, <3>2
  <2>2. Range(t) \subseteq Range(s)
    <3> SUFFICES ASSUME NEW i \in 1..Len(t) PROVE t[i] \in Range(s)
      BY <1>1 DEF Range
    <3>1. t[i] = s[i + 1] /\ i + 1 \in 1..Len(s)
      BY <1>1
    <3> QED BY <3>1, <1>1 DEF Range
  <2>3. h \in Range(s)
    BY <1>1 DEF Range
  <2> QED BY <2>1, <2>2, <2>3
<1>3. ASSUME IsInjective(s) PROVE IsInjective(t) /\ h \notin Range(t)
  <2>1. IsInjective(t)
    <3> SUFFICES ASSUME NEW i \in 1..Len(t), NEW k \in 1..Len(t), t[i] = t[k]
                 PROVE  i = k
      BY <1>1 DEF IsInjective
    <3>1. s[i + 1] = s[k + 1] /\ i + 1 \in 1..Len(s) /\ k + 1 \in 1..Len(s)
      BY <1>1
    <3>2. i + 1 = k + 1
      BY <3>1, <1>3 DEF IsInjective
    <3> QED BY <3>2, <1>1
  <2>2. h \notin Range(t)
    <3> SUFFICES ASSUME NEW i \in 1..Len(t), t[i] = h PROVE FALSE
      BY <1>1 DEF Range
    <3>1. s[i + 1] = s[1] /\ i + 1 \in 1..Len(s) /\ 1 \in 1..Len(s)
      BY <1>1
    <3>2. i + 1 = 1
      BY <3>1, <1>3 DEF IsInjective
    <3> QED BY <3>2, <1>1
  <2> QED BY <2>1, <2>2
<1> QED BY <1>2, <1>3 DEF h, t

=============================================================================
