----------------------------- MODULE StackLemmas -----------------------------
(***************************************************************************)
(* Facts about sequences used as stacks, and about the greatest and least  *)
(* element of a bounded set of naturals: what the proofs of the other      *)
(* modules need of the library's operators.                                *)
(***************************************************************************)
EXTENDS Integers, SequencesExt, SequenceTheorems, FiniteSetTheorems,
        WellFoundedInduction, TLAPS

\* Dropping n elements from the top of a stack keeps the others.
LEMMA PrefixFacts ==
  ASSUME NEW S, NEW s \in Seq(S), NEW n \in Nat, n <= Len(s)
  PROVE  /\ SubSeq(s, 1, n) \in Seq(S)
         /\ Len(SubSeq(s, 1, n)) = n
         /\ \A i \in 1 .. n : SubSeq(s, 1, n)[i] = s[i]
<1>1. Len(s) \in Nat
  BY LenProperties
<1>2. \A i \in 1 .. n : s[i] \in S
  BY <1>1, ElementOfSeq
<1>3. /\ SubSeq(s, 1, n) \in Seq(S)
      /\ Len(SubSeq(s, 1, n)) = IF 1 <= n THEN n - 1 + 1 ELSE 0
      /\ \A i \in 1 .. n - 1 + 1 : SubSeq(s, 1, n)[i] = s[1 + i - 1]
  BY <1>2, SubSeqProperties
<1> QED
  BY <1>3

\* Popping a non-empty stack keeps everything below the top.
LEMMA FrontFacts ==
  ASSUME NEW S, NEW s \in Seq(S), s # << >>
  PROVE  /\ Front(s) \in Seq(S)
         /\ Len(Front(s)) = Len(s) - 1
         /\ \A i \in 1 .. Len(s) - 1 : Front(s)[i] = s[i]
         /\ Len(s) >= 1
         /\ Last(s) \in S /\ Last(s) = s[Len(s)]
<1>1. Len(s) \in Nat \ {0}
  BY EmptySeq
<1>2. PICK n \in Nat : n = Len(s) - 1
  BY <1>1
<1>3. /\ SubSeq(s, 1, n) \in Seq(S)
      /\ Len(SubSeq(s, 1, n)) = n
      /\ \A i \in 1 .. n : SubSeq(s, 1, n)[i] = s[i]
  BY <1>1, <1>2, PrefixFacts
<1>4. Front(s) = SubSeq(s, 1, n)
  BY <1>2 DEF Front
<1>5. s[Len(s)] \in S
  BY <1>1, ElementOfSeq
<1> QED
  BY <1>1, <1>2, <1>3, <1>4, <1>5 DEF Last

\* What is pushed is popped.
LEMMA FrontOfAppend ==
  ASSUME NEW S, NEW s \in Seq(S), NEW e \in S
  PROVE  /\ Front(Append(s, e)) = s
         /\ Last(Append(s, e)) = e
<1> DEFINE t == Append(s, e)
<1>1. /\ t \in Seq(S) /\ t # << >> /\ Len(t) = Len(s) + 1
      /\ \A i \in 1 .. Len(s) : t[i] = s[i]
      /\ t[Len(s) + 1] = e
  BY AppendProperties
<1>2. Len(s) \in Nat
  BY LenProperties
<1>3. /\ Front(t) \in Seq(S) /\ Len(Front(t)) = Len(t) - 1
      /\ \A i \in 1 .. Len(t) - 1 : Front(t)[i] = t[i]
      /\ Last(t) = t[Len(t)]
  BY <1>1, FrontFacts
<1>4. Len(Front(t)) = Len(s) /\ \A i \in 1 .. Len(Front(t)) : Front(t)[i] = s[i]
  BY <1>1, <1>2, <1>3
<1>5. Front(t) = s
  BY <1>3, <1>4, SeqEqual
<1> QED
  BY <1>1, <1>2, <1>3, <1>5

\* An index is that of the top of a stack, or is below it.
LEMMA TopOrBelow ==
  ASSUME NEW n \in Nat
  PROVE  /\ \A k \in 1 .. n : k = n \/ k \in 1 .. n - 1
         /\ \A k \in 1 .. n + 1 : k = n + 1 \/ k \in 1 .. n
OBVIOUS

\* e in place of the n elements on top of a stack.
LEMMA ReplaceSome ==
  ASSUME NEW S, NEW s \in Seq(S), NEW n \in Nat, n <= Len(s), NEW e \in S
  PROVE  LET t == Append(SubSeq(s, 1, Len(s) - n), e) IN
         /\ t \in Seq(S) /\ Len(t) = Len(s) - n + 1
         /\ \A i \in 1 .. Len(s) - n : t[i] = s[i]
         /\ t[Len(s) - n + 1] = e
<1>1. PICK m \in Nat : m = Len(s) - n /\ m <= Len(s)
  <2>1. Len(s) - n \in Nat /\ Len(s) - n <= Len(s)
    BY LenProperties
  <2> QED
    BY <2>1
<1>2. PICK f \in Seq(S) : /\ f = SubSeq(s, 1, m) /\ Len(f) = m
                          /\ \A i \in 1 .. m : f[i] = s[i]
  <2>1. m <= Len(s)
    BY <1>1
  <2>2. /\ SubSeq(s, 1, m) \in Seq(S) /\ Len(SubSeq(s, 1, m)) = m
        /\ \A i \in 1 .. m : SubSeq(s, 1, m)[i] = s[i]
    BY <2>1, PrefixFacts
  <2> QED
    BY <2>2
<1>3. /\ Append(f, e) \in Seq(S) /\ Len(Append(f, e)) = m + 1
      /\ \A i \in 1 .. m : Append(f, e)[i] = f[i]
      /\ Append(f, e)[m + 1] = e
  BY <1>2, AppendProperties
<1> QED
  BY <1>1, <1>2, <1>3

\* s with e in place of its top.
WithTop(s, e) == [s EXCEPT ![Len(s)] = e]

\* Replacing the top of a stack leaves what is below.
LEMMA ReplaceTop ==
  ASSUME NEW S, NEW s \in Seq(S), s # << >>, NEW e \in S
  PROVE  /\ WithTop(s, e) \in Seq(S) /\ WithTop(s, e) # << >>
         /\ Len(WithTop(s, e)) = Len(s)
         /\ \A i \in 1 .. Len(s) - 1 : WithTop(s, e)[i] = s[i]
         /\ WithTop(s, e)[Len(s)] = e
         /\ Front(WithTop(s, e)) = Front(s)
<1> DEFINE t == WithTop(s, e)
<1>1. Len(s) \in Nat \ {0}
  BY EmptySeq
<1>2. /\ t \in Seq(S) /\ Len(t) = Len(s)
      /\ \A j \in 1 .. Len(s) : t[j] = IF j = Len(s) THEN e ELSE s[j]
  BY <1>1, ExceptSeq DEF WithTop
<1> HIDE DEF t
<1>3. t # << >>
  BY <1>1, <1>2, EmptySeq
<1>4. /\ Front(t) \in Seq(S) /\ Len(Front(t)) = Len(s) - 1
      /\ \A i \in 1 .. Len(s) - 1 : Front(t)[i] = t[i]
  BY <1>2, <1>3, FrontFacts
<1>5. /\ Front(s) \in Seq(S) /\ Len(Front(s)) = Len(s) - 1
      /\ \A i \in 1 .. Len(s) - 1 : Front(s)[i] = s[i]
  BY FrontFacts
<1>6. \A i \in 1 .. Len(s) - 1 : t[i] = s[i]
  BY <1>1, <1>2
<1>7. \A i \in 1 .. Len(Front(t)) : Front(t)[i] = Front(s)[i]
  BY <1>4, <1>5, <1>6
<1>8. Front(t) = Front(s)
  BY <1>4, <1>5, <1>7, SeqEqual
<1>9. t[Len(s)] = e
  BY <1>1, <1>2
<1> QED
  BY <1>2, <1>3, <1>6, <1>8, <1>9 DEF t

\* e pushed on the topmost of the stacks s.
BoundIn(s, e) == WithTop(s, Append(s[Len(s)], e))

\* Pushing on the topmost stack leaves the others, and what it held.
LEMMA BoundInTop ==
  ASSUME NEW S, NEW s \in Seq(Seq(S)), s # << >>, NEW e \in S
  PROVE  /\ BoundIn(s, e) \in Seq(Seq(S)) /\ Len(BoundIn(s, e)) = Len(s)
         /\ \A i \in 1 .. Len(s) - 1 : BoundIn(s, e)[i] = s[i]
         /\ BoundIn(s, e)[Len(s)] = Append(s[Len(s)], e)
<1>1. s[Len(s)] \in Seq(S)
  BY FrontFacts
<1>2. PICK top \in Seq(S) : top = Append(s[Len(s)], e)
  BY <1>1, AppendProperties
<1>3. /\ WithTop(s, top) \in Seq(Seq(S)) /\ Len(WithTop(s, top)) = Len(s)
      /\ \A i \in 1 .. Len(s) - 1 : WithTop(s, top)[i] = s[i]
      /\ WithTop(s, top)[Len(s)] = top
  BY ReplaceTop
<1>4. BoundIn(s, e) = WithTop(s, top)
  BY <1>2 DEF BoundIn
<1> QED
  BY <1>2, <1>3, <1>4

\* A non-empty set of naturals has a least element.
LEMMA MinFacts ==
  ASSUME NEW P \in SUBSET Nat, P # {}
  PROVE  Min(P) \in P /\ \A y \in P : Min(P) <= y
<1>1. PICK x \in P : \A y \in P : ~ (<<y, x>> \in OpToRel(<, Nat))
  BY WFMin, NatLessThanWellFounded, P \subseteq Nat
<1>2. \A y \in P : x <= y
  <2> TAKE y \in P
  <2>1. <<y, x>> \in Nat \X Nat
    OBVIOUS
  <2>2. ~ (y < x)
    <3>1. ASSUME y < x PROVE <<y, x>> \in OpToRel(<, Nat)
      BY <2>1, <3>1 DEF OpToRel
    <3> QED
      BY <1>1, <3>1
  <2> QED
    BY <2>2
<1> QED
  BY <1>2 DEF Min

\* A non-empty bounded set of naturals has a greatest element.
LEMMA MaxFacts ==
  ASSUME NEW P \in SUBSET Nat, P # {}, NEW n \in Nat, \A y \in P : y <= n
  PROVE  Max(P) \in P /\ \A y \in P : y <= Max(P)
<1> DEFINE Q == {m \in Nat : \A y \in P : y <= m}
<1>1. Q \in SUBSET Nat /\ Q # {}
  BY DEF Q
<1>2. Min(Q) \in Q /\ \A y \in Q : Min(Q) <= y
  BY <1>1, MinFacts
<1>3. Min(Q) \in P
  <2>1. SUFFICES ASSUME Min(Q) \notin P PROVE FALSE
    OBVIOUS
  <2>2. \A y \in P : y < Min(Q)
    BY <1>2, <2>1 DEF Q
  <2>3. Min(Q) \in Nat
    BY <1>2
  <2>4. PICK y \in P : y < Min(Q)
    BY <2>2
  <2>5. Min(Q) # 0
    BY <2>3, <2>4
  <2>6. \A z \in P : z <= Min(Q) - 1
    BY <2>2, <2>3
  <2>7. Min(Q) - 1 \in Q
    BY <2>3, <2>5, <2>6
  <2> QED
    BY <1>2, <2>3, <2>7
<1>4. \A y \in P : y <= Min(Q)
  BY <1>2 DEF Q
<1>5. \E x \in P : \A y \in P : x >= y
  BY <1>3, <1>4
<1> QED
  BY <1>5 DEF Max
=============================================================================
