-------------------------- MODULE LexicalScope_proofs --------------------------
(***************************************************************************)
(* That the type checker's search through nested scopes implements         *)
(* LexicalScope, for every set of names, types, symbols and special forms: *)
(* the refinement TypeCheckIsLexical of ScopeResolution.  What a name      *)
(* means at a depth of the stack depends on the scopes up to there, and on *)
(* the last entry of the innermost scope that has the name; the invariant  *)
(* added to IInv is that the next site is one no local has.                *)
(***************************************************************************)
EXTENDS ScopeResolution_proofs

\* j is the last place of s that holds x.
IsLastOf(s, x, j) ==
  /\ j \in DOMAIN s /\ s[j].name = x
  /\ \A k \in DOMAIN s : s[k].name = x => k <= j

-----------------------------------------------------------------------------
(* What a name means when one more scope is on the stack.                   *)

\* A scope that holds a name at all holds it in a last place.
LEMMA LastOfScope ==
  ASSUME NEW s \in Seq(Local), NEW x, \E j \in DOMAIN s : s[j].name = x
  PROVE  \E j : IsLastOf(s, x, j)
<1> DEFINE P == {j \in DOMAIN s : s[j].name = x}
<1>1. DOMAIN s = 1 .. Len(s) /\ Len(s) \in Nat
  BY LenProperties
<1>2. P \in SUBSET Nat /\ P # {} /\ \A y \in P : y <= Len(s)
  BY <1>1
<1>3. Max(P) \in P /\ \A y \in P : y <= Max(P)
  BY <1>1, <1>2, MaxFacts
<1> QED
  BY <1>3 DEF IsLastOf

\* The entries of a stack of scopes are those of its top and those below.
LEMMA EntriesOfAppend ==
  ASSUME NEW S \in Seq(Seq(Local)), NEW s \in Seq(Local), NEW x
  PROVE  LET T == Append(S, s) IN
         /\ \A p : p \in Entries(T, x) <=> \/ p \in Entries(S, x)
                                           \/ \E j \in DOMAIN s : p = <<Len(S) + 1, j>> /\ s[j].name = x
         /\ \A p \in Entries(S, x) : /\ p[1] \in 1 .. Len(S)
                                     /\ Entry(T, p) = Entry(S, p)
         /\ \A j \in DOMAIN s : Entry(T, <<Len(S) + 1, j>>) = s[j]
         /\ PositionsOf(T, Entries(T, x)) /\ PositionsOf(S, Entries(S, x))
         /\ T \in Seq(Seq(Local))
<1> DEFINE T == Append(S, s)
<1>1. /\ T \in Seq(Seq(Local)) /\ Len(T) = Len(S) + 1
      /\ \A i \in 1 .. Len(S) : T[i] = S[i]
      /\ T[Len(S) + 1] = s
  BY AppendProperties
<1>2. /\ DOMAIN S = 1 .. Len(S) /\ Len(S) \in Nat /\ DOMAIN T = 1 .. Len(S) + 1
  BY <1>1, LenProperties
<1> HIDE DEF T
<1>3. ASSUME NEW p
      PROVE  p \in Entries(T, x) <=> \/ p \in Entries(S, x)
                                     \/ \E j \in DOMAIN s : p = <<Len(S) + 1, j>> /\ s[j].name = x
  <2>1. p \in Entries(T, x) <=> \E i \in DOMAIN T : \E j \in DOMAIN T[i] :
                                  p = <<i, j>> /\ T[i][j].name = x
    BY EntriesFacts
  <2>2. p \in Entries(S, x) <=> \E i \in DOMAIN S : \E j \in DOMAIN S[i] :
                                  p = <<i, j>> /\ S[i][j].name = x
    BY EntriesFacts
  <2>3. \A i \in DOMAIN T : i \in DOMAIN S \/ i = Len(S) + 1
    BY <1>2
  <2>4. \A i \in DOMAIN S : i \in DOMAIN T /\ T[i] = S[i]
    BY <1>1, <1>2
  <2>5. Len(S) + 1 \in DOMAIN T
    BY <1>2
  <2> QED
    BY <1>1, <2>1, <2>2, <2>3, <2>4, <2>5
<1>4. ASSUME NEW p \in Entries(S, x)
      PROVE  p[1] \in 1 .. Len(S) /\ Entry(T, p) = Entry(S, p)
  <2>1. PICK i \in DOMAIN S : \E j \in DOMAIN S[i] : p = <<i, j>>
    BY EntriesFacts
  <2>2. p[1] = i /\ T[i] = S[i]
    BY <1>1, <1>2, <2>1
  <2> QED
    BY <1>2, <2>2 DEF Entry
<1>5. \A j \in DOMAIN s : Entry(T, <<Len(S) + 1, j>>) = s[j]
  BY <1>1 DEF Entry
<1>6. PositionsOf(T, Entries(T, x)) /\ PositionsOf(S, Entries(S, x))
  BY EntriesFacts DEF PositionsOf
<1> QED
  BY <1>1, <1>3, <1>4, <1>5, <1>6 DEF T

\* The innermost of some positions is the only one with no other behind it.
LEMMA LastPositionIsOne ==
  ASSUME NEW T, NEW scopes \in Seq(Seq(T)), NEW P, PositionsOf(scopes, P),
         NEW p, NEW q, LastPosition(p, P), LastPosition(q, P)
  PROVE  p = q
<1>1. p \in P /\ q \in P
  BY DEF LastPosition
<1>2. \A r \in P : r = <<r[1], r[2]>> /\ r[1] \in Nat /\ r[2] \in Nat
  <2> SUFFICES ASSUME NEW r \in P PROVE r = <<r[1], r[2]>> /\ r[1] \in Nat /\ r[2] \in Nat
    OBVIOUS
  <2>1. PICK i \in DOMAIN scopes : \E j \in DOMAIN scopes[i] : r = <<i, j>>
    BY DEF PositionsOf
  <2>2. PICK j \in DOMAIN scopes[i] : r = <<i, j>>
    BY <2>1
  <2>3. DOMAIN scopes = 1 .. Len(scopes) /\ scopes[i] \in Seq(T)
    BY LenProperties, ElementOfSeq
  <2>4. DOMAIN scopes[i] = 1 .. Len(scopes[i]) /\ Len(scopes) \in Nat /\ Len(scopes[i]) \in Nat
    BY <2>3, LenProperties
  <2> QED
    BY <2>2, <2>3, <2>4
<1>3. /\ q[1] < p[1] \/ (q[1] = p[1] /\ q[2] <= p[2])
      /\ p[1] < q[1] \/ (p[1] = q[1] /\ p[2] <= q[2])
  BY <1>1 DEF LastPosition
<1>4. p[1] = q[1] /\ p[2] = q[2]
  BY <1>1, <1>2, <1>3
<1> QED
  BY <1>1, <1>2, <1>4

\* A name that the top scope has means its last entry there.
LEMMA MeaningInTop ==
  ASSUME NEW S \in Seq(Seq(Local)), NEW s \in Seq(Local), NEW x, NEW j, IsLastOf(s, x, j)
  PROVE  Meaning(Append(S, s), x) = s[j].at
<1> DEFINE T == Append(S, s)
           P == Entries(T, x)
           p == <<Len(S) + 1, j>>
<1>1. /\ \A q : q \in P <=> \/ q \in Entries(S, x)
                            \/ \E k \in DOMAIN s : q = <<Len(S) + 1, k>> /\ s[k].name = x
      /\ \A q \in Entries(S, x) : q[1] \in 1 .. Len(S)
      /\ Entry(T, p) = s[j]
      /\ PositionsOf(T, P) /\ T \in Seq(Seq(Local))
  BY EntriesOfAppend DEF IsLastOf
<1>2. j \in DOMAIN s /\ s[j].name = x /\ \A k \in DOMAIN s : s[k].name = x => k <= j
  BY DEF IsLastOf
<1>3. p \in P /\ Len(S) \in Nat
  BY <1>1, <1>2, LenProperties
<1> HIDE DEF T, P
<1>4. LastPosition(p, P)
  <2> SUFFICES ASSUME NEW q \in P PROVE q[1] < p[1] \/ (q[1] = p[1] /\ q[2] <= p[2])
    BY <1>3 DEF LastPosition
  <2>1. CASE q \in Entries(S, x)
    BY <1>1, <1>3, <2>1
  <2>2. CASE \E k \in DOMAIN s : q = <<Len(S) + 1, k>> /\ s[k].name = x
    BY <1>2, <2>2
  <2> QED
    BY <1>1, <2>1, <2>2
<1>5. LastPosition(Innermost(P), P)
  BY <1>1, <1>3, InnermostFacts
<1>6. Innermost(P) = p
  BY <1>1, <1>4, <1>5, LastPositionIsOne
<1>7. Meaning(T, x) = Entry(T, p).at
  BY <1>3, <1>6 DEF Meaning, P
<1> QED
  BY <1>1, <1>7 DEF T

\* Any other name means what it means below.
LEMMA MeaningBelow ==
  ASSUME NEW S \in Seq(Seq(Local)), NEW s \in Seq(Local), NEW x, \A j \in DOMAIN s : s[j].name # x
  PROVE  Meaning(Append(S, s), x) = Meaning(S, x)
<1> DEFINE T == Append(S, s)
<1>1. /\ \A p : p \in Entries(T, x) <=> \/ p \in Entries(S, x)
                                        \/ \E j \in DOMAIN s : p = <<Len(S) + 1, j>> /\ s[j].name = x
      /\ \A p \in Entries(S, x) : Entry(T, p) = Entry(S, p)
      /\ PositionsOf(S, Entries(S, x))
  BY EntriesOfAppend
<1>2. Entries(T, x) = Entries(S, x)
  <2>1. \A p : p \in Entries(T, x) <=> p \in Entries(S, x)
    BY <1>1
  <2>2. Entries(T, x) = {p \in Entries(T, x) : TRUE} /\ Entries(S, x) = {p \in Entries(S, x) : TRUE}
    OBVIOUS
  <2> QED
    BY <2>1
<1>3. CASE Entries(S, x) = {}
  BY <1>2, <1>3 DEF Meaning
<1>4. CASE Entries(S, x) # {}
  <2>1. Innermost(Entries(S, x)) \in Entries(S, x)
    BY <1>1, <1>4, InnermostFacts DEF LastPosition
  <2> QED
    BY <1>1, <1>2, <1>4, <2>1 DEF Meaning
<1> QED
  BY <1>3, <1>4

\* What a name means is a site in force, or it is unresolved.
LEMMA MeaningIsSite ==
  ASSUME NEW S \in Seq(Seq(Local)), NEW x
  PROVE  /\ Meaning(S, x) \in Int
         /\ \/ Meaning(S, x) = Unresolved
            \/ \E i \in DOMAIN S : \E j \in DOMAIN S[i] : Meaning(S, x) = S[i][j].at
<1>1. CASE Entries(S, x) = {}
  BY <1>1 DEF Meaning, Unresolved
<1>2. CASE Entries(S, x) # {}
  <2>1. PositionsOf(S, Entries(S, x))
    BY EntriesFacts DEF PositionsOf
  <2>2. Innermost(Entries(S, x)) \in Entries(S, x)
    BY <1>2, <2>1, InnermostFacts DEF LastPosition
  <2>3. PICK i \in DOMAIN S : \E j \in DOMAIN S[i] : Innermost(Entries(S, x)) = <<i, j>>
    BY <2>2, EntriesFacts
  <2>4. PICK j \in DOMAIN S[i] : Innermost(Entries(S, x)) = <<i, j>>
    BY <2>3
  <2>5. Meaning(S, x) = S[i][j].at
    BY <1>2, <2>4 DEF Meaning, Entry
  <2>6. S[i] \in Seq(Local)
    BY ElementOfSeq, LenProperties
  <2>7. S[i][j] \in Local
    BY <2>6, ElementOfSeq, LenProperties
  <2> QED
    BY <2>5, <2>7 DEF Local
<1> QED
  BY <1>1, <1>2

-----------------------------------------------------------------------------
(* The environments of a stack of scopes.                                   *)

Environment == [Names -> Int]

\* The environment in force inside scopes.
Innermostly(scopes) == [x \in Names |-> Meaning(scopes, x)]

\* At each depth the environment is that of the scopes up to there.
LEMMA EnvironmentsAre ==
  ASSUME NEW S \in Seq(Seq(Local))
  PROVE  /\ EnvironmentsOf(S) \in Seq(Environment)
         /\ Len(EnvironmentsOf(S)) = Len(S) + 1
         /\ \A k \in 1 .. Len(S) + 1 : EnvironmentsOf(S)[k] = Innermostly(SubSeq(S, 1, k - 1))
<1>1. Len(S) \in Nat
  BY LenProperties
<1>2. EnvironmentsOf(S) = [k \in 1 .. Len(S) + 1 |-> Innermostly(SubSeq(S, 1, k - 1))]
  BY DEF EnvironmentsOf, Innermostly
<1>3. ASSUME NEW k \in 1 .. Len(S) + 1 PROVE Innermostly(SubSeq(S, 1, k - 1)) \in Environment
  <2>1. SubSeq(S, 1, k - 1) \in Seq(Seq(Local))
    BY <1>1, PrefixFacts
  <2>2. \A x \in Names : Meaning(SubSeq(S, 1, k - 1), x) \in Int
    BY <2>1, MeaningIsSite
  <2> QED
    BY <2>2 DEF Innermostly, Environment
<1>4. EnvironmentsOf(S) \in [1 .. Len(S) + 1 -> Environment]
  BY <1>2, <1>3
<1>5. EnvironmentsOf(S) \in Seq(Environment)
  BY <1>1, <1>4, SeqDef
<1>6. Len(EnvironmentsOf(S)) = Len(S) + 1
  BY <1>1, <1>4, <1>5, LenProperties
<1> QED
  BY <1>2, <1>5, <1>6

\* The last environment is the one in force, and those below do not change when a scope
\* comes on top.
LEMMA EnvironmentsOfAppend ==
  ASSUME NEW S \in Seq(Seq(Local)), NEW s \in Seq(Local)
  PROVE  /\ EnvironmentsOf(Append(S, s)) = Append(EnvironmentsOf(S), Innermostly(Append(S, s)))
         /\ EnvironmentsOf(S)[Len(S) + 1] = Innermostly(S)
<1> DEFINE T == Append(S, s)
<1>1. /\ T \in Seq(Seq(Local)) /\ Len(T) = Len(S) + 1 /\ Len(S) \in Nat
      /\ \A i \in 1 .. Len(S) : T[i] = S[i]
  BY AppendProperties, LenProperties
<1> HIDE DEF T
<1>2. ASSUME NEW k \in 1 .. Len(S) + 1 PROVE SubSeq(T, 1, k - 1) = SubSeq(S, 1, k - 1)
  <2>1. PICK n \in Nat : n = k - 1 /\ n <= Len(S) /\ n <= Len(T)
    BY <1>1
  <2>2. /\ SubSeq(T, 1, n) \in Seq(Seq(Local)) /\ Len(SubSeq(T, 1, n)) = n
        /\ \A i \in 1 .. n : SubSeq(T, 1, n)[i] = T[i]
    BY <1>1, <2>1, PrefixFacts
  <2>3. /\ SubSeq(S, 1, n) \in Seq(Seq(Local)) /\ Len(SubSeq(S, 1, n)) = n
        /\ \A i \in 1 .. n : SubSeq(S, 1, n)[i] = S[i]
    BY <2>1, PrefixFacts
  <2>4. \A i \in 1 .. n : SubSeq(T, 1, n)[i] = SubSeq(S, 1, n)[i]
    BY <1>1, <2>1, <2>2, <2>3
  <2>5. SubSeq(T, 1, n) = SubSeq(S, 1, n)
    BY <2>2, <2>3, <2>4, SeqEqual
  <2> QED
    BY <2>1, <2>5
<1>3. /\ EnvironmentsOf(S) \in Seq(Environment) /\ Len(EnvironmentsOf(S)) = Len(S) + 1
      /\ \A k \in 1 .. Len(S) + 1 : EnvironmentsOf(S)[k] = Innermostly(SubSeq(S, 1, k - 1))
  BY EnvironmentsAre
<1>4. /\ EnvironmentsOf(T) \in Seq(Environment) /\ Len(EnvironmentsOf(T)) = Len(S) + 2
      /\ \A k \in 1 .. Len(S) + 2 : EnvironmentsOf(T)[k] = Innermostly(SubSeq(T, 1, k - 1))
  <2>1. /\ EnvironmentsOf(T) \in Seq(Environment) /\ Len(EnvironmentsOf(T)) = Len(T) + 1
        /\ \A k \in 1 .. Len(T) + 1 : EnvironmentsOf(T)[k] = Innermostly(SubSeq(T, 1, k - 1))
    BY <1>1, EnvironmentsAre
  <2>2. Len(T) + 1 = Len(S) + 2
    BY <1>1
  <2> QED
    BY <2>1, <2>2
<1>5. Len(S) + 1 \in 1 .. Len(S) + 1 /\ (Len(S) + 1) - 1 = Len(S)
      /\ Len(S) + 2 \in 1 .. Len(S) + 2 /\ (Len(S) + 2) - 1 = Len(T)
  BY <1>1
<1>6. SubSeq(S, 1, Len(S)) = S /\ SubSeq(T, 1, Len(T)) = T
  BY <1>1, SubSeqFull
<1>7. EnvironmentsOf(S)[Len(S) + 1] = Innermostly(S) /\ EnvironmentsOf(T)[Len(S) + 2] = Innermostly(T)
  BY <1>3, <1>4, <1>5, <1>6
<1>8. Innermostly(T) \in Environment
  BY <1>4, <1>5, <1>7, ElementOfSeq
<1> DEFINE u == Append(EnvironmentsOf(S), Innermostly(T))
<1>9. /\ u \in Seq(Environment) /\ Len(u) = Len(S) + 2
      /\ \A k \in 1 .. Len(S) + 1 : u[k] = EnvironmentsOf(S)[k]
      /\ u[Len(S) + 2] = Innermostly(T)
  <2>1. /\ u \in Seq(Environment) /\ Len(u) = Len(EnvironmentsOf(S)) + 1
        /\ \A k \in 1 .. Len(EnvironmentsOf(S)) : u[k] = EnvironmentsOf(S)[k]
        /\ u[Len(EnvironmentsOf(S)) + 1] = Innermostly(T)
    BY <1>3, <1>8, AppendProperties
  <2>2. Len(EnvironmentsOf(S)) + 1 = Len(S) + 2
    BY <1>1, <1>3
  <2> QED
    BY <1>3, <2>1, <2>2
<1> HIDE DEF u
<1>10. \A k \in 1 .. Len(S) + 2 : k = Len(S) + 2 \/ k \in 1 .. Len(S) + 1
  BY <1>1
<1>11. \A k \in 1 .. Len(S) + 2 : EnvironmentsOf(T)[k] = u[k]
  <2> SUFFICES ASSUME NEW k \in 1 .. Len(S) + 2 PROVE EnvironmentsOf(T)[k] = u[k]
    OBVIOUS
  <2>1. CASE k = Len(S) + 2
    BY <1>7, <1>9, <2>1
  <2>2. CASE k \in 1 .. Len(S) + 1
    <3>1. EnvironmentsOf(T)[k] = Innermostly(SubSeq(T, 1, k - 1))
      BY <1>4
    <3>2. SubSeq(T, 1, k - 1) = SubSeq(S, 1, k - 1)
      BY <1>2, <2>2
    <3>3. EnvironmentsOf(S)[k] = Innermostly(SubSeq(S, 1, k - 1))
      BY <1>3, <2>2
    <3>4. u[k] = EnvironmentsOf(S)[k]
      BY <1>9, <2>2
    <3> QED
      BY <3>1, <3>2, <3>3, <3>4
  <2> QED
    BY <1>10, <2>1, <2>2
<1>12. EnvironmentsOf(T) = u
  BY <1>4, <1>9, <1>11, SeqEqual
<1> QED
  BY <1>7, <1>12 DEF T, u

\* What is in force is an environment.
LEMMA InForce ==
  ASSUME NEW S \in Seq(Seq(Local))
  PROVE  Innermostly(S) \in Environment
BY MeaningIsSite DEF Innermostly, Environment

\* A stack that is not empty is its top on what is below.
LEMMA FrontAndLast ==
  ASSUME NEW T, NEW s \in Seq(T), s # << >>
  PROVE  s = Append(Front(s), Last(s))
<1>1. /\ Front(s) \in Seq(T) /\ Len(Front(s)) = Len(s) - 1 /\ Last(s) \in T /\ Len(s) >= 1
      /\ \A i \in 1 .. Len(s) - 1 : Front(s)[i] = s[i]
      /\ Last(s) = s[Len(s)] /\ Len(s) \in Nat
  BY FrontFacts, LenProperties
<1> DEFINE t == Append(Front(s), Last(s))
<1>2. /\ t \in Seq(T) /\ Len(t) = Len(s)
      /\ \A i \in 1 .. Len(s) - 1 : t[i] = s[i]
      /\ t[Len(s)] = s[Len(s)]
  BY <1>1, AppendProperties
<1> HIDE DEF t
<1>3. \A i \in 1 .. Len(s) : t[i] = s[i]
  BY <1>1, <1>2, TopOrBelow
<1>4. t = s
  BY <1>2, <1>3, SeqEqual
<1> QED
  BY <1>4 DEF t

-----------------------------------------------------------------------------
(* The steps of the type checker that change its scopes.                    *)

\* A scope of arguments opens: each of them means its last declaration there.
LEMMA ScopeEnters ==
  ASSUME NEW S \in Seq(Seq(Local)), NEW s \in Seq(Local), NEW a,
         DOMAIN a = DOMAIN s, \A j \in DOMAIN s : s[j].name = a[j] /\ s[j].at = j,
         tscopes = S, tscopes' = Append(S, s)
  PROVE  CheckScoping!Enter(a)
<1> DEFINE E == EnvironmentsOf(S)
           last(x) == CHOOSE j \in DOMAIN a :
                        /\ a[j] = x
                        /\ \A k \in DOMAIN a : a[k] = x => k <= j
           meaning(x) == IF \E j \in DOMAIN a : a[j] = x THEN last(x) ELSE E[Len(E)][x]
<1>1. /\ EnvironmentsOf(Append(S, s)) = Append(E, Innermostly(Append(S, s)))
      /\ E[Len(S) + 1] = Innermostly(S) /\ Len(E) = Len(S) + 1
  BY EnvironmentsOfAppend, EnvironmentsAre
<1>2. ASSUME NEW x \in Names PROVE Meaning(Append(S, s), x) = meaning(x)
  <2>1. CASE \E j \in DOMAIN s : s[j].name = x
    <3>1. PICK j : IsLastOf(s, x, j)
      BY <2>1, LastOfScope
    <3>2. /\ j \in DOMAIN a /\ a[j] = x /\ s[j].at = j
          /\ \A k \in DOMAIN a : a[k] = x => k <= j
      BY <3>1 DEF IsLastOf
    <3>3. /\ last(x) \in DOMAIN a /\ a[last(x)] = x
          /\ \A k \in DOMAIN a : a[k] = x => k <= last(x)
      BY <3>2
    <3>4. last(x) <= j /\ j <= last(x)
      BY <3>2, <3>3
    <3>5. DOMAIN a = 1 .. Len(s) /\ Len(s) \in Nat
      BY LenProperties
    <3>6. last(x) = j
      BY <3>2, <3>3, <3>4, <3>5
    <3>7. meaning(x) = last(x)
      BY <3>2
    <3> QED
      BY <3>1, <3>2, <3>6, <3>7, MeaningInTop
  <2>2. CASE ~ \E j \in DOMAIN s : s[j].name = x
    <3>1. Meaning(Append(S, s), x) = Meaning(S, x)
      BY <2>2, MeaningBelow
    <3>2. meaning(x) = E[Len(E)][x]
      BY SMTT(30), <2>2
    <3>3. E[Len(E)][x] = Meaning(S, x)
      BY <1>1 DEF Innermostly
    <3> QED
      BY <3>1, <3>2, <3>3
  <2> QED
    BY <2>1, <2>2
<1>3. Innermostly(Append(S, s)) = [x \in Names |-> meaning(x)]
  BY <1>2 DEF Innermostly
<1>4. EnvironmentsOf(tscopes') = Append(E, [x \in Names |-> meaning(x)])
  BY <1>1, <1>3
<1> QED
  BY <1>4 DEF CheckScoping!Enter

\* The innermost scope ends: what names meant outside, they mean again.
LEMMA ScopeLeaves ==
  ASSUME NEW F \in Seq(Seq(Local)), NEW top \in Seq(Local),
         tscopes = Append(F, top), tscopes' = F
  PROVE  CheckScoping!Leave
<1> DEFINE d == EnvironmentsOf(F)
           v == Innermostly(Append(F, top))
<1>1. EnvironmentsOf(tscopes) = Append(d, v) /\ EnvironmentsOf(tscopes') = d
  BY EnvironmentsOfAppend
<1>2. d \in Seq(Environment) /\ Len(d) = Len(F) + 1 /\ Len(F) \in Nat
  BY EnvironmentsAre, LenProperties
<1>3. v \in Environment
  BY AppendProperties, InForce
<1> HIDE DEF d, v
<1>4. Len(Append(d, v)) = Len(d) + 1 /\ Front(Append(d, v)) = d
  BY <1>2, <1>3, AppendProperties, FrontOfAppend
<1>5. Len(Append(d, v)) > 1
  BY <1>2, <1>4
<1> QED
  BY <1>1, <1>4, <1>5 DEF CheckScoping!Leave, Front

\* Another name means in a scope what it meant before one entry more.
LEMMA OtherNamesKept ==
  ASSUME NEW F \in Seq(Seq(Local)), NEW top \in Seq(Local), NEW e \in Local,
         NEW y, y # e.name
  PROVE  Meaning(Append(F, Append(top, e)), y) = Meaning(Append(F, top), y)
<1> DEFINE new == Append(top, e)
<1>1. /\ new \in Seq(Local) /\ Len(new) = Len(top) + 1 /\ Len(top) \in Nat
      /\ \A k \in 1 .. Len(top) : new[k] = top[k]
      /\ new[Len(top) + 1] = e
  BY AppendProperties, LenProperties
<1> HIDE DEF new
<1>2. DOMAIN top = 1 .. Len(top) /\ DOMAIN new = 1 .. Len(top) + 1
  BY <1>1, LenProperties
<1>3. ASSUME NEW k \in DOMAIN new, new[k].name = y
      PROVE  k \in DOMAIN top /\ top[k].name = y
  <2>1. k # Len(top) + 1
    BY <1>1, <1>3
  <2> QED
    BY <1>1, <1>2, <1>3, <2>1
<1>4. CASE \E j \in DOMAIN top : top[j].name = y
  <2>1. PICK j : IsLastOf(top, y, j)
    BY <1>4, LastOfScope
  <2>2. j \in DOMAIN new /\ new[j] = top[j]
    BY <1>1, <1>2, <2>1 DEF IsLastOf
  <2>3. IsLastOf(new, y, j)
    BY <1>3, <2>1, <2>2 DEF IsLastOf
  <2>4. Meaning(Append(F, new), y) = new[j].at
    BY <1>1, <2>3, MeaningInTop
  <2>5. Meaning(Append(F, top), y) = top[j].at
    BY <2>1, MeaningInTop
  <2> QED
    BY <2>2, <2>4, <2>5 DEF new
<1>5. CASE ~ \E j \in DOMAIN top : top[j].name = y
  <2>1. \A j \in DOMAIN new : new[j].name # y
    BY <1>3, <1>5
  <2>2. Meaning(Append(F, new), y) = Meaning(F, y)
    BY <1>1, <2>1, MeaningBelow
  <2>3. Meaning(Append(F, top), y) = Meaning(F, y)
    BY <1>5, MeaningBelow
  <2> QED
    BY <2>2, <2>3 DEF new
<1> QED
  BY <1>4, <1>5

\* A name declared last in a scope means that declaration.
LEMMA LastDeclared ==
  ASSUME NEW F \in Seq(Seq(Local)), NEW top \in Seq(Local), NEW e \in Local
  PROVE  Meaning(Append(F, Append(top, e)), e.name) = e.at
<1> DEFINE new == Append(top, e)
<1>1. /\ new \in Seq(Local) /\ Len(new) = Len(top) + 1 /\ Len(top) \in Nat
      /\ new[Len(top) + 1] = e
  BY AppendProperties, LenProperties
<1> HIDE DEF new
<1>2. DOMAIN new = 1 .. Len(top) + 1
  BY <1>1, LenProperties
<1>3. IsLastOf(new, e.name, Len(top) + 1)
  BY <1>1, <1>2 DEF IsLastOf
<1>4. Meaning(Append(F, new), e.name) = new[Len(top) + 1].at
  BY <1>1, <1>3, MeaningInTop
<1> QED
  BY <1>1, <1>4 DEF new

\* No name means, at any depth, a site beyond those of the entries.
LEMMA SiteIsNew ==
  ASSUME NEW S \in Seq(Seq(Local)), NEW site \in Nat,
         \A i \in DOMAIN S : \A j \in DOMAIN S[i] : S[i][j].at < site,
         NEW k \in DOMAIN EnvironmentsOf(S), NEW y \in Names
  PROVE  EnvironmentsOf(S)[k][y] # site
<1>1. k \in 1 .. Len(S) + 1 /\ Len(S) \in Nat
  <2>1. EnvironmentsOf(S) \in Seq(Environment) /\ Len(EnvironmentsOf(S)) = Len(S) + 1
    BY EnvironmentsAre
  <2>2. DOMAIN EnvironmentsOf(S) = 1 .. Len(S) + 1
    BY <2>1, LenProperties
  <2> QED
    BY <2>2, LenProperties
<1>2. EnvironmentsOf(S)[k] = Innermostly(SubSeq(S, 1, k - 1))
  BY <1>1, EnvironmentsAre
<1>3. PICK P \in Seq(Seq(Local)) : /\ P = SubSeq(S, 1, k - 1) /\ Len(P) = k - 1
                                   /\ \A i \in 1 .. k - 1 : P[i] = S[i]
  <2>1. k - 1 \in Nat /\ k - 1 <= Len(S)
    BY <1>1
  <2> QED
    BY ZenonT(30), <2>1, PrefixFacts
<1>4. EnvironmentsOf(S)[k][y] = Meaning(P, y)
  BY <1>2, <1>3 DEF Innermostly
<1>5. CASE Meaning(P, y) = Unresolved
  BY <1>4, <1>5 DEF Unresolved
<1>6. CASE Meaning(P, y) # Unresolved
  <2>1. PICK i \in DOMAIN P : \E j \in DOMAIN P[i] : Meaning(P, y) = P[i][j].at
    BY <1>6, MeaningIsSite
  <2>2. DOMAIN P = 1 .. Len(P)
    BY LenProperties
  <2>3. i \in 1 .. Len(S) /\ P[i] = S[i]
    BY SMTT(30), <1>1, <1>3, <2>1, <2>2
  <2>4. DOMAIN S = 1 .. Len(S) /\ S[i] \in Seq(Local)
    BY <2>3, LenProperties, ElementOfSeq
  <2>5. PICK j \in DOMAIN S[i] : Meaning(P, y) = S[i][j].at
    BY <2>1, <2>3
  <2>6. S[i][j] \in Local
    BY <2>4, <2>5, LenProperties, ElementOfSeq
  <2>7. S[i][j].at < site /\ S[i][j].at \in Int
    BY <2>3, <2>4, <2>5, <2>6 DEF Local
  <2> QED
    BY <1>4, <2>5, <2>7
<1> QED
  BY <1>5, <1>6

\* A name is bound in the innermost scope, to a site that no name means.
LEMMA NameDeclared ==
  ASSUME NEW F \in Seq(Seq(Local)), NEW top \in Seq(Local), NEW e \in Local, e.at >= 1,
         tscopes = Append(F, top), tscopes' = Append(F, Append(top, e)),
         \A i \in DOMAIN tscopes : \A j \in DOMAIN tscopes[i] : tscopes[i][j].at < e.at
  PROVE  CheckScoping!Declare(e.name)
<1> DEFINE new == Append(top, e)
           d   == EnvironmentsOf(F)
           v   == Innermostly(Append(F, top))
           w   == Innermostly(Append(F, new))
           E   == EnvironmentsOf(tscopes)
           after == EnvironmentsOf(tscopes')
<1>1. new \in Seq(Local) /\ e.name \in Names /\ e.at \in Nat
  BY AppendProperties DEF Local
<1>2. Append(F, top) \in Seq(Seq(Local))
  BY AppendProperties
<1>3. Append(F, new) \in Seq(Seq(Local))
  BY <1>1, AppendProperties
<1>4. v \in Environment /\ w \in Environment
  BY <1>2, <1>3, InForce
<1>5. d \in Seq(Environment) /\ Len(d) = Len(F) + 1 /\ Len(F) \in Nat
  BY EnvironmentsAre, LenProperties
<1>6. E = Append(d, v)
  BY EnvironmentsOfAppend
<1>7. after = Append(d, w)
  BY <1>1, EnvironmentsOfAppend
<1>8. w = [v EXCEPT ![e.name] = e.at]
  <2>1. DOMAIN v = Names
    BY DEF Innermostly
  <2>2. \A y \in Names : w[y] = IF y = e.name THEN e.at ELSE v[y]
    <3> SUFFICES ASSUME NEW y \in Names PROVE w[y] = IF y = e.name THEN e.at ELSE v[y]
      OBVIOUS
    <3>1. w[y] = Meaning(Append(F, new), y) /\ v[y] = Meaning(Append(F, top), y)
      BY DEF Innermostly
    <3>2. CASE y = e.name
      BY <3>1, <3>2, LastDeclared
    <3>3. CASE y # e.name
      BY <3>1, <3>3, OtherNamesKept
    <3> QED
      BY <3>2, <3>3
  <2>3. w = [y \in Names |-> w[y]]
    BY DEF Innermostly
  <2> HIDE DEF w, v
  <2>4. [v EXCEPT ![e.name] = e.at] = [y \in Names |-> IF y = e.name THEN e.at ELSE v[y]]
    BY <1>4, <2>1
  <2> QED
    BY <2>2, <2>3, <2>4
<1>9. \A k \in DOMAIN E, y \in Names : E[k][y] # e.at
  BY <1>1, <1>2, SiteIsNew
<1>10. w[e.name] = e.at
  <2>1. DOMAIN v = Names
    BY DEF Innermostly
  <2> HIDE DEF w, v
  <2> QED
    BY <1>1, <1>8, <2>1
<1> HIDE DEF d, v, w, new, E, after
<1>11. /\ E \in Seq(Environment) /\ Len(E) = Len(d) + 1 /\ E[Len(d) + 1] = v
       /\ \A k \in 1 .. Len(d) : E[k] = d[k]
  BY <1>4, <1>5, <1>6, AppendProperties
<1>12. /\ after \in Seq(Environment) /\ Len(after) = Len(d) + 1 /\ after[Len(d) + 1] = w
       /\ \A k \in 1 .. Len(d) : after[k] = d[k]
  BY <1>4, <1>5, <1>7, AppendProperties
<1>13. after = [E EXCEPT ![Len(E)] = w]
  <2> DEFINE r == [E EXCEPT ![Len(E)] = w]
  <2>1. DOMAIN E = 1 .. Len(d) + 1 /\ DOMAIN after = 1 .. Len(d) + 1
    BY <1>11, <1>12, LenProperties
  <2>2. DOMAIN r = 1 .. Len(d) + 1
    BY <2>1
  <2>3. /\ r \in Seq(Environment) /\ Len(r) = Len(E)
        /\ \A j \in 1 .. Len(E) : r[j] = IF j = Len(E) THEN w ELSE E[j]
    BY <1>4, <1>5, <1>11, ExceptSeq
  <2> HIDE DEF r
  <2>4. ASSUME NEW j \in 1 .. Len(E) PROVE after[j] = r[j]
    <3>1. j \in 1 .. Len(d) + 1 /\ Len(d) \in Nat
      BY <1>5, <1>11
    <3>2. r[j] = IF j = Len(d) + 1 THEN w ELSE E[j]
      BY <1>11, <2>3
    <3>3. CASE j = Len(d) + 1
      BY <1>12, <3>2, <3>3
    <3>4. CASE j \in 1 .. Len(d)
      BY <1>11, <1>12, <3>1, <3>2, <3>4
    <3> QED
      BY <3>1, <3>3, <3>4
  <2>5. Len(after) = Len(r)
    BY <1>11, <1>12, <2>3
  <2>6. after = r
    BY <1>11, <1>12, <2>3, <2>4, <2>5, SeqEqual
  <2> QED
    BY <2>6 DEF r
<1>14. after = [E EXCEPT ![Len(E)] = [E[Len(E)] EXCEPT ![e.name] = e.at]]
  BY <1>8, <1>11, <1>13
<1>15. /\ Len(E) > 1 /\ Len(after) = Len(E)
       /\ after[Len(after)][e.name] = e.at
  BY <1>5, <1>10, <1>11, <1>12
<1>16. e.at > 0
  BY <1>1
<1>17. after = [E EXCEPT ![Len(E)][e.name] = after[Len(after)][e.name]]
  BY <1>14, <1>15
<1> QED
  BY <1>9, <1>15, <1>16, <1>17 DEF CheckScoping!Declare, E, after

-----------------------------------------------------------------------------
(* The next site is beyond those of the scopes in force.                    *)

SitesBelow(scopes, n) == \A i \in DOMAIN scopes : \A j \in DOMAIN scopes[i] : scopes[i][j].at < n

NextSite  == Len(unit.args) + Len(code) + 1
SitesKept == SitesBelow(tscopes, NextSite)

LEMMA NextSiteIs ==
  ASSUME TypeOK
  PROVE  NextSite \in Nat /\ NextSite >= 1 /\ Len(unit.args) \in Nat /\ Len(code) \in Nat
<1>1. Len(unit.args) \in Nat /\ Len(code) \in Nat
  BY LenProperties DEF TypeOK
<1> QED
  BY <1>1 DEF NextSite

\* What is below a site is below a later one.
LEMMA BelowLater ==
  ASSUME NEW S \in Seq(Seq(Local)), NEW m \in Nat, NEW n \in Nat, m <= n, SitesBelow(S, m)
  PROVE  SitesBelow(S, n)
<1> SUFFICES ASSUME NEW i \in DOMAIN S, NEW j \in DOMAIN S[i] PROVE S[i][j].at < n
  BY DEF SitesBelow
<1>1. S[i] \in Seq(Local)
  BY LenProperties, ElementOfSeq
<1>2. S[i][j] \in Local
  BY <1>1, LenProperties, ElementOfSeq
<1>3. S[i][j].at < m /\ S[i][j].at \in Int
  BY <1>2 DEF SitesBelow, Local
<1> QED
  BY <1>3

LEMMA BelowOfFront ==
  ASSUME NEW S \in Seq(Seq(Local)), S # << >>, NEW n, SitesBelow(S, n)
  PROVE  SitesBelow(Front(S), n)
<1>1. /\ Front(S) \in Seq(Seq(Local)) /\ Len(Front(S)) = Len(S) - 1
      /\ \A i \in 1 .. Len(S) - 1 : Front(S)[i] = S[i]
  BY FrontFacts
<1>2. DOMAIN S = 1 .. Len(S) /\ Len(S) \in Nat /\ DOMAIN Front(S) = 1 .. Len(S) - 1
  BY <1>1, LenProperties
<1>3. \A i \in DOMAIN Front(S) : i \in DOMAIN S /\ Front(S)[i] = S[i]
  BY <1>1, <1>2
<1> QED
  BY <1>3 DEF SitesBelow

\* One more scope, whose sites are below n.
LEMMA BelowOfAppend ==
  ASSUME NEW S \in Seq(Seq(Local)), NEW s \in Seq(Local), NEW n, SitesBelow(S, n),
         \A j \in DOMAIN s : s[j].at < n
  PROVE  SitesBelow(Append(S, s), n)
<1> DEFINE T == Append(S, s)
<1>1. /\ T \in Seq(Seq(Local)) /\ Len(T) = Len(S) + 1 /\ Len(S) \in Nat
      /\ \A i \in 1 .. Len(S) : T[i] = S[i]
      /\ T[Len(S) + 1] = s
  BY AppendProperties, LenProperties
<1> HIDE DEF T
<1>2. DOMAIN S = 1 .. Len(S) /\ DOMAIN T = 1 .. Len(S) + 1
  BY <1>1, LenProperties
<1>3. ASSUME NEW i \in DOMAIN T, NEW j \in DOMAIN T[i] PROVE T[i][j].at < n
  <2>1. CASE i = Len(S) + 1
    BY <1>1, <2>1
  <2>2. CASE i # Len(S) + 1
    <3>1. i \in DOMAIN S /\ T[i] = S[i]
      BY <1>1, <1>2, <2>2
    <3> QED
      BY <3>1 DEF SitesBelow
  <2> QED
    BY <2>1, <2>2
<1> QED
  BY <1>3 DEF SitesBelow, T

\* A step out of the first walk, or outside it, leaves no scope of it.
LEMMA NoScopeNoSite ==
  ASSUME IInv', phase' # "check"
  PROVE  tscopes' = << >> /\ SitesKept'
<1>1. tscopes' = << >>
  BY DEF IInv, PhaseShape, TypeOK
<1>2. DOMAIN tscopes' = {}
  BY <1>1
<1> QED
  BY <1>1, <1>2 DEF SitesKept, SitesBelow

\* Sites are never given twice: the next one only moves on.
LEMMA NextSiteGrows ==
  ASSUME IInv, IInv', unit' = unit, code' = code \/ \E c : code' = Append(code, c)
  PROVE  NextSite \in Nat /\ NextSite' \in Nat /\ NextSite <= NextSite'
<1>1. TypeOK /\ TypeOK'
  BY DEF IInv
<1>2. code \in Seq(Instruction) /\ Len(code) \in Nat /\ Len(code') \in Nat
  BY <1>1, LenProperties DEF TypeOK
<1>3. Len(code') >= Len(code)
  BY <1>2
<1>4. NextSite \in Nat /\ Len(unit.args) \in Nat
  BY <1>1, NextSiteIs
<1> QED
  BY <1>2, <1>3, <1>4 DEF NextSite

\* A step of the first walk that leaves its scopes alone.
LEMMA SameScopes ==
  ASSUME IInv, IInv', SitesKept, tscopes' = tscopes, unit' = unit,
         \/ code' = code
         \/ \E c : code' = Append(code, c)
  PROVE  LexicalStep /\ SitesKept'
<1>1. NextSite \in Nat /\ NextSite' \in Nat /\ NextSite <= NextSite'
  BY NextSiteGrows
<1>2. SitesBelow(tscopes, NextSite')
  BY <1>1, BelowLater DEF SitesKept, IInv, TypeOK
<1> QED
  BY <1>2 DEF LexicalStep, SitesKept

-----------------------------------------------------------------------------
(* The steps of the program.                                                *)

\* With no scope every name is undeclared.
LEMMA NoScopes == EnvironmentsOf(<< >>) = <<CheckScoping!Outermost>>
<1> DEFINE E == EnvironmentsOf(<< >>)
           o == CheckScoping!Outermost
<1>1. PICK S \in Seq(Seq(Local)) : S = << >> /\ Len(S) = 0
  BY EmptySeq
<1>2. Innermostly(S) = o
  <2>1. \A x : Entries(S, x) = {}
    BY <1>1, EntriesFacts
  <2> QED
    BY <2>1 DEF Innermostly, Meaning, CheckScoping!Outermost
<1>3. /\ EnvironmentsOf(S) \in Seq(Environment) /\ Len(EnvironmentsOf(S)) = 1
      /\ EnvironmentsOf(S)[1] = Innermostly(S)
  <2>1. EnvironmentsOf(S) \in Seq(Environment) /\ Len(EnvironmentsOf(S)) = Len(S) + 1
    BY EnvironmentsAre
  <2>2. EnvironmentsOf(S)[Len(S) + 1] = Innermostly(S)
    BY EmptySeq, EnvironmentsOfAppend
  <2> QED
    BY <1>1, <2>1, <2>2
<1>4. o \in Environment
  BY <1>2, InForce
<1>5. E \in Seq(Environment) /\ Len(E) = 1 /\ E[1] = o
  BY <1>1, <1>2, <1>3
<1> HIDE DEF E, o
<1>6. << o >> \in Seq(Environment) /\ Len(<< o >>) = 1 /\ << o >>[1] = o
  BY <1>4
<1>7. E = << o >>
  BY <1>5, <1>6, SeqEqual
<1> QED
  BY <1>7 DEF E, o

\* An error abandons the scopes.
LEMMA RejectAbandons ==
  ASSUME IInv, IInv', Reject
  PROVE  LexicalStep /\ SitesKept'
<1>1. phase' # "check"
  BY DEF Reject
<1>2. tscopes' = << >> /\ SitesKept'
  BY <1>1, NoScopeNoSite
<1>3. CheckScoping!Abandon
  BY <1>2, NoScopes DEF CheckScoping!Abandon
<1> QED
  BY <1>2, <1>3 DEF LexicalStep, CheckScoping!Next

\* A scope popped is a scope left.
LEMMA FrontLeaves ==
  ASSUME tscopes \in Seq(Seq(Local)), tscopes # << >>, tscopes' = Front(tscopes)
  PROVE  LexicalStep
<1>1. /\ Front(tscopes) \in Seq(Seq(Local)) /\ Last(tscopes) \in Seq(Local)
      /\ tscopes = Append(Front(tscopes), Last(tscopes))
  BY FrontFacts, FrontAndLast
<1>2. CheckScoping!Leave
  BY <1>1, ScopeLeaves
<1> QED
  BY <1>2 DEF LexicalStep, CheckScoping!Next

\* A unit begins: the arguments of a function are declared in a scope.
LEMMA BeginUnitEnters ==
  ASSUME IInv, IInv', NEW defn \in BOOLEAN, NEW args \in Signatures \union {<< >>},
         BeginUnit(defn, args)
  PROVE  LexicalStep /\ SitesKept'
<1>1. /\ phase = "idle" /\ code' = code /\ unit' = [defn |-> defn, args |-> args]
      /\ tscopes' = IF defn THEN Append(tscopes, ArgumentScope(args)) ELSE tscopes
  BY DEF BeginUnit
<1>2. tscopes = << >> /\ code = << >>
  BY <1>1 DEF IInv, PhaseShape
<1>3. args \in Seq([name : Names, type : Types \ {Void}]) /\ Len(args) \in Nat
  BY SignaturesAssumption, EmptySeq, LenProperties
<1>4. DOMAIN args = 1 .. Len(args)
  BY <1>3, LenProperties
<1>5. PICK a \in Seq(Local) : /\ a = ArgumentScope(args) /\ DOMAIN a = DOMAIN args
                              /\ \A j \in DOMAIN a : a[j].name = args[j].name /\ a[j].at = j
  BY <1>3, ArgumentScopeFacts DEF ArgumentScope
<1>6. NextSite' = Len(args) + 1
  BY <1>1, <1>2, <1>3, EmptySeq DEF NextSite
<1>7. PICK S \in Seq(Seq(Local)) : S = tscopes
  BY DEF IInv, TypeOK
<1>8. SitesBelow(S, NextSite')
  BY <1>2, <1>7 DEF SitesBelow
<1>9. CASE ~ defn
  <2>1. tscopes' = tscopes
    BY <1>1, <1>9
  <2> QED
    BY <1>7, <1>8, <2>1 DEF SitesKept, LexicalStep
<1>10. CASE defn
  <2>1. tscopes' = Append(S, a)
    BY <1>1, <1>5, <1>7, <1>10
  <2>2. \A j \in DOMAIN a : a[j].at < NextSite'
    BY <1>3, <1>4, <1>5, <1>6
  <2>3. SitesBelow(Append(S, a), NextSite')
    BY <1>8, <2>2, BelowOfAppend
  <2> DEFINE names == [j \in DOMAIN args |-> args[j].name]
  <2>4. names \in ArgumentNames
    <3>1. CASE args \in Signatures
      BY <3>1 DEF ArgumentNames
    <3>2. CASE args = << >>
      <4>1. names = << >>
        BY <3>2
      <4> QED
        BY <4>1 DEF ArgumentNames
    <3> QED
      BY <3>1, <3>2
  <2>5. DOMAIN names = DOMAIN a /\ \A j \in DOMAIN a : a[j].name = names[j] /\ a[j].at = j
    BY <1>5
  <2> HIDE DEF names
  <2>6. CheckScoping!Enter(names)
    BY <1>7, <2>1, <2>5, ScopeEnters
  <2> QED
    BY <2>1, <2>3, <2>4, <2>6 DEF SitesKept, LexicalStep, CheckScoping!Next
<1> QED
  BY <1>9, <1>10

\* A let or a for opens an empty scope; an if opens none.
LEMMA OpenFormEnters ==
  ASSUME IInv, IInv', SitesKept, NEW form \in SpecialForms \ {"set"}, OpenForm(form)
  PROVE  LexicalStep /\ SitesKept'
<1>1. /\ unit' = unit
      /\ IF form = "if" THEN tscopes' = tscopes /\ code' = code
         ELSE /\ tscopes' = Append(tscopes, << >>)
              /\ code' = Append(code, Instr("enter", AnyName, Void, 0, NoValue))
  BY DEF OpenForm
<1>2. CASE form = "if"
  BY <1>1, <1>2, SameScopes
<1>3. CASE form # "if"
  <2>1. /\ tscopes' = Append(tscopes, << >>)
        /\ code' = Append(code, Instr("enter", AnyName, Void, 0, NoValue))
    BY <1>1, <1>3
  <2>2. PICK S \in Seq(Seq(Local)) : S = tscopes
    BY DEF IInv, TypeOK
  <2>3. PICK s \in Seq(Local) : s = << >> /\ DOMAIN s = {}
    <3>1. PICK s \in Seq(Local) : s = << >>
      BY EmptySeq
    <3>2. DOMAIN s = {}
      BY <3>1
    <3> QED
      BY <3>1, <3>2
  <2>4. NextSite \in Nat /\ NextSite' \in Nat /\ NextSite <= NextSite'
    BY <1>1, <2>1, NextSiteGrows
  <2>5. SitesBelow(S, NextSite')
    BY <2>2, <2>4, BelowLater DEF SitesKept
  <2>6. SitesBelow(Append(S, s), NextSite')
    BY <2>3, <2>5, BelowOfAppend
  <2>7. DOMAIN << >> = DOMAIN s /\ \A j \in DOMAIN s : s[j].name = << >>[j] /\ s[j].at = j
    BY <2>3
  <2>8. CheckScoping!Enter(<< >>)
    BY <2>1, <2>2, <2>3, <2>7, ScopeEnters
  <2>9. << >> \in ArgumentNames
    BY DEF ArgumentNames
  <2> QED
    BY <2>1, <2>2, <2>3, <2>6, <2>8, <2>9 DEF SitesKept, LexicalStep, CheckScoping!Next
<1> QED
  BY <1>2, <1>3

\* let and for declare a name.
LEMMA BindLocalDeclares ==
  ASSUME IInv, IInv', SitesKept, NEW x \in Names, BindLocal(x)
  PROVE  LexicalStep /\ SitesKept'
<1> DEFINE e == [name |-> x, type |-> Last(nodes), at |-> NextSite]
<1>1. /\ phase = "check" /\ unit' = unit /\ Top.stage = "bind" /\ Delivered = 1
      /\ code' = Append(code, Instr("bind", x, Last(nodes), 0, NextSite))
      /\ tscopes' = [tscopes EXCEPT ![Len(tscopes)] = Append(@, e)]
  BY DEF BindLocal, NextSite
<1>2. /\ tscopes \in Seq(Seq(Local)) /\ tscopes # << >> /\ Last(nodes) \in Types
  BY <1>1, TopFacts
<1>3. NextSite \in Nat /\ NextSite >= 1
  BY NextSiteIs DEF IInv
<1>4. e \in Local /\ e.name = x /\ e.at = NextSite
  BY <1>2, <1>3 DEF Local
<1> HIDE DEF e
<1> DEFINE F == Front(tscopes)
           top == Last(tscopes)
<1>5. /\ F \in Seq(Seq(Local)) /\ top \in Seq(Local) /\ tscopes = Append(F, top)
      /\ top = tscopes[Len(tscopes)]
  BY <1>2, FrontFacts, FrontAndLast
<1> HIDE DEF F, top
<1>6. Append(top, e) \in Seq(Local)
  BY <1>4, <1>5, AppendProperties
<1>7. tscopes' = Append(F, Append(top, e))
  <2>1. tscopes' = WithTop(tscopes, Append(top, e))
    BY <1>1, <1>5 DEF WithTop
  <2> DEFINE longer == Append(top, e)
             was == tscopes
  <2>2. longer \in Seq(Local) /\ was \in Seq(Seq(Local)) /\ was # << >>
    BY <1>2, <1>6
  <2>3. tscopes' = WithTop(was, longer) /\ Front(was) = F
    BY <2>1 DEF F
  <2>4. Append(top, e) = longer /\ tscopes = was
    OBVIOUS
  <2> HIDE DEF longer, was
  <2>5. /\ WithTop(was, longer) \in Seq(Seq(Local)) /\ WithTop(was, longer) # << >>
        /\ Len(WithTop(was, longer)) = Len(was) /\ WithTop(was, longer)[Len(was)] = longer
        /\ Front(WithTop(was, longer)) = Front(was)
    BY ONLY <2>2, ReplaceTop
  <2>6. /\ tscopes' \in Seq(Seq(Local)) /\ tscopes' # << >> /\ Len(tscopes') = Len(tscopes)
        /\ tscopes'[Len(tscopes)] = Append(top, e) /\ Front(tscopes') = F
    BY ONLY <2>3, <2>4, <2>5
  <2>7. tscopes' = Append(Front(tscopes'), Last(tscopes'))
    BY <2>6, FrontAndLast
  <2> QED
    BY <2>6, <2>7 DEF Last
<1>8. \A i \in DOMAIN tscopes : \A j \in DOMAIN tscopes[i] : tscopes[i][j].at < e.at
  BY <1>4 DEF SitesKept, SitesBelow
<1>9. CheckScoping!Declare(x)
  <2>1. CheckScoping!Declare(e.name)
    BY <1>3, <1>4, <1>5, <1>7, <1>8, NameDeclared
  <2> QED
    BY <1>4, <2>1
<1>10. NextSite' = NextSite + 1
  <2>1. code \in Seq(Instruction) /\ Len(code) \in Nat /\ Len(unit.args) \in Nat
    BY NextSiteIs DEF IInv, TypeOK
  <2>2. Len(code') = Len(code) + 1
    BY <1>1, <2>1
  <2>3. unit' = unit
    BY <1>1
  <2>4. NextSite' = Len(unit.args) + (Len(code) + 1) + 1
    BY <2>2, <2>3 DEF NextSite
  <2>5. NextSite = Len(unit.args) + Len(code) + 1
    BY DEF NextSite
  <2>6. \A m, n \in Nat : m + (n + 1) + 1 = (m + n + 1) + 1
    OBVIOUS
  <2>7. Len(unit.args) + (Len(code) + 1) + 1 = (Len(unit.args) + Len(code) + 1) + 1
    BY <2>1, <2>6
  <2> QED
    BY <2>4, <2>5, <2>7
<1>11. SitesBelow(tscopes, NextSite')
  BY <1>2, <1>3, <1>10, BelowLater DEF SitesKept
<1>12. SitesBelow(F, NextSite')
  BY <1>2, <1>11, BelowOfFront DEF F
<1>13. \A j \in DOMAIN Append(top, e) : Append(top, e)[j].at < NextSite'
  <2>1. /\ Len(Append(top, e)) = Len(top) + 1 /\ Len(top) \in Nat
        /\ \A j \in 1 .. Len(top) : Append(top, e)[j] = top[j]
        /\ Append(top, e)[Len(top) + 1] = e
    BY <1>4, <1>5, AppendProperties, LenProperties
  <2>2. DOMAIN Append(top, e) = 1 .. Len(top) + 1 /\ DOMAIN top = 1 .. Len(top)
    BY <1>5, <1>6, <2>1, LenProperties
  <2>3. \A j \in DOMAIN top : top[j].at < NextSite'
    <3>1. Len(tscopes) \in DOMAIN tscopes
      BY <1>2, EmptySeq, LenProperties
    <3> QED
      BY <1>5, <1>11, <3>1 DEF SitesBelow
  <2>4. ASSUME NEW j \in DOMAIN Append(top, e) PROVE Append(top, e)[j].at < NextSite'
    <3>1. CASE j = Len(top) + 1
      BY <1>3, <1>4, <1>10, <2>1, <3>1
    <3>2. CASE j # Len(top) + 1
      BY <2>1, <2>2, <2>3, <3>2
    <3> QED
      BY <3>1, <3>2
  <2> QED
    BY <2>4
<1>14. SitesKept'
  <2>1. SitesBelow(Append(F, Append(top, e)), NextSite')
    BY <1>5, <1>6, <1>12, <1>13, BelowOfAppend
  <2> QED
    BY <1>7, <2>1 DEF SitesKept
<1> QED
  BY <1>9, <1>14 DEF LexicalStep, CheckScoping!Next

\* The scope of a let or a for ends.
LEMMA CloseScopeLeaves ==
  ASSUME IInv, IInv', SitesKept, CloseScope
  PROVE  LexicalStep /\ SitesKept'
<1>1. /\ phase = "check" /\ unit' = unit /\ Top.form \in {"let", "for"}
      /\ tscopes' = Front(tscopes) /\ \E c : code' = Append(code, c)
  BY DEF CloseScope, Return
<1>2. tscopes \in Seq(Seq(Local)) /\ tscopes # << >>
  BY <1>1, TopFacts
<1>3. LexicalStep
  BY <1>1, <1>2, FrontLeaves
<1>4. NextSite \in Nat /\ NextSite' \in Nat /\ NextSite <= NextSite'
  BY <1>1, NextSiteGrows
<1>5. SitesBelow(tscopes, NextSite')
  BY <1>2, <1>4, BelowLater DEF SitesKept
<1>6. SitesBelow(Front(tscopes), NextSite')
  BY <1>2, <1>5, BelowOfFront
<1> QED
  BY <1>1, <1>3, <1>6 DEF SitesKept

\* The scope of a function's arguments ends with the first walk.
LEMMA BeginCompileLeaves ==
  ASSUME IInv, IInv', BeginCompile
  PROVE  LexicalStep /\ SitesKept'
<1>1. /\ phase = "check" /\ phase' = "compile"
      /\ tscopes' = IF unit.defn THEN Front(tscopes) ELSE tscopes
      /\ Top.form = "unit"
  BY DEF BeginCompile
<1>2. SitesKept'
  BY <1>1, NoScopeNoSite
<1>3. CASE ~ unit.defn
  BY <1>1, <1>2, <1>3 DEF LexicalStep
<1>4. CASE unit.defn
  <2>1. TypeOK /\ PluginsNest /\ tscopes \in Seq(Seq(Local))
    BY <1>1, TopFacts
  <2>2. Len(frames) \in DOMAIN frames /\ Top = frames[Len(frames)]
    BY <2>1, FramesTyped DEF PluginsNest
  <2>3. tscopes # << >>
    <3>1. FrameOK(Len(frames)) /\ Inside(Len(frames)) = tscopes
      BY <2>1, <2>2 DEF PluginsNest, Inside
    <3> QED
      BY <1>1, <1>4, <2>2, <3>1 DEF FrameOK, Scoped
  <2> QED
    BY <1>1, <1>2, <1>4, <2>1, <2>3, FrontLeaves
<1> QED
  BY <1>3, <1>4

\* Every step of the first walk is one of lexical scoping, or leaves the scopes.
LEMMA CheckStepScopes ==
  ASSUME IInv, IInv', SitesKept, CheckStep
  PROVE  LexicalStep /\ SitesKept'
<1>1. ASSUME Reject PROVE LexicalStep /\ SitesKept'
  BY <1>1, RejectAbandons
<1>2. ASSUME NEW t \in Numeric, CheckConstant(t) PROVE LexicalStep /\ SitesKept'
  BY <1>2, SameScopes DEF CheckConstant, Return
<1>3. ASSUME NEW x \in Names, CheckSymbol(x) PROVE LexicalStep /\ SitesKept'
  BY <1>1, <1>3, SameScopes DEF CheckSymbol, Return
<1>4. ASSUME NEW x \in Names, OpenSet(x) PROVE LexicalStep /\ SitesKept'
  BY <1>1, <1>4, SameScopes DEF OpenSet
<1>5. ASSUME NEW x \in Names, OpenCall(x) PROVE LexicalStep /\ SitesKept'
  BY <1>1, <1>5, SameScopes DEF OpenCall
<1>6. ASSUME NEW x \in Names, BindLocal(x) PROVE LexicalStep /\ SitesKept'
  BY <1>6, BindLocalDeclares
<1>7. ASSUME NEW form \in SpecialForms \ {"set"}, OpenForm(form) PROVE LexicalStep /\ SitesKept'
  BY <1>7, OpenFormEnters
<1>8. CASE EndBindings
  BY <1>8, SameScopes DEF EndBindings
<1>9. CASE CloseCondition
  BY <1>1, <1>9, SameScopes DEF CloseCondition
<1>10. CASE CloseScope
  BY <1>10, CloseScopeLeaves
<1>11. CASE CloseIf
  BY <1>1, <1>11, SameScopes DEF CloseIf, Return
<1>12. CASE CloseSet
  BY <1>1, <1>12, SameScopes DEF CloseSet, Return
<1>13. CASE CloseCall
  BY <1>13, SameScopes DEF CloseCall, Return
<1>14. CASE Malformed
  BY <1>1, <1>14 DEF Malformed
<1> QED
  BY <1>2, <1>3, <1>4, <1>5, <1>6, <1>7, <1>8, <1>9, <1>10, <1>11, <1>12, <1>13, <1>14
     DEF CheckStep

\* The second walk has no scope of the first.
LEMMA SecondWalkScopes ==
  ASSUME IInv, IInv', CompileStep \/ EndUnit \/ Unwind
  PROVE  LexicalStep /\ SitesKept'
<1>1. tscopes' = tscopes /\ phase' # "check"
  BY DEF CompileStep, EmitConstant, EmitLoad, EmitEnter, EmitBind, EmitBranch, EmitEndLet,
         EmitEndFor, EmitIf, EmitStore, EmitCall, Yield, Throw, Running, checkVars, EndUnit, Unwind
<1>2. SitesKept'
  BY <1>1, NoScopeNoSite
<1> QED
  BY <1>1, <1>2 DEF LexicalStep

\* The type checker's search through its nested scopes is lexical scoping: every
\* name always means what LexicalScope says, through shadowing, repeated arguments,
\* nested forms and errors (module_impl::type_check_variable_access).
THEOREM SearchIsLexical == Spec => TypeCheckIsLexical
<1>1. Init => CheckScoping!Init /\ SitesKept
  <2> SUFFICES ASSUME Init PROVE CheckScoping!Init /\ SitesKept
    OBVIOUS
  <2>1. tscopes = << >> /\ DOMAIN tscopes = {}
    BY DEF Init
  <2> QED
    BY <2>1, NoScopes DEF CheckScoping!Init, SitesKept, SitesBelow
<1>2. IInv /\ IInv' /\ SitesKept /\ [Next]_vars => LexicalStep /\ SitesKept'
  <2> SUFFICES ASSUME IInv, IInv', SitesKept, [Next]_vars PROVE LexicalStep /\ SitesKept'
    OBVIOUS
  <2>1. ASSUME NEW defn \in BOOLEAN, NEW args \in Signatures \union {<< >>},
               BeginUnit(defn, args)
        PROVE  LexicalStep /\ SitesKept'
    BY <2>1, BeginUnitEnters
  <2>2. CASE CheckStep
    BY <2>2, CheckStepScopes
  <2>3. CASE BeginCompile
    BY <2>3, BeginCompileLeaves
  <2>4. CASE CompileStep \/ EndUnit \/ Unwind
    BY <2>4, SecondWalkScopes
  <2>5. CASE UNCHANGED vars
    BY <2>5, SameScopes DEF vars, checkVars
  <2> QED
    BY <2>1, <2>2, <2>3, <2>4, <2>5 DEF Next
<1>3. LexicalStep => [LexicalStep]_tscopes
  OBVIOUS
<1> QED
  BY <1>1, <1>2, <1>3, Invariance, PTL DEF Spec, TypeCheckIsLexical
=============================================================================
