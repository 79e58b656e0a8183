---------------------------- MODULE CatalogProofs ----------------------------
(***************************************************************************)
(* Proofs about Catalog: the tables stay well formed, a sync that comes    *)
(* again changes nothing, and what the others see of the tables is the     *)
(* abstract catalog, whatever fails in between.                            *)
(***************************************************************************)
EXTENDS Catalog, FiniteSetTheorems, TLAPS

\* First finds something.
LEMMA Least ==
  ASSUME NEW S, S \subseteq Nat, S # {}
  PROVE  \E n \in S : \A m \in S : n <= m
<1>1. PICK x \in S : TRUE
  OBVIOUS
<1> DEFINE U == 0..x
           T == {0..m : m \in S \cap U}
<1>2. IsFiniteSet(U)
  BY <1>1, FS_Interval
<1>3. T # {} /\ T \subseteq SUBSET U
  BY <1>1
<1>4. T \subseteq FiniteSubsetsOf(U)
  BY <1>2, <1>3, FS_Subset DEF FiniteSubsetsOf
<1>5. IsWellFoundedOn(StrictSubsetOrdering(U), FiniteSubsetsOf(U))
  BY <1>2, FS_StrictSubsetOrderingWellFounded
<1>6. PICK X \in T : \A Y \in T : <<Y, X>> \notin StrictSubsetOrdering(U)
  <2> HIDE DEF T, U
  <2> QED BY <1>3, <1>4, <1>5, WFMin
<1>7. PICK n \in S \cap U : X = 0..n
  OBVIOUS
<1>8. ASSUME NEW m \in S \cap U PROVE n <= m
  <2>1. <<0..m, 0..n>> \notin StrictSubsetOrdering(U)
    BY <1>6, <1>7
  <2>2. ~(0..m \subseteq 0..n /\ 0..m # 0..n)
    BY <2>1, <1>1 DEF StrictSubsetOrdering
  <2> QED BY <2>2
<1> QED BY <1>1, <1>8

\* Induction, over the set of the numbers a statement holds of.
LEMMA ByInduction ==
  ASSUME NEW S, 0 \in S, \A n \in Nat : n \in S => n + 1 \in S
  PROVE  Nat \subseteq S
<1> DEFINE T == Nat \ S
<1> SUFFICES T = {}
  OBVIOUS
<1>1. ASSUME T # {} PROVE FALSE
  <2>1. T \subseteq Nat
    OBVIOUS
  <2> HIDE DEF T
  <2>2. PICK n \in T : \A m \in T : n <= m
    BY <1>1, <2>1, Least
  <2> USE DEF T
  <2>3. n # 0 /\ n - 1 \in Nat /\ (n - 1) + 1 = n
    BY <2>2
  <2>4. n - 1 \in S
    BY <2>2, <2>3
  <2> QED BY <2>2, <2>3, <2>4
<1> QED BY <1>1

-----------------------------------------------------------------------------
(* Lists of statements *)

Final(t, statements) == Run(t, statements)[Len(statements)]

LEMMA ListFacts ==
  ASSUME NEW s, IsList(s)
  PROVE  /\ Len(s) \in Nat /\ DOMAIN s = 1..Len(s)
         /\ s = [i \in 1..Len(s) |-> s[i]]
<1> DEFINE S == ToSet(s)
<1>1. s \in Seq(S)
  BY DEF IsList
<1> HIDE DEF S
<1> QED BY <1>1

LEMMA MakeList ==
  ASSUME NEW n \in Nat, NEW f, DOMAIN f = 1..n, f = [i \in 1..n |-> f[i]]
  PROVE  IsList(f) /\ Len(f) = n
<1> DEFINE S == ToSet(f)
<1>1. \A i \in 1..n : f[i] \in S
  BY DEF ToSet
<1> HIDE DEF S
<1>2. f \in [1..n -> S]
  BY <1>1
<1>3. f \in Seq(S) /\ Len(f) = n
  BY <1>2
<1> QED BY <1>3 DEF S, IsList

LEMMA ConcatFacts ==
  ASSUME NEW a, NEW b, IsList(a), IsList(b)
  PROVE  /\ IsList(a \o b) /\ Len(a \o b) = Len(a) + Len(b)
         /\ \A i \in 1..Len(a) : (a \o b)[i] = a[i]
         /\ \A i \in 1..Len(b) : (a \o b)[Len(a) + i] = b[i]
         /\ DOMAIN (a \o b) = 1..(Len(a) + Len(b))
<1> DEFINE S == ToSet(a) \cup ToSet(b)
<1>1. a \in Seq(S) /\ b \in Seq(S)
  <2>1. a = [i \in 1..Len(a) |-> a[i]] /\ Len(a) \in Nat /\ DOMAIN a = 1..Len(a)
    BY ListFacts
  <2>2. b = [i \in 1..Len(b) |-> b[i]] /\ Len(b) \in Nat /\ DOMAIN b = 1..Len(b)
    BY ListFacts
  <2>3. \A i \in 1..Len(a) : a[i] \in S
    BY <2>1 DEF ToSet
  <2>4. \A i \in 1..Len(b) : b[i] \in S
    BY <2>2 DEF ToSet
  <2> HIDE DEF S
  <2> QED BY <2>1, <2>2, <2>3, <2>4
<1> HIDE DEF S
<1>2. /\ a \o b \in Seq(S) /\ Len(a \o b) = Len(a) + Len(b)
      /\ \A i \in 1..Len(a) : (a \o b)[i] = a[i]
      /\ \A i \in 1..Len(b) : (a \o b)[Len(a) + i] = b[i]
  BY <1>1
<1> DEFINE c == a \o b
<1>3. c \in Seq(S)
  BY <1>2
<1> HIDE DEF c
<1>4. Len(c) \in Nat /\ DOMAIN c = 1..Len(c) /\ c = [i \in 1..Len(c) |-> c[i]]
  BY <1>3
<1>5. IsList(c)
  BY <1>4, MakeList
<1> USE DEF c
<1> QED BY <1>2, <1>4, <1>5

LEMMA EmptyList == IsList(<<>>) /\ Len(<<>>) = 0 /\ \A a : IsList(a) => <<>> \o a = a
<1>1. IsList(<<>>) /\ Len(<<>>) = 0
  BY DEF IsList, ToSet
<1>2. ASSUME NEW a, IsList(a) PROVE <<>> \o a = a
  <2> DEFINE S == ToSet(a)
  <2>1. a \in Seq(S)
    BY <1>2 DEF IsList
  <2> HIDE DEF S
  <2> QED BY <2>1
<1> QED BY <1>1, <1>2

LEMMA OneIsList == \A x : IsList(<<x>>) /\ Len(<<x>>) = 1 /\ <<x>>[1] = x
  BY DEF IsList, ToSet

\* The recursion of Run has a solution.
LEMMA RunSteps ==
  ASSUME NEW t, NEW s, IsList(s)
  PROVE  /\ Run(t, s)[0] = t
         /\ \A n \in 0..(Len(s) - 1) : Run(t, s)[n + 1] = Executed(Run(t, s)[n], s[n + 1])
<1> DEFINE Solves(g, m) ==
             g = [n \in 0..m |-> IF n = 0 THEN t ELSE Executed(g[n - 1], s[n])]
           Solved == {m \in Nat : \E g : Solves(g, m)}
<1>0. Len(s) \in Nat
  BY ListFacts
<1>1. 0 \in Solved
  <2>1. Solves([n \in 0..0 |-> t], 0)
    OBVIOUS
  <2> QED BY <2>1
<1>2. ASSUME NEW m \in Nat, m \in Solved PROVE m + 1 \in Solved
  <2>1. PICK g : Solves(g, m)
    BY <1>2
  <2> DEFINE f == [n \in 0..(m + 1) |-> IF n = m + 1 THEN Executed(g[m], s[n]) ELSE g[n]]
  <2>2. \A n \in 0..m : g[n] = IF n = 0 THEN t ELSE Executed(g[n - 1], s[n])
    BY <2>1
  <2>3. \A n \in 0..(m + 1) : f[n] = IF n = 0 THEN t ELSE Executed(f[n - 1], s[n])
    BY <2>2
  <2>4. Solves(f, m + 1)
    BY <2>3
  <2> HIDE DEF f
  <2>5. \E h : Solves(h, m + 1)
    BY <2>4
  <2>6. m + 1 \in Nat
    OBVIOUS
  <2> HIDE DEF Solves
  <2> QED BY <2>5, <2>6
<1> HIDE DEF Solved
<1>3. Nat \subseteq Solved
  BY <1>1, <1>2, ByInduction
<1> USE DEF Solved
<1>4. \E g : Solves(g, Len(s))
  BY <1>0, <1>3
<1>5. Solves(Run(t, s), Len(s))
  BY <1>4 DEF Run
<1>6. \A n \in 0..Len(s) :
        Run(t, s)[n] = IF n = 0 THEN t ELSE Executed(Run(t, s)[n - 1], s[n])
  BY <1>5
<1>7. \A n \in 0..(Len(s) - 1) : Run(t, s)[n + 1] = Executed(Run(t, s)[n], s[n + 1])
  <2> TAKE n \in 0..(Len(s) - 1)
  <2>1. n + 1 \in 0..Len(s) /\ n + 1 # 0 /\ (n + 1) - 1 = n
    BY <1>0
  <2> QED BY <1>6, <2>1
<1> QED BY <1>0, <1>6, <1>7

\* What is said of the tables after n statements is so for every n if every statement keeps it.
LEMMA RunIs ==
  ASSUME NEW t, NEW s, IsList(s), NEW F, F[0] = t,
         \A n \in 0..(Len(s) - 1) : F[n + 1] = Executed(F[n], s[n + 1])
  PROVE  \A n \in 0..Len(s) : Run(t, s)[n] = F[n]
<1> DEFINE Good == {n \in Nat : n <= Len(s) => Run(t, s)[n] = F[n]}
<1>0. Len(s) \in Nat
  BY ListFacts
<1>1. 0 \in Good
  BY RunSteps
<1>2. ASSUME NEW n \in Nat, n \in Good PROVE n + 1 \in Good
  <2>1. CASE n + 1 <= Len(s)
    <3>1. n \in 0..(Len(s) - 1) /\ Run(t, s)[n] = F[n]
      BY <1>0, <1>2, <2>1
    <3> QED BY <3>1, RunSteps
  <2> QED BY <2>1
<1> HIDE DEF Good
<1>3. Nat \subseteq Good
  BY <1>1, <1>2, ByInduction
<1> QED BY <1>0, <1>3 DEF Good

LEMMA FinalEmpty == \A t : Final(t, <<>>) = t
  BY EmptyList, RunSteps DEF Final

LEMMA FinalOne == \A t, x : Final(t, <<x>>) = Executed(t, x)
<1> TAKE t, x
<1> DEFINE s == <<x>>
<1>1. IsList(s) /\ Len(s) = 1 /\ s[1] = x
  BY OneIsList
<1> HIDE DEF s
<1>2. Run(t, s)[0] = t /\ Run(t, s)[0 + 1] = Executed(Run(t, s)[0], s[0 + 1])
  BY <1>1, RunSteps
<1>3. Final(t, s) = Executed(t, x)
  BY <1>1, <1>2 DEF Final
<1> QED BY <1>3 DEF s

\* The tables after a number of the statements of a concatenation.
LEMMA RunConcat ==
  ASSUME NEW t, NEW a, NEW b, IsList(a), IsList(b)
  PROVE  \A n \in 0..Len(b) : Run(t, a \o b)[Len(a) + n] = Run(Final(t, a), b)[n]
<1> DEFINE c == a \o b
           F == [n \in 0..Len(a) |-> Run(t, c)[n]]
           G == [n \in 0..Len(b) |-> Run(t, c)[Len(a) + n]]
<1>0. Len(a) \in Nat /\ Len(b) \in Nat
  BY ListFacts
<1>1. /\ IsList(c) /\ Len(c) = Len(a) + Len(b)
      /\ \A i \in 1..Len(a) : c[i] = a[i]
      /\ \A i \in 1..Len(b) : c[Len(a) + i] = b[i]
  BY ConcatFacts
<1> HIDE DEF c
<1>2. /\ Run(t, c)[0] = t
      /\ \A n \in 0..(Len(c) - 1) : Run(t, c)[n + 1] = Executed(Run(t, c)[n], c[n + 1])
  BY <1>1, RunSteps
<1>3. F[0] = t
  BY <1>0, <1>2
<1>4. ASSUME NEW n \in 0..(Len(a) - 1) PROVE F[n + 1] = Executed(F[n], a[n + 1])
  <2>1. n \in 0..(Len(c) - 1) /\ n \in 0..Len(a) /\ n + 1 \in 1..Len(a) /\ n + 1 \in 0..Len(a)
    BY <1>0, <1>1
  <2>2. Run(t, c)[n + 1] = Executed(Run(t, c)[n], c[n + 1]) /\ c[n + 1] = a[n + 1]
    BY <1>1, <1>2, <2>1
  <2> QED BY <2>1, <2>2
<1>5. F[Len(a)] = Run(t, c)[Len(a)] /\ G[0] = Run(t, c)[Len(a)]
  BY <1>0
<1>6. ASSUME NEW n \in 0..(Len(b) - 1) PROVE G[n + 1] = Executed(G[n], b[n + 1])
  <2>1. /\ Len(a) + n \in 0..(Len(c) - 1) /\ n \in 0..Len(b) /\ n + 1 \in 1..Len(b)
        /\ n + 1 \in 0..Len(b) /\ (Len(a) + n) + 1 = Len(a) + (n + 1)
    BY <1>0, <1>1
  <2>2. /\ Run(t, c)[(Len(a) + n) + 1] = Executed(Run(t, c)[Len(a) + n], c[(Len(a) + n) + 1])
        /\ c[Len(a) + (n + 1)] = b[n + 1]
    BY <1>1, <1>2, <2>1
  <2>3. G[n] = Run(t, c)[Len(a) + n] /\ G[n + 1] = Run(t, c)[Len(a) + (n + 1)]
    BY <2>1
  <2> HIDE DEF G
  <2> QED BY <2>1, <2>2, <2>3
<1>7. \A n \in 0..Len(b) : G[n] = Run(t, c)[Len(a) + n]
  OBVIOUS
<1> HIDE DEF F, G
<1>8. F[Len(a)] = Final(t, a)
  BY <1>0, <1>3, <1>4, RunIs DEF Final
<1> DEFINE u == Final(t, a)
<1> HIDE DEF u
<1>9. G[0] = u
  BY <1>5, <1>8 DEF u
<1>10. \A n \in 0..Len(b) : Run(u, b)[n] = G[n]
  BY <1>6, <1>9, RunIs
<1> QED BY <1>7, <1>10 DEF c, u

LEMMA FinalConcat ==
  ASSUME NEW t, NEW a, NEW b, IsList(a), IsList(b)
  PROVE  Final(t, a \o b) = Final(Final(t, a), b)
<1>1. Len(a \o b) = Len(a) + Len(b) /\ Len(b) \in Nat
  BY ConcatFacts, ListFacts
<1>2. Run(t, a \o b)[Len(a) + Len(b)] = Run(Final(t, a), b)[Len(b)]
  BY <1>1, RunConcat
<1> QED BY <1>1, <1>2 DEF Final

-----------------------------------------------------------------------------
(* Lists of lists of statements *)

\* The recursion of FlattenSeq has a solution.
LEMMA FlattenSteps ==
  ASSUME NEW seqs, IsList(seqs), \A i \in 1..Len(seqs) : IsList(seqs[i])
  PROVE  \E f : /\ f[0] = <<>> /\ f[Len(seqs)] = FlattenSeq(seqs)
                /\ \A n \in 0..(Len(seqs) - 1) : f[n + 1] = f[n] \o seqs[n + 1]
                /\ \A n \in 0..Len(seqs) : IsList(f[n])
<1> DEFINE Solves(g, m) ==
             g = [i \in 1..m |-> IF i = 1 THEN seqs[i] ELSE g[i - 1] \o seqs[i]]
           Solved == {m \in Nat : \E g : Solves(g, m)}
<1>0. Len(seqs) \in Nat /\ (Len(seqs) = 0 => seqs = <<>>)
  <2> DEFINE S == ToSet(seqs)
  <2>1. seqs \in Seq(S)
    BY DEF IsList
  <2> HIDE DEF S
  <2> QED BY <2>1
<1>1. 0 \in Solved
  <2>1. Solves([i \in 1..0 |-> <<>>], 0)
    OBVIOUS
  <2> QED BY <2>1
<1>2. ASSUME NEW m \in Nat, m \in Solved PROVE m + 1 \in Solved
  <2>1. PICK g : Solves(g, m)
    BY <1>2
  <2> DEFINE f == [i \in 1..(m + 1) |->
                    IF i = m + 1 THEN (IF m = 0 THEN seqs[1] ELSE g[m] \o seqs[m + 1])
                                        ELSE g[i]]
  <2>2. \A i \in 1..m : g[i] = IF i = 1 THEN seqs[i] ELSE g[i - 1] \o seqs[i]
    BY <2>1
  <2>3. \A i \in 1..(m + 1) : f[i] = IF i = 1 THEN seqs[i] ELSE f[i - 1] \o seqs[i]
    <3> TAKE i \in 1..(m + 1)
    <3>1. CASE i \in 1..m /\ i # 1
      <4>1. i - 1 \in 1..m /\ i - 1 # m + 1 /\ i # m + 1 /\ i - 1 \in 1..(m + 1)
        BY <3>1
      <4>2. f[i] = g[i] /\ f[i - 1] = g[i - 1]
        BY <4>1
      <4> HIDE DEF f
      <4> QED BY <2>2, <3>1, <4>2
    <3>2. CASE i = 1 /\ i # m + 1
      BY <2>2, <3>2
    <3>3. CASE i = m + 1 /\ m = 0
      BY <3>3
    <3>4. CASE i = m + 1 /\ m # 0
      <4>1. i - 1 = m /\ m \in 1..(m + 1) /\ m # m + 1 /\ i # 1
        BY <3>4
      <4> QED BY <3>4, <4>1
    <3> QED BY <3>1, <3>2, <3>3, <3>4
  <2>4. Solves(f, m + 1)
    BY <2>3
  <2> HIDE DEF f
  <2>5. \E h : Solves(h, m + 1)
    BY <2>4
  <2>6. m + 1 \in Nat
    OBVIOUS
  <2> HIDE DEF Solves
  <2> QED BY <2>5, <2>6
<1> HIDE DEF Solved
<1>3. Nat \subseteq Solved
  BY <1>1, <1>2, ByInduction
<1> USE DEF Solved
<1>4. CASE Len(seqs) = 0
  <2>1. FlattenSeq(seqs) = <<>>
    BY <1>0, <1>4 DEF FlattenSeq
  <2> DEFINE f == [n \in 0..0 |-> <<>>]
  <2>2. f[0] = <<>> /\ IsList(f[0])
    BY EmptyList
  <2> HIDE DEF f
  <2> QED BY <1>4, <2>1, <2>2
<1>5. CASE Len(seqs) # 0
  <2>1. \E g : Solves(g, Len(seqs))
    BY <1>0, <1>3
  <2> DEFINE g0 == CHOOSE g : Solves(g, Len(seqs))
  <2>2. Solves(g0, Len(seqs)) /\ FlattenSeq(seqs) = g0[Len(seqs)]
    BY <1>5, <2>1 DEF FlattenSeq
  <2> HIDE DEF g0
  <2>3. \A i \in 1..Len(seqs) : g0[i] = IF i = 1 THEN seqs[i] ELSE g0[i - 1] \o seqs[i]
    BY <2>2
  <2> DEFINE f == [n \in 0..Len(seqs) |-> IF n = 0 THEN <<>> ELSE g0[n]]
  <2>4. f[0] = <<>> /\ f[Len(seqs)] = FlattenSeq(seqs)
    BY <1>0, <1>5, <2>2
  <2>5. ASSUME NEW n \in 0..(Len(seqs) - 1) PROVE f[n + 1] = f[n] \o seqs[n + 1]
    <3>1. n + 1 \in 1..Len(seqs) /\ f[n + 1] = g0[n + 1] /\ (n + 1) - 1 = n
      BY <1>0
    <3>2. CASE n = 0
      <4>1. n + 1 = 1 /\ 1 \in 1..Len(seqs)
        BY <1>0, <3>2
      <4>2. g0[1] = seqs[1] /\ IsList(seqs[1])
        BY <2>3, <4>1
      <4>3. <<>> \o seqs[1] = seqs[1]
        BY <4>2, EmptyList, Zenon
      <4>4. f[1] = g0[1] /\ f[n] = <<>>
        BY <2>4, <3>1, <3>2, <4>1
      <4> QED BY <4>1, <4>2, <4>3, <4>4
    <3>3. CASE n # 0
      <4>1. f[n] = g0[n] /\ n + 1 # 1
        BY <1>0, <3>3
      <4> QED BY <2>3, <3>1, <4>1
    <3> QED BY <3>2, <3>3
  <2> HIDE DEF f
  <2> DEFINE Good == {n \in Nat : n <= Len(seqs) => IsList(f[n])}
  <2>6. 0 \in Good
    BY <2>4, EmptyList
  <2>7. ASSUME NEW n \in Nat, n \in Good PROVE n + 1 \in Good
    <3>1. CASE n + 1 <= Len(seqs)
      <4>1. n \in 0..(Len(seqs) - 1) /\ n + 1 \in 1..Len(seqs) /\ n <= Len(seqs)
        BY <1>0, <3>1
      <4>2. IsList(f[n]) /\ IsList(seqs[n + 1])
        BY <2>7, <4>1
      <4>3. f[n + 1] = f[n] \o seqs[n + 1]
        BY <2>5, <4>1
      <4>4. IsList(f[n] \o seqs[n + 1])
        BY <4>2, ConcatFacts, Zenon
      <4>5. IsList(f[n + 1])
        BY <4>3, <4>4, Zenon
      <4> QED BY <4>5
    <3> QED BY <3>1
  <2> HIDE DEF Good
  <2>8. Nat \subseteq Good
    BY <2>6, <2>7, ByInduction
  <2> USE DEF Good
  <2>9. \A n \in 0..Len(seqs) : IsList(f[n])
    BY <1>0, <2>8
  <2> QED BY <2>4, <2>5, <2>9
<1> QED BY <1>4, <1>5

LEMMA FlattenIsList ==
  ASSUME NEW seqs, IsList(seqs), \A i \in 1..Len(seqs) : IsList(seqs[i])
  PROVE  IsList(FlattenSeq(seqs))
<1>1. Len(seqs) \in 0..Len(seqs)
  BY ListFacts
<1> QED BY <1>1, FlattenSteps

\* What is said of the tables after n of the lists.
LEMMA FinalFlat ==
  ASSUME NEW t, NEW seqs, IsList(seqs), \A i \in 1..Len(seqs) : IsList(seqs[i]),
         NEW F, F[0] = t, \A n \in 0..(Len(seqs) - 1) : F[n + 1] = Final(F[n], seqs[n + 1])
  PROVE  Final(t, FlattenSeq(seqs)) = F[Len(seqs)]
<1>1. PICK f : /\ f[0] = <<>> /\ f[Len(seqs)] = FlattenSeq(seqs)
               /\ \A n \in 0..(Len(seqs) - 1) : f[n + 1] = f[n] \o seqs[n + 1]
               /\ \A n \in 0..Len(seqs) : IsList(f[n])
  BY FlattenSteps
<1> DEFINE Good == {n \in Nat : n <= Len(seqs) => Final(t, f[n]) = F[n]}
<1>0. Len(seqs) \in Nat
  BY ListFacts
<1>2. 0 \in Good
  BY <1>1, FinalEmpty
<1>3. ASSUME NEW n \in Nat, n \in Good PROVE n + 1 \in Good
  <2>1. CASE n + 1 <= Len(seqs)
    <3>1. n \in 0..(Len(seqs) - 1) /\ n \in 0..Len(seqs) /\ n + 1 \in 1..Len(seqs)
      BY <1>0, <2>1
    <3>2. Final(t, f[n]) = F[n]
      BY <1>3, <3>1
    <3>3. f[n + 1] = f[n] \o seqs[n + 1] /\ IsList(f[n]) /\ IsList(seqs[n + 1])
      BY <1>1, <3>1
    <3>4. ASSUME NEW a, NEW b, IsList(a), IsList(b)
          PROVE  Final(t, a \o b) = Final(Final(t, a), b)
      BY <3>4, FinalConcat
    <3>5. Final(t, f[n + 1]) = Final(Final(t, f[n]), seqs[n + 1])
      BY <3>3, <3>4
    <3>6. Final(t, f[n + 1]) = F[n + 1]
      BY <3>1, <3>2, <3>5
    <3> QED BY <3>6
  <2> QED BY <2>1
<1> HIDE DEF Good
<1>4. Nat \subseteq Good
  BY <1>2, <1>3, ByInduction
<1> QED BY <1>0, <1>1, <1>4 DEF Good

-----------------------------------------------------------------------------
(* Statements *)

Tables(t) ==
  t = [games |-> t.games, categories |-> t.categories, regions |-> t.regions,
       rules |-> t.rules, nodes |-> t.nodes, next_id |-> t.next_id]

\* A rule has an id of its own that AUTO_INCREMENT is past, a key of its own, and a node.
WellFormed(t) ==
  /\ Tables(t) /\ t.nodes \subseteq Nodes /\ t.next_id \in Nat \ {0}
  /\ \A row \in t.rules : /\ row.id \in 1..(t.next_id - 1) /\ row.node \in t.nodes
                          /\ row = WithId(row, row.id)
  /\ \A r, s \in t.rules : r.id = s.id \/ SameRoute(r, s) => r = s

Known == {"put_game", "new_game", "set_game", "put_category", "put_region", "put_rule", "set_rule",
          "drop_rule", "drop_external", "drop_region", "drop_rules", "drop_regions",
          "drop_categories", "drop_game", "drop_node"}

LEMMA ExecutedIs ==
  \A t, s :
    /\ s.do \in {"put_game", "new_game", "set_game"} => Executed(t, s) = PutGame(t, s.row)
    /\ s.do = "put_category"    => Executed(t, s) = PutCategory(t, s.row)
    /\ s.do = "put_region"      => Executed(t, s) = PutRegion(t, s.row)
    /\ s.do = "put_rule"        => Executed(t, s) = PutRule(t, s.row)
    /\ s.do = "set_rule"        => Executed(t, s) = SetRule(t, s.id, s.row)
    /\ s.do = "drop_rule"       => Executed(t, s) = DropRuleById(t, s.id)
    /\ s.do = "drop_external"   => Executed(t, s) = DropRuleByExternal(t, s.external, s.source)
    /\ s.do = "drop_region"     => Executed(t, s) = DropRegion(t, s.region)
    /\ s.do = "drop_rules"      => Executed(t, s) = DropGameRules(t, s.game)
    /\ s.do = "drop_regions"    => Executed(t, s) = DropGameRegions(t, s.game)
    /\ s.do = "drop_categories" => Executed(t, s) = DropCategories(t, s.game)
    /\ s.do = "drop_game"       => Executed(t, s) = DropGame(t, s.game)
    /\ s.do = "drop_node"       => Executed(t, s) = DropNode(t, s.node)
  BY DEF Executed

LEMMA WithIdFields ==
  \A rule, id : /\ WithId(rule, id).id = id /\ WithId(rule, id).node = rule.node
                /\ WithId(rule, id).source = rule.source
                /\ WithId(rule, id).external = rule.external
                /\ WithId(rule, id).game = rule.game /\ WithId(rule, id).region = rule.region
                /\ WithId(rule, id).target = rule.target
                /\ WithId(rule, id) = WithId(WithId(rule, id), WithId(rule, id).id)
  BY DEF WithId

LEMMA RulesReplaced ==
  ASSUME NEW t, Tables(t), NEW rules, NEW next
  PROVE  /\ [t EXCEPT !.rules = rules, !.next_id = next] =
              [games |-> t.games, categories |-> t.categories, regions |-> t.regions,
               rules |-> rules, nodes |-> t.nodes, next_id |-> next]
         /\ [t EXCEPT !.rules = rules] =
              [games |-> t.games, categories |-> t.categories, regions |-> t.regions,
               rules |-> rules, nodes |-> t.nodes, next_id |-> t.next_id]
<1>1. PICK a, b, c, d, e, f :
        t = [games |-> a, categories |-> b, regions |-> c, rules |-> d, nodes |-> e, next_id |-> f]
  BY DEF Tables
<1>2. t.games = a /\ t.categories = b /\ t.regions = c /\ t.nodes = e /\ t.next_id = f
  BY <1>1
<1>3. [t EXCEPT !.rules = rules] =
        [games |-> a, categories |-> b, regions |-> c, rules |-> rules, nodes |-> e, next_id |-> f]
  BY <1>1
<1> DEFINE u == [t EXCEPT !.rules = rules]
<1>4. [u EXCEPT !.next_id = next] =
        [games |-> a, categories |-> b, regions |-> c, rules |-> rules, nodes |-> e,
         next_id |-> next]
  <2>1. u = [games |-> a, categories |-> b, regions |-> c, rules |-> rules, nodes |-> e,
             next_id |-> f]
    BY <1>3
  <2> HIDE DEF u
  <2> QED BY <2>1
<1>5. [t EXCEPT !.rules = rules, !.next_id = next] = [u EXCEPT !.next_id = next]
  BY <1>1
<1> QED BY <1>2, <1>3, <1>4, <1>5

\* What a route rule that is put does: a row of its own, or that of its key.
LEMMA PutRuleIs ==
  ASSUME NEW t, WellFormed(t), NEW rule
  PROVE  /\ Tables(PutRule(t, rule))
         /\ PutRule(t, rule).games = t.games /\ PutRule(t, rule).categories = t.categories
         /\ PutRule(t, rule).regions = t.regions /\ PutRule(t, rule).nodes = t.nodes
         /\ \E id \in Nat \ {0} :
              /\ \/ /\ id = t.next_id /\ PutRule(t, rule).next_id = t.next_id + 1
                    /\ \A row \in t.rules : ~SameRoute(row, rule)
                 \/ /\ PutRule(t, rule).next_id = t.next_id
                    /\ \E row \in t.rules : SameRoute(row, rule) /\ row.id = id
              /\ PutRule(t, rule).rules = {row \in t.rules : ~SameRoute(row, rule)}
                                          \cup {WithId(rule, id)}
<1> DEFINE same == {row \in t.rules : SameRoute(row, rule)}
<1>1. \A r, s \in same : r = s
  BY DEF WellFormed, SameRoute
<1>t. Tables(t)
  BY DEF WellFormed
<1>2. CASE same = {}
  <2> DEFINE u == [t EXCEPT !.rules = @ \cup {WithId(rule, t.next_id)}, !.next_id = t.next_id + 1]
  <2>1. PutRule(t, rule) = u
    BY <1>2 DEF PutRule, NextId
  <2>2. /\ Tables(u) /\ u.games = t.games /\ u.categories = t.categories /\ u.regions = t.regions
        /\ u.nodes = t.nodes /\ u.next_id = t.next_id + 1
        /\ u.rules = t.rules \cup {WithId(rule, t.next_id)}
    <3>1. u = [games |-> t.games, categories |-> t.categories, regions |-> t.regions,
               rules |-> t.rules \cup {WithId(rule, t.next_id)}, nodes |-> t.nodes,
               next_id |-> t.next_id + 1]
      BY <1>t, RulesReplaced
    <3> HIDE DEF u
    <3> QED BY <3>1 DEF Tables
  <2>3. \A row \in t.rules : ~SameRoute(row, rule)
    BY <1>2
  <2>4. t.next_id \in Nat \ {0} /\ t.rules = {row \in t.rules : ~SameRoute(row, rule)}
    BY <2>3 DEF WellFormed
  <2> HIDE DEF u
  <2> QED BY <2>1, <2>2, <2>3, <2>4
<1>3. CASE same # {}
  <2>1. PICK old \in t.rules : SameRoute(old, rule)
    BY <1>3
  <2>2. same = {old}
    BY <1>1, <2>1
  <2> DEFINE u == [t EXCEPT !.rules = (@ \ same) \cup {WithId(rule, row.id) : row \in same}]
  <2>3. PutRule(t, rule) = u
    BY <1>3 DEF PutRule
  <2>4. /\ Tables(u) /\ u.games = t.games /\ u.categories = t.categories /\ u.regions = t.regions
        /\ u.nodes = t.nodes /\ u.next_id = t.next_id
        /\ u.rules = (t.rules \ same) \cup {WithId(rule, row.id) : row \in same}
    <3> HIDE DEF same
    <3>1. u = [games |-> t.games, categories |-> t.categories, regions |-> t.regions,
               rules |-> (t.rules \ same) \cup {WithId(rule, row.id) : row \in same},
               nodes |-> t.nodes, next_id |-> t.next_id]
      BY <1>t, RulesReplaced
    <3> HIDE DEF u
    <3> QED BY <3>1 DEF Tables
  <2>5. {WithId(rule, row.id) : row \in same} = {WithId(rule, old.id)}
    BY <2>2
  <2>6. t.rules \ same = {row \in t.rules : ~SameRoute(row, rule)}
    OBVIOUS
  <2>7. old.id \in Nat \ {0}
    BY <2>1 DEF WellFormed
  <2>8. u.rules = {row \in t.rules : ~SameRoute(row, rule)} \cup {WithId(rule, old.id)}
    BY <2>4, <2>5, <2>6
  <2> HIDE DEF u, same
  <2> QED BY <2>1, <2>3, <2>4, <2>7, <2>8
<1> QED BY <1>2, <1>3

\* Every statement leaves the tables well formed.
LEMMA StatementKeeps ==
  ASSUME NEW t, WellFormed(t), NEW s, s.do \in Known, ~Refused(t, s)
  PROVE  WellFormed(Executed(t, s)) /\ t.next_id <= Executed(t, s).next_id
<1> DEFINE u == Executed(t, s)
<1> SUFFICES WellFormed(u) /\ t.next_id <= u.next_id
  OBVIOUS
<1>a. ASSUME NEW w, Tables(w), w.rules \subseteq t.rules, w.nodes = t.nodes, w.next_id = t.next_id
      PROVE  WellFormed(w) /\ t.next_id <= w.next_id
  BY <1>a DEF WellFormed
<1>1. CASE s.do \in {"put_game", "new_game", "set_game"}
  <2>1. u = PutGame(t, s.row)
    BY <1>1, ExecutedIs
  <2>2. Tables(u) /\ u.rules = t.rules /\ u.nodes = t.nodes /\ u.next_id = t.next_id
    BY <2>1 DEF PutGame, WellFormed, Tables
  <2> HIDE DEF u
  <2> QED BY <1>a, <2>2
<1>2. CASE s.do \in {"put_category", "put_region"}
  <2>1. u = PutCategory(t, s.row) \/ u = PutRegion(t, s.row)
    BY <1>2, ExecutedIs
  <2>2. Tables(u) /\ u.rules = t.rules /\ u.nodes = t.nodes /\ u.next_id = t.next_id
    BY <2>1 DEF PutCategory, PutRegion, WellFormed, Tables
  <2> HIDE DEF u
  <2> QED BY <1>a, <2>2
<1>3. CASE s.do \in {"drop_rule", "drop_external", "drop_region"}
  <2>1. \/ u = DropRuleById(t, s.id) \/ u = DropRuleByExternal(t, s.external, s.source)
        \/ u = DropRegion(t, s.region)
    BY <1>3, ExecutedIs
  <2>2. Tables(u) /\ u.rules \subseteq t.rules /\ u.nodes = t.nodes /\ u.next_id = t.next_id
    BY <2>1 DEF DropRuleById, DropRuleByExternal, DropRegion, WellFormed, Tables
  <2> HIDE DEF u
  <2> QED BY <1>a, <2>2
<1>4. CASE s.do \in {"drop_rules", "drop_regions", "drop_categories", "drop_game"}
  <2>1. \/ u = DropGameRules(t, s.game) \/ u = DropGameRegions(t, s.game)
        \/ u = DropCategories(t, s.game) \/ u = DropGame(t, s.game)
    BY <1>4, ExecutedIs
  <2>2. Tables(u) /\ u.rules \subseteq t.rules /\ u.nodes = t.nodes /\ u.next_id = t.next_id
    BY <2>1 DEF DropGameRules, DropGameRegions, DropCategories, DropGame, WellFormed, Tables
  <2> HIDE DEF u
  <2> QED BY <1>a, <2>2
<1>5. CASE s.do = "put_rule"
  <2>1. u = PutRule(t, s.row) /\ s.row.node \in t.nodes
    BY <1>5, ExecutedIs DEF Refused
  <2>2. /\ Tables(u) /\ u.nodes = t.nodes
        /\ \E id \in Nat \ {0} :
             /\ \/ /\ id = t.next_id /\ u.next_id = t.next_id + 1
                   /\ \A row \in t.rules : ~SameRoute(row, s.row)
                \/ /\ u.next_id = t.next_id
                   /\ \E row \in t.rules : SameRoute(row, s.row) /\ row.id = id
             /\ u.rules = {row \in t.rules : ~SameRoute(row, s.row)} \cup {WithId(s.row, id)}
    BY <2>1, PutRuleIs
  <2> HIDE DEF u
  <2>3. PICK id \in Nat \ {0} :
             /\ \/ /\ id = t.next_id /\ u.next_id = t.next_id + 1
                   /\ \A row \in t.rules : ~SameRoute(row, s.row)
                \/ /\ u.next_id = t.next_id
                   /\ \E row \in t.rules : SameRoute(row, s.row) /\ row.id = id
             /\ u.rules = {row \in t.rules : ~SameRoute(row, s.row)} \cup {WithId(s.row, id)}
    BY <2>2
  <2> DEFINE new == WithId(s.row, id)
  <2>4. /\ new.id = id /\ new.node = s.row.node /\ new = WithId(new, new.id)
        /\ new.source = s.row.source /\ new.external = s.row.external
    BY WithIdFields
  <2> HIDE DEF new
  <2>5. /\ t.next_id \in Nat \ {0} /\ u.next_id \in Nat \ {0} /\ t.next_id <= u.next_id
        /\ id < u.next_id
    BY <2>3 DEF WellFormed
  <2>6. \A row \in u.rules : row = new \/ (row \in t.rules /\ ~SameRoute(row, s.row))
    BY <2>3 DEF new
  <2>7. \A row \in u.rules : row.id \in 1..(u.next_id - 1)
    BY <2>4, <2>5, <2>6 DEF WellFormed
  <2>8. \A row \in u.rules : row.node \in u.nodes /\ row = WithId(row, row.id)
    BY <2>1, <2>2, <2>4, <2>6 DEF WellFormed
  <2>9. \A row \in t.rules : ~SameRoute(row, s.row) => row.id # id
    BY <2>3 DEF WellFormed
  <2>10. \A r, q \in u.rules : r.id = q.id => r = q
    BY <2>4, <2>6, <2>9 DEF WellFormed
  <2>11. \A r, q \in u.rules : SameRoute(r, q) => r = q
    BY <2>4, <2>6 DEF WellFormed, SameRoute
  <2> QED BY <2>1, <2>2, <2>5, <2>7, <2>8, <2>10, <2>11 DEF WellFormed
<1>6. CASE s.do = "set_rule"
  <2> DEFINE Set(row) == IF row.id # s.id THEN row
                         ELSE [row EXCEPT !.game = s.row.game, !.region = s.row.region,
                                          !.node = s.row.node, !.target = s.row.target]
  <2>1. u = SetRule(t, s.id, s.row) /\ s.row.node \in t.nodes
    BY <1>6, ExecutedIs DEF Refused
  <2>2. /\ Tables(u) /\ u.rules = {Set(row) : row \in t.rules} /\ u.nodes = t.nodes
        /\ u.next_id = t.next_id
    BY <2>1 DEF SetRule, WellFormed, Tables
  <2>3. ASSUME NEW row \in t.rules
        PROVE  /\ Set(row).id = row.id /\ Set(row).source = row.source
               /\ Set(row).external = row.external /\ Set(row).node \in t.nodes
               /\ Set(row) = WithId(Set(row), row.id)
    <3>1. row = WithId(row, row.id) /\ row.node \in t.nodes
      BY DEF WellFormed
    <3> QED BY <2>1, <3>1 DEF WithId
  <2> HIDE DEF u, Set
  <2>4. \A row \in u.rules : \E old \in t.rules : row = Set(old)
    BY <2>2
  <2>5. \A row \in u.rules : /\ row.id \in 1..(u.next_id - 1) /\ row.node \in u.nodes
                             /\ row = WithId(row, row.id)
    BY <2>2, <2>3, <2>4 DEF WellFormed
  <2>6. \A r, q \in t.rules : Set(r).id = Set(q).id \/ SameRoute(Set(r), Set(q)) => r = q
    BY <2>3 DEF WellFormed, SameRoute
  <2>7. \A r, q \in u.rules : r.id = q.id \/ SameRoute(r, q) => r = q
    BY <2>4, <2>6
  <2> QED BY <2>2, <2>5, <2>7 DEF WellFormed
<1>7. CASE s.do = "drop_node"
  <2>1. u = DropNode(t, s.node)
    BY <1>7, ExecutedIs
  <2>2. /\ Tables(u) /\ u.rules = {row \in t.rules : row.node # s.node}
        /\ u.nodes = t.nodes \ {s.node} /\ u.next_id = t.next_id
    BY <2>1 DEF DropNode, WellFormed, Tables
  <2> HIDE DEF u
  <2> QED BY <2>2 DEF WellFormed
<1> HIDE DEF u
<1> QED BY <1>1, <1>2, <1>3, <1>4, <1>5, <1>6, <1>7 DEF Known

-----------------------------------------------------------------------------
(* Programs *)

Statements(s) == IsList(s) /\ \A i \in 1..Len(s) : s[i].do \in Known

\* What a list is put together from is all there is in it.
LEMMA ConcatElements ==
  ASSUME NEW a, NEW b, IsList(a), IsList(b), NEW i \in 1..Len(a \o b)
  PROVE  \/ \E j \in 1..Len(a) : (a \o b)[i] = a[j]
         \/ \E j \in 1..Len(b) : (a \o b)[i] = b[j]
<1> DEFINE c == a \o b
<1>1. /\ IsList(c) /\ Len(c) = Len(a) + Len(b) /\ Len(a) \in Nat /\ Len(b) \in Nat
      /\ \A j \in 1..Len(a) : c[j] = a[j]
      /\ \A j \in 1..Len(b) : c[Len(a) + j] = b[j]
  BY ConcatFacts, ListFacts
<1> HIDE DEF c
<1>2. i \in 1..Len(c)
  BY DEF c
<1>3. (\E j \in 1..Len(a) : c[i] = a[j]) \/ (\E j \in 1..Len(b) : c[i] = b[j])
  <2>1. CASE i <= Len(a)
    <3>1. i \in 1..Len(a)
      BY <1>1, <1>2, <2>1
    <3> QED BY <1>1, <3>1
  <2>2. CASE i > Len(a)
    <3>1. i - Len(a) \in 1..Len(b) /\ Len(a) + (i - Len(a)) = i
      BY <1>1, <1>2, <2>2
    <3> QED BY <1>1, <3>1
  <2> QED BY <1>1, <1>2, <2>1, <2>2
<1> QED BY <1>3 DEF c

LEMMA FlattenElements ==
  ASSUME NEW seqs, IsList(seqs), \A i \in 1..Len(seqs) : IsList(seqs[i])
  PROVE  \A i \in 1..Len(FlattenSeq(seqs)) :
           \E k \in 1..Len(seqs) : \E j \in 1..Len(seqs[k]) : FlattenSeq(seqs)[i] = seqs[k][j]
<1>0. Len(seqs) \in Nat
  BY ListFacts
<1>1. PICK f : /\ f[0] = <<>> /\ f[Len(seqs)] = FlattenSeq(seqs)
               /\ \A n \in 0..(Len(seqs) - 1) : f[n + 1] = f[n] \o seqs[n + 1]
               /\ \A n \in 0..Len(seqs) : IsList(f[n])
  BY FlattenSteps
<1> DEFINE Given(x) == \E k \in 1..Len(seqs) : \E j \in 1..Len(seqs[k]) : x = seqs[k][j]
           Good == {n \in Nat : n <= Len(seqs) => \A i \in 1..Len(f[n]) : Given(f[n][i])}
<1>2. 0 \in Good
  <2>1. Len(<<>>) = 0
    BY EmptyList
  <2> QED BY <1>1, <2>1
<1>3. ASSUME NEW n \in Nat, n \in Good PROVE n + 1 \in Good
  <2>1. CASE n + 1 <= Len(seqs)
    <3> DEFINE a == f[n]
               b == seqs[n + 1]
    <3>1. n \in 0..(Len(seqs) - 1) /\ n + 1 \in 1..Len(seqs) /\ n \in 0..Len(seqs) /\ n <= Len(seqs)
      BY <1>0, <2>1
    <3>2. IsList(a) /\ IsList(b) /\ f[n + 1] = a \o b
      BY <1>1, <3>1
    <3>3. (\A j \in 1..Len(a) : Given(a[j])) /\ (\A j \in 1..Len(b) : Given(b[j]))
      BY <1>3, <3>1
    <3> HIDE DEF a, b, Given
    <3>4. ASSUME NEW i \in 1..Len(a \o b) PROVE Given((a \o b)[i])
      BY <3>2, <3>3, ConcatElements
    <3>5. \A i \in 1..Len(f[n + 1]) : Given(f[n + 1][i])
      BY <3>2, <3>4
    <3> QED BY <3>5
  <2> HIDE DEF Given
  <2> QED BY <2>1
<1> HIDE DEF Good, Given
<1>4. Nat \subseteq Good
  BY <1>2, <1>3, ByInduction
<1>5. \A i \in 1..Len(f[Len(seqs)]) : Given(f[Len(seqs)][i])
  BY <1>0, <1>4 DEF Good
<1> QED BY <1>1, <1>5 DEF Given

LEMMA ConcatStatements ==
  ASSUME NEW a, NEW b, Statements(a), Statements(b)
  PROVE  Statements(a \o b)
<1>1. IsList(a) /\ IsList(b) /\ IsList(a \o b)
  BY ConcatFacts DEF Statements
<1>2. ASSUME NEW i \in 1..Len(a \o b) PROVE (a \o b)[i].do \in Known
  BY <1>1, ConcatElements DEF Statements
<1> QED BY <1>1, <1>2 DEF Statements

LEMMA ListStatements ==
  ASSUME NEW n \in Nat, NEW f, DOMAIN f = 1..n, f = [i \in 1..n |-> f[i]],
         \A i \in 1..n : f[i].do \in Known
  PROVE  Statements(f)
  BY MakeList DEF Statements

LEMMA OneStatement == \A x : x.do \in Known => Statements(<<x>>)
  BY OneIsList DEF Statements

LEMMA FlattenStatements ==
  ASSUME NEW seqs, IsList(seqs), \A i \in 1..Len(seqs) : Statements(seqs[i])
  PROVE  Statements(FlattenSeq(seqs))
<1>1. \A i \in 1..Len(seqs) : IsList(seqs[i])
  BY DEF Statements
<1>2. IsList(FlattenSeq(seqs))
  BY <1>1, FlattenIsList
<1>3. \A i \in 1..Len(FlattenSeq(seqs)) : FlattenSeq(seqs)[i].do \in Known
  BY <1>1, FlattenElements DEF Statements
<1> QED BY <1>2, <1>3 DEF Statements

\* A game has none of its categories twice.
LEMMA DistinctFacts ==
  ASSUME NEW s, IsList(s)
  PROVE  /\ IsList(Distinct(s))
         /\ \A i, j \in 1..Len(Distinct(s)) : Distinct(s)[i] = Distinct(s)[j] => i = j
<1> DEFINE Next1(seen, c) == IF Contains(seen, c) THEN seen ELSE Append(seen, c)
           Solves(g, m) == g = [n \in 0..m |-> IF n = 0 THEN <<>> ELSE Next1(g[n - 1], s[n])]
           Solved == {m \in Nat : \E g : Solves(g, m)}
<1>0. Len(s) \in Nat
  BY ListFacts
<1>1. 0 \in Solved
  <2>1. Solves([n \in 0..0 |-> <<>>], 0)
    OBVIOUS
  <2> QED BY <2>1
<1>2. ASSUME NEW m \in Nat, m \in Solved PROVE m + 1 \in Solved
  <2> HIDE DEF Next1
  <2>1. PICK g : Solves(g, m)
    BY <1>2
  <2> DEFINE f == [n \in 0..(m + 1) |-> IF n = m + 1 THEN Next1(g[m], s[n]) ELSE g[n]]
  <2>2. \A n \in 0..m : g[n] = IF n = 0 THEN <<>> ELSE Next1(g[n - 1], s[n])
    BY <2>1
  <2>3. \A n \in 0..(m + 1) : f[n] = IF n = 0 THEN <<>> ELSE Next1(f[n - 1], s[n])
    BY <2>2
  <2>4. Solves(f, m + 1)
    BY <2>3
  <2> HIDE DEF f
  <2>5. \E h : Solves(h, m + 1)
    BY <2>4
  <2>6. m + 1 \in Nat
    OBVIOUS
  <2> HIDE DEF Solves
  <2> QED BY <2>5, <2>6
<1> HIDE DEF Solved
<1>3. Nat \subseteq Solved
  BY <1>1, <1>2, ByInduction
<1> USE DEF Solved
<1>4. \E g : Solves(g, Len(s))
  BY <1>0, <1>3
<1> DEFINE g0 == CHOOSE g : Solves(g, Len(s))
<1>5. Solves(g0, Len(s)) /\ Distinct(s) = g0[Len(s)]
  BY <1>4 DEF Distinct
<1> HIDE DEF g0, Solved
<1>6. g0[0] = <<>> /\ \A n \in 1..Len(s) : g0[n] = Next1(g0[n - 1], s[n])
  <2> HIDE DEF Next1
  <2>1. \A n \in 0..Len(s) : g0[n] = IF n = 0 THEN <<>> ELSE Next1(g0[n - 1], s[n])
    BY <1>5
  <2> QED BY <1>0, <2>1
<1> HIDE DEF Solves
<1> DEFINE Injective(q) == IsList(q) /\ \A i, j \in 1..Len(q) : q[i] = q[j] => i = j
           Good == {n \in Nat : n <= Len(s) => Injective(g0[n])}
<1>7. 0 \in Good
  <2>1. Injective(<<>>)
    BY EmptyList
  <2> QED BY <1>6, <2>1
<1>8. ASSUME NEW q, NEW c, Injective(q) PROVE Injective(Next1(q, c))
  <2>1. CASE Contains(q, c)
    BY <1>8, <2>1
  <2>2. CASE ~Contains(q, c)
    <3> DEFINE S == ToSet(q) \cup {c}
    <3>1. q = [i \in 1..Len(q) |-> q[i]] /\ Len(q) \in Nat /\ \A i \in 1..Len(q) : q[i] \in S
      BY <1>8, ListFacts DEF ToSet
    <3> HIDE DEF S
    <3>2. q \in Seq(S)
      BY <3>1
    <3>3. c \in S
      BY DEF S
    <3> DEFINE r == Append(q, c)
    <3>4. /\ r \in Seq(S) /\ Len(r) = Len(q) + 1 /\ r[Len(q) + 1] = c
          /\ \A i \in 1..Len(q) : r[i] = q[i]
      BY <3>2, <3>3
    <3>5. \A i \in 1..Len(q) : q[i] # c
      BY <2>2 DEF Contains
    <3> HIDE DEF r
    <3>6. Len(r) \in Nat /\ DOMAIN r = 1..Len(r) /\ r = [i \in 1..Len(r) |-> r[i]]
      BY <3>4
    <3>7. IsList(r)
      BY <3>6, MakeList
    <3>8. \A i, j \in 1..Len(r) : r[i] = r[j] => i = j
      BY <1>8, <3>1, <3>4, <3>5
    <3>9. Injective(r)
      BY <3>7, <3>8
    <3> QED BY <2>2, <3>9 DEF r
  <2> QED BY <2>1, <2>2
<1>9. ASSUME NEW n \in Nat, n \in Good PROVE n + 1 \in Good
  <2> HIDE DEF Next1, Injective
  <2>1. CASE n + 1 <= Len(s)
    <3>1. n + 1 \in 1..Len(s) /\ (n + 1) - 1 = n
      BY <1>0, <2>1
    <3>2. Injective(g0[n]) /\ g0[n + 1] = Next1(g0[n], s[n + 1])
      BY <1>6, <1>9, <3>1
    <3> QED BY <1>8, <3>2
  <2> QED BY <2>1
<1> HIDE DEF Good, Next1, Injective
<1>10. Nat \subseteq Good
  BY <1>7, <1>9, ByInduction
<1>11. Injective(g0[Len(s)])
  BY <1>0, <1>10 DEF Good
<1> QED BY <1>5, <1>11 DEF Injective

\* A rule has the external id the business system gave it, or the one derived from what it says.
Identified(rule) ==
  rule.external # None \/ rule.external = DefaultExternal(rule, rule.region, rule.game)
IdentifiedList(rules) == IsList(rules) /\ \A i \in 1..Len(rules) : Identified(rules[i])

LEMMA RuleIdentified ==
  \A source, rule, region, game : Identified(RuleIn(source, rule, region, game))
<1> TAKE source, rule, region, game
<1> DEFINE r == Inherited(rule.region, region)
           g == Inherited(rule.game, game)
           x == RuleIn(source, rule, region, game)
<1>1. /\ x.external = ExternalOf(rule, r, g) /\ x.region = r /\ x.game = g
      /\ x.node = rule.node /\ x.target = rule.target
  BY DEF RuleIn
<1> HIDE DEF r, g, x
<1>2. CASE rule.external = None
  <2>1. x.external = DefaultExternal(rule, r, g)
    BY <1>1, <1>2 DEF ExternalOf
  <2> QED BY <1>1, <2>1 DEF Identified, DefaultExternal, x
<1>3. CASE rule.external # None
  <2>1. x.external # None
    BY <1>1, <1>3 DEF ExternalOf
  <2> QED BY <2>1 DEF Identified, x
<1> QED BY <1>2, <1>3

LEMMA ConcatIdentified ==
  ASSUME NEW a, NEW b, IdentifiedList(a), IdentifiedList(b)
  PROVE  IdentifiedList(a \o b)
<1>1. IsList(a) /\ IsList(b) /\ IsList(a \o b)
  BY ConcatFacts DEF IdentifiedList
<1>2. ASSUME NEW i \in 1..Len(a \o b) PROVE Identified((a \o b)[i])
  BY <1>1, ConcatElements DEF IdentifiedList
<1> QED BY <1>1, <1>2 DEF IdentifiedList

LEMMA FlattenIdentified ==
  ASSUME NEW seqs, IsList(seqs), \A i \in 1..Len(seqs) : IdentifiedList(seqs[i])
  PROVE  IdentifiedList(FlattenSeq(seqs))
<1>1. \A i \in 1..Len(seqs) : IsList(seqs[i])
  BY DEF IdentifiedList
<1>2. IsList(FlattenSeq(seqs))
  BY <1>1, FlattenIsList
<1>3. \A i \in 1..Len(FlattenSeq(seqs)) : Identified(FlattenSeq(seqs)[i])
  BY <1>1, FlattenElements DEF IdentifiedList
<1> QED BY <1>2, <1>3 DEF IdentifiedList

\* A normalised catalog is made of lists; no game has a category twice, no rule goes unnamed.
LEMMA NormalisedLists ==
  ASSUME NEW request, TypedSync(request)
  PROVE  /\ IsList(Normalised(request).games)
         /\ IsList(Normalised(request).regions) /\ IsList(Normalised(request).rules)
         /\ \A i \in 1..Len(Normalised(request).games) :
              LET game == Normalised(request).games[i]
              IN /\ IsList(game.categories)
                 /\ \A j, k \in 1..Len(game.categories) :
                      game.categories[j] = game.categories[k] => j = k
         /\ \A i \in 1..Len(Normalised(request).rules) :
              Normalised(request).rules[i].external # None
<1> DEFINE G == request.games
           R == request.regions
           U == request.rules
           Of(region, game) ==
             RulesIn(request.source, region.rules, region.region, Inherited(region.game, game))
           RulesOf(game) ==
             FlattenSeq([i \in DOMAIN game.regions |-> Of(game.regions[i], game.game)])
             \o RulesIn(request.source, game.rules, None, game.game)
           games == [i \in DOMAIN G |-> GameIn(G[i])]
           nested == [i \in DOMAIN G |->
                        [j \in DOMAIN G[i].regions |-> RegionIn(G[i].regions[j], G[i].game)]]
           flat == [i \in DOMAIN R |-> RegionIn(R[i], None)]
           ofGames == [i \in DOMAIN G |-> RulesOf(G[i])]
           ofRegions == [i \in DOMAIN R |-> Of(R[i], None)]
           own == RulesIn(request.source, U, None, None)
<1>1. Normalised(request) = [games |-> games, regions |-> FlattenSeq(nested) \o flat,
                             rules |-> FlattenSeq(ofGames) \o FlattenSeq(ofRegions) \o own]
  BY DEF Normalised
<1>2. /\ IsList(G) /\ IsList(R) /\ IsList(U)
      /\ \A i \in 1..Len(G) : TypedGame(G[i])
      /\ \A i \in 1..Len(R) : IsList(R[i].rules)
      /\ Len(G) \in Nat /\ DOMAIN G = 1..Len(G) /\ Len(R) \in Nat /\ DOMAIN R = 1..Len(R)
  <2>1. IsList(G) /\ IsList(R) /\ IsList(U)
    BY DEF TypedSync
  <2>2. Len(G) \in Nat /\ DOMAIN G = 1..Len(G) /\ Len(R) \in Nat /\ DOMAIN R = 1..Len(R)
    BY <2>1, ListFacts
  <2>3. (\A i \in 1..Len(G) : G[i] \in ToSet(G)) /\ (\A i \in 1..Len(R) : R[i] \in ToSet(R))
    BY <2>2 DEF ToSet
  <2> QED BY <2>1, <2>2, <2>3 DEF TypedSync
<1>3. ASSUME NEW s, IsList(s), NEW f, DOMAIN f = DOMAIN s, f = [i \in DOMAIN s |-> f[i]]
      PROVE  IsList(f) /\ Len(f) = Len(s)
  <2>1. Len(s) \in Nat /\ DOMAIN s = 1..Len(s)
    BY <1>3, ListFacts
  <2> QED BY <1>3, <2>1, MakeList
<1>4. ASSUME NEW rules, IsList(rules), NEW region, NEW game
      PROVE  IdentifiedList(RulesIn(request.source, rules, region, game))
  <2> DEFINE f == RulesIn(request.source, rules, region, game)
  <2>1. /\ DOMAIN f = DOMAIN rules /\ f = [i \in DOMAIN rules |-> f[i]]
        /\ \A i \in DOMAIN f : f[i] = RuleIn(request.source, rules[i], region, game)
    BY DEF RulesIn
  <2> HIDE DEF f
  <2>2. IsList(f) /\ DOMAIN f = 1..Len(f)
    BY <1>4, <1>3, <2>1, ListFacts
  <2>3. \A i \in 1..Len(f) : Identified(f[i])
    BY <2>1, <2>2, RuleIdentified
  <2> QED BY <2>2, <2>3 DEF f, IdentifiedList
<1>5. IsList(games) /\ Len(games) = Len(G)
  <2>1. DOMAIN games = DOMAIN G /\ games = [i \in DOMAIN G |-> games[i]]
    OBVIOUS
  <2> HIDE DEF games
  <2> QED BY <1>2, <1>3, <2>1
<1>6. ASSUME NEW i \in 1..Len(G)
      PROVE  /\ IsList(games[i].categories)
             /\ \A j, k \in 1..Len(games[i].categories) :
                  games[i].categories[j] = games[i].categories[k] => j = k
  <2>1. games[i].categories = Distinct(G[i].categories) /\ IsList(G[i].categories)
    BY <1>2 DEF GameIn, TypedGame
  <2> QED BY <2>1, DistinctFacts
<1>7. IsList(FlattenSeq(nested) \o flat)
  <2>1. /\ DOMAIN nested = DOMAIN G /\ nested = [i \in DOMAIN G |-> nested[i]]
        /\ DOMAIN flat = DOMAIN R /\ flat = [i \in DOMAIN R |-> flat[i]]
    OBVIOUS
  <2>2. ASSUME NEW i \in 1..Len(G) PROVE IsList(nested[i])
    <3> DEFINE f == [j \in DOMAIN G[i].regions |-> RegionIn(G[i].regions[j], G[i].game)]
    <3>1. nested[i] = f /\ IsList(G[i].regions)
      BY <1>2 DEF TypedGame
    <3>2. DOMAIN f = DOMAIN G[i].regions /\ f = [j \in DOMAIN G[i].regions |-> f[j]]
      OBVIOUS
    <3> HIDE DEF f
    <3>3. IsList(f)
      BY <3>1, <3>2, <1>3
    <3> QED BY <3>1, <3>3
  <2> HIDE DEF nested, flat
  <2>3. IsList(nested) /\ Len(nested) = Len(G) /\ IsList(flat)
    BY <1>2, <1>3, <2>1
  <2>4. IsList(FlattenSeq(nested))
    BY <2>2, <2>3, FlattenIsList
  <2> QED BY <2>3, <2>4, ConcatFacts
<1>8. IdentifiedList(FlattenSeq(ofGames) \o FlattenSeq(ofRegions) \o own)
  <2>1. /\ DOMAIN ofGames = DOMAIN G /\ ofGames = [i \in DOMAIN G |-> ofGames[i]]
        /\ DOMAIN ofRegions = DOMAIN R /\ ofRegions = [i \in DOMAIN R |-> ofRegions[i]]
    OBVIOUS
  <2>2. ASSUME NEW i \in 1..Len(R) PROVE IdentifiedList(ofRegions[i])
    <3>1. ofRegions[i] = Of(R[i], None) /\ IsList(R[i].rules)
      BY <1>2
    <3> QED BY <1>4, <3>1
  <2>3. ASSUME NEW i \in 1..Len(G) PROVE IdentifiedList(ofGames[i])
    <3> DEFINE f == [j \in DOMAIN G[i].regions |-> Of(G[i].regions[j], G[i].game)]
    <3>1. /\ ofGames[i] = FlattenSeq(f) \o RulesIn(request.source, G[i].rules, None, G[i].game)
          /\ IsList(G[i].regions) /\ IsList(G[i].rules)
          /\ \A region \in ToSet(G[i].regions) : IsList(region.rules)
      BY <1>2 DEF TypedGame
    <3>2. DOMAIN f = DOMAIN G[i].regions /\ f = [j \in DOMAIN G[i].regions |-> f[j]]
      OBVIOUS
    <3>3. ASSUME NEW j \in DOMAIN G[i].regions PROVE IdentifiedList(f[j])
      <4>1. f[j] = Of(G[i].regions[j], G[i].game) /\ G[i].regions[j] \in ToSet(G[i].regions)
        BY DEF ToSet
      <4>2. IsList(G[i].regions[j].rules)
        BY <3>1, <4>1
      <4> QED BY <1>4, <4>1, <4>2
    <3> HIDE DEF f
    <3>4. IsList(f) /\ Len(f) = Len(G[i].regions) /\ DOMAIN f = 1..Len(f)
      BY <1>3, <3>1, <3>2, ListFacts
    <3>5. IdentifiedList(FlattenSeq(f))
      BY <3>2, <3>3, <3>4, FlattenIdentified
    <3>6. IdentifiedList(RulesIn(request.source, G[i].rules, None, G[i].game))
      BY <1>4, <3>1
    <3> HIDE DEF ofGames
    <3> QED BY <3>1, <3>5, <3>6, ConcatIdentified
  <2>4. IdentifiedList(own)
    BY <1>2, <1>4
  <2> HIDE DEF ofGames, ofRegions, own
  <2>5. /\ IsList(ofGames) /\ Len(ofGames) = Len(G)
        /\ IsList(ofRegions) /\ Len(ofRegions) = Len(R)
    BY <1>2, <1>3, <2>1
  <2>6. IdentifiedList(FlattenSeq(ofGames)) /\ IdentifiedList(FlattenSeq(ofRegions))
    BY <2>2, <2>3, <2>5, FlattenIdentified
  <2>7. IdentifiedList(FlattenSeq(ofGames) \o FlattenSeq(ofRegions))
    BY <2>6, ConcatIdentified
  <2> QED BY <2>4, <2>7, ConcatIdentified
<1>9. ASSUME NEW i \in 1..Len(Normalised(request).rules)
      PROVE  Normalised(request).rules[i].external # None
  <2> DEFINE N == Normalised(request).rules
  <2>1. N = FlattenSeq(ofGames) \o FlattenSeq(ofRegions) \o own /\ IsList(N)
    <3> HIDE DEF games, nested, flat, ofGames, ofRegions, own
    <3> QED BY <1>1, <1>8 DEF IdentifiedList
  <2>2. \A j \in 1..Len(N) : Identified(N[j])
    <3> HIDE DEF N, ofGames, ofRegions, own
    <3> QED BY <1>8, <2>1 DEF IdentifiedList
  <2> HIDE DEF N
  <2>3. N[i] \in ToSet(N) /\ Identified(N[i])
    BY <2>1, <2>2, ListFacts DEF ToSet, N
  <2>4. DefaultExternal(N[i], N[i].region, N[i].game) # None
    BY <2>3 DEF TypedSync, N
  <2> QED BY <2>3, <2>4 DEF Identified, N
<1> HIDE DEF games, nested, flat, ofGames, ofRegions, own
<1>10. IsList(Normalised(request).rules)
  BY <1>1, <1>8 DEF IdentifiedList
<1> QED BY <1>1, <1>2, <1>5, <1>6, <1>7, <1>9, <1>10

\* The parts of the programs the business API runs.
OfGames(games) ==
  [i \in DOMAIN games |-> WriteGame("put_game", games[i]) \o ReplaceCategories(games[i])]
Puts(do, rows) == [i \in DOMAIN rows |-> [do |-> do, row |-> rows[i]]]
OfIds(request) == [i \in DOMAIN request.ids |-> [do |-> "drop_rule", id |-> request.ids[i]]]
OfExternals(request) ==
  [i \in DOMAIN request.externals |->
     [do |-> "drop_external", external |-> request.externals[i], source |-> request.source]]
OfRegions(request) ==
  [i \in DOMAIN request.regions |-> [do |-> "drop_region", region |-> request.regions[i]]]
DropsOfGames(request) == [i \in DOMAIN request.games |-> DropsOfGame(request.games[i])]

PutCategories(game) ==
  [i \in DOMAIN game.categories |->
     [do |-> "put_category",
      row |-> [game |-> game.game, category |-> game.categories[i], sort_order |-> i - 1]]]

LEMMA CategoriesLists ==
  ASSUME NEW game, IsList(game.categories)
  PROVE  /\ Statements(PutCategories(game)) /\ Len(PutCategories(game)) = Len(game.categories)
         /\ DOMAIN game.categories = 1..Len(game.categories)
         /\ ReplaceCategories(game) =
              <<[do |-> "drop_categories", game |-> game.game]>> \o PutCategories(game)
         /\ Statements(<<[do |-> "drop_categories", game |-> game.game]>>)
         /\ Statements(ReplaceCategories(game))
<1> DEFINE f == PutCategories(game)
<1>1. Len(game.categories) \in Nat /\ DOMAIN game.categories = 1..Len(game.categories)
  BY ListFacts
<1>2. /\ DOMAIN f = 1..Len(game.categories) /\ f = [i \in 1..Len(game.categories) |-> f[i]]
      /\ \A i \in 1..Len(game.categories) : f[i].do \in Known
  BY <1>1 DEF PutCategories, Known
<1>3. ReplaceCategories(game) = <<[do |-> "drop_categories", game |-> game.game]>> \o f
  BY DEF ReplaceCategories, PutCategories
<1> HIDE DEF f
<1>4. Statements(f) /\ Len(f) = Len(game.categories)
  BY <1>1, <1>2, ListStatements, MakeList
<1>5. Statements(<<[do |-> "drop_categories", game |-> game.game]>>)
  BY OneStatement DEF Known
<1> DEFINE one == <<[do |-> "drop_categories", game |-> game.game]>>
<1>6. Statements(one \o f)
  <2>1. Statements(one)
    BY <1>5
  <2> HIDE DEF one
  <2> QED BY <1>4, <2>1, ConcatStatements
<1> QED BY <1>1, <1>3, <1>4, <1>5, <1>6 DEF f

LEMMA WriteGameStatements ==
  \A do, game : do \in Known => Statements(WriteGame(do, game))
  BY OneStatement DEF WriteGame

LEMMA PutsStatements ==
  ASSUME NEW do \in Known, NEW rows, IsList(rows)
  PROVE  Statements(Puts(do, rows)) /\ Len(Puts(do, rows)) = Len(rows)
<1> DEFINE f == Puts(do, rows)
<1>1. Len(rows) \in Nat /\ DOMAIN rows = 1..Len(rows)
  BY ListFacts
<1>2. /\ DOMAIN f = 1..Len(rows) /\ f = [i \in 1..Len(rows) |-> f[i]]
      /\ \A i \in 1..Len(rows) : f[i].do \in Known
  BY <1>1 DEF Puts
<1> HIDE DEF f
<1>3. Statements(f) /\ Len(f) = Len(rows)
  BY <1>1, <1>2, ListStatements, MakeList
<1> QED BY <1>3 DEF f

LEMMA OfGamesLists ==
  ASSUME NEW games, IsList(games), \A i \in 1..Len(games) : IsList(games[i].categories)
  PROVE  /\ IsList(OfGames(games)) /\ Len(OfGames(games)) = Len(games)
         /\ \A i \in 1..Len(games) :
              /\ OfGames(games)[i] = WriteGame("put_game", games[i]) \o ReplaceCategories(games[i])
              /\ Statements(OfGames(games)[i])
<1> DEFINE f == OfGames(games)
<1>1. Len(games) \in Nat /\ DOMAIN games = 1..Len(games)
  BY ListFacts
<1>2. /\ DOMAIN f = 1..Len(games) /\ f = [i \in 1..Len(games) |-> f[i]]
      /\ \A i \in 1..Len(games) :
           f[i] = WriteGame("put_game", games[i]) \o ReplaceCategories(games[i])
  BY <1>1 DEF OfGames
<1>3. ASSUME NEW i \in 1..Len(games) PROVE Statements(f[i])
  <2>1. Statements(WriteGame("put_game", games[i]))
    BY WriteGameStatements DEF Known
  <2>2. Statements(ReplaceCategories(games[i]))
    BY CategoriesLists
  <2>3. Statements(WriteGame("put_game", games[i]) \o ReplaceCategories(games[i]))
    BY <2>1, <2>2, ConcatStatements
  <2> HIDE DEF f
  <2> QED BY <1>2, <2>3
<1> HIDE DEF f
<1>4. IsList(f) /\ Len(f) = Len(games)
  BY <1>1, <1>2, MakeList
<1> QED BY <1>2, <1>3, <1>4 DEF f

LEMMA FourStatements ==
  \A a, b, c, d :
    a.do \in Known /\ b.do \in Known /\ c.do \in Known /\ d.do \in Known
    => Statements(<<a, b, c, d>>)
<1> TAKE a, b, c, d
<1> DEFINE s == <<a, b, c, d>>
<1>1. Len(s) = 4 /\ s[1] = a /\ s[2] = b /\ s[3] = c /\ s[4] = d /\ DOMAIN s = 1..4
  OBVIOUS
<1>2. s \in Seq({a, b, c, d})
  OBVIOUS
<1> HIDE DEF s
<1>3. s = [i \in 1..4 |-> s[i]]
  BY <1>1, <1>2
<1>4. \A i \in 1..4 : i = 1 \/ i = 2 \/ i = 3 \/ i = 4
  OBVIOUS
<1>5. IsList(s)
  BY <1>1, <1>3, MakeList
<1>6. a.do \in Known /\ b.do \in Known /\ c.do \in Known /\ d.do \in Known => Statements(s)
  BY <1>1, <1>4, <1>5 DEF Statements
<1> QED BY <1>6 DEF s

LEMMA DeleteLists ==
  ASSUME NEW request, TypedDelete(request)
  PROVE  /\ Statements(OfIds(request)) /\ Len(OfIds(request)) = Len(request.ids)
         /\ Statements(OfExternals(request))
         /\ Len(OfExternals(request)) = Len(request.externals)
         /\ Statements(OfRegions(request)) /\ Len(OfRegions(request)) = Len(request.regions)
         /\ IsList(DropsOfGames(request)) /\ Len(DropsOfGames(request)) = Len(request.games)
         /\ \A i \in 1..Len(request.games) : Statements(DropsOfGames(request)[i])
         /\ DeleteProgram(request) =
              <<OfIds(request) \o OfExternals(request) \o OfRegions(request)
                \o FlattenSeq(DropsOfGames(request))>>
<1>1. ASSUME NEW s, IsList(s), NEW f, DOMAIN f = DOMAIN s, f = [i \in DOMAIN s |-> f[i]]
      PROVE  /\ IsList(f) /\ Len(f) = Len(s) /\ DOMAIN f = 1..Len(s)
             /\ (\A i \in DOMAIN s : f[i].do \in Known) => Statements(f)
  <2>1. Len(s) \in Nat /\ DOMAIN s = 1..Len(s)
    BY <1>1, ListFacts
  <2>2. IsList(f) /\ Len(f) = Len(s) /\ DOMAIN f = 1..Len(s)
    BY <1>1, <2>1, MakeList
  <2> QED BY <2>1, <2>2 DEF Statements
<1>2. Statements(OfIds(request)) /\ Len(OfIds(request)) = Len(request.ids)
  <2> DEFINE f == OfIds(request)
  <2>1. /\ DOMAIN f = DOMAIN request.ids /\ f = [i \in DOMAIN request.ids |-> f[i]]
        /\ \A i \in DOMAIN request.ids : f[i].do \in Known
    BY DEF OfIds, Known
  <2> HIDE DEF f
  <2>2. IsList(request.ids)
    BY DEF TypedDelete
  <2>3. Statements(f) /\ Len(f) = Len(request.ids)
    BY <1>1, <2>1, <2>2
  <2> QED BY <2>3 DEF f
<1>3. Statements(OfExternals(request)) /\ Len(OfExternals(request)) = Len(request.externals)
  <2> DEFINE f == OfExternals(request)
  <2>1. /\ DOMAIN f = DOMAIN request.externals /\ f = [i \in DOMAIN request.externals |-> f[i]]
        /\ \A i \in DOMAIN request.externals : f[i].do \in Known
    BY DEF OfExternals, Known
  <2> HIDE DEF f
  <2>2. IsList(request.externals)
    BY DEF TypedDelete
  <2>3. Statements(f) /\ Len(f) = Len(request.externals)
    BY <1>1, <2>1, <2>2
  <2> QED BY <2>3 DEF f
<1>4. Statements(OfRegions(request)) /\ Len(OfRegions(request)) = Len(request.regions)
  <2> DEFINE f == OfRegions(request)
  <2>1. /\ DOMAIN f = DOMAIN request.regions /\ f = [i \in DOMAIN request.regions |-> f[i]]
        /\ \A i \in DOMAIN request.regions : f[i].do \in Known
    BY DEF OfRegions, Known
  <2> HIDE DEF f
  <2>2. IsList(request.regions)
    BY DEF TypedDelete
  <2>3. Statements(f) /\ Len(f) = Len(request.regions)
    BY <1>1, <2>1, <2>2
  <2> QED BY <2>3 DEF f
<1>5. IsList(DropsOfGames(request)) /\ Len(DropsOfGames(request)) = Len(request.games)
  <2> DEFINE f == DropsOfGames(request)
  <2>1. DOMAIN f = DOMAIN request.games /\ f = [i \in DOMAIN request.games |-> f[i]]
    BY DEF DropsOfGames
  <2> HIDE DEF f
  <2>2. IsList(request.games)
    BY DEF TypedDelete
  <2>3. IsList(f) /\ Len(f) = Len(request.games)
    BY <1>1, <2>1, <2>2
  <2> QED BY <2>3 DEF f
<1>6. ASSUME NEW i \in 1..Len(request.games) PROVE Statements(DropsOfGames(request)[i])
  <2>1. i \in DOMAIN request.games
    BY ListFacts DEF TypedDelete
  <2>2. DropsOfGames(request)[i] = DropsOfGame(request.games[i])
    BY <2>1 DEF DropsOfGames
  <2>3. Statements(DropsOfGame(request.games[i]))
    <3> DEFINE g == request.games[i]
               a == [do |-> "drop_rules", game |-> g]
               b == [do |-> "drop_regions", game |-> g]
               c == [do |-> "drop_categories", game |-> g]
               d == [do |-> "drop_game", game |-> g]
    <3>1. a.do \in Known /\ b.do \in Known /\ c.do \in Known /\ d.do \in Known
      BY DEF Known
    <3>2. DropsOfGame(g) = <<a, b, c, d>>
      BY DEF DropsOfGame
    <3> HIDE DEF a, b, c, d
    <3> QED BY <3>1, <3>2, FourStatements
  <2> QED BY <2>2, <2>3
<1>7. DeleteProgram(request) =
        <<OfIds(request) \o OfExternals(request) \o OfRegions(request)
          \o FlattenSeq(DropsOfGames(request))>>
  BY DEF DeleteProgram, OfIds, OfExternals, OfRegions, DropsOfGames
<1> QED BY <1>2, <1>3, <1>4, <1>5, <1>6, <1>7

\* A program is a list of transactions, a transaction a list of statements there are.
LEMMA ProgramFacts ==
  ASSUME NEW request \in Requests
  PROVE  /\ IsList(Program(request)) /\ Len(Program(request)) \in Nat
         /\ \A k \in 1..Len(Program(request)) : Statements(Program(request)[k])
<1>0. Typed(request)
  BY CatalogAssumption
<1>a. ASSUME NEW a, Statements(a)
      PROVE  /\ IsList(<<a>>) /\ Len(<<a>>) \in Nat
             /\ \A k \in 1..Len(<<a>>) : Statements(<<a>>[k])
  BY <1>a, OneIsList
<1>b. ASSUME NEW a, NEW b, Statements(a), Statements(b)
      PROVE  /\ IsList(<<a, b>>) /\ Len(<<a, b>>) \in Nat
             /\ \A k \in 1..Len(<<a, b>>) : Statements(<<a, b>>[k])
  <2>1. <<a, b>> \in Seq(ToSet(<<a, b>>)) /\ Len(<<a, b>>) = 2
    BY DEF ToSet
  <2> QED BY <1>b, <2>1 DEF IsList
<1>c. \A do : do \in Known => \A x : Statements(<<[do |-> do, row |-> x]>>)
  BY OneStatement
<1>1. CASE request.kind = "sync"
  <2> DEFINE catalog == Normalised(request)
             all == FlattenSeq(OfGames(catalog.games)) \o Puts("put_region", catalog.regions)
                    \o Puts("put_rule", catalog.rules)
  <2>1. Program(request) = <<all>>
    BY <1>1 DEF Program, SyncProgram, OfGames, Puts
  <2>2. TypedSync(request)
    BY <1>0, <1>1 DEF Typed
  <2>3. /\ IsList(catalog.games)
        /\ \A i \in 1..Len(catalog.games) : IsList(catalog.games[i].categories)
        /\ IsList(catalog.regions) /\ IsList(catalog.rules)
    BY <2>2, NormalisedLists
  <2> HIDE DEF catalog
  <2>4. Statements(FlattenSeq(OfGames(catalog.games)))
    BY <2>3, OfGamesLists, FlattenStatements
  <2>5. /\ Statements(Puts("put_region", catalog.regions))
        /\ Statements(Puts("put_rule", catalog.rules))
    BY <2>3, PutsStatements DEF Known
  <2>6. Statements(FlattenSeq(OfGames(catalog.games)) \o Puts("put_region", catalog.regions))
    BY <2>4, <2>5, ConcatStatements
  <2>7. Statements(all)
    BY <2>5, <2>6, ConcatStatements
  <2> HIDE DEF all
  <2> QED BY <1>a, <2>1, <2>7
<1>2. CASE request.kind = "delete"
  <2> DEFINE all == OfIds(request) \o OfExternals(request) \o OfRegions(request)
                    \o FlattenSeq(DropsOfGames(request))
  <2>1. TypedDelete(request)
    BY <1>0, <1>2 DEF Typed
  <2>2. Program(request) = <<all>>
    BY <1>2, <2>1, DeleteLists DEF Program
  <2>3. /\ Statements(OfIds(request)) /\ Statements(OfExternals(request))
        /\ Statements(OfRegions(request)) /\ Statements(FlattenSeq(DropsOfGames(request)))
    BY <2>1, DeleteLists, FlattenStatements
  <2>4. Statements(OfIds(request) \o OfExternals(request))
    BY <2>3, ConcatStatements
  <2>5. Statements(OfIds(request) \o OfExternals(request) \o OfRegions(request))
    BY <2>3, <2>4, ConcatStatements
  <2>6. Statements(all)
    BY <2>3, <2>5, ConcatStatements
  <2> HIDE DEF all
  <2> QED BY <1>a, <2>2, <2>6
<1>3. CASE request.kind = "delete_node"
  <2> DEFINE s == [do |-> "drop_node", node |-> request.node]
  <2>1. Program(request) = <<<<s>>>> /\ s.do \in Known
    BY <1>3 DEF Program, Known
  <2> HIDE DEF s
  <2> QED BY <1>a, <2>1, OneStatement
<1>4. CASE request.kind \in {"create_game", "update_game", "delete_game"}
  <2> DEFINE game == GameIn(request.game)
             drop == [do |-> "drop_game", game |-> game.game]
             cats == [do |-> "drop_categories", game |-> game.game]
  <2>1. IsList(game.categories)
    BY <1>0, <1>4, DistinctFacts DEF Typed, TypedGame, GameIn
  <2>2. Program(request) = AdminGameProgram(request)
    BY <1>4 DEF Program
  <2>3. drop.do \in Known /\ cats.do \in Known
    BY DEF Known
  <2>4. \/ Program(request) = <<WriteGame("new_game", game) \o ReplaceCategories(game)>>
        \/ Program(request) = <<WriteGame("set_game", game), ReplaceCategories(game)>>
        \/ Program(request) = <<<<cats>>, <<drop>>>>
    BY <1>4, <2>2 DEF AdminGameProgram
  <2> HIDE DEF game, drop, cats
  <2>5. Statements(ReplaceCategories(game)) /\ Statements(WriteGame("new_game", game))
        /\ Statements(WriteGame("set_game", game))
    <3>1. "new_game" \in Known /\ "set_game" \in Known
      BY DEF Known
    <3>2. Statements(ReplaceCategories(game))
      BY <2>1, CategoriesLists
    <3> QED BY <3>1, <3>2, WriteGameStatements
  <2>6. Statements(WriteGame("new_game", game) \o ReplaceCategories(game))
    BY <2>5, ConcatStatements
  <2>7. Statements(<<cats>>) /\ Statements(<<drop>>)
    BY <2>3, OneStatement
  <2> QED BY <1>a, <1>b, <2>4, <2>5, <2>6, <2>7
<1>5. CASE request.kind \in {"create_rule", "update_rule", "delete_rule"}
  <2> DEFINE s == IF request.kind = "create_rule" THEN [do |-> "put_rule", row |-> request.rule]
                  ELSE IF request.kind = "update_rule"
                       THEN [do |-> "set_rule", id |-> request.id, row |-> request.rule]
                  ELSE [do |-> "drop_rule", id |-> request.id]
  <2>1. Program(request) = <<<<s>>>> /\ s.do \in Known
    BY <1>5 DEF Program, AdminRuleProgram, Known
  <2> HIDE DEF s
  <2> QED BY <1>a, <2>1, OneStatement
<1> QED BY <1>0, <1>1, <1>2, <1>3, <1>4, <1>5 DEF Typed

-----------------------------------------------------------------------------
(* What the statements of a program come to *)

\* The tables, but for those given.
Changed(t, games, categories, regions, rules) ==
  [games |-> games, categories |-> categories, regions |-> regions, rules |-> rules,
   nodes |-> t.nodes, next_id |-> t.next_id]

LEMMA ChangedFields ==
  \A t, g, c, r, u :
    /\ Tables(Changed(t, g, c, r, u))
    /\ Changed(t, g, c, r, u).games = g /\ Changed(t, g, c, r, u).categories = c
    /\ Changed(t, g, c, r, u).regions = r /\ Changed(t, g, c, r, u).rules = u
    /\ Changed(t, g, c, r, u).nodes = t.nodes /\ Changed(t, g, c, r, u).next_id = t.next_id
    /\ \A g2, c2, r2, u2 :
         Changed(Changed(t, g, c, r, u), g2, c2, r2, u2) = Changed(t, g2, c2, r2, u2)
  BY DEF Changed, Tables

LEMMA FieldReplaced ==
  ASSUME NEW t, Tables(t), NEW x
  PROVE  /\ t = Changed(t, t.games, t.categories, t.regions, t.rules)
         /\ [t EXCEPT !.games = x] = Changed(t, x, t.categories, t.regions, t.rules)
         /\ [t EXCEPT !.categories = x] = Changed(t, t.games, x, t.regions, t.rules)
         /\ [t EXCEPT !.regions = x] = Changed(t, t.games, t.categories, x, t.rules)
         /\ [t EXCEPT !.rules = x] = Changed(t, t.games, t.categories, t.regions, x)
<1>1. PICK a, b, c, d, e, f :
        t = [games |-> a, categories |-> b, regions |-> c, rules |-> d, nodes |-> e, next_id |-> f]
  BY DEF Tables
<1>2. /\ t.games = a /\ t.categories = b /\ t.regions = c /\ t.rules = d /\ t.nodes = e
      /\ t.next_id = f
  BY <1>1
<1>3. /\ [t EXCEPT !.games = x] =
           [games |-> x, categories |-> b, regions |-> c, rules |-> d, nodes |-> e, next_id |-> f]
      /\ [t EXCEPT !.categories = x] =
           [games |-> a, categories |-> x, regions |-> c, rules |-> d, nodes |-> e, next_id |-> f]
  BY <1>1
<1>4. /\ [t EXCEPT !.regions = x] =
           [games |-> a, categories |-> b, regions |-> x, rules |-> d, nodes |-> e, next_id |-> f]
      /\ [t EXCEPT !.rules = x] =
           [games |-> a, categories |-> b, regions |-> c, rules |-> x, nodes |-> e, next_id |-> f]
  BY <1>1
<1> QED BY <1>1, <1>2, <1>3, <1>4 DEF Changed

NewGame(game) == [game |-> game.game, name |-> game.name, category |-> Primary(game)]

NewCategory(game, i) ==
  [game |-> game.game, category |-> game.categories[i], sort_order |-> i - 1]

NewCategories(game) == {NewCategory(game, i) : i \in 1..Len(game.categories)}

LEMMA PutsAre ==
  ASSUME NEW t, Tables(t)
  PROVE  /\ \A game : PutGame(t, game) =
              Changed(t, {row \in t.games : row.game # game.game} \cup {NewGame(game)},
                      t.categories, t.regions, t.rules)
         /\ \A new : PutCategory(t, new) =
              Changed(t, t.games,
                      {row \in t.categories :
                         <<row.game, row.category>> # <<new.game, new.category>>}
                      \cup {new}, t.regions, t.rules)
         /\ \A new : PutRegion(t, new) =
              Changed(t, t.games, t.categories,
                      {row \in t.regions : <<row.game, row.region>> # <<new.game, new.region>>}
                      \cup {new}, t.rules)
  BY FieldReplaced DEF PutGame, PutCategory, PutRegion, NewGame

\* The rows a delete leaves: those of other games, those with another id, those another reporter
\* gave or under another id, those of other regions.
Without(rows, g) == {row \in rows : row.game # g}
WithoutId(rows, id) == {row \in rows : row.id # id}
WithoutExternal(rows, e, source) ==
  {row \in rows : row.external # e \/ source \notin {None, row.source}}
WithoutRegion(rows, r) == {row \in rows : <<row.game, row.region>> # r}

LEMMA DropsAre ==
  ASSUME NEW t, Tables(t), NEW g
  PROVE  /\ DropCategories(t, g) =
              Changed(t, t.games, Without(t.categories, g), t.regions, t.rules)
         /\ DropGame(t, g) = Changed(t, Without(t.games, g), t.categories, t.regions, t.rules)
         /\ DropGameRegions(t, g) =
              Changed(t, t.games, t.categories, Without(t.regions, g), t.rules)
         /\ DropGameRules(t, g) =
              Changed(t, t.games, t.categories, t.regions, Without(t.rules, g))
<1>1. DropCategories(t, g) =
        Changed(t, t.games, Without(t.categories, g), t.regions, t.rules)
  BY FieldReplaced DEF DropCategories, Without
<1>2. DropGame(t, g) = Changed(t, Without(t.games, g), t.categories, t.regions, t.rules)
  BY FieldReplaced DEF DropGame, Without
<1>3. DropGameRegions(t, g) =
        Changed(t, t.games, t.categories, Without(t.regions, g), t.rules)
  BY FieldReplaced DEF DropGameRegions, Without
<1>4. DropGameRules(t, g) = Changed(t, t.games, t.categories, t.regions, Without(t.rules, g))
  BY FieldReplaced DEF DropGameRules, Without
<1> QED BY <1>1, <1>2, <1>3, <1>4

LEMMA RuleDropIs ==
  ASSUME NEW t, Tables(t), NEW id
  PROVE  DropRuleById(t, id) =
           Changed(t, t.games, t.categories, t.regions, WithoutId(t.rules, id))
  BY FieldReplaced DEF DropRuleById, WithoutId

LEMMA ExternalDropIs ==
  ASSUME NEW t, Tables(t), NEW e, NEW source
  PROVE  DropRuleByExternal(t, e, source) =
           Changed(t, t.games, t.categories, t.regions, WithoutExternal(t.rules, e, source))
  BY FieldReplaced DEF DropRuleByExternal, WithoutExternal

LEMMA RegionDropIs ==
  ASSUME NEW t, Tables(t), NEW r
  PROVE  DropRegion(t, r) =
           Changed(t, t.games, t.categories, WithoutRegion(t.regions, r),
                   WithoutRegion(t.rules, r))
<1> DEFINE x == WithoutRegion(t.rules, r)
           y == WithoutRegion(t.regions, r)
           u == [t EXCEPT !.rules = x]
<1>1. DropRegion(t, r) = [u EXCEPT !.regions = y]
  <2>1. PICK a, b, c, d, e, f :
          t = [games |-> a, categories |-> b, regions |-> c, rules |-> d, nodes |-> e,
               next_id |-> f]
    BY DEF Tables
  <2>2. DropRegion(t, r) = [t EXCEPT !.rules = x, !.regions = y]
    BY DEF DropRegion, WithoutRegion
  <2> HIDE DEF x, y
  <2> QED BY <2>1, <2>2
<1> HIDE DEF x, y
<1>2. u = Changed(t, t.games, t.categories, t.regions, x)
  BY FieldReplaced
<1> HIDE DEF u
<1>3. /\ Tables(u) /\ u.games = t.games /\ u.categories = t.categories /\ u.rules = x
      /\ \A g, c, q, p : Changed(u, g, c, q, p) = Changed(t, g, c, q, p)
  BY <1>2, ChangedFields
<1>4. [u EXCEPT !.regions = y] = Changed(u, u.games, u.categories, y, u.rules)
  BY <1>3, FieldReplaced
<1> QED BY <1>1, <1>3, <1>4 DEF x, y

\* replace_business_game_categories leaves a game the categories given.
LEMMA ReplaceCategoriesIs ==
  ASSUME NEW t, Tables(t), NEW game, IsList(game.categories),
         \A j, k \in 1..Len(game.categories) : game.categories[j] = game.categories[k] => j = k
  PROVE  Final(t, ReplaceCategories(game)) =
           Changed(t, t.games,
                   {row \in t.categories : row.game # game.game} \cup NewCategories(game),
                   t.regions, t.rules)
<1> DEFINE s == PutCategories(game)
           others == Without(t.categories, game.game)
           first == [do |-> "drop_categories", game |-> game.game]
           u == Changed(t, t.games, others, t.regions, t.rules)
           new(n) == {NewCategory(game, i) : i \in 1..n}
           F == [n \in 0..Len(s) |->
                   Changed(t, t.games, others \cup new(n), t.regions, t.rules)]
<1>1. /\ Statements(s) /\ Len(s) = Len(game.categories) /\ Len(s) \in Nat
      /\ ReplaceCategories(game) = <<first>> \o s /\ IsList(s)
      /\ DOMAIN game.categories = 1..Len(game.categories)
      /\ IsList(<<first>>)
  BY CategoriesLists, ListFacts DEF Statements
<1>2. Final(t, <<first>>) = u
  <2>1. Final(t, <<first>>) = DropCategories(t, game.game)
    BY FinalOne, ExecutedIs
  <2> QED BY <2>1, DropsAre
<1>3. F[0] = u
  <2>1. 1..0 = {}
    OBVIOUS
  <2>2. others \cup new(0) = others
    BY <2>1
  <2>3. F[0] = Changed(t, t.games, others \cup new(0), t.regions, t.rules)
    BY <1>1
  <2> HIDE DEF F, others, new
  <2> QED BY <2>2, <2>3
<1>4. ASSUME NEW n \in 0..(Len(s) - 1) PROVE F[n + 1] = Executed(F[n], s[n + 1])
  <2> DEFINE row == NewCategory(game, n + 1)
             c == others \cup new(n)
  <2>1. n + 1 \in 1..Len(s) /\ s[n + 1] = [do |-> "put_category", row |-> row]
    BY <1>1 DEF PutCategories, NewCategory
  <2>2. F[n] = Changed(t, t.games, c, t.regions, t.rules)
    BY <1>1
  <2>3. F[n + 1] = Changed(t, t.games, others \cup new(n + 1), t.regions, t.rules)
    BY <1>1
  <2>4. Executed(F[n], s[n + 1]) = PutCategory(F[n], row)
    BY <2>1, ExecutedIs
  <2>5. {r \in c : <<r.game, r.category>> # <<row.game, row.category>>} \cup {row}
          = others \cup new(n + 1)
    <3>1. row.game = game.game /\ row.category = game.categories[n + 1]
      BY DEF NewCategory
    <3>2. \A r \in others : r.game # game.game
      BY DEF Without
    <3>3. \A i \in 1..n : /\ NewCategory(game, i).game = game.game
                          /\ NewCategory(game, i).category # game.categories[n + 1]
      <4> TAKE i \in 1..n
      <4>1. i \in 1..Len(game.categories) /\ n + 1 \in 1..Len(game.categories) /\ i # n + 1
        BY <1>1, <2>1
      <4> QED BY <4>1 DEF NewCategory
    <3>4. \A r \in c : <<r.game, r.category>> # <<row.game, row.category>>
      BY <3>1, <3>2, <3>3
    <3>5. new(n + 1) = new(n) \cup {row}
      OBVIOUS
    <3> HIDE DEF row, others
    <3> QED BY <3>4, <3>5
  <2> HIDE DEF F, row, c, others, s
  <2>6. /\ Tables(F[n]) /\ F[n].games = t.games /\ F[n].categories = c
        /\ F[n].regions = t.regions /\ F[n].rules = t.rules
    BY <2>2, ChangedFields
  <2>7. PutCategory(F[n], row) =
          Changed(F[n], t.games, others \cup new(n + 1), t.regions, t.rules)
    <3>1. PutCategory(F[n], row) =
            Changed(F[n], F[n].games,
                    {r \in F[n].categories : <<r.game, r.category>> # <<row.game, row.category>>}
                    \cup {row}, F[n].regions, F[n].rules)
      BY <2>6, PutsAre
    <3> QED BY <2>5, <2>6, <3>1
  <2> QED BY <2>2, <2>3, <2>4, <2>7, ChangedFields
<1>5. Final(t, ReplaceCategories(game)) = Final(u, s)
  BY <1>1, <1>2, FinalConcat
<1>6. Final(u, s) = F[Len(s)]
  <2> HIDE DEF F, s, u
  <2>1. IsList(s) /\ F[0] = u
    BY <1>1, <1>3
  <2>2. \A n \in 0..(Len(s) - 1) : F[n + 1] = Executed(F[n], s[n + 1])
    BY <1>4
  <2>3. \A n \in 0..Len(s) : Run(u, s)[n] = F[n]
    BY <2>1, <2>2, RunIs
  <2>4. Len(s) \in 0..Len(s)
    BY <2>1, ListFacts
  <2> QED BY <2>3, <2>4 DEF Final
<1>7. F[Len(s)] = Changed(t, t.games, others \cup NewCategories(game), t.regions, t.rules)
  BY <1>1 DEF NewCategories
<1>8. Final(t, ReplaceCategories(game)) =
        Changed(t, t.games, others \cup NewCategories(game), t.regions, t.rules)
  <2> HIDE DEF F, s, u, others
  <2> QED BY <1>5, <1>6, <1>7
<1> QED BY <1>8 DEF Without

LEMMA PutGameIs ==
  ASSUME NEW t, Tables(t), NEW game, IsList(game.categories), NEW do \in {"put_game", "new_game"},
         \A j, k \in 1..Len(game.categories) : game.categories[j] = game.categories[k] => j = k
  PROVE  Final(t, WriteGame(do, game) \o ReplaceCategories(game)) =
           Changed(t, {row \in t.games : row.game # game.game} \cup {NewGame(game)},
                   {row \in t.categories : row.game # game.game} \cup NewCategories(game),
                   t.regions, t.rules)
<1> DEFINE u == Changed(t, {row \in t.games : row.game # game.game} \cup {NewGame(game)},
                        t.categories, t.regions, t.rules)
<1>1. Final(t, WriteGame(do, game)) = u
  <2>1. Final(t, WriteGame(do, game)) = PutGame(t, game)
    BY FinalOne, ExecutedIs DEF WriteGame
  <2> QED BY <2>1, PutsAre
<1>2. /\ Tables(u) /\ u.categories = t.categories /\ u.regions = t.regions /\ u.rules = t.rules
      /\ u.games = {row \in t.games : row.game # game.game} \cup {NewGame(game)}
      /\ \A g, c, r, q : Changed(u, g, c, r, q) = Changed(t, g, c, r, q)
  BY ChangedFields
<1>3. IsList(WriteGame(do, game)) /\ IsList(ReplaceCategories(game))
  BY OneIsList, CategoriesLists DEF WriteGame, Statements
<1> HIDE DEF u
<1>4. Final(t, WriteGame(do, game) \o ReplaceCategories(game)) = Final(u, ReplaceCategories(game))
  BY <1>1, <1>3, FinalConcat
<1>5. Final(u, ReplaceCategories(game)) =
        Changed(u, u.games, {row \in u.categories : row.game # game.game} \cup NewCategories(game),
                u.regions, u.rules)
  BY <1>2, ReplaceCategoriesIs
<1> QED BY <1>2, <1>4, <1>5

\* The places up to n where a key comes last.
LastOf(key, n) == {i \in 1..n : \A k \in (i + 1)..n : key[k] # key[i]}

LEMMA LastGrows ==
  ASSUME NEW key, NEW n \in Nat
  PROVE  /\ LastOf(key, 0) = {}
         /\ LastOf(key, n + 1) = {i \in LastOf(key, n) : key[i] # key[n + 1]} \cup {n + 1}
         /\ LastOf(key, n) \subseteq 1..n
<1>1. LastOf(key, 0) = {} /\ LastOf(key, n) \subseteq 1..n
  BY DEF LastOf
<1>2. ASSUME NEW i \in 1..n
      PROVE  i \in LastOf(key, n + 1) <=> i \in LastOf(key, n) /\ key[i] # key[n + 1]
  <2>1. (i + 1)..(n + 1) = ((i + 1)..n) \cup {n + 1}
    OBVIOUS
  <2>2. i \in 1..(n + 1)
    OBVIOUS
  <2> QED BY <2>1, <2>2 DEF LastOf
<1>3. n + 1 \in LastOf(key, n + 1)
  BY DEF LastOf
<1>4. LastOf(key, n + 1) \subseteq (1..n) \cup {n + 1} /\ LastOf(key, n) \subseteq 1..n
  BY DEF LastOf
<1> QED BY <1>1, <1>2, <1>3, <1>4

\* Every key has a last place.
LEMMA LastThere ==
  ASSUME NEW key, NEW n \in Nat, NEW i \in 1..n
  PROVE  \E j \in LastOf(key, n) : key[j] = key[i]
<1> DEFINE Good == {m \in Nat : \A k \in 1..m : \E j \in LastOf(key, m) : key[j] = key[k]}
<1>1. 0 \in Good
  OBVIOUS
<1>2. ASSUME NEW m \in Nat, m \in Good PROVE m + 1 \in Good
  <2> SUFFICES ASSUME NEW k \in 1..(m + 1) PROVE \E j \in LastOf(key, m + 1) : key[j] = key[k]
    OBVIOUS
  <2>1. m + 1 \in LastOf(key, m + 1)
    BY DEF LastOf
  <2>2. CASE k = m + 1 \/ key[k] = key[m + 1]
    BY <2>1, <2>2
  <2>3. CASE k # m + 1 /\ key[k] # key[m + 1]
    <3>1. k \in 1..m
      BY <2>3
    <3>2. PICK j \in LastOf(key, m) : key[j] = key[k]
      BY <1>2, <3>1
    <3> QED BY <2>3, <3>2, LastGrows
  <2> QED BY <2>2, <2>3
<1> HIDE DEF Good
<1>3. Nat \subseteq Good
  BY <1>1, <1>2, ByInduction
<1> QED BY <1>3 DEF Good

\* The last rows of each key are those no later row has the key of, and have all the keys.
LEMMA LastRows ==
  ASSUME NEW rows, IsList(rows), NEW keys
  PROVE  /\ {j \in DOMAIN rows : \A k \in DOMAIN rows : k > j => keys[k] # keys[j]}
              = LastOf(keys, Len(rows))
         /\ \A x : (\A i \in LastOf(keys, Len(rows)) : keys[i] # x)
                  <=> (\A i \in 1..Len(rows) : keys[i] # x)
         /\ LastOf(keys, Len(rows)) \subseteq 1..Len(rows)
         /\ \A i, j \in LastOf(keys, Len(rows)) : keys[i] = keys[j] => i = j
<1> DEFINE n == Len(rows)
           L == LastOf(keys, n)
<1>1. n \in Nat /\ DOMAIN rows = 1..n
  BY ListFacts
<1> HIDE DEF n
<1>2. L \subseteq 1..n
  BY DEF LastOf
<1>3. {j \in 1..n : \A k \in 1..n : k > j => keys[k] # keys[j]} = L
  <2>1. \A j \in 1..n : \A k : k \in (j + 1)..n <=> k \in 1..n /\ k > j
    BY <1>1
  <2> QED BY <2>1 DEF LastOf
<1>4. \A i \in 1..n : \E j \in L : keys[j] = keys[i]
  BY <1>1, LastThere
<1>5. ASSUME NEW i \in L, NEW j \in L, i < j PROVE keys[i] # keys[j]
  BY <1>1, <1>2, <1>5 DEF LastOf
<1>6. \A i, j \in L : keys[i] = keys[j] => i = j
  BY <1>1, <1>2, <1>5
<1> HIDE DEF L
<1>7. \A x : (\A i \in L : keys[i] # x) <=> (\A i \in 1..n : keys[i] # x)
  BY <1>2, <1>4
<1> QED BY <1>1, <1>2, <1>3, <1>6, <1>7 DEF L, n

LEMMA LastKeys ==
  ASSUME NEW rows, IsList(rows), NEW keys, NEW x
  PROVE  (\A i \in LastOf(keys, Len(rows)) : keys[i] # x) <=> (\A i \in 1..Len(rows) : keys[i] # x)
<1>1. \A y : (\A i \in LastOf(keys, Len(rows)) : keys[i] # y)
             <=> (\A i \in 1..Len(rows) : keys[i] # y)
  BY LastRows
<1> QED BY <1>1

GameKeys(games) == [i \in DOMAIN games |-> games[i].game]
RegionKeys(rows) == [i \in DOMAIN rows |-> <<rows[i].game, rows[i].region>>]

GamesAfter(t, games, n) ==
  Changed(t,
    {row \in t.games : \A i \in 1..n : games[i].game # row.game}
    \cup {NewGame(games[i]) : i \in LastOf(GameKeys(games), n)},
    {row \in t.categories : \A i \in 1..n : games[i].game # row.game}
    \cup UNION {NewCategories(games[i]) : i \in LastOf(GameKeys(games), n)},
    t.regions, t.rules)

\* A catalog's games: those of the same id are replaced, categories included.
LEMMA GamesAre ==
  ASSUME NEW t, Tables(t), NEW games, IsList(games),
         \A i \in 1..Len(games) :
           /\ IsList(games[i].categories)
           /\ \A j, k \in 1..Len(games[i].categories) :
                games[i].categories[j] = games[i].categories[k] => j = k
  PROVE  Final(t, FlattenSeq(OfGames(games))) = GamesAfter(t, games, Len(games))
<1> DEFINE F == [n \in 0..Len(games) |-> GamesAfter(t, games, n)]
           L(n) == LastOf(GameKeys(games), n)
           OldGames(n) == {row \in t.games : \A i \in 1..n : games[i].game # row.game}
           OldCategories(n) == {row \in t.categories : \A i \in 1..n : games[i].game # row.game}
           News(n) == {NewGame(games[i]) : i \in L(n)}
           Newer(n) == UNION {NewCategories(games[i]) : i \in L(n)}
<1>1. /\ Len(games) \in Nat /\ DOMAIN games = 1..Len(games)
      /\ IsList(OfGames(games)) /\ Len(OfGames(games)) = Len(games)
      /\ \A i \in 1..Len(games) :
           /\ OfGames(games)[i] = WriteGame("put_game", games[i]) \o ReplaceCategories(games[i])
           /\ IsList(OfGames(games)[i])
  BY ListFacts, OfGamesLists DEF Statements
<1>2. ASSUME NEW n \in 0..Len(games)
      PROVE  GamesAfter(t, games, n) =
               Changed(t, OldGames(n) \cup News(n), OldCategories(n) \cup Newer(n),
                       t.regions, t.rules)
  BY DEF GamesAfter
<1>3. F[0] = t
  <2>1. L(0) = {} /\ 1..0 = {}
    BY LastGrows
  <2>2. OldGames(0) \cup News(0) = t.games /\ OldCategories(0) \cup Newer(0) = t.categories
    BY <2>1
  <2>3. F[0] = GamesAfter(t, games, 0) /\ 0 \in 0..Len(games)
    BY <1>1
  <2> HIDE DEF F, L, OldGames, OldCategories, News, Newer
  <2> QED BY <1>2, <2>2, <2>3, FieldReplaced
<1>4. ASSUME NEW n \in 0..(Len(games) - 1)
      PROVE  F[n + 1] = Final(F[n], OfGames(games)[n + 1])
  <2> DEFINE game == games[n + 1]
             u == GamesAfter(t, games, n)
  <2>1. n \in Nat /\ n + 1 \in 1..Len(games) /\ n \in 0..Len(games) /\ n + 1 \in 0..Len(games)
    BY <1>1
  <2>2. F[n] = u /\ F[n + 1] = GamesAfter(t, games, n + 1)
    BY <2>1
  <2>3. L(n + 1) = {i \in L(n) : games[i].game # game.game} \cup {n + 1} /\ L(n) \subseteq 1..n
    <3> DEFINE key == GameKeys(games)
    <3>1. \A i \in 1..Len(games) : key[i] = games[i].game
      BY <1>1 DEF GameKeys
    <3>2. \A i \in 1..n : i \in 1..Len(games)
      BY <1>1, <2>1
    <3>3. /\ L(n + 1) = {i \in L(n) : key[i] # key[n + 1]} \cup {n + 1}
          /\ L(n) \subseteq 1..n
      BY <2>1, LastGrows
    <3> HIDE DEF key, L
    <3> QED BY <2>1, <3>1, <3>2, <3>3
  <2>4. 1..(n + 1) = (1..n) \cup {n + 1}
    BY <2>1
  <2> HIDE DEF L
  <2>5. \A g : NewGame(g).game = g.game /\ \A row \in NewCategories(g) : row.game = g.game
    BY DEF NewGame, NewCategories, NewCategory
  <2>6. {row \in OldGames(n) \cup News(n) : row.game # game.game} \cup {NewGame(game)}
          = OldGames(n + 1) \cup News(n + 1)
    <3>1. {row \in OldGames(n) : row.game # game.game} = OldGames(n + 1)
      BY <2>4
    <3>2. News(n + 1) = {row \in News(n) : row.game # game.game} \cup {NewGame(game)}
      BY <2>3, <2>5
    <3> HIDE DEF OldGames, News
    <3> QED BY <3>1, <3>2
  <2>7. {row \in OldCategories(n) \cup Newer(n) : row.game # game.game} \cup NewCategories(game)
          = OldCategories(n + 1) \cup Newer(n + 1)
    <3>1. {row \in OldCategories(n) : row.game # game.game} = OldCategories(n + 1)
      BY <2>4
    <3>2. Newer(n + 1) = {row \in Newer(n) : row.game # game.game} \cup NewCategories(game)
      BY <2>3, <2>5
    <3> HIDE DEF OldCategories, Newer
    <3> QED BY <3>1, <3>2
  <2> HIDE DEF OldGames, News, OldCategories, Newer, u, F
  <2>8. /\ Tables(u) /\ u.games = OldGames(n) \cup News(n)
        /\ u.categories = OldCategories(n) \cup Newer(n)
        /\ u.regions = t.regions /\ u.rules = t.rules
        /\ \A g, c, q, p : Changed(u, g, c, q, p) = Changed(t, g, c, q, p)
    <3>1. u = Changed(t, OldGames(n) \cup News(n), OldCategories(n) \cup Newer(n),
                      t.regions, t.rules)
      BY <1>2, <2>1 DEF u
    <3> QED BY <3>1, ChangedFields
  <2>9. Final(u, WriteGame("put_game", game) \o ReplaceCategories(game)) =
          Changed(u, {row \in u.games : row.game # game.game} \cup {NewGame(game)},
                  {row \in u.categories : row.game # game.game} \cup NewCategories(game),
                  u.regions, u.rules)
    BY <2>1, <2>8, PutGameIs
  <2>10. Final(u, WriteGame("put_game", game) \o ReplaceCategories(game)) =
           Changed(t, OldGames(n + 1) \cup News(n + 1), OldCategories(n + 1) \cup Newer(n + 1),
                   t.regions, t.rules)
    <3>1. /\ {row \in u.games : row.game # game.game}
               = {row \in OldGames(n) \cup News(n) : row.game # game.game}
          /\ {row \in u.categories : row.game # game.game}
               = {row \in OldCategories(n) \cup Newer(n) : row.game # game.game}
      BY <2>8
    <3>2. /\ {row \in u.games : row.game # game.game} \cup {NewGame(game)}
               = OldGames(n + 1) \cup News(n + 1)
          /\ {row \in u.categories : row.game # game.game} \cup NewCategories(game)
               = OldCategories(n + 1) \cup Newer(n + 1)
      BY <2>6, <2>7, <3>1
    <3> DEFINE gs == {row \in u.games : row.game # game.game} \cup {NewGame(game)}
               cs == {row \in u.categories : row.game # game.game} \cup NewCategories(game)
    <3>3. Final(u, WriteGame("put_game", game) \o ReplaceCategories(game)) =
            Changed(u, gs, cs, u.regions, u.rules)
      BY <2>9
    <3>4. gs = OldGames(n + 1) \cup News(n + 1) /\ cs = OldCategories(n + 1) \cup Newer(n + 1)
      BY <3>2
    <3> HIDE DEF gs, cs
    <3> QED BY <2>8, <3>3, <3>4
  <2> QED BY <1>1, <1>2, <2>1, <2>2, <2>10
<1> HIDE DEF F
<1>5. Final(t, FlattenSeq(OfGames(games))) = F[Len(games)]
  <2> DEFINE seqs == OfGames(games)
  <2>1. /\ IsList(seqs) /\ Len(seqs) = Len(games) /\ \A i \in 1..Len(seqs) : IsList(seqs[i])
        /\ \A n \in 0..(Len(seqs) - 1) : F[n + 1] = Final(F[n], seqs[n + 1])
    BY <1>1, <1>4
  <2> HIDE DEF seqs
  <2>2. Final(t, FlattenSeq(seqs)) = F[Len(seqs)]
    BY <1>3, <2>1, FinalFlat
  <2> QED BY <2>1, <2>2 DEF seqs
<1> QED BY <1>1, <1>5 DEF F

RegionsAfter(t, rows, n) ==
  Changed(t, t.games, t.categories,
    {row \in t.regions :
       \A i \in 1..n : <<rows[i].game, rows[i].region>> # <<row.game, row.region>>}
    \cup {rows[i] : i \in LastOf(RegionKeys(rows), n)}, t.rules)

LEMMA RegionsAre ==
  ASSUME NEW t, Tables(t), NEW rows, IsList(rows)
  PROVE  Final(t, Puts("put_region", rows)) = RegionsAfter(t, rows, Len(rows))
<1> DEFINE F == [n \in 0..Len(rows) |-> RegionsAfter(t, rows, n)]
           s == Puts("put_region", rows)
           L(n) == LastOf(RegionKeys(rows), n)
           Key(row) == <<row.game, row.region>>
           Old(n) == {row \in t.regions : \A i \in 1..n : Key(rows[i]) # Key(row)}
           News(n) == {rows[i] : i \in L(n)}
<1>1. /\ Len(rows) \in Nat /\ DOMAIN rows = 1..Len(rows)
      /\ IsList(s) /\ Len(s) = Len(rows)
      /\ \A i \in 1..Len(rows) : s[i] = [do |-> "put_region", row |-> rows[i]]
  <2>1. Statements(s) /\ Len(s) = Len(rows)
    BY PutsStatements DEF Known
  <2> QED BY <2>1, ListFacts DEF Puts, Statements
<1>2. ASSUME NEW n \in 0..Len(rows)
      PROVE  RegionsAfter(t, rows, n) =
               Changed(t, t.games, t.categories, Old(n) \cup News(n), t.rules)
  BY DEF RegionsAfter
<1>3. F[0] = t
  <2>1. L(0) = {} /\ 1..0 = {}
    BY LastGrows
  <2>2. Old(0) \cup News(0) = t.regions
    BY <2>1
  <2>3. F[0] = RegionsAfter(t, rows, 0) /\ 0 \in 0..Len(rows)
    BY <1>1
  <2> HIDE DEF F, L, Old, News
  <2> QED BY <1>2, <2>2, <2>3, FieldReplaced
<1>4. ASSUME NEW n \in 0..(Len(rows) - 1) PROVE F[n + 1] = Executed(F[n], s[n + 1])
  <2> DEFINE new == rows[n + 1]
             u == RegionsAfter(t, rows, n)
  <2>1. n \in Nat /\ n + 1 \in 1..Len(rows) /\ n \in 0..Len(rows) /\ n + 1 \in 0..Len(rows)
    BY <1>1
  <2>2. F[n] = u /\ F[n + 1] = RegionsAfter(t, rows, n + 1)
    BY <2>1
  <2>3. L(n + 1) = {i \in L(n) : Key(rows[i]) # Key(new)} \cup {n + 1} /\ L(n) \subseteq 1..n
    <3> DEFINE key == RegionKeys(rows)
    <3>1. \A i \in 1..Len(rows) : key[i] = Key(rows[i])
      BY <1>1 DEF RegionKeys
    <3>2. \A i \in 1..n : i \in 1..Len(rows)
      BY <1>1, <2>1
    <3>3. /\ L(n + 1) = {i \in L(n) : key[i] # key[n + 1]} \cup {n + 1}
          /\ L(n) \subseteq 1..n
      BY <2>1, LastGrows
    <3> HIDE DEF key, L, Key
    <3> QED BY <2>1, <3>1, <3>2, <3>3
  <2>4. 1..(n + 1) = (1..n) \cup {n + 1}
    BY <2>1
  <2>5. Executed(u, s[n + 1]) = PutRegion(u, new)
    <3> DEFINE x == [do |-> "put_region", row |-> new]
    <3>1. s[n + 1] = x
      BY <1>1, <2>1
    <3>2. x.do = "put_region" /\ x.row = new
      OBVIOUS
    <3> HIDE DEF x, u, s
    <3> QED BY <3>1, <3>2, ExecutedIs
  <2> HIDE DEF L, Key
  <2>6. {row \in Old(n) \cup News(n) : Key(row) # Key(new)} \cup {new} = Old(n + 1) \cup News(n + 1)
    <3>1. {row \in Old(n) : Key(row) # Key(new)} = Old(n + 1)
      BY <2>4
    <3>2. News(n + 1) = {row \in News(n) : Key(row) # Key(new)} \cup {new}
      BY <2>3
    <3> HIDE DEF Old, News
    <3> QED BY <3>1, <3>2
  <2> HIDE DEF Old, News, u, F, s
  <2>7. /\ Tables(u) /\ u.regions = Old(n) \cup News(n)
        /\ u.games = t.games /\ u.categories = t.categories /\ u.rules = t.rules
        /\ \A g, c, q, p : Changed(u, g, c, q, p) = Changed(t, g, c, q, p)
    <3>1. u = Changed(t, t.games, t.categories, Old(n) \cup News(n), t.rules)
      BY <1>2, <2>1 DEF u
    <3> QED BY <3>1, ChangedFields
  <2>8. PutRegion(u, new) =
          Changed(u, u.games, u.categories,
                  {row \in u.regions : Key(row) # Key(new)} \cup {new}, u.rules)
    BY <2>7, PutsAre DEF Key
  <2>9. PutRegion(u, new) = Changed(t, t.games, t.categories, Old(n + 1) \cup News(n + 1), t.rules)
    <3>1. {row \in u.regions : Key(row) # Key(new)}
            = {row \in Old(n) \cup News(n) : Key(row) # Key(new)}
      BY <2>7
    <3>2. {row \in u.regions : Key(row) # Key(new)} \cup {new} = Old(n + 1) \cup News(n + 1)
      BY <2>6, <3>1
    <3> DEFINE rs == {row \in u.regions : Key(row) # Key(new)} \cup {new}
    <3>3. PutRegion(u, new) = Changed(u, u.games, u.categories, rs, u.rules)
      BY <2>8
    <3>4. rs = Old(n + 1) \cup News(n + 1)
      BY <3>2
    <3> HIDE DEF rs
    <3> QED BY <2>7, <3>3, <3>4
  <2> QED BY <1>2, <2>1, <2>2, <2>5, <2>9
<1> HIDE DEF F
<1>5. Final(t, s) = F[Len(rows)]
  <2> HIDE DEF s
  <2>1. \A n \in 0..Len(s) : Run(t, s)[n] = F[n]
    BY <1>1, <1>3, <1>4, RunIs
  <2> QED BY <1>1, <2>1 DEF Final
<1> QED BY <1>1, <1>5 DEF F

\* The rows left by the deletes of a list.
NotInIds(rows, request) ==
  {row \in rows : \A i \in 1..Len(request.ids) : row.id # request.ids[i]}
NotInExternals(rows, request) ==
  {row \in rows : \A i \in 1..Len(request.externals) :
     row.external # request.externals[i] \/ request.source \notin {None, row.source}}
NotInRegions(rows, request) ==
  {row \in rows : \A i \in 1..Len(request.regions) :
     <<row.game, row.region>> # request.regions[i]}
NotInGames(rows, request) ==
  {row \in rows : \A i \in 1..Len(request.games) : row.game # request.games[i]}

LEMMA OfIdsIs ==
  ASSUME NEW t, Tables(t), NEW request, TypedDelete(request)
  PROVE  Final(t, OfIds(request)) =
           Changed(t, t.games, t.categories, t.regions, NotInIds(t.rules, request))
<1> DEFINE s == OfIds(request)
           Left(n) == {row \in t.rules : \A i \in 1..n : row.id # request.ids[i]}
           F == [n \in 0..Len(s) |-> Changed(t, t.games, t.categories, t.regions, Left(n))]
<1>1. /\ IsList(s) /\ Len(s) = Len(request.ids) /\ Len(s) \in Nat
      /\ DOMAIN request.ids = 1..Len(request.ids)
  BY DeleteLists, ListFacts DEF TypedDelete, Statements
<1>2. F[0] = t
  <2>1. 1..0 = {}
    OBVIOUS
  <2>2. Left(0) = t.rules
    BY <2>1
  <2>3. F[0] = Changed(t, t.games, t.categories, t.regions, Left(0))
    BY <1>1
  <2> HIDE DEF F, Left
  <2> QED BY <2>2, <2>3, FieldReplaced
<1>3. ASSUME NEW n \in 0..(Len(s) - 1) PROVE F[n + 1] = Executed(F[n], s[n + 1])
  <2> DEFINE x == [do |-> "drop_rule", id |-> request.ids[n + 1]]
             u == Changed(t, t.games, t.categories, t.regions, Left(n))
  <2>1. F[n] = u /\ F[n + 1] = Changed(t, t.games, t.categories, t.regions, Left(n + 1))
    BY <1>1
  <2>2. s[n + 1] = x /\ x.do = "drop_rule" /\ x.id = request.ids[n + 1]
    BY <1>1 DEF OfIds
  <2>3. Left(n + 1) = WithoutId(Left(n), x.id)
    <3>1. 1..(n + 1) = (1..n) \cup {n + 1}
      BY <1>1
    <3> QED BY <2>2, <3>1 DEF WithoutId
  <2> HIDE DEF F, s, x, Left
  <2>4. /\ Tables(u) /\ u.games = t.games /\ u.categories = t.categories /\ u.regions = t.regions
        /\ u.rules = Left(n) /\ \A g, c, q, p : Changed(u, g, c, q, p) = Changed(t, g, c, q, p)
    BY ChangedFields
  <2> HIDE DEF u
  <2>5. Executed(u, x) = DropRuleById(u, x.id)
    BY <2>2, ExecutedIs
  <2> DEFINE left == WithoutId(u.rules, x.id)
  <2>6. DropRuleById(u, x.id) = Changed(u, u.games, u.categories, u.regions, left)
    BY <2>4, RuleDropIs
  <2>7. left = Left(n + 1)
    BY <2>3, <2>4
  <2> HIDE DEF left
  <2> QED BY <2>1, <2>2, <2>4, <2>5, <2>6, <2>7
<1>5. F[Len(s)] = Changed(t, t.games, t.categories, t.regions, Left(Len(request.ids)))
  <2> HIDE DEF Left
  <2> QED BY <1>1
<1> HIDE DEF F, s
<1>4. \A n \in 0..Len(s) : Run(t, s)[n] = F[n]
  BY <1>1, <1>2, <1>3, RunIs
<1>6. Final(t, s) = F[Len(s)]
  BY <1>1, <1>4 DEF Final
<1>7. Left(Len(request.ids)) = NotInIds(t.rules, request)
  BY DEF NotInIds
<1> HIDE DEF Left
<1> QED BY <1>5, <1>6, <1>7 DEF s

LEMMA OfExternalsIs ==
  ASSUME NEW t, Tables(t), NEW request, TypedDelete(request)
  PROVE  Final(t, OfExternals(request)) =
           Changed(t, t.games, t.categories, t.regions, NotInExternals(t.rules, request))
<1> DEFINE s == OfExternals(request)
           Left(n) == {row \in t.rules : \A i \in 1..n :
                         \/ row.external # request.externals[i]
                         \/ request.source \notin {None, row.source}}
           F == [n \in 0..Len(s) |-> Changed(t, t.games, t.categories, t.regions, Left(n))]
<1>1. /\ IsList(s) /\ Len(s) = Len(request.externals) /\ Len(s) \in Nat
      /\ DOMAIN request.externals = 1..Len(request.externals)
  BY DeleteLists, ListFacts DEF TypedDelete, Statements
<1>2. F[0] = t
  <2>1. 1..0 = {}
    OBVIOUS
  <2>2. Left(0) = t.rules
    BY <2>1
  <2>3. F[0] = Changed(t, t.games, t.categories, t.regions, Left(0))
    BY <1>1
  <2> HIDE DEF F, Left
  <2> QED BY <2>2, <2>3, FieldReplaced
<1>3. ASSUME NEW n \in 0..(Len(s) - 1) PROVE F[n + 1] = Executed(F[n], s[n + 1])
  <2> DEFINE x == [do |-> "drop_external", external |-> request.externals[n + 1],
                   source |-> request.source]
             u == Changed(t, t.games, t.categories, t.regions, Left(n))
  <2>1. F[n] = u /\ F[n + 1] = Changed(t, t.games, t.categories, t.regions, Left(n + 1))
    BY <1>1
  <2>2. /\ s[n + 1] = x /\ x.do = "drop_external" /\ x.external = request.externals[n + 1]
        /\ x.source = request.source
    BY <1>1 DEF OfExternals
  <2>3. Left(n + 1) = WithoutExternal(Left(n), x.external, x.source)
    <3>1. 1..(n + 1) = (1..n) \cup {n + 1}
      BY <1>1
    <3> QED BY <2>2, <3>1 DEF WithoutExternal
  <2> HIDE DEF F, s, x, Left
  <2>4. /\ Tables(u) /\ u.games = t.games /\ u.categories = t.categories /\ u.regions = t.regions
        /\ u.rules = Left(n) /\ \A g, c, q, p : Changed(u, g, c, q, p) = Changed(t, g, c, q, p)
    BY ChangedFields
  <2> HIDE DEF u
  <2>5. Executed(u, x) = DropRuleByExternal(u, x.external, x.source)
    BY <2>2, ExecutedIs
  <2> DEFINE left == WithoutExternal(u.rules, x.external, x.source)
  <2>6. DropRuleByExternal(u, x.external, x.source) =
          Changed(u, u.games, u.categories, u.regions, left)
    BY <2>4, ExternalDropIs
  <2>7. left = Left(n + 1)
    BY <2>3, <2>4
  <2> HIDE DEF left
  <2> QED BY <2>1, <2>2, <2>4, <2>5, <2>6, <2>7
<1>5. F[Len(s)] = Changed(t, t.games, t.categories, t.regions, Left(Len(request.externals)))
  <2> HIDE DEF Left
  <2> QED BY <1>1
<1> HIDE DEF F, s
<1>4. \A n \in 0..Len(s) : Run(t, s)[n] = F[n]
  BY <1>1, <1>2, <1>3, RunIs
<1>6. Final(t, s) = F[Len(s)]
  BY <1>1, <1>4 DEF Final
<1>7. Left(Len(request.externals)) = NotInExternals(t.rules, request)
  BY DEF NotInExternals
<1> HIDE DEF Left
<1> QED BY <1>5, <1>6, <1>7 DEF s

LEMMA OfRegionsIs ==
  ASSUME NEW t, Tables(t), NEW request, TypedDelete(request)
  PROVE  Final(t, OfRegions(request)) =
           Changed(t, t.games, t.categories, NotInRegions(t.regions, request),
                   NotInRegions(t.rules, request))
<1> DEFINE s == OfRegions(request)
           Left(rows, n) == {row \in rows : \A i \in 1..n :
                               <<row.game, row.region>> # request.regions[i]}
           F == [n \in 0..Len(s) |->
                   Changed(t, t.games, t.categories, Left(t.regions, n), Left(t.rules, n))]
<1>1. /\ IsList(s) /\ Len(s) = Len(request.regions) /\ Len(s) \in Nat
      /\ DOMAIN request.regions = 1..Len(request.regions)
  BY DeleteLists, ListFacts DEF TypedDelete, Statements
<1>2. F[0] = t
  <2>1. 1..0 = {}
    OBVIOUS
  <2>2. Left(t.regions, 0) = t.regions /\ Left(t.rules, 0) = t.rules
    BY <2>1
  <2>3. F[0] = Changed(t, t.games, t.categories, Left(t.regions, 0), Left(t.rules, 0))
    BY <1>1
  <2> HIDE DEF F, Left
  <2> QED BY <2>2, <2>3, FieldReplaced
<1>3. ASSUME NEW n \in 0..(Len(s) - 1) PROVE F[n + 1] = Executed(F[n], s[n + 1])
  <2> DEFINE x == [do |-> "drop_region", region |-> request.regions[n + 1]]
             u == Changed(t, t.games, t.categories, Left(t.regions, n), Left(t.rules, n))
  <2>1. /\ F[n] = u
        /\ F[n + 1] =
             Changed(t, t.games, t.categories, Left(t.regions, n + 1), Left(t.rules, n + 1))
    <3> HIDE DEF Left
    <3> QED BY <1>1
  <2>2. s[n + 1] = x /\ x.do = "drop_region" /\ x.region = request.regions[n + 1]
    BY <1>1 DEF OfRegions
  <2>3. \A rows : Left(rows, n + 1) = WithoutRegion(Left(rows, n), x.region)
    <3>1. 1..(n + 1) = (1..n) \cup {n + 1}
      BY <1>1
    <3> QED BY <2>2, <3>1 DEF WithoutRegion
  <2> HIDE DEF F, s, x, Left
  <2>4. /\ Tables(u) /\ u.games = t.games /\ u.categories = t.categories
        /\ u.regions = Left(t.regions, n) /\ u.rules = Left(t.rules, n)
        /\ \A g, c, q, p : Changed(u, g, c, q, p) = Changed(t, g, c, q, p)
    BY ChangedFields
  <2> HIDE DEF u
  <2>5. Executed(u, x) = DropRegion(u, x.region)
    BY <2>2, ExecutedIs
  <2> DEFINE regions == WithoutRegion(u.regions, x.region)
             rules == WithoutRegion(u.rules, x.region)
  <2>6. DropRegion(u, x.region) = Changed(u, u.games, u.categories, regions, rules)
    BY <2>4, RegionDropIs
  <2>7. regions = Left(t.regions, n + 1) /\ rules = Left(t.rules, n + 1)
    BY <2>3, <2>4
  <2> HIDE DEF regions, rules
  <2> QED BY <2>1, <2>2, <2>4, <2>5, <2>6, <2>7
<1>5. F[Len(s)] = Changed(t, t.games, t.categories, Left(t.regions, Len(request.regions)),
                          Left(t.rules, Len(request.regions)))
  <2> HIDE DEF Left
  <2> QED BY <1>1
<1> HIDE DEF F, s
<1>4. \A n \in 0..Len(s) : Run(t, s)[n] = F[n]
  BY <1>1, <1>2, <1>3, RunIs
<1>6. Final(t, s) = F[Len(s)]
  BY <1>1, <1>4 DEF Final
<1>7. \A rows : Left(rows, Len(request.regions)) = NotInRegions(rows, request)
  BY DEF NotInRegions
<1> HIDE DEF Left
<1> QED BY <1>5, <1>6, <1>7 DEF s

LEMMA FinalFour ==
  ASSUME NEW t, NEW a, NEW b, NEW c, NEW d, IsList(<<a, b, c, d>>)
  PROVE  Final(t, <<a, b, c, d>>) = Executed(Executed(Executed(Executed(t, a), b), c), d)
<1> DEFINE s == <<a, b, c, d>>
<1>1. Len(s) = 4 /\ s[1] = a /\ s[2] = b /\ s[3] = c /\ s[4] = d
  OBVIOUS
<1> HIDE DEF s
<1>a. IsList(s)
  BY DEF s
<1>b. \A n \in 0..(Len(s) - 1) : Run(t, s)[n + 1] = Executed(Run(t, s)[n], s[n + 1])
  BY <1>a, RunSteps
<1>2. \A n \in 0..3 : Run(t, s)[n + 1] = Executed(Run(t, s)[n], s[n + 1])
  BY <1>1, <1>b
<1>3. Run(t, s)[0] = t
  BY <1>a, RunSteps
<1>4. /\ Run(t, s)[1] = Executed(Run(t, s)[0], s[1])
      /\ Run(t, s)[2] = Executed(Run(t, s)[1], s[2])
      /\ Run(t, s)[3] = Executed(Run(t, s)[2], s[3])
      /\ Run(t, s)[4] = Executed(Run(t, s)[3], s[4])
  <2>1. /\ Run(t, s)[0 + 1] = Executed(Run(t, s)[0], s[0 + 1])
        /\ Run(t, s)[1 + 1] = Executed(Run(t, s)[1], s[1 + 1])
        /\ Run(t, s)[2 + 1] = Executed(Run(t, s)[2], s[2 + 1])
        /\ Run(t, s)[3 + 1] = Executed(Run(t, s)[3], s[3 + 1])
    BY <1>2
  <2> QED BY <2>1
<1>5. Final(t, s) = Executed(Executed(Executed(Executed(t, a), b), c), d)
  BY <1>1, <1>3, <1>4 DEF Final
<1> QED BY <1>5 DEF s

\* A game goes with everything it has.
LEMMA DropsOfGameIs ==
  ASSUME NEW t, Tables(t), NEW g
  PROVE  Final(t, DropsOfGame(g)) =
           Changed(t, Without(t.games, g), Without(t.categories, g), Without(t.regions, g),
                   Without(t.rules, g))
<1> DEFINE a == [do |-> "drop_rules", game |-> g]
           b == [do |-> "drop_regions", game |-> g]
           c == [do |-> "drop_categories", game |-> g]
           d == [do |-> "drop_game", game |-> g]
<1>1. DropsOfGame(g) = <<a, b, c, d>>
  BY DEF DropsOfGame
<1>2. IsList(<<a, b, c, d>>)
  <2>1. a.do \in Known /\ b.do \in Known /\ c.do \in Known /\ d.do \in Known
    BY DEF Known
  <2> HIDE DEF a, b, c, d
  <2> QED BY <2>1, FourStatements DEF Statements
<1>3. /\ a.do = "drop_rules" /\ b.do = "drop_regions" /\ c.do = "drop_categories"
      /\ d.do = "drop_game" /\ a.game = g /\ b.game = g /\ c.game = g /\ d.game = g
  OBVIOUS
<1> HIDE DEF a, b, c, d
<1>4. \A u : /\ Executed(u, a) = DropGameRules(u, g) /\ Executed(u, b) = DropGameRegions(u, g)
             /\ Executed(u, c) = DropCategories(u, g) /\ Executed(u, d) = DropGame(u, g)
  BY <1>3, ExecutedIs
<1> DEFINE t1 == Changed(t, t.games, t.categories, t.regions, Without(t.rules, g))
           t2 == Changed(t, t.games, t.categories, Without(t.regions, g), Without(t.rules, g))
           t3 == Changed(t, t.games, Without(t.categories, g), Without(t.regions, g),
                         Without(t.rules, g))
           t4 == Changed(t, Without(t.games, g), Without(t.categories, g),
                         Without(t.regions, g), Without(t.rules, g))
<1>5. DropGameRules(t, g) = t1
  BY DropsAre
<1>6. DropGameRegions(t1, g) = t2
  <2>1. /\ Tables(t1) /\ t1.games = t.games /\ t1.categories = t.categories
        /\ t1.regions = t.regions /\ t1.rules = Without(t.rules, g)
        /\ \A x, y, q, p : Changed(t1, x, y, q, p) = Changed(t, x, y, q, p)
    BY ChangedFields
  <2> HIDE DEF t1
  <2> DEFINE left == Without(t1.regions, g)
  <2>2. DropGameRegions(t1, g) = Changed(t1, t1.games, t1.categories, left, t1.rules)
    BY <2>1, DropsAre
  <2>3. left = Without(t.regions, g)
    BY <2>1
  <2> HIDE DEF left
  <2> QED BY <2>1, <2>2, <2>3
<1>7. DropCategories(t2, g) = t3
  <2>1. /\ Tables(t2) /\ t2.games = t.games /\ t2.categories = t.categories
        /\ t2.regions = Without(t.regions, g) /\ t2.rules = Without(t.rules, g)
        /\ \A x, y, q, p : Changed(t2, x, y, q, p) = Changed(t, x, y, q, p)
    BY ChangedFields
  <2> HIDE DEF t2
  <2> DEFINE left == Without(t2.categories, g)
  <2>2. DropCategories(t2, g) = Changed(t2, t2.games, left, t2.regions, t2.rules)
    BY <2>1, DropsAre
  <2>3. left = Without(t.categories, g)
    BY <2>1
  <2> HIDE DEF left
  <2> QED BY <2>1, <2>2, <2>3
<1>8. DropGame(t3, g) = t4
  <2>1. /\ Tables(t3) /\ t3.games = t.games /\ t3.categories = Without(t.categories, g)
        /\ t3.regions = Without(t.regions, g) /\ t3.rules = Without(t.rules, g)
        /\ \A x, y, q, p : Changed(t3, x, y, q, p) = Changed(t, x, y, q, p)
    BY ChangedFields
  <2> HIDE DEF t3
  <2> DEFINE left == Without(t3.games, g)
  <2>2. DropGame(t3, g) = Changed(t3, left, t3.categories, t3.regions, t3.rules)
    BY <2>1, DropsAre
  <2>3. left = Without(t.games, g)
    BY <2>1
  <2> HIDE DEF left
  <2> QED BY <2>1, <2>2, <2>3
<1>9. Final(t, <<a, b, c, d>>) = Executed(Executed(Executed(Executed(t, a), b), c), d)
  BY <1>2, FinalFour
<1> HIDE DEF t1, t2, t3
<1> QED BY <1>1, <1>4, <1>5, <1>6, <1>7, <1>8, <1>9

LEMMA DropsOfGamesIs ==
  ASSUME NEW t, Tables(t), NEW request, TypedDelete(request)
  PROVE  Final(t, FlattenSeq(DropsOfGames(request))) =
           Changed(t, NotInGames(t.games, request), NotInGames(t.categories, request),
                   NotInGames(t.regions, request), NotInGames(t.rules, request))
<1> DEFINE s == DropsOfGames(request)
           Left(rows, n) == {row \in rows : \A i \in 1..n : row.game # request.games[i]}
           F == [n \in 0..Len(s) |->
                   Changed(t, Left(t.games, n), Left(t.categories, n), Left(t.regions, n),
                           Left(t.rules, n))]
<1>1. /\ IsList(s) /\ Len(s) = Len(request.games) /\ Len(s) \in Nat
      /\ DOMAIN request.games = 1..Len(request.games)
      /\ \A i \in 1..Len(s) : IsList(s[i]) /\ s[i] = DropsOfGame(request.games[i])
  <2>1. IsList(s) /\ Len(s) = Len(request.games)
    BY DeleteLists
  <2>2. Len(s) \in Nat /\ DOMAIN request.games = 1..Len(request.games)
    BY <2>1, ListFacts DEF TypedDelete
  <2>3. \A i \in 1..Len(s) : IsList(s[i])
    BY <2>1, DeleteLists DEF Statements
  <2>4. \A i \in 1..Len(s) : s[i] = DropsOfGame(request.games[i])
    BY <2>1, <2>2 DEF DropsOfGames
  <2> QED BY <2>1, <2>2, <2>3, <2>4
<1>2. F[0] = t
  <2>1. 1..0 = {}
    OBVIOUS
  <2>2. \A rows : Left(rows, 0) = rows
    BY <2>1
  <2>3. F[0] = Changed(t, Left(t.games, 0), Left(t.categories, 0), Left(t.regions, 0),
                       Left(t.rules, 0))
    BY <1>1
  <2> HIDE DEF F, Left
  <2>4. F[0] = Changed(t, t.games, t.categories, t.regions, t.rules)
    BY <2>2, <2>3
  <2> QED BY <2>4, FieldReplaced
<1>3. ASSUME NEW n \in 0..(Len(s) - 1) PROVE F[n + 1] = Final(F[n], s[n + 1])
  <2> DEFINE g == request.games[n + 1]
             u == Changed(t, Left(t.games, n), Left(t.categories, n), Left(t.regions, n),
                          Left(t.rules, n))
  <2>1. /\ F[n] = u
        /\ F[n + 1] = Changed(t, Left(t.games, n + 1), Left(t.categories, n + 1),
                              Left(t.regions, n + 1), Left(t.rules, n + 1))
    <3> HIDE DEF Left
    <3> QED BY <1>1
  <2>2. s[n + 1] = DropsOfGame(g)
    BY <1>1
  <2>3. \A rows : Left(rows, n + 1) = Without(Left(rows, n), g)
    <3>1. 1..(n + 1) = (1..n) \cup {n + 1}
      BY <1>1
    <3> QED BY <3>1 DEF Without
  <2> HIDE DEF F, s, g, Left
  <2>4. /\ Tables(u) /\ u.games = Left(t.games, n) /\ u.categories = Left(t.categories, n)
        /\ u.regions = Left(t.regions, n) /\ u.rules = Left(t.rules, n)
        /\ \A x, c, q, p : Changed(u, x, c, q, p) = Changed(t, x, c, q, p)
    BY ChangedFields
  <2> HIDE DEF u
  <2>5. Final(u, DropsOfGame(g)) =
          Changed(u, Without(u.games, g), Without(u.categories, g), Without(u.regions, g),
                  Without(u.rules, g))
    BY <2>4, DropsOfGameIs
  <2> QED BY <2>1, <2>2, <2>3, <2>4, <2>5
<1>4. F[Len(s)] = Changed(t, Left(t.games, Len(request.games)),
                          Left(t.categories, Len(request.games)),
                          Left(t.regions, Len(request.games)), Left(t.rules, Len(request.games)))
  <2> HIDE DEF Left
  <2> QED BY <1>1
<1> HIDE DEF F, s
<1>5. Final(t, FlattenSeq(s)) = F[Len(s)]
  BY <1>1, <1>2, <1>3, FinalFlat
<1>6. \A rows : Left(rows, Len(request.games)) = NotInGames(rows, request)
  BY DEF NotInGames
<1> HIDE DEF Left
<1> QED BY <1>4, <1>5, <1>6 DEF s

\* delete_business_catalog takes away what the request names, and nothing else.
LEMMA DeleteIs ==
  ASSUME NEW t, Tables(t), NEW request, TypedDelete(request)
  PROVE  Final(t, DeleteProgram(request)[1]) =
           Changed(t, {row \in t.games : row.game \notin ToSet(request.games)},
             {row \in t.categories : row.game \notin ToSet(request.games)},
             {row \in t.regions : /\ row.game \notin ToSet(request.games)
                                  /\ <<row.game, row.region>> \notin ToSet(request.regions)},
             {row \in t.rules :
                ~ \/ row.id \in ToSet(request.ids)
                  \/ /\ row.external \in ToSet(request.externals)
                     /\ request.source \in {None, row.source}
                  \/ <<row.game, row.region>> \in ToSet(request.regions)
                  \/ row.game \in ToSet(request.games)})
<1> DEFINE a == OfIds(request)
           b == OfExternals(request)
           c == OfRegions(request)
           d == FlattenSeq(DropsOfGames(request))
           In(rows) == NotInGames(rows, request)
           rules1 == NotInIds(t.rules, request)
           rules2 == NotInExternals(rules1, request)
           rules3 == NotInRegions(rules2, request)
           regions3 == NotInRegions(t.regions, request)
           t1 == Changed(t, t.games, t.categories, t.regions, rules1)
           t2 == Changed(t, t.games, t.categories, t.regions, rules2)
           t3 == Changed(t, t.games, t.categories, regions3, rules3)
           t4 == Changed(t, In(t.games), In(t.categories), In(regions3), In(rules3))
<1>1. /\ DeleteProgram(request)[1] = ((a \o b) \o c) \o d
      /\ IsList(a) /\ IsList(b) /\ IsList(c) /\ IsList(d)
  <2>1. IsList(a) /\ IsList(b) /\ IsList(c) /\ Statements(d)
    BY DeleteLists, FlattenStatements DEF Statements
  <2> QED BY <2>1, DeleteLists DEF Statements
<1>2. Final(t, a) = t1
  BY OfIdsIs
<1>3. Final(t1, b) = t2
  <2>1. /\ Tables(t1) /\ t1.games = t.games /\ t1.categories = t.categories
        /\ t1.regions = t.regions /\ t1.rules = rules1
        /\ \A x, y, q, p : Changed(t1, x, y, q, p) = Changed(t, x, y, q, p)
    BY ChangedFields
  <2> HIDE DEF t1
  <2>2. Final(t1, b) = Changed(t1, t1.games, t1.categories, t1.regions,
                               NotInExternals(t1.rules, request))
    BY <2>1, OfExternalsIs
  <2> QED BY <2>1, <2>2
<1>4. Final(t2, c) = t3
  <2>1. /\ Tables(t2) /\ t2.games = t.games /\ t2.categories = t.categories
        /\ t2.regions = t.regions /\ t2.rules = rules2
        /\ \A x, y, q, p : Changed(t2, x, y, q, p) = Changed(t, x, y, q, p)
    BY ChangedFields
  <2> HIDE DEF t2
  <2>2. Final(t2, c) = Changed(t2, t2.games, t2.categories, NotInRegions(t2.regions, request),
                               NotInRegions(t2.rules, request))
    BY <2>1, OfRegionsIs
  <2> QED BY <2>1, <2>2
<1>5. Final(t3, d) = t4
  <2>1. /\ Tables(t3) /\ t3.games = t.games /\ t3.categories = t.categories
        /\ t3.regions = regions3 /\ t3.rules = rules3
        /\ \A x, y, q, p : Changed(t3, x, y, q, p) = Changed(t, x, y, q, p)
    BY ChangedFields
  <2> HIDE DEF t3
  <2>2. Final(t3, d) =
          Changed(t3, In(t3.games), In(t3.categories), In(t3.regions), In(t3.rules))
    BY <2>1, DropsOfGamesIs
  <2> QED BY <2>1, <2>2
<1> HIDE DEF t1, t2, t3
<1>6. Final(t, ((a \o b) \o c) \o d) = t4
  <2> HIDE DEF a, b, c, d, t4
  <2>1. IsList(a \o b) /\ IsList((a \o b) \o c)
    BY <1>1, ConcatFacts
  <2>2. Final(t, a \o b) = t2
    BY <1>1, <1>2, <1>3, FinalConcat
  <2>3. Final(t, (a \o b) \o c) = t3
    BY <1>1, <1>4, <2>1, <2>2, FinalConcat
  <2> QED BY <1>1, <1>5, <2>1, <2>3, FinalConcat
<1>7. /\ \A x : x \in ToSet(request.games) <=> \E i \in 1..Len(request.games) : x = request.games[i]
      /\ \A x : x \in ToSet(request.regions)
                <=> \E i \in 1..Len(request.regions) : x = request.regions[i]
      /\ \A x : x \in ToSet(request.ids) <=> \E i \in 1..Len(request.ids) : x = request.ids[i]
      /\ \A x : x \in ToSet(request.externals)
                <=> \E i \in 1..Len(request.externals) : x = request.externals[i]
  <2>1. ASSUME NEW s, IsList(s) PROVE \A x : x \in ToSet(s) <=> \E i \in 1..Len(s) : x = s[i]
    BY <2>1, ListFacts DEF ToSet
  <2> QED BY <2>1 DEF TypedDelete
<1> DEFINE inGames == ToSet(request.games)
           inRegions == ToSet(request.regions)
           inIds == ToSet(request.ids)
           inExternals == ToSet(request.externals)
<1> HIDE DEF inGames, inRegions, inIds, inExternals
<1>8. /\ \A x : x \in inGames <=> \E i \in 1..Len(request.games) : x = request.games[i]
      /\ \A x : x \in inRegions <=> \E i \in 1..Len(request.regions) : x = request.regions[i]
      /\ \A x : x \in inIds <=> \E i \in 1..Len(request.ids) : x = request.ids[i]
      /\ \A x : x \in inExternals
                <=> \E i \in 1..Len(request.externals) : x = request.externals[i]
  BY <1>7 DEF inGames, inRegions, inIds, inExternals
<1>9. \A rows : In(rows) = {row \in rows : row.game \notin inGames}
  BY <1>8 DEF NotInGames
<1>10. In(regions3) = {row \in t.regions : /\ row.game \notin inGames
                                           /\ <<row.game, row.region>> \notin inRegions}
  BY <1>8 DEF NotInGames, NotInRegions
<1>11. In(rules3) = {row \in t.rules :
                       ~ \/ row.id \in inIds
                         \/ row.external \in inExternals /\ request.source \in {None, row.source}
                         \/ <<row.game, row.region>> \in inRegions
                         \/ row.game \in inGames}
  BY <1>8 DEF NotInGames, NotInRegions, NotInExternals, NotInIds
<1> DEFINE left3 == In(regions3)
           left4 == In(rules3)
<1>12. t4 = Changed(t, {row \in t.games : row.game \notin inGames},
                    {row \in t.categories : row.game \notin inGames}, left3, left4)
  <2> HIDE DEF In, left3, left4
  <2>1. t4 = Changed(t, In(t.games), In(t.categories), left3, left4)
    BY DEF left3, left4
  <2> QED BY <1>9, <2>1
<1> HIDE DEF t4, a, b, c, d, In, rules3, regions3
<1> QED BY <1>1, <1>6, <1>10, <1>11, <1>12 DEF inGames, inRegions, inIds, inExternals


RouteKey(row)    == <<row.source, row.external>>
RouteKeys(rules) == [i \in DOMAIN rules |-> RouteKey(rules[i])]

\* A row has the key of one of the first n rules.
Keyed(rules, n, row) == \E i \in 1..n : RouteKey(rules[i]) = RouteKey(row)

\* What the first n rules of a catalog make of t: the rows of other keys are left alone, each
\* key has a row, with what the last rule of the key says and the id the key has had.
RulesPut(t, rules, n, u) ==
  /\ WellFormed(u) /\ t.next_id <= u.next_id
  /\ u.games = t.games /\ u.categories = t.categories /\ u.regions = t.regions /\ u.nodes = t.nodes
  /\ \A row : ~Keyed(rules, n, row) => (row \in u.rules <=> row \in t.rules)
  /\ \A row \in u.rules : Keyed(rules, n, row) =>
       \E i \in LastOf(RouteKeys(rules), n) : row = WithId(rules[i], row.id)
  /\ \A i \in 1..n : \E row \in u.rules : RouteKey(row) = RouteKey(rules[i])
  /\ \A old \in t.rules, new \in u.rules :
       Keyed(rules, n, new) => (RouteKey(old) = RouteKey(new) <=> old.id = new.id)
  /\ (\A i \in 1..n : \E row \in t.rules : RouteKey(row) = RouteKey(rules[i]))
     => u.next_id = t.next_id

LEMMA SameKey ==
  \A row, rule : rule.external # None => (SameRoute(row, rule) <=> RouteKey(row) = RouteKey(rule))
  BY DEF SameRoute, RouteKey

LEMMA NoRulePut ==
  ASSUME NEW t, WellFormed(t), NEW rules
  PROVE  RulesPut(t, rules, 0, t)
<1>1. 1..0 = {} /\ t.next_id <= t.next_id
  BY DEF WellFormed
<1>2. \A row : ~Keyed(rules, 0, row)
  BY <1>1 DEF Keyed
<1> QED BY <1>1, <1>2 DEF RulesPut

LEMMA OneMoreRule ==
  ASSUME NEW t, WellFormed(t), NEW rules, IsList(rules), NEW n \in 0..(Len(rules) - 1),
         \A i \in 1..Len(rules) : rules[i].external # None /\ rules[i].node \in t.nodes,
         NEW u, RulesPut(t, rules, n, u)
  PROVE  RulesPut(t, rules, n + 1, Executed(u, [do |-> "put_rule", row |-> rules[n + 1]]))
<1> DEFINE rule == rules[n + 1]
           s == [do |-> "put_rule", row |-> rule]
           w == Executed(u, s)
           L(m) == LastOf(RouteKeys(rules), m)
<1> SUFFICES RulesPut(t, rules, n + 1, w)
  OBVIOUS
<1>1. /\ Len(rules) \in Nat /\ DOMAIN rules = 1..Len(rules) /\ n \in Nat
      /\ n + 1 \in 1..Len(rules) /\ n \in 0..Len(rules) /\ n + 1 \in 1..(n + 1)
      /\ 1..(n + 1) = (1..n) \cup {n + 1} /\ \A i \in 1..n : i \in 1..Len(rules)
  BY ListFacts
<1>2. rule.external # None /\ rule.node \in t.nodes
  BY <1>1
<1>3. w = PutRule(u, rule) /\ s.do \in Known /\ ~Refused(u, s)
  <2>1. s.do = "put_rule" /\ s.row = rule
    OBVIOUS
  <2>2. rule.node \in u.nodes
    BY <1>2 DEF RulesPut
  <2> HIDE DEF s, rule
  <2> QED BY <2>1, <2>2, ExecutedIs DEF Refused, Known
<1>4. WellFormed(u) /\ WellFormed(w) /\ u.next_id <= w.next_id
  <2> HIDE DEF s, rule
  <2> QED BY <1>3, StatementKeeps DEF RulesPut
<1> HIDE DEF w, s, rule
<1>5. /\ w.games = u.games /\ w.categories = u.categories /\ w.regions = u.regions
      /\ w.nodes = u.nodes
  BY <1>3, <1>4, PutRuleIs
<1>6. PICK id \in Nat \ {0} :
        /\ \/ /\ id = u.next_id /\ w.next_id = u.next_id + 1
              /\ \A row \in u.rules : ~SameRoute(row, rule)
           \/ /\ w.next_id = u.next_id
              /\ \E row \in u.rules : SameRoute(row, rule) /\ row.id = id
        /\ w.rules = {row \in u.rules : ~SameRoute(row, rule)} \cup {WithId(rule, id)}
  BY <1>3, <1>4, PutRuleIs
<1> DEFINE Key(row) == RouteKey(row)
           key == Key(rule)
           new == WithId(rule, id)
<1>7. new.id = id /\ Key(new) = key /\ new = WithId(rule, new.id)
  BY WithIdFields DEF RouteKey
<1>8. \A row : SameRoute(row, rule) <=> Key(row) = key
  BY <1>2, SameKey
<1>9. \A row : Keyed(rules, n + 1, row) <=> Keyed(rules, n, row) \/ Key(row) = key
  BY <1>1 DEF Keyed, rule
<1>10. L(n + 1) = {i \in L(n) : Key(rules[i]) # key} \cup {n + 1} /\ L(n) \subseteq 1..n
  <2> DEFINE keys == RouteKeys(rules)
  <2>1. \A i \in 1..Len(rules) : keys[i] = Key(rules[i])
    BY <1>1 DEF RouteKeys
  <2>2. L(n + 1) = {i \in L(n) : keys[i] # keys[n + 1]} \cup {n + 1} /\ L(n) \subseteq 1..n
    BY <1>1, LastGrows
  <2> HIDE DEF keys, L, Key
  <2>3. keys[n + 1] = key /\ \A i \in L(n) : keys[i] = Key(rules[i])
    BY <1>1, <2>1, <2>2 DEF rule, Key
  <2> QED BY <2>2, <2>3
<1> HIDE DEF new, L
<1>11. \A row : row \in w.rules <=> (row \in u.rules /\ Key(row) # key) \/ row = new
  BY <1>6, <1>8 DEF new
<1>12. t.next_id \in Nat \ {0} /\ u.next_id \in Nat \ {0} /\ w.next_id \in Nat \ {0}
       /\ t.next_id <= u.next_id
  BY <1>4 DEF WellFormed, RulesPut
<1>13. /\ \A row : ~Keyed(rules, n, row) => (row \in u.rules <=> row \in t.rules)
       /\ \A row \in u.rules : Keyed(rules, n, row) =>
            \E i \in L(n) : row = WithId(rules[i], row.id)
       /\ \A i \in 1..n : \E row \in u.rules : Key(row) = Key(rules[i])
       /\ \A old \in t.rules, row \in u.rules :
            Keyed(rules, n, row) => (Key(old) = Key(row) <=> old.id = row.id)
       /\ (\A i \in 1..n : \E row \in t.rules : Key(row) = Key(rules[i]))
          => u.next_id = t.next_id
  BY DEF RulesPut, L
<1> HIDE DEF Key, key
<1>14. ASSUME NEW row, ~Keyed(rules, n + 1, row)
       PROVE  row \in w.rules <=> row \in t.rules
  <2>1. ~Keyed(rules, n, row) /\ Key(row) # key /\ row # new
    BY <1>7, <1>9, <1>14
  <2> QED BY <1>11, <1>13, <2>1
<1>15. ASSUME NEW row \in w.rules, Keyed(rules, n + 1, row)
       PROVE  \E i \in L(n + 1) : row = WithId(rules[i], row.id)
  <2>1. CASE row = new
    BY <1>7, <1>10, <2>1 DEF rule
  <2>2. CASE row # new
    <3>1. row \in u.rules /\ Key(row) # key /\ Keyed(rules, n, row)
      BY <1>9, <1>11, <1>15, <2>2
    <3>2. PICK i \in L(n) : row = WithId(rules[i], row.id)
      BY <1>13, <3>1
    <3>3. Key(row) = Key(rules[i])
      <4>1. Key(WithId(rules[i], row.id)) = Key(rules[i])
        BY WithIdFields DEF RouteKey, Key
      <4> QED BY <3>2, <4>1
    <3> QED BY <1>10, <3>1, <3>2, <3>3
  <2> QED BY <2>1, <2>2
<1>16. ASSUME NEW i \in 1..(n + 1) PROVE \E row \in w.rules : Key(row) = Key(rules[i])
  <2>1. CASE Key(rules[i]) = key
    BY <1>7, <1>11, <2>1
  <2>2. CASE Key(rules[i]) # key
    <3>1. i \in 1..n
      BY <1>1, <2>2 DEF key, rule
    <3> QED BY <1>11, <1>13, <2>2, <3>1
  <2> QED BY <2>1, <2>2
<1>17. ASSUME NEW old \in t.rules, NEW row \in w.rules, Keyed(rules, n + 1, row)
       PROVE  Key(old) = Key(row) <=> old.id = row.id
  <2>1. CASE row # new
    <3>1. row \in u.rules /\ Keyed(rules, n, row)
      BY <1>9, <1>11, <1>17, <2>1
    <3> QED BY <1>13, <3>1
  <2>2. CASE row = new /\ \E r \in u.rules : Key(r) = key
    <3>1. PICK r \in u.rules : Key(r) = key /\ r.id = id
      BY <1>6, <1>8, <2>2
    <3>2. Key(old) = key <=> old.id = id
      <4>1. CASE Keyed(rules, n, r)
        BY <1>13, <3>1, <4>1
      <4>2. CASE ~Keyed(rules, n, r)
        <5>1. r \in t.rules
          BY <1>13, <3>1, <4>2
        <5>2. Key(old) = key => SameRoute(old, rule) /\ SameRoute(r, rule)
          BY <1>8, <3>1
        <5>3. Key(old) = key => SameRoute(old, r)
          BY <5>2 DEF SameRoute
        <5> QED BY <3>1, <5>1, <5>3 DEF WellFormed
      <4> QED BY <4>1, <4>2
    <3> QED BY <1>7, <2>2, <3>2
  <2>3. CASE row = new /\ \A r \in u.rules : Key(r) # key
    <3>1. id = u.next_id
      BY <1>6, <1>8, <2>3
    <3>2. old.id \in 1..(t.next_id - 1)
      BY DEF WellFormed
    <3>3. old.id # id
      BY <1>12, <3>1, <3>2
    <3>4. Key(old) # key
      <4>1. CASE Keyed(rules, n, old)
        <5>1. PICK i \in 1..n : Key(rules[i]) = Key(old)
          BY <4>1 DEF Keyed, Key
        <5>2. PICK r \in u.rules : Key(r) = Key(rules[i])
          BY <1>13
        <5> QED BY <2>3, <5>1, <5>2
      <4>2. CASE ~Keyed(rules, n, old)
        BY <1>13, <2>3, <4>2
      <4> QED BY <4>1, <4>2
    <3> QED BY <1>7, <2>3, <3>3, <3>4
  <2> QED BY <2>1, <2>2, <2>3
<1>18. ASSUME \A i \in 1..(n + 1) : \E row \in t.rules : Key(row) = Key(rules[i])
       PROVE  w.next_id = t.next_id
  <2>1. u.next_id = t.next_id
    BY <1>1, <1>13, <1>18
  <2>2. PICK old \in t.rules : Key(old) = key
    BY <1>1, <1>18 DEF key, rule
  <2>3. \E r \in u.rules : Key(r) = key
    <3>1. CASE Keyed(rules, n, old)
      <4>1. PICK i \in 1..n : Key(rules[i]) = Key(old)
        BY <3>1 DEF Keyed, Key
      <4> QED BY <1>13, <2>2, <4>1
    <3>2. CASE ~Keyed(rules, n, old)
      BY <1>13, <2>2, <3>2
    <3> QED BY <3>1, <3>2
  <2> QED BY <1>6, <1>8, <2>1, <2>3
<1>19. t.next_id <= w.next_id
  BY <1>4, <1>12
<1>20. /\ w.games = t.games /\ w.categories = t.categories /\ w.regions = t.regions
       /\ w.nodes = t.nodes
  BY <1>5 DEF RulesPut
<1> QED BY <1>4, <1>14, <1>15, <1>16, <1>17, <1>18, <1>19, <1>20 DEF RulesPut, L, Key

\* A catalog's rules.
LEMMA RulesAre ==
  ASSUME NEW t, WellFormed(t), NEW rules, IsList(rules),
         \A i \in 1..Len(rules) : rules[i].external # None /\ rules[i].node \in t.nodes
  PROVE  RulesPut(t, rules, Len(rules), Final(t, Puts("put_rule", rules)))
<1> DEFINE s == Puts("put_rule", rules)
           Good == {n \in Nat : n <= Len(rules) => RulesPut(t, rules, n, Run(t, s)[n])}
<1>1. /\ Len(rules) \in Nat /\ IsList(s) /\ Len(s) = Len(rules)
      /\ \A i \in 1..Len(rules) : s[i] = [do |-> "put_rule", row |-> rules[i]]
  <2>1. Statements(s) /\ Len(s) = Len(rules)
    BY PutsStatements DEF Known
  <2> QED BY <2>1, ListFacts DEF Puts, Statements
<1> HIDE DEF s
<1>2. /\ Run(t, s)[0] = t
      /\ \A n \in 0..(Len(s) - 1) : Run(t, s)[n + 1] = Executed(Run(t, s)[n], s[n + 1])
  BY <1>1, RunSteps
<1>3. 0 \in Good
  BY <1>2, NoRulePut
<1>4. ASSUME NEW n \in Nat, n \in Good PROVE n + 1 \in Good
  <2> SUFFICES ASSUME n + 1 <= Len(rules) PROVE RulesPut(t, rules, n + 1, Run(t, s)[n + 1])
    OBVIOUS
  <2>1. n \in 0..(Len(rules) - 1) /\ n + 1 \in 1..Len(rules)
    BY <1>1
  <2>2. RulesPut(t, rules, n, Run(t, s)[n])
    BY <1>1, <1>4
  <2>3. Run(t, s)[n + 1] = Executed(Run(t, s)[n], [do |-> "put_rule", row |-> rules[n + 1]])
    BY <1>1, <1>2, <2>1
  <2> DEFINE u == Run(t, s)[n]
  <2> HIDE DEF u
  <2>4. RulesPut(t, rules, n, u)
    BY <2>2 DEF u
  <2>5. RulesPut(t, rules, n + 1, Executed(u, [do |-> "put_rule", row |-> rules[n + 1]]))
    BY <2>1, <2>4, OneMoreRule
  <2> QED BY <2>3, <2>5 DEF u
<1> HIDE DEF Good
<1>5. Nat \subseteq Good
  BY <1>3, <1>4, ByInduction
<1> QED BY <1>1, <1>5 DEF Good, Final, s

-----------------------------------------------------------------------------
(* What a sync comes to *)

GamesOf(t, c) ==
  {row \in t.games : \A i \in 1..Len(c.games) : c.games[i].game # row.game}
  \cup {NewGame(c.games[i]) : i \in LastOf(GameKeys(c.games), Len(c.games))}

CategoriesOf(t, c) ==
  {row \in t.categories : \A i \in 1..Len(c.games) : c.games[i].game # row.game}
  \cup UNION {NewCategories(c.games[i]) : i \in LastOf(GameKeys(c.games), Len(c.games))}

RegionsOf(t, c) ==
  {row \in t.regions :
     \A i \in 1..Len(c.regions) :
       <<c.regions[i].game, c.regions[i].region>> # <<row.game, row.region>>}
  \cup {c.regions[i] : i \in LastOf(RegionKeys(c.regions), Len(c.regions))}

\* The tables before the rules of a catalog are put.
BeforeRules(t, c) == Changed(t, GamesOf(t, c), CategoriesOf(t, c), RegionsOf(t, c), t.rules)

LEMMA BeforeRulesFields ==
  ASSUME NEW t, WellFormed(t), NEW c
  PROVE  /\ WellFormed(BeforeRules(t, c)) /\ BeforeRules(t, c).games = GamesOf(t, c)
         /\ BeforeRules(t, c).categories = CategoriesOf(t, c)
         /\ BeforeRules(t, c).regions = RegionsOf(t, c) /\ BeforeRules(t, c).rules = t.rules
         /\ BeforeRules(t, c).nodes = t.nodes /\ BeforeRules(t, c).next_id = t.next_id
<1> DEFINE u == BeforeRules(t, c)
<1>1. /\ Tables(u) /\ u.games = GamesOf(t, c) /\ u.categories = CategoriesOf(t, c)
      /\ u.regions = RegionsOf(t, c) /\ u.rules = t.rules /\ u.nodes = t.nodes
      /\ u.next_id = t.next_id
  BY ChangedFields DEF BeforeRules
<1> HIDE DEF u
<1>2. WellFormed(u)
  BY <1>1 DEF WellFormed
<1> QED BY <1>1, <1>2 DEF u

LEMMA SyncLists ==
  ASSUME NEW request, TypedSync(request), NEW c, c = Normalised(request)
  PROVE  /\ SyncProgram(request)[1] =
              FlattenSeq(OfGames(c.games)) \o Puts("put_region", c.regions)
              \o Puts("put_rule", c.rules)
         /\ Len(SyncProgram(request)) = 1
         /\ Statements(FlattenSeq(OfGames(c.games)))
         /\ Statements(Puts("put_region", c.regions)) /\ Statements(Puts("put_rule", c.rules))
         /\ Len(Puts("put_rule", c.rules)) = Len(c.rules)
<1>1. /\ IsList(c.games) /\ IsList(c.regions) /\ IsList(c.rules)
      /\ \A i \in 1..Len(c.games) : IsList(c.games[i].categories)
  BY NormalisedLists
<1>2. /\ IsList(OfGames(c.games)) /\ Len(OfGames(c.games)) = Len(c.games)
      /\ \A i \in 1..Len(c.games) : Statements(OfGames(c.games)[i])
  BY <1>1, OfGamesLists
<1>3. Statements(FlattenSeq(OfGames(c.games)))
  <2> DEFINE seqs == OfGames(c.games)
  <2>1. IsList(seqs) /\ \A i \in 1..Len(seqs) : Statements(seqs[i])
    BY <1>2
  <2> HIDE DEF seqs
  <2>2. Statements(FlattenSeq(seqs))
    BY <2>1, FlattenStatements
  <2> QED BY <2>2 DEF seqs
<1>4. /\ Statements(Puts("put_region", c.regions)) /\ Statements(Puts("put_rule", c.rules))
      /\ Len(Puts("put_rule", c.rules)) = Len(c.rules)
  <2>1. "put_region" \in Known /\ "put_rule" \in Known
    BY DEF Known
  <2> QED BY <1>1, <2>1, PutsStatements
<1>5. SyncProgram(request) =
        <<FlattenSeq(OfGames(c.games)) \o Puts("put_region", c.regions)
          \o Puts("put_rule", c.rules)>>
  BY DEF SyncProgram, OfGames, Puts
<1>6. \A x : <<x>>[1] = x /\ Len(<<x>>) = 1
  BY OneIsList
<1> QED BY <1>3, <1>4, <1>5, <1>6

LEMMA BeforeRulesAre ==
  ASSUME NEW t, WellFormed(t), NEW request, TypedSync(request), NEW c, c = Normalised(request)
  PROVE  Final(t, FlattenSeq(OfGames(c.games)) \o Puts("put_region", c.regions))
           = BeforeRules(t, c)
<1> DEFINE A == FlattenSeq(OfGames(c.games))
           B == Puts("put_region", c.regions)
           u == GamesAfter(t, c.games, Len(c.games))
           w == RegionsAfter(u, c.regions, Len(c.regions))
<1>1. IsList(A) /\ IsList(B)
  BY SyncLists DEF Statements
<1>2. /\ IsList(c.games) /\ IsList(c.regions)
      /\ \A i \in 1..Len(c.games) :
           /\ IsList(c.games[i].categories)
           /\ \A j, k \in 1..Len(c.games[i].categories) :
                c.games[i].categories[j] = c.games[i].categories[k] => j = k
  BY NormalisedLists
<1>3. Tables(t)
  BY DEF WellFormed
<1>4. Final(t, A) = u
  BY <1>2, <1>3, GamesAre
<1>5. u = Changed(t, GamesOf(t, c), CategoriesOf(t, c), t.regions, t.rules)
  BY DEF GamesAfter, GamesOf, CategoriesOf
<1>6. /\ Tables(u) /\ u.games = GamesOf(t, c) /\ u.categories = CategoriesOf(t, c)
      /\ u.regions = t.regions /\ u.rules = t.rules
      /\ \A g, d, r, q : Changed(u, g, d, r, q) = Changed(t, g, d, r, q)
  BY <1>5, ChangedFields
<1> HIDE DEF u
<1>7. Final(u, B) = w
  BY <1>2, <1>6, RegionsAre
<1>8. w = BeforeRules(t, c)
  <2>1. w = Changed(u, u.games, u.categories, RegionsOf(u, c), u.rules)
    BY DEF RegionsAfter, RegionsOf
  <2>2. RegionsOf(u, c) = RegionsOf(t, c)
    BY <1>6 DEF RegionsOf
  <2> HIDE DEF w
  <2> QED BY <1>6, <2>1, <2>2 DEF BeforeRules
<1> HIDE DEF A, B, w
<1>9. Final(t, A \o B) = Final(Final(t, A), B)
  BY <1>1, FinalConcat
<1> QED BY <1>4, <1>7, <1>8, <1>9 DEF A, B

LEMMA SyncIs ==
  ASSUME NEW t, WellFormed(t), NEW request, TypedSync(request), NEW c, c = Normalised(request)
  PROVE  Final(t, SyncProgram(request)[1]) = Final(BeforeRules(t, c), Puts("put_rule", c.rules))
<1> DEFINE ab == FlattenSeq(OfGames(c.games)) \o Puts("put_region", c.regions)
           s == Puts("put_rule", c.rules)
<1>1. SyncProgram(request)[1] = ab \o s /\ IsList(ab) /\ IsList(s)
  BY SyncLists, ConcatFacts DEF Statements
<1>2. Final(t, ab) = BeforeRules(t, c)
  BY BeforeRulesAre
<1> HIDE DEF ab, s
<1> QED BY <1>1, <1>2, FinalConcat DEF s

\* Every rule of a catalog names a node there is.
NodesThere(t, c) == \A i \in 1..Len(c.rules) : c.rules[i].node \in t.nodes

LEMMA SyncPuts ==
  ASSUME NEW t, WellFormed(t), NEW request, TypedSync(request), NEW c, c = Normalised(request),
         NodesThere(t, c)
  PROVE  RulesPut(BeforeRules(t, c), c.rules, Len(c.rules), Final(t, SyncProgram(request)[1]))
<1> DEFINE u == BeforeRules(t, c)
<1>1. WellFormed(u) /\ u.nodes = t.nodes
  BY BeforeRulesFields
<1>2. IsList(c.rules) /\ \A i \in 1..Len(c.rules) : c.rules[i].external # None
  BY NormalisedLists
<1>3. Final(t, SyncProgram(request)[1]) = Final(u, Puts("put_rule", c.rules))
  BY SyncIs
<1> HIDE DEF u
<1>4. RulesPut(u, c.rules, Len(c.rules), Final(u, Puts("put_rule", c.rules)))
  <2>1. \A i \in 1..Len(c.rules) : c.rules[i].external # None /\ c.rules[i].node \in u.nodes
    BY <1>1, <1>2 DEF NodesThere
  <2> QED BY <1>1, <1>2, <2>1, RulesAre
<1> QED BY <1>3, <1>4 DEF u

\* A catalog that comes again finds its own rows.
LEMMA SyncAgain ==
  ASSUME NEW t, WellFormed(t), NEW request, TypedSync(request), NEW c, c = Normalised(request),
         NodesThere(t, c), NEW u, u = Final(t, SyncProgram(request)[1])
  PROVE  WellFormed(u) /\ Final(u, SyncProgram(request)[1]) = u
<1> DEFINE s == BeforeRules(t, c)
           m == BeforeRules(u, c)
           v == Final(u, SyncProgram(request)[1])
           n == Len(c.rules)
           Key(row) == RouteKey(row)
<1>1. RulesPut(s, c.rules, n, u)
  BY SyncPuts
<1>2. /\ s.games = GamesOf(t, c) /\ s.categories = CategoriesOf(t, c)
      /\ s.regions = RegionsOf(t, c) /\ s.nodes = t.nodes
  BY BeforeRulesFields
<1>3. /\ WellFormed(u) /\ u.games = GamesOf(t, c) /\ u.categories = CategoriesOf(t, c)
      /\ u.regions = RegionsOf(t, c) /\ u.nodes = t.nodes
  BY <1>1, <1>2 DEF RulesPut
<1>4. RulesPut(m, c.rules, n, v)
  BY <1>3, SyncPuts DEF NodesThere
<1>5. /\ WellFormed(m) /\ m.games = GamesOf(u, c) /\ m.categories = CategoriesOf(u, c)
      /\ m.regions = RegionsOf(u, c) /\ m.rules = u.rules /\ m.nodes = u.nodes
      /\ m.next_id = u.next_id
  BY <1>3, BeforeRulesFields
<1>6. IsList(c.games) /\ IsList(c.regions) /\ IsList(c.rules)
  BY NormalisedLists
<1>7. GamesOf(u, c) = u.games
  <2> DEFINE L == LastOf(GameKeys(c.games), Len(c.games))
  <2>1. L \subseteq 1..Len(c.games)
    BY <1>6, ListFacts, LastGrows
  <2>2. \A g : NewGame(g).game = g.game
    BY DEF NewGame
  <2> HIDE DEF L
  <2>3. \A row \in GamesOf(t, c) :
          \/ \A i \in 1..Len(c.games) : c.games[i].game # row.game
          \/ row \in {NewGame(c.games[i]) : i \in L}
    BY DEF GamesOf, L
  <2>4. \A row \in {NewGame(c.games[i]) : i \in L} :
          row \in GamesOf(t, c) /\ \E i \in 1..Len(c.games) : c.games[i].game = row.game
    BY <2>1, <2>2 DEF GamesOf, L
  <2>5. GamesOf(u, c) = {row \in u.games : \A i \in 1..Len(c.games) : c.games[i].game # row.game}
                        \cup {NewGame(c.games[i]) : i \in L}
    BY DEF GamesOf, L
  <2> QED BY <1>3, <2>3, <2>4, <2>5
<1>8. CategoriesOf(u, c) = u.categories
  <2> DEFINE L == LastOf(GameKeys(c.games), Len(c.games))
             News == UNION {NewCategories(c.games[i]) : i \in L}
  <2>1. L \subseteq 1..Len(c.games)
    BY <1>6, ListFacts, LastGrows
  <2>2. \A g : \A row \in NewCategories(g) : row.game = g.game
    BY DEF NewCategories, NewCategory
  <2> HIDE DEF L
  <2>3. \A row \in CategoriesOf(t, c) :
          (\A i \in 1..Len(c.games) : c.games[i].game # row.game) \/ row \in News
    BY DEF CategoriesOf, L
  <2>4. \A row \in News :
          row \in CategoriesOf(t, c) /\ \E i \in 1..Len(c.games) : c.games[i].game = row.game
    <3>1. \A row \in News : row \in CategoriesOf(t, c)
      BY DEF CategoriesOf, L
    <3> QED BY <2>1, <2>2, <3>1
  <2>5. CategoriesOf(u, c) =
          {row \in u.categories : \A i \in 1..Len(c.games) : c.games[i].game # row.game} \cup News
    BY DEF CategoriesOf, L
  <2> HIDE DEF News
  <2> QED BY <1>3, <2>3, <2>4, <2>5
<1>9. RegionsOf(u, c) = u.regions
  <2> DEFINE L == LastOf(RegionKeys(c.regions), Len(c.regions))
             K(row) == <<row.game, row.region>>
  <2>1. L \subseteq 1..Len(c.regions)
    BY <1>6, ListFacts, LastGrows
  <2> HIDE DEF L
  <2>2. \A row \in RegionsOf(t, c) :
          \/ \A i \in 1..Len(c.regions) : K(c.regions[i]) # K(row)
          \/ row \in {c.regions[i] : i \in L}
    BY DEF RegionsOf, L
  <2>3. \A row \in {c.regions[i] : i \in L} :
          row \in RegionsOf(t, c) /\ \E i \in 1..Len(c.regions) : K(c.regions[i]) = K(row)
    BY <2>1 DEF RegionsOf, L
  <2>4. RegionsOf(u, c) =
          {row \in u.regions : \A i \in 1..Len(c.regions) : K(c.regions[i]) # K(row)}
                          \cup {c.regions[i] : i \in L}
    BY DEF RegionsOf, L
  <2> HIDE DEF K
  <2> QED BY <1>3, <2>2, <2>3, <2>4
<1> DEFINE L == LastOf(RouteKeys(c.rules), n)
<1>10. \A i, j \in L : Key(c.rules[i]) = Key(c.rules[j]) => i = j
  <2>1. DOMAIN c.rules = 1..n
    BY <1>6, ListFacts
  <2>2. \A i \in 1..n : RouteKeys(c.rules)[i] = Key(c.rules[i])
    BY <2>1 DEF RouteKeys
  <2>3. L \subseteq 1..n /\ \A i, j \in L : RouteKeys(c.rules)[i] = RouteKeys(c.rules)[j] => i = j
    BY <1>6, LastRows
  <2> HIDE DEF L, n, Key
  <2> QED BY <2>2, <2>3
<1>11. \A i : \A id : Key(WithId(c.rules[i], id)) = Key(c.rules[i])
  BY WithIdFields DEF RouteKey
<1> HIDE DEF s, m, v, n, L
<1>12. /\ \A row \in u.rules : Keyed(c.rules, n, row) =>
            \E i \in L : row = WithId(c.rules[i], row.id)
       /\ \A i \in 1..n : \E row \in u.rules : Key(row) = Key(c.rules[i])
  BY <1>1 DEF RulesPut, L
<1>13. /\ \A row : ~Keyed(c.rules, n, row) => (row \in v.rules <=> row \in u.rules)
       /\ \A row \in v.rules : Keyed(c.rules, n, row) =>
            \E i \in L : row = WithId(c.rules[i], row.id)
       /\ \A i \in 1..n : \E row \in v.rules : Key(row) = Key(c.rules[i])
       /\ \A old \in u.rules, new \in v.rules :
            Keyed(c.rules, n, new) => (Key(old) = Key(new) <=> old.id = new.id)
       /\ v.next_id = u.next_id /\ Tables(v)
       /\ v.games = m.games /\ v.categories = m.categories /\ v.regions = m.regions
       /\ v.nodes = m.nodes
  BY <1>4, <1>5, <1>12 DEF RulesPut, L, WellFormed
<1> HIDE DEF Key
<1>14. ASSUME NEW old \in u.rules, NEW new \in v.rules, Keyed(c.rules, n, new), Key(old) = Key(new)
       PROVE  old = new
  <2>1. Keyed(c.rules, n, old)
    BY <1>14 DEF Keyed, Key
  <2>2. PICK i \in L : old = WithId(c.rules[i], old.id)
    BY <1>12, <2>1
  <2>3. PICK j \in L : new = WithId(c.rules[j], new.id)
    BY <1>13, <1>14
  <2>4. Key(c.rules[i]) = Key(c.rules[j])
    BY <1>11, <1>14, <2>2, <2>3
  <2>5. i = j /\ old.id = new.id
    BY <1>10, <1>13, <1>14, <2>4
  <2> QED BY <2>2, <2>3, <2>5
<1>15. ASSUME NEW row \in u.rules PROVE row \in v.rules
  <2>1. CASE ~Keyed(c.rules, n, row)
    BY <1>13, <2>1
  <2>2. CASE Keyed(c.rules, n, row)
    <3>1. PICK i \in 1..n : Key(c.rules[i]) = Key(row)
      BY <2>2 DEF Keyed, Key
    <3>2. PICK new \in v.rules : Key(new) = Key(c.rules[i])
      BY <1>13
    <3>3. Keyed(c.rules, n, new) /\ Key(row) = Key(new)
      BY <3>1, <3>2 DEF Keyed, Key
    <3> QED BY <1>14, <3>3
  <2> QED BY <2>1, <2>2
<1>16. ASSUME NEW row \in v.rules PROVE row \in u.rules
  <2>1. CASE ~Keyed(c.rules, n, row)
    BY <1>13, <2>1
  <2>2. CASE Keyed(c.rules, n, row)
    <3>1. PICK i \in 1..n : Key(c.rules[i]) = Key(row)
      BY <2>2 DEF Keyed, Key
    <3>2. PICK old \in u.rules : Key(old) = Key(c.rules[i])
      BY <1>12
    <3> QED BY <1>14, <2>2, <3>1, <3>2
  <2> QED BY <2>1, <2>2
<1>17. v.rules = u.rules
  BY <1>15, <1>16
<1>18. v = u
  BY <1>3, <1>5, <1>7, <1>8, <1>9, <1>13, <1>17 DEF WellFormed, Tables
<1> QED BY <1>3, <1>18 DEF v

-----------------------------------------------------------------------------
(* The invariant *)

\* A handler has the program of a request, and is at one of its transactions or past them.
Serves(h, request) ==
  /\ Valid(request)
  /\ handler[h] = [pc |-> "serving", program |-> Program(request),
                   turn |-> handler[h].turn, done |-> handler[h].done]
  /\ handler[h].turn \in 1..(Len(Program(request)) + 1)
  /\ holder = h => handler[h].turn <= Len(Program(request))
  /\ holder # h => handler[h].done = 0

\* What the holder has executed has not been refused, and has made the tables of what a
\* rollback would restore.
UnderWay(h) ==
  /\ handler[h] # Free
  /\ handler[h].done \in 0..Len(Transaction(h))
  /\ table = Run(saved, Transaction(h))[handler[h].done]
  /\ \A i \in 1..handler[h].done :
       ~Refused(Run(saved, Transaction(h))[i - 1], Transaction(h)[i])

IInv ==
  /\ WellFormed(table) /\ WellFormed(saved) /\ saved.next_id <= table.next_id
  /\ came \in 0..MaxRequests
  /\ DOMAIN handler = Handlers /\ handler = [h \in Handlers |-> handler[h]]
  /\ \A h \in Handlers : handler[h] = Free \/ \E request \in Requests : Serves(h, request)
  /\ holder \in Handlers \cup {None}
  /\ holder = None => saved = table
  /\ holder # None => UnderWay(holder)

LEMMA RolledBackIs ==
  ASSUME NEW t, WellFormed(t), NEW u, WellFormed(u), t.next_id <= u.next_id,
         NEW w, w = [t EXCEPT !.next_id = u.next_id]
  PROVE  /\ WellFormed(w) /\ w.games = t.games /\ w.categories = t.categories
         /\ w.regions = t.regions /\ w.rules = t.rules /\ w.nodes = t.nodes
         /\ w.next_id = u.next_id
<1>1. PICK a, b, c, d, e, f :
        t = [games |-> a, categories |-> b, regions |-> c, rules |-> d, nodes |-> e, next_id |-> f]
  BY DEF WellFormed, Tables
<1>2. w = [games |-> a, categories |-> b, regions |-> c, rules |-> d, nodes |-> e,
           next_id |-> u.next_id]
  BY <1>1
<1>3. /\ Tables(w) /\ w.games = t.games /\ w.categories = t.categories /\ w.regions = t.regions
      /\ w.rules = t.rules /\ w.nodes = t.nodes /\ w.next_id = u.next_id
  BY <1>1, <1>2 DEF Tables
<1>4. u.next_id \in Nat \ {0} /\ t.next_id \in Nat \ {0}
  BY DEF WellFormed
<1>5. WellFormed(w)
  BY <1>3, <1>4 DEF WellFormed
<1> QED BY <1>3, <1>5

LEMMA SeededIs ==
  ASSUME NEW t, WellFormed(t)
  PROVE  /\ WellFormed(Seeded(t)) /\ Seeded(t).games = t.games \cup SeededGames(t)
         /\ Seeded(t).categories = t.categories \cup SeededCategories(t)
         /\ Seeded(t).regions = t.regions /\ Seeded(t).rules = t.rules
         /\ Seeded(t).nodes = t.nodes /\ Seeded(t).next_id = t.next_id
<1> DEFINE cats == t.categories \cup SeededCategories(t)
           gs == t.games \cup SeededGames(t)
           v == [t EXCEPT !.categories = cats]
           w == [t EXCEPT !.categories = cats, !.games = gs]
<1>1. Seeded(t) = w
  BY DEF Seeded
<1> HIDE DEF cats, gs
<1>2. v = Changed(t, t.games, cats, t.regions, t.rules)
  BY FieldReplaced DEF WellFormed
<1>3. w = [v EXCEPT !.games = gs]
  <2>1. PICK a, b, c, d, e, f :
          t = [games |-> a, categories |-> b, regions |-> c, rules |-> d, nodes |-> e,
               next_id |-> f]
    BY DEF WellFormed, Tables
  <2> QED BY <2>1
<1>4. /\ Tables(v) /\ v.categories = cats /\ v.regions = t.regions /\ v.rules = t.rules
      /\ \A g, c, r, q : Changed(v, g, c, r, q) = Changed(t, g, c, r, q)
  BY <1>2, ChangedFields
<1> HIDE DEF v, w
<1>5. w = Changed(t, gs, cats, t.regions, t.rules)
  <2>1. [v EXCEPT !.games = gs] = Changed(v, gs, v.categories, v.regions, v.rules)
    BY <1>4, FieldReplaced
  <2> QED BY <1>3, <1>4, <2>1
<1>6. /\ Tables(w) /\ w.games = gs /\ w.categories = cats /\ w.regions = t.regions
      /\ w.rules = t.rules /\ w.nodes = t.nodes /\ w.next_id = t.next_id
  BY <1>5, ChangedFields
<1>7. WellFormed(w)
  BY <1>6 DEF WellFormed
<1> QED BY <1>1, <1>6, <1>7 DEF gs, cats

\* The transaction of a handler that serves.
LEMMA TransactionIs ==
  ASSUME NEW h \in Handlers, NEW request \in Requests, Serves(h, request)
  PROVE  /\ handler[h].pc = "serving" /\ handler[h].program = Program(request)
         /\ IsList(Program(request)) /\ Len(Program(request)) \in Nat
         /\ handler[h].turn <= Len(Program(request)) =>
              /\ Transaction(h) = Program(request)[handler[h].turn]
              /\ Statements(Transaction(h)) /\ IsList(Transaction(h))
              /\ Len(Transaction(h)) \in Nat
<1>1. handler[h].pc = "serving" /\ handler[h].program = Program(request)
  BY DEF Serves
<1>2. /\ IsList(Program(request)) /\ Len(Program(request)) \in Nat
      /\ \A k \in 1..Len(Program(request)) : Statements(Program(request)[k])
  BY ProgramFacts
<1>3. ASSUME handler[h].turn <= Len(Program(request))
      PROVE  /\ Transaction(h) = Program(request)[handler[h].turn]
             /\ Statements(Transaction(h)) /\ IsList(Transaction(h))
             /\ Len(Transaction(h)) \in Nat
  <2>1. handler[h].turn \in 1..Len(Program(request))
    BY <1>2, <1>3 DEF Serves
  <2>2. Transaction(h) = Program(request)[handler[h].turn]
    BY <1>1 DEF Transaction
  <2> DEFINE x == Transaction(h)
  <2>3. Statements(x)
    BY <1>2, <2>1, <2>2
  <2> HIDE DEF x
  <2>4. IsList(x) /\ Len(x) \in Nat
    BY <2>3, ListFacts DEF Statements
  <2> QED BY <2>2, <2>3, <2>4 DEF x
<1> QED BY <1>1, <1>2, <1>3

\* The holder of a transaction serves a request and is at one of its transactions.
LEMMA HolderServes ==
  ASSUME IInv, NEW h \in Handlers, holder = h
  PROVE  \E request \in Requests :
           /\ Serves(h, request) /\ handler[h].turn \in 1..Len(Program(request))
           /\ Transaction(h) = Program(request)[handler[h].turn]
           /\ Statements(Transaction(h)) /\ IsList(Transaction(h))
           /\ Len(Transaction(h)) \in Nat
           /\ UnderWay(h)
<1>1. h # None
  BY CatalogAssumption
<1>2. UnderWay(h) /\ handler[h] # Free
  BY <1>1 DEF IInv, UnderWay
<1>3. PICK request \in Requests : Serves(h, request)
  BY <1>2 DEF IInv
<1>4. handler[h].turn <= Len(Program(request)) /\ handler[h].turn \in 1..(Len(Program(request)) + 1)
  BY <1>3 DEF Serves
<1> QED BY <1>2, <1>3, <1>4, TransactionIs

-----------------------------------------------------------------------------
(* Every action keeps the invariant *)

LEMMA ReceiveKeeps ==
  ASSUME IInv, NEW h \in Handlers, NEW request \in Requests, Receive(h, request)
  PROVE  IInv'
<1> DEFINE new == [pc |-> "serving", program |-> Program(request), turn |-> 1, done |-> 0]
<1>1. /\ handler[h] = Free /\ Valid(request) /\ handler' = [handler EXCEPT ![h] = new]
      /\ came' = came + 1 /\ came < MaxRequests
      /\ table' = table /\ saved' = saved /\ holder' = holder
  BY DEF Receive
<1>2. DOMAIN handler = Handlers /\ handler = [k \in Handlers |-> handler[k]]
  BY DEF IInv
<1>3. /\ handler'[h] = new /\ \A k \in Handlers : k # h => handler'[k] = handler[k]
      /\ DOMAIN handler' = Handlers /\ handler' = [k \in Handlers |-> handler'[k]]
  BY <1>1, <1>2
<1>4. holder # h
  BY <1>1, CatalogAssumption DEF IInv, UnderWay
<1>5. Serves(h, request)'
  <2>1. /\ new = [pc |-> "serving", program |-> Program(request), turn |-> new.turn,
                  done |-> new.done]
        /\ new.turn = 1 /\ new.done = 0
    OBVIOUS
  <2>2. Len(Program(request)) \in Nat
    BY ProgramFacts
  <2> HIDE DEF new
  <2> QED BY <1>1, <1>3, <1>4, <2>1, <2>2 DEF Serves
<1>6. ASSUME NEW k \in Handlers
      PROVE  handler'[k] = Free \/ \E r \in Requests : Serves(k, r)'
  <2>1. CASE k = h
    BY <1>5, <2>1
  <2>2. CASE k # h
    BY <1>1, <1>3, <2>2 DEF IInv, Serves
  <2> QED BY <2>1, <2>2
<1>7. holder' # None => UnderWay(holder)'
  <2> SUFFICES ASSUME holder # None PROVE UnderWay(holder)'
    BY <1>1
  <2>1. UnderWay(holder) /\ holder \in Handlers /\ handler'[holder] = handler[holder]
    BY <1>3, <1>4 DEF IInv
  <2> QED BY <1>1, <2>1 DEF UnderWay, Transaction
<1>8. came' \in 0..MaxRequests
  BY <1>1, CatalogAssumption DEF IInv
<1> QED BY <1>1, <1>3, <1>6, <1>7, <1>8 DEF IInv

LEMMA BeginKeeps ==
  ASSUME IInv, NEW h \in Handlers, Begin(h)
  PROVE  IInv'
<1>1. /\ handler[h].pc = "serving" /\ handler[h].turn <= Len(handler[h].program) /\ holder = None
      /\ holder' = h /\ saved' = table /\ table' = table /\ handler' = handler /\ came' = came
  BY DEF Begin
<1>2. h # None /\ saved = table
  BY <1>1, CatalogAssumption DEF IInv
<1>3. PICK request \in Requests : Serves(h, request)
  BY <1>1 DEF IInv, Free
<1>4. /\ handler[h].program = Program(request) /\ handler[h].turn <= Len(Program(request))
      /\ IsList(Transaction(h)) /\ Len(Transaction(h)) \in Nat /\ handler[h].done = 0
  BY <1>1, <1>2, <1>3, TransactionIs DEF Serves
<1>5. UnderWay(h)'
  <2>1. Run(saved, Transaction(h))[0] = saved
    BY <1>4, RunSteps
  <2>2. Transaction(h)' = Transaction(h)
    BY <1>1 DEF Transaction
  <2>3. handler[h] # Free
    BY <1>1 DEF Free
  <2> QED BY <1>1, <1>2, <1>4, <2>1, <2>2, <2>3 DEF UnderWay
<1>6. Serves(h, request)'
  BY <1>1, <1>3, <1>4 DEF Serves
<1>7. ASSUME NEW k \in Handlers
      PROVE  handler'[k] = Free \/ \E r \in Requests : Serves(k, r)'
  <2>1. CASE k = h
    BY <1>6, <2>1
  <2>2. CASE k # h
    <3>1. holder # k
      BY <1>1, CatalogAssumption
    <3> QED BY <1>1, <2>2, <3>1 DEF IInv, Serves
  <2> QED BY <2>1, <2>2
<1>8. WellFormed(table)' /\ WellFormed(saved)' /\ saved'.next_id <= table'.next_id
  BY <1>1 DEF IInv, WellFormed, Tables
<1> QED BY <1>1, <1>2, <1>5, <1>7, <1>8 DEF IInv

LEMMA ExecuteKeeps ==
  ASSUME IInv, NEW h \in Handlers, Execute(h)
  PROVE  IInv'
<1> DEFINE x == Transaction(h)
           d == handler[h].done
           s == x[d + 1]
<1>1. /\ holder = h /\ d < Len(x) /\ ~Refused(table, s) /\ table' = Executed(table, s)
      /\ handler' = [handler EXCEPT ![h].done = @ + 1]
      /\ saved' = saved /\ holder' = holder /\ came' = came
  BY DEF Execute
<1>2. PICK request \in Requests :
        /\ Serves(h, request) /\ handler[h].turn \in 1..Len(Program(request))
        /\ Statements(x) /\ IsList(x) /\ Len(x) \in Nat /\ UnderWay(h)
  BY <1>1, HolderServes
<1>3. DOMAIN handler = Handlers /\ handler = [k \in Handlers |-> handler[k]]
  BY DEF IInv
<1>4. handler[h] = [pc |-> "serving", program |-> Program(request), turn |-> handler[h].turn,
                    done |-> d]
  BY <1>2 DEF Serves
<1>5. /\ handler'[h] = [pc |-> "serving", program |-> Program(request),
                        turn |-> handler[h].turn, done |-> d + 1]
      /\ \A k \in Handlers : k # h => handler'[k] = handler[k]
      /\ DOMAIN handler' = Handlers /\ handler' = [k \in Handlers |-> handler'[k]]
  <2>1. handler' = [handler EXCEPT ![h] = [handler[h] EXCEPT !.done = d + 1]]
    BY <1>1, <1>3
  <2>2. [handler[h] EXCEPT !.done = d + 1] =
          [pc |-> "serving", program |-> Program(request), turn |-> handler[h].turn,
           done |-> d + 1]
    BY <1>4
  <2> QED BY <1>3, <2>1, <2>2
<1>6. /\ handler'[h].turn = handler[h].turn /\ handler'[h].done = d + 1
      /\ handler'[h].program = handler[h].program
      /\ handler'[h] = [pc |-> "serving", program |-> Program(request),
                        turn |-> handler'[h].turn, done |-> handler'[h].done]
      /\ handler'[h] # Free
  <2>1. handler'[h].pc = "serving" /\ handler[h].program = Program(request)
    BY <1>2, <1>5, TransactionIs
  <2>2. handler'[h] # Free
    BY <2>1 DEF Free
  <2> QED BY <1>5, <2>1, <2>2
<1>7. Transaction(h)' = x
  BY <1>6 DEF Transaction
<1>8. d \in 0..(Len(x) - 1) /\ d + 1 \in 1..Len(x) /\ d + 1 \in 0..Len(x) /\ d \in Nat
  BY <1>1, <1>2 DEF UnderWay
<1>9. s.do \in Known
  BY <1>2, <1>8 DEF Statements
<1>10. WellFormed(table') /\ table.next_id <= table'.next_id
  <2> HIDE DEF s
  <2>1. WellFormed(table)
    BY DEF IInv
  <2> QED BY <1>1, <1>9, <2>1, StatementKeeps
<1> HIDE DEF x, s, d
<1>11. UnderWay(h)'
  <2>1. /\ table = Run(saved, x)[d]
        /\ \A i \in 1..d : ~Refused(Run(saved, x)[i - 1], x[i])
    BY <1>2 DEF UnderWay, x, d
  <2>2. Run(saved, x)[d + 1] = Executed(Run(saved, x)[d], x[d + 1])
    BY <1>2, <1>8, RunSteps
  <2>3. table' = Run(saved', x)[d + 1]
    BY <1>1, <2>1, <2>2 DEF s
  <2>4. \A i \in 1..(d + 1) : ~Refused(Run(saved', x)[i - 1], x[i])
    <3> SUFFICES ASSUME NEW i \in 1..(d + 1) PROVE ~Refused(Run(saved, x)[i - 1], x[i])
      BY <1>1
    <3>1. CASE i \in 1..d
      BY <2>1, <3>1
    <3>2. CASE i = d + 1
      <4>1. i - 1 = d
        BY <1>8, <3>2
      <4> QED BY <1>1, <2>1, <3>2, <4>1 DEF s
    <3> QED BY <1>8, <3>1, <3>2
  <2> QED BY <1>6, <1>7, <1>8, <2>3, <2>4 DEF UnderWay
<1>12. Serves(h, request)'
  <2>1. /\ Valid(request) /\ handler[h].turn \in 1..(Len(Program(request)) + 1)
        /\ handler[h].turn <= Len(Program(request))
    BY <1>1, <1>2 DEF Serves
  <2> QED BY <1>1, <1>6, <2>1 DEF Serves
<1>13. ASSUME NEW k \in Handlers
       PROVE  handler'[k] = Free \/ \E r \in Requests : Serves(k, r)'
  <2>1. CASE k = h
    BY <1>12, <2>1
  <2>2. CASE k # h
    BY <1>1, <1>5, <2>2 DEF IInv, Serves
  <2> QED BY <2>1, <2>2
<1>14. WellFormed(table)' /\ WellFormed(saved)' /\ saved'.next_id <= table'.next_id
  <2>1. WellFormed(saved) /\ WellFormed(table) /\ saved.next_id <= table.next_id
    BY DEF IInv
  <2>2. WellFormed(table)'
    BY <1>10 DEF WellFormed, Tables
  <2>3. WellFormed(saved)'
    BY <1>1, <2>1 DEF WellFormed, Tables
  <2>4. saved'.next_id <= table'.next_id
    <3>1. saved.next_id \in Nat /\ table.next_id \in Nat /\ table'.next_id \in Nat
      BY <1>10, <2>1 DEF WellFormed
    <3> QED BY <1>1, <1>10, <2>1, <3>1
  <2> QED BY <2>2, <2>3, <2>4
<1>15. holder \in Handlers /\ came \in 0..MaxRequests /\ h # None
  BY <1>1, CatalogAssumption DEF IInv
<1> QED BY <1>1, <1>5, <1>11, <1>13, <1>14, <1>15 DEF IInv

LEMMA CommitKeeps ==
  ASSUME IInv, NEW h \in Handlers, Commit(h)
  PROVE  IInv'
<1>1. /\ holder = h /\ holder' = None /\ saved' = table /\ table' = table /\ came' = came
      /\ handler' = [handler EXCEPT ![h].turn = @ + 1, ![h].done = 0]
  BY DEF Commit
<1>2. PICK request \in Requests :
        Serves(h, request) /\ handler[h].turn \in 1..Len(Program(request))
  BY <1>1, HolderServes
<1>3. DOMAIN handler = Handlers /\ handler = [k \in Handlers |-> handler[k]]
  BY DEF IInv
<1> DEFINE new == [pc |-> "serving", program |-> Program(request), turn |-> handler[h].turn + 1,
                   done |-> 0]
<1>4. /\ handler'[h] = new /\ \A k \in Handlers : k # h => handler'[k] = handler[k]
      /\ DOMAIN handler' = Handlers /\ handler' = [k \in Handlers |-> handler'[k]]
  <2> DEFINE mid == [handler EXCEPT ![h].turn = @ + 1]
  <2>1. handler' = [mid EXCEPT ![h].done = 0]
    BY <1>1, <1>3
  <2>2. handler[h] = [pc |-> "serving", program |-> Program(request), turn |-> handler[h].turn,
                      done |-> handler[h].done]
    BY <1>2 DEF Serves
  <2>3. [handler[h] EXCEPT !.turn = handler[h].turn + 1] =
          [pc |-> "serving", program |-> Program(request), turn |-> handler[h].turn + 1,
           done |-> handler[h].done]
    BY <2>2
  <2>4. /\ mid[h] = [pc |-> "serving", program |-> Program(request),
                     turn |-> handler[h].turn + 1, done |-> handler[h].done]
        /\ \A k \in Handlers : k # h => mid[k] = handler[k]
        /\ DOMAIN mid = Handlers /\ mid = [k \in Handlers |-> mid[k]]
    BY <1>3, <2>3
  <2> HIDE DEF mid
  <2>5. [mid[h] EXCEPT !.done = 0] = new
    BY <2>4
  <2> QED BY <2>1, <2>4, <2>5
<1>5. Serves(h, request)'
  <2>1. /\ new = [pc |-> "serving", program |-> Program(request), turn |-> new.turn,
                  done |-> new.done]
        /\ new.turn = handler[h].turn + 1 /\ new.done = 0
    OBVIOUS
  <2>2. /\ handler[h].turn + 1 \in 1..(Len(Program(request)) + 1) /\ Valid(request)
        /\ holder' # h
    <3>1. Len(Program(request)) \in Nat
      BY ProgramFacts
    <3> QED BY <1>1, <1>2, <3>1, CatalogAssumption DEF Serves
  <2> HIDE DEF new
  <2> QED BY <1>1, <1>4, <2>1, <2>2 DEF Serves
<1>6. ASSUME NEW k \in Handlers
      PROVE  handler'[k] = Free \/ \E r \in Requests : Serves(k, r)'
  <2>1. CASE k = h
    BY <1>5, <2>1
  <2>2. CASE k # h
    <3>1. holder # k /\ holder' # k
      BY <1>1, <2>2, CatalogAssumption
    <3> QED BY <1>4, <2>2, <3>1 DEF IInv, Serves
  <2> QED BY <2>1, <2>2
<1>7. WellFormed(table)' /\ WellFormed(saved)' /\ saved'.next_id <= table'.next_id
  BY <1>1 DEF IInv, WellFormed, Tables
<1> QED BY <1>1, <1>4, <1>6, <1>7 DEF IInv

\* A handler that becomes free, of a request that is served or has failed outside of a
\* transaction.
LEMMA FreeKeeps ==
  ASSUME IInv, NEW h \in Handlers, holder # h, handler' = [handler EXCEPT ![h] = Free],
         UNCHANGED <<table, saved, holder, came>>
  PROVE  IInv'
<1>1. DOMAIN handler = Handlers /\ handler = [k \in Handlers |-> handler[k]]
  BY DEF IInv
<1>2. /\ handler'[h] = Free /\ \A k \in Handlers : k # h => handler'[k] = handler[k]
      /\ DOMAIN handler' = Handlers /\ handler' = [k \in Handlers |-> handler'[k]]
  BY <1>1
<1>3. ASSUME NEW k \in Handlers
      PROVE  handler'[k] = Free \/ \E r \in Requests : Serves(k, r)'
  <2>1. CASE k = h
    BY <1>2, <2>1
  <2>2. CASE k # h
    BY <1>2, <2>2 DEF IInv, Serves
  <2> QED BY <2>1, <2>2
<1>4. holder' # None => UnderWay(holder)'
  <2> SUFFICES ASSUME holder # None PROVE UnderWay(holder)'
    OBVIOUS
  <2>1. UnderWay(holder) /\ holder \in Handlers /\ handler'[holder] = handler[holder]
    BY <1>2 DEF IInv
  <2> QED BY <2>1 DEF UnderWay, Transaction
<1> QED BY <1>2, <1>3, <1>4 DEF IInv

LEMMA AnswerKeeps ==
  ASSUME IInv, NEW h \in Handlers, Answer(h)
  PROVE  IInv'
<1>1. holder # h
  <2>1. ASSUME holder = h PROVE FALSE
    <3>1. PICK request \in Requests :
            Serves(h, request) /\ handler[h].turn \in 1..Len(Program(request))
      BY <2>1, HolderServes
    <3>2. handler[h].program = Program(request) /\ Len(Program(request)) \in Nat
      BY <3>1, TransactionIs
    <3>3. handler[h].turn > Len(handler[h].program)
      BY DEF Answer
    <3> QED BY <3>1, <3>2, <3>3
  <2> QED BY <2>1
<1> QED BY <1>1, FreeKeeps DEF Answer

LEMMA FailKeeps ==
  ASSUME IInv, NEW h \in Handlers, Fail(h)
  PROVE  IInv'
<1>1. CASE holder # h
  BY <1>1, FreeKeeps DEF Fail
<1>2. CASE holder = h
  <2> DEFINE w == RolledBack(table)
  <2>1. /\ handler' = [handler EXCEPT ![h] = Free] /\ table' = w /\ saved' = w
        /\ holder' = None /\ came' = came
    BY <1>2 DEF Fail
  <2>2. w = [saved EXCEPT !.next_id = table.next_id]
    BY DEF RolledBack
  <2> HIDE DEF w
  <2>3. WellFormed(w)
    <3>1. WellFormed(saved) /\ WellFormed(table) /\ saved.next_id <= table.next_id
      BY DEF IInv
    <3> QED BY <2>2, <3>1, RolledBackIs
  <2>4. DOMAIN handler = Handlers /\ handler = [k \in Handlers |-> handler[k]]
    BY DEF IInv
  <2>5. /\ handler'[h] = Free /\ \A k \in Handlers : k # h => handler'[k] = handler[k]
        /\ DOMAIN handler' = Handlers /\ handler' = [k \in Handlers |-> handler'[k]]
    BY <2>1, <2>4
  <2>6. ASSUME NEW k \in Handlers
        PROVE  handler'[k] = Free \/ \E r \in Requests : Serves(k, r)'
    <3>1. CASE k = h
      BY <2>5, <3>1
    <3>2. CASE k # h
      <4>1. holder # k /\ holder' # k
        BY <1>2, <2>1, <3>2, CatalogAssumption
      <4> QED BY <2>5, <3>2, <4>1 DEF IInv, Serves
    <3> QED BY <3>1, <3>2
  <2>7. WellFormed(table)' /\ WellFormed(saved)' /\ saved'.next_id <= table'.next_id
    BY <2>1, <2>3 DEF WellFormed, Tables
  <2> QED BY <2>1, <2>5, <2>6, <2>7 DEF IInv
<1> QED BY <1>1, <1>2

LEMMA RestartKeeps ==
  ASSUME IInv, Restart
  PROVE  IInv'
<1>1. /\ holder = None /\ holder' = None /\ came' = came
      /\ handler' = [h \in Handlers |-> Free] /\ table' = Seeded(table) /\ saved' = Seeded(table)
  BY DEF Restart
<1> DEFINE w == Seeded(table)
<1>2. WellFormed(w)
  BY SeededIs DEF IInv
<1> HIDE DEF w
<1>3. WellFormed(table)' /\ WellFormed(saved)' /\ saved'.next_id <= table'.next_id
  BY <1>1, <1>2 DEF WellFormed, Tables, w
<1>4. /\ DOMAIN handler' = Handlers /\ handler' = [h \in Handlers |-> handler'[h]]
      /\ \A h \in Handlers : handler'[h] = Free
  BY <1>1
<1>5. came' \in 0..MaxRequests /\ table' = saved'
  BY <1>1 DEF IInv
<1> QED BY <1>1, <1>3, <1>4, <1>5 DEF IInv

\* The invariant is inductive.
THEOREM Inductive == Spec => []IInv
<1>1. Init => IInv
  <2> SUFFICES ASSUME Init PROVE IInv
    OBVIOUS
  <2>1. /\ table = Empty /\ saved = Empty /\ handler = [h \in Handlers |-> Free]
        /\ holder = None /\ came = 0
    BY DEF Init
  <2>2. WellFormed(Empty) /\ Empty.next_id <= Empty.next_id
    BY DEF Empty, WellFormed, Tables
  <2>3. 0 \in 0..MaxRequests
    BY CatalogAssumption
  <2>4. /\ DOMAIN handler = Handlers /\ handler = [h \in Handlers |-> handler[h]]
        /\ \A h \in Handlers : handler[h] = Free
    BY <2>1
  <2>5. WellFormed(table) /\ WellFormed(saved) /\ saved.next_id <= table.next_id
    BY <2>1, <2>2
  <2> QED BY <2>1, <2>3, <2>4, <2>5 DEF IInv
<1>2. IInv /\ [Next]_vars => IInv'
  <2> SUFFICES ASSUME IInv, [Next]_vars PROVE IInv'
    OBVIOUS
  <2>1. ASSUME NEW h \in Handlers, NEW request \in Requests, Receive(h, request) PROVE IInv'
    BY <2>1, ReceiveKeeps
  <2>2. ASSUME NEW h \in Handlers, Begin(h) PROVE IInv'
    BY <2>2, BeginKeeps
  <2>3. ASSUME NEW h \in Handlers, Execute(h) PROVE IInv'
    BY <2>3, ExecuteKeeps
  <2>4. ASSUME NEW h \in Handlers, Commit(h) PROVE IInv'
    BY <2>4, CommitKeeps
  <2>5. ASSUME NEW h \in Handlers, Answer(h) PROVE IInv'
    BY <2>5, AnswerKeeps
  <2>6. ASSUME NEW h \in Handlers, Fail(h) PROVE IInv'
    BY <2>6, FailKeeps
  <2>7. CASE Restart
    BY <2>7, RestartKeeps
  <2>8. CASE UNCHANGED vars
    <3>1. /\ table' = table /\ saved' = saved /\ handler' = handler /\ holder' = holder
          /\ came' = came
      BY <2>8 DEF vars
    <3>2. holder # None => UnderWay(holder)'
      BY <3>1 DEF IInv, UnderWay, Transaction
    <3>3. \A h \in Handlers : handler'[h] = Free \/ \E request \in Requests : Serves(h, request)'
      BY <3>1 DEF IInv, Serves
    <3>4. WellFormed(table)' /\ WellFormed(saved)' /\ saved'.next_id <= table'.next_id
      BY <3>1 DEF IInv, WellFormed, Tables
    <3> QED BY <3>1, <3>2, <3>3, <3>4 DEF IInv
  <2> QED BY <2>1, <2>2, <2>3, <2>4, <2>5, <2>6, <2>7, <2>8 DEF Next
<1> QED BY <1>1, <1>2, PTL DEF Spec

\* AUTO_INCREMENT, UNIQUE and the foreign key: ids identify the rules, whatever statements
\* ran, were rolled back or were refused; see TypeOK.
THEOREM TypeCorrect == Spec => []TypeOK
<1>1. IInv => TypeOK
  <2> SUFFICES ASSUME IInv PROVE TypeOK
    OBVIOUS
  <2>1. \A h \in Handlers : handler[h].pc \in {"free", "serving"}
    <3>1. Free.pc = "free"
      BY DEF Free
    <3>2. \A h \in Handlers : \A request \in Requests :
            Serves(h, request) => handler[h].pc = "serving"
      BY TransactionIs
    <3> QED BY <3>1, <3>2 DEF IInv
  <2> QED BY <2>1 DEF IInv, TypeOK, WellFormed
<1> QED BY <1>1, Inductive, PTL

\* A business system may send its catalog again: whatever came in between, the second time
\* in a row changes nothing, next_id included.
THEOREM SyncsAreIdempotent == Spec => []SyncIdempotent
<1>1. IInv => SyncIdempotent
  <2> SUFFICES ASSUME IInv, NEW request \in Requests, request.kind = "sync",
                      Valid(request), Runs(request, table)
               PROVE  Ran(request, Ran(request, table)) = Ran(request, table)
    BY DEF SyncIdempotent
  <2>1. TypedSync(request)
    BY CatalogAssumption DEF Typed
  <2> DEFINE c == Normalised(request)
             u == Final(table, SyncProgram(request)[1])
  <2>2. \A t : Ran(request, t) = Final(t, SyncProgram(request)[1])
    BY DEF Ran, Final, Program
  <2>3. NodesThere(table, c)
    <3>1. IsList(c.rules)
      BY <2>1, NormalisedLists
    <3>2. DOMAIN c.rules = 1..Len(c.rules)
      BY <3>1, ListFacts
    <3> QED BY <3>2 DEF NodesThere, Runs, ToSet
  <2>4. WellFormed(table)
    BY DEF IInv
  <2>5. Final(u, SyncProgram(request)[1]) = u
    BY <2>1, <2>3, <2>4, SyncAgain
  <2> QED BY <2>2, <2>5
<1> QED BY <1>1, Inductive, PTL

-----------------------------------------------------------------------------
(* The abstract catalog *)

\* What a commit makes visible: the transaction as a whole, none of it refused.
LEMMA CommitIs ==
  ASSUME IInv, NEW h \in Handlers, Commit(h)
  PROVE  \E request \in Requests :
           \E k \in 1..Len(Program(request)) :
             /\ Valid(request) /\ IsList(Program(request)[k])
             /\ saved' = Final(saved, Program(request)[k])
             /\ \A i \in 1..Len(Program(request)[k]) :
                  ~Refused(Run(saved, Program(request)[k])[i - 1], Program(request)[k][i])
<1>1. holder = h /\ saved' = table /\ handler[h].done = Len(Transaction(h))
  BY DEF Commit
<1>2. PICK request \in Requests :
        /\ Serves(h, request) /\ handler[h].turn \in 1..Len(Program(request))
        /\ Transaction(h) = Program(request)[handler[h].turn]
        /\ IsList(Transaction(h)) /\ UnderWay(h)
  BY <1>1, HolderServes
<1> DEFINE x == Transaction(h)
<1>3. /\ table = Run(saved, x)[Len(x)]
      /\ \A i \in 1..Len(x) : ~Refused(Run(saved, x)[i - 1], x[i])
  BY <1>1, <1>2 DEF UnderWay
<1> HIDE DEF x
<1>4. saved' = Final(saved, x) /\ IsList(x) /\ x = Program(request)[handler[h].turn]
  BY <1>1, <1>2, <1>3 DEF Final, x
<1>5. Valid(request)
  BY <1>2 DEF Serves
<1> QED BY <1>2, <1>3, <1>4, <1>5

LEMMA ChangedIs ==
  ASSUME NEW t, NEW w, NEW g, NEW c, NEW r, NEW u, w = Changed(t, g, c, r, u)
  PROVE  /\ w.games = g /\ w.categories = c /\ w.regions = r /\ w.rules = u
         /\ w.nodes = t.nodes
  BY ChangedFields

\* A transaction of one statement.
LEMMA OneIs ==
  ASSUME NEW t, NEW s, NEW x, x = <<s>>,
         \A i \in 1..Len(x) : ~Refused(Run(t, x)[i - 1], x[i])
  PROVE  Final(t, x) = Executed(t, s) /\ ~Refused(t, s)
<1>1. IsList(x) /\ Len(x) = 1 /\ x[1] = s
  BY OneIsList
<1>2. Run(t, x)[0] = t
  BY <1>1, RunSteps
<1>3. ~Refused(Run(t, x)[1 - 1], x[1])
  BY <1>1
<1>4. 1 - 1 = 0
  OBVIOUS
<1>5. ~Refused(t, s)
  BY <1>1, <1>2, <1>3, <1>4
<1> QED BY <1>5, FinalOne

LEMMA DeleteNodeImplements ==
  ASSUME WellFormed(saved), NEW n, saved' = Executed(saved, [do |-> "drop_node", node |-> n])
  PROVE  [Store!Next]_(Store!store)
<1> DEFINE s == [do |-> "drop_node", node |-> n]
<1>1. s.do = "drop_node" /\ s.node = n
  OBVIOUS
<1> HIDE DEF s
<1>2. saved' = DropNode(saved, n)
  BY <1>1, ExecutedIs DEF s
<1>3. /\ saved'.games = saved.games /\ saved'.categories = saved.categories
      /\ saved'.regions = saved.regions /\ saved'.nodes = saved.nodes \ {n}
      /\ saved'.rules = {row \in saved.rules : row.node # n}
  BY <1>2 DEF DropNode, WellFormed, Tables
<1>4. CASE n \in saved.nodes
  <2>1. Store!DropNode(n)
    BY <1>3 DEF Store!DropNode
  <2> QED BY <1>4, <2>1 DEF Store!Next
<1>5. CASE n \notin saved.nodes
  <2>1. saved.nodes \ {n} = saved.nodes
    BY <1>5
  <2>2. {row \in saved.rules : row.node # n} = saved.rules
    BY <1>5 DEF WellFormed
  <2>3. saved'.nodes = saved.nodes /\ saved'.rules = saved.rules
    BY <1>3, <2>1, <2>2
  <2> QED BY <1>3, <2>3 DEF Store!store
<1> QED BY <1>4, <1>5

LEMMA DeleteImplements ==
  ASSUME WellFormed(saved), NEW request \in Requests, request.kind = "delete", Valid(request),
         TypedDelete(request), saved' = Final(saved, DeleteProgram(request)[1])
  PROVE  Store!Next
<1> DEFINE r == Selected(request)
           gs == {row \in saved.games : row.game \notin ToSet(request.games)}
           cs == {row \in saved.categories : row.game \notin ToSet(request.games)}
           areas == {row \in saved.regions : /\ row.game \notin ToSet(request.games)
                                  /\ <<row.game, row.region>> \notin ToSet(request.regions)}
           rs == {row \in saved.rules :
                ~ \/ row.id \in ToSet(request.ids)
                  \/ /\ row.external \in ToSet(request.externals)
                     /\ request.source \in {None, row.source}
                  \/ <<row.game, row.region>> \in ToSet(request.regions)
                  \/ row.game \in ToSet(request.games)}
<1>1. saved' = Changed(saved, gs, cs, areas, rs)
  BY DeleteIs DEF WellFormed
<1>2. /\ r.games = ToSet(request.games) /\ r.regions = ToSet(request.regions)
      /\ r.ids = ToSet(request.ids) /\ r.externals = ToSet(request.externals)
      /\ r.source = request.source
  BY DEF Selected
<1>3. r.externals \ {None} = r.externals
  BY <1>2 DEF TypedDelete
<1>4. r \in {Selected(q) : q \in Catalogs("delete")}
  BY DEF Catalogs
<1> HIDE DEF r
<1>5. /\ gs = {row \in saved.games : row.game \notin r.games}
      /\ cs = {row \in saved.categories : row.game \notin r.games}
      /\ areas = {row \in saved.regions : /\ row.game \notin r.games
                                       /\ <<row.game, row.region>> \notin r.regions}
  BY <1>2
<1>6. rs = {rule \in saved.rules : ~Store!Named(r, rule)}
  BY <1>2, <1>3 DEF Store!Named, Store!RegionOf
<1> HIDE DEF gs, cs, areas, rs
<1>7. /\ saved'.games = gs /\ saved'.categories = cs /\ saved'.regions = areas /\ saved'.rules = rs
      /\ saved'.nodes = saved.nodes
  BY <1>1, ChangedIs
<1>8. Store!Delete(r)
  BY <1>5, <1>6, <1>7 DEF Store!Delete, Store!RegionOf
<1> QED BY <1>4, <1>8 DEF Store!Next

LEMMA GameInFacts ==
  ASSUME NEW game, TypedGame(game)
  PROVE  /\ IsList(GameIn(game).categories) /\ GameIn(game).game = game.game
         /\ \A j, k \in 1..Len(GameIn(game).categories) :
              GameIn(game).categories[j] = GameIn(game).categories[k] => j = k
<1>1. GameIn(game).categories = Distinct(game.categories) /\ GameIn(game).game = game.game
  BY DEF GameIn
<1>2. IsList(game.categories)
  BY DEF TypedGame
<1> QED BY <1>1, <1>2, DistinctFacts

LEMMA StoreGame ==
  ASSUME NEW game
  PROVE  /\ (/\ saved'.games = {row \in saved.games : row.game # game.game} \cup {NewGame(game)}
             /\ saved'.regions = saved.regions /\ saved'.rules = saved.rules
             /\ saved'.nodes = saved.nodes)
            => Store!PutGame(game)
         /\ (/\ IsList(game.categories)
             /\ saved'.categories =
                  {row \in saved.categories : row.game # game.game} \cup NewCategories(game)
             /\ saved'.regions = saved.regions /\ saved'.rules = saved.rules
             /\ saved'.nodes = saved.nodes)
            => Store!SetCategories(game)
<1>1. ASSUME saved'.games = {row \in saved.games : row.game # game.game} \cup {NewGame(game)},
             saved'.regions = saved.regions, saved'.rules = saved.rules,
             saved'.nodes = saved.nodes
      PROVE  Store!PutGame(game)
  BY <1>1 DEF Store!PutGame, Store!Others, Store!GameOf, Store!GameRow, NewGame, Primary
<1>2. ASSUME IsList(game.categories),
             saved'.categories =
               {row \in saved.categories : row.game # game.game} \cup NewCategories(game),
             saved'.regions = saved.regions, saved'.rules = saved.rules,
             saved'.nodes = saved.nodes
      PROVE  Store!SetCategories(game)
  <2>1. DOMAIN game.categories = 1..Len(game.categories)
    BY <1>2, ListFacts
  <2>2. Store!CategoryRows(game) = NewCategories(game)
    BY <2>1 DEF Store!CategoryRows, NewCategories, NewCategory
  <2>3. Store!Others(saved.categories, {game}, Store!GameOf)
          = {row \in saved.categories : row.game # game.game}
    BY DEF Store!Others, Store!GameOf
  <2> QED BY <1>2, <2>2, <2>3 DEF Store!SetCategories
<1> QED BY <1>1, <1>2

\* Admins write a game, its categories with it or after it.
LEMMA WriteGameImplements ==
  ASSUME WellFormed(saved), NEW request \in Requests,
         request.kind \in {"create_game", "update_game"}, TypedGame(request.game),
         NEW k \in 1..Len(AdminGameProgram(request)),
         saved' = Final(saved, AdminGameProgram(request)[k])
  PROVE  Store!Next
<1> DEFINE g == GameIn(request.game)
           news == {row \in saved.games : row.game # g.game} \cup {NewGame(g)}
           cats == {row \in saved.categories : row.game # g.game} \cup NewCategories(g)
<1>1. /\ IsList(g.categories)
      /\ \A i, j \in 1..Len(g.categories) : g.categories[i] = g.categories[j] => i = j
  BY GameInFacts
<1>2. g \in {GameIn(r.game) : r \in Written({"create_game", "update_game", "delete_game"})}
  BY DEF Written
<1>3. \/ /\ request.kind = "create_game"
         /\ AdminGameProgram(request) = <<WriteGame("new_game", g) \o ReplaceCategories(g)>>
      \/ /\ request.kind = "update_game"
         /\ AdminGameProgram(request) = <<WriteGame("set_game", g), ReplaceCategories(g)>>
  BY DEF AdminGameProgram
<1> HIDE DEF g
<1>4. Tables(saved)
  BY DEF WellFormed
<1>5. SUFFICES \/ Store!PutGame(g) /\ saved'.categories = saved.categories
               \/ Store!SetCategories(g) /\ saved'.games = saved.games
               \/ Store!PutGame(g) /\ Store!SetCategories(g)
  BY <1>2 DEF Store!Next, Store!WriteGame
<1>6. CASE request.kind = "create_game"
  <2>1. AdminGameProgram(request)[k] = WriteGame("new_game", g) \o ReplaceCategories(g)
    <3> DEFINE x == WriteGame("new_game", g) \o ReplaceCategories(g)
    <3>1. AdminGameProgram(request) = <<x>>
      BY <1>3, <1>6
    <3> HIDE DEF x
    <3>2. k = 1
      BY <3>1, OneIsList
    <3> QED BY <3>1, <3>2, OneIsList DEF x
  <2>2. saved' = Changed(saved, news, cats, saved.regions, saved.rules)
    BY <1>1, <1>4, <2>1, PutGameIs
  <2> HIDE DEF news, cats
  <2>3. /\ saved'.games = news /\ saved'.categories = cats /\ saved'.regions = saved.regions
        /\ saved'.rules = saved.rules /\ saved'.nodes = saved.nodes
    BY <2>2, ChangedIs
  <2> QED BY <1>1, <2>3, StoreGame DEF news, cats
<1>7. CASE request.kind = "update_game"
  <2> DEFINE s == [do |-> "set_game", row |-> g]
  <2>1. k \in {1, 2}
    <3> DEFINE x == WriteGame("set_game", g)
               y == ReplaceCategories(g)
    <3>1. AdminGameProgram(request) = <<x, y>>
      BY <1>3, <1>7
    <3> HIDE DEF x, y
    <3> QED BY <3>1
  <2>2. CASE k = 1
    <3>1. AdminGameProgram(request)[k] = <<s>>
      BY <1>3, <1>7, <2>2 DEF WriteGame
    <3>2. s.do = "set_game" /\ s.row = g
      OBVIOUS
    <3> HIDE DEF s
    <3>3. saved' = PutGame(saved, g)
      BY <3>1, <3>2, FinalOne, ExecutedIs
    <3>4. saved' = Changed(saved, news, saved.categories, saved.regions, saved.rules)
      BY <1>4, <3>3, PutsAre
    <3> HIDE DEF news
    <3>5. /\ saved'.games = news /\ saved'.categories = saved.categories
          /\ saved'.regions = saved.regions
          /\ saved'.rules = saved.rules /\ saved'.nodes = saved.nodes
      BY <3>4, ChangedIs
    <3>6. Store!PutGame(g)
      BY <3>5, StoreGame DEF news
    <3> QED BY <3>5, <3>6
  <2>3. CASE k = 2
    <3>1. AdminGameProgram(request)[k] = ReplaceCategories(g)
      BY <1>3, <1>7, <2>3
    <3>2. saved' = Changed(saved, saved.games, cats, saved.regions, saved.rules)
      BY <1>1, <1>4, <3>1, ReplaceCategoriesIs
    <3> HIDE DEF cats
    <3>3. /\ saved'.games = saved.games /\ saved'.categories = cats
          /\ saved'.regions = saved.regions
          /\ saved'.rules = saved.rules /\ saved'.nodes = saved.nodes
      BY <3>2, ChangedIs
    <3>4. Store!SetCategories(g)
      BY <1>1, <3>3, StoreGame DEF cats
    <3> QED BY <3>3, <3>4
  <2> QED BY <2>1, <2>2, <2>3
<1> QED BY <1>3, <1>6, <1>7

LEMMA DropGameImplements ==
  ASSUME WellFormed(saved), NEW request \in Requests,
         request.kind = "delete_game", TypedGame(request.game),
         NEW k \in 1..Len(AdminGameProgram(request)),
         saved' = Final(saved, AdminGameProgram(request)[k])
  PROVE  Store!Next
<1> DEFINE g == GameIn(request.game)
           first == [do |-> "drop_categories", game |-> g.game]
           second == [do |-> "drop_game", game |-> g.game]
           gs == Without(saved.games, g.game)
           cs == Without(saved.categories, g.game)
<1>1. g \in {GameIn(r.game) : r \in Written({"create_game", "update_game", "delete_game"})}
  BY DEF Written
<1>2. AdminGameProgram(request) = <<<<first>>, <<second>>>>
  BY DEF AdminGameProgram
<1>3. /\ first.do = "drop_categories" /\ first.game = g.game
      /\ second.do = "drop_game" /\ second.game = g.game
  OBVIOUS
<1> HIDE DEF g, first, second
<1>4. SUFFICES Store!DropGame(g.game)
  BY <1>1 DEF Store!Next
<1>5. Tables(saved) /\ k \in {1, 2}
  BY <1>2 DEF WellFormed
<1>6. CASE k = 1
  <2>1. saved' = DropCategories(saved, g.game)
    BY <1>2, <1>3, <1>6, FinalOne, ExecutedIs
  <2>2. saved' = Changed(saved, saved.games, cs, saved.regions, saved.rules)
    BY <1>5, <2>1, DropsAre
  <2> HIDE DEF cs
  <2>3. /\ saved'.games = saved.games /\ saved'.categories = cs
        /\ saved'.regions = saved.regions
        /\ saved'.rules = saved.rules /\ saved'.nodes = saved.nodes
    BY <2>2, ChangedIs
  <2> QED BY <2>3 DEF cs, Without, Store!DropGame
<1>7. CASE k = 2
  <2>1. saved' = DropGame(saved, g.game)
    BY <1>2, <1>3, <1>7, FinalOne, ExecutedIs
  <2>2. saved' = Changed(saved, gs, saved.categories, saved.regions, saved.rules)
    BY <1>5, <2>1, DropsAre
  <2> HIDE DEF gs
  <2>3. /\ saved'.games = gs /\ saved'.categories = saved.categories
        /\ saved'.regions = saved.regions
        /\ saved'.rules = saved.rules /\ saved'.nodes = saved.nodes
    BY <2>2, ChangedIs
  <2> QED BY <2>3 DEF gs, Without, Store!DropGame
<1> QED BY <1>5, <1>6, <1>7

LEMMA CreateRuleImplements ==
  ASSUME WellFormed(saved), NEW request \in Requests, request.kind = "create_rule",
         NEW s, s.do = "put_rule", s.row = request.rule,
         saved' = Executed(saved, s), ~Refused(saved, s)
  PROVE  Store!Next
<1> DEFINE rule == request.rule
<1>1. rule \in {r.rule : r \in Written({"create_rule", "update_rule"})}
  BY DEF Written
<1> HIDE DEF rule
<1>2. saved' = PutRule(saved, rule) /\ rule.node \in saved.nodes
  BY ExecutedIs DEF Refused, rule
<1> DEFINE w == PutRule(saved, rule)
<1>3. /\ w.games = saved.games /\ w.categories = saved.categories
      /\ w.regions = saved.regions /\ w.nodes = saved.nodes
      /\ \E id \in Nat \ {0} :
           /\ \/ /\ id = saved.next_id /\ w.next_id = saved.next_id + 1
                 /\ \A row \in saved.rules : ~SameRoute(row, rule)
              \/ /\ w.next_id = saved.next_id
                 /\ \E row \in saved.rules : SameRoute(row, rule) /\ row.id = id
           /\ w.rules = {row \in saved.rules : ~SameRoute(row, rule)} \cup {WithId(rule, id)}
  BY PutRuleIs
<1> HIDE DEF w
<1>4. PICK id \in Nat \ {0} :
        /\ \/ id = saved.next_id /\ \A row \in saved.rules : ~SameRoute(row, rule)
           \/ \E row \in saved.rules : SameRoute(row, rule) /\ row.id = id
        /\ w.rules = {row \in saved.rules : ~SameRoute(row, rule)} \cup {WithId(rule, id)}
  BY <1>3
<1> DEFINE new == WithId(rule, id)
<1>5. /\ new.id = id /\ new.node = rule.node /\ new.source = rule.source
      /\ new.external = rule.external /\ new.game = rule.game /\ new.region = rule.region
      /\ new.target = rule.target
  BY WithIdFields
<1> HIDE DEF new
<1>6. \A row \in saved.rules : row.id = id <=> SameRoute(row, rule)
  <2>1. CASE id = saved.next_id /\ \A row \in saved.rules : ~SameRoute(row, rule)
    BY <2>1 DEF WellFormed
  <2>2. CASE \E row \in saved.rules : SameRoute(row, rule) /\ row.id = id
    <3>1. PICK old \in saved.rules : SameRoute(old, rule) /\ old.id = id
      BY <2>2
    <3>2. \A row \in saved.rules : SameRoute(row, rule) => SameRoute(row, old)
      BY <3>1 DEF SameRoute
    <3> QED BY <3>1, <3>2 DEF WellFormed
  <2> QED BY <1>4, <2>1, <2>2
<1>7. {r \in w.rules : r.id # id} = {r \in saved.rules : r.id # id}
  BY <1>4, <1>5, <1>6 DEF new
<1>8. \A old \in saved.rules :
        old.id = id => <<old.source, old.external>> = <<new.source, new.external>>
  BY <1>5, <1>6 DEF SameRoute
<1>9. new \in saved'.rules /\ saved'.rules = w.rules
  BY <1>2, <1>4 DEF new, w
<1>10. Store!WriteRule(rule)
  <2>1. Store!RegionOf(new) = Store!RegionOf(rule)
    BY <1>5 DEF Store!RegionOf
  <2>2. \A old \in saved.rules : old.id = new.id => Store!RouteOf(old) = Store!RouteOf(new)
    BY <1>5, <1>8 DEF Store!RouteOf
  <2>3. {r \in saved'.rules : r.id # new.id} = {r \in saved.rules : r.id # new.id}
    BY <1>5, <1>7, <1>9
  <2>4. /\ saved'.games = saved.games /\ saved'.categories = saved.categories
        /\ saved'.regions = saved.regions /\ saved'.nodes = saved.nodes
    BY <1>2, <1>3 DEF w
  <2> QED BY <1>2, <1>5, <1>9, <2>1, <2>2, <2>3, <2>4 DEF Store!WriteRule
<1> QED BY <1>1, <1>10 DEF Store!Next

LEMMA UpdateRuleImplements ==
  ASSUME WellFormed(saved), NEW request \in Requests, request.kind = "update_rule",
         NEW s, s.do = "set_rule", s.row = request.rule, s.id = request.id,
         saved' = Executed(saved, s), ~Refused(saved, s)
  PROVE  Store!Next
<1> DEFINE rule == request.rule
           Set(row) == IF row.id # s.id THEN row
                       ELSE [row EXCEPT !.game = rule.game, !.region = rule.region,
                                        !.node = rule.node, !.target = rule.target]
<1>1. rule \in {r.rule : r \in Written({"create_rule", "update_rule"})}
  BY DEF Written
<1>2. /\ saved' = SetRule(saved, s.id, rule) /\ rule.node \in saved.nodes
      /\ \E row \in saved.rules : row.id = s.id
  BY ExecutedIs DEF Refused
<1>3. /\ saved'.games = saved.games /\ saved'.categories = saved.categories
      /\ saved'.regions = saved.regions /\ saved'.nodes = saved.nodes
      /\ saved'.rules = {Set(row) : row \in saved.rules}
  BY <1>2 DEF SetRule, WellFormed, Tables
<1>4. PICK row \in saved.rules : row.id = s.id
  BY <1>2
<1> DEFINE new == Set(row)
<1>5. /\ new.id = s.id /\ new.node = rule.node /\ new.source = row.source
      /\ new.external = row.external /\ new.game = rule.game /\ new.region = rule.region
      /\ new.target = rule.target
  <2>1. row = WithId(row, row.id)
    BY DEF WellFormed
  <2> QED BY <1>4, <2>1 DEF WithId
<1>6. \A r \in saved.rules : (r.id = s.id => r = row) /\ (r.id # s.id => Set(r) = r)
  BY <1>4 DEF WellFormed
<1>7. new \in saved'.rules
  BY <1>3
<1> HIDE DEF Set, rule
<1>8. {r \in saved'.rules : r.id # s.id} = {r \in saved.rules : r.id # s.id}
  BY <1>3, <1>4, <1>5, <1>6
<1> HIDE DEF new
<1>9. Store!WriteRule(rule)
  <2>1. Store!RegionOf(new) = Store!RegionOf(rule)
    BY <1>5 DEF Store!RegionOf
  <2>2. \A old \in saved.rules : old.id = new.id => Store!RouteOf(old) = Store!RouteOf(new)
    BY <1>5, <1>6 DEF Store!RouteOf
  <2>3. {r \in saved'.rules : r.id # new.id} = {r \in saved.rules : r.id # new.id}
    BY <1>5, <1>8
  <2> QED BY <1>2, <1>3, <1>5, <1>7, <2>1, <2>2, <2>3 DEF Store!WriteRule
<1> QED BY <1>1, <1>9 DEF Store!Next, rule

LEMMA DeleteRuleImplements ==
  ASSUME WellFormed(saved), NEW s, s.do = "drop_rule", saved' = Executed(saved, s)
  PROVE  [Store!Next]_(Store!store)
<1> DEFINE rs == WithoutId(saved.rules, s.id)
<1>1. saved' = Changed(saved, saved.games, saved.categories, saved.regions, rs)
  <2>1. saved' = DropRuleById(saved, s.id)
    BY ExecutedIs
  <2> QED BY <2>1, RuleDropIs DEF WellFormed
<1> HIDE DEF rs
<1>2. /\ saved'.games = saved.games /\ saved'.categories = saved.categories
      /\ saved'.regions = saved.regions
      /\ saved'.rules = rs /\ saved'.nodes = saved.nodes
  BY <1>1, ChangedIs
<1>3. CASE \E row \in saved.rules : row.id = s.id
  <2>1. PICK row \in saved.rules : row.id = s.id
    BY <1>3
  <2>2. rs = saved.rules \ {row}
    BY <2>1 DEF WellFormed, rs, WithoutId
  <2>3. Store!DropRule
    BY <1>2, <2>2 DEF Store!DropRule
  <2> QED BY <2>3 DEF Store!Next
<1>4. CASE \A row \in saved.rules : row.id # s.id
  <2>1. rs = saved.rules
    BY <1>4 DEF rs, WithoutId
  <2> QED BY <1>2, <2>1 DEF Store!store
<1> QED BY <1>3, <1>4

\* A sync none of whose rules is refused names nodes there are.
LEMMA UnrefusedNodes ==
  ASSUME NEW t, WellFormed(t), NEW request, TypedSync(request), NEW c, c = Normalised(request),
         NEW x, x = SyncProgram(request)[1],
         \A i \in 1..Len(x) : ~Refused(Run(t, x)[i - 1], x[i])
  PROVE  NodesThere(t, c)
<1> DEFINE ab == FlattenSeq(OfGames(c.games)) \o Puts("put_region", c.regions)
           s == Puts("put_rule", c.rules)
           u == BeforeRules(t, c)
           R(n) == Run(u, s)[n]
           Good == {n \in Nat : n <= Len(s) => WellFormed(R(n)) /\ R(n).nodes = t.nodes}
<1>1. /\ x = ab \o s /\ IsList(ab) /\ IsList(s) /\ Len(s) = Len(c.rules)
      /\ Len(ab) \in Nat /\ Len(s) \in Nat
  BY SyncLists, ConcatFacts, ListFacts DEF Statements
<1>2. /\ DOMAIN c.rules = 1..Len(c.rules)
      /\ \A i \in 1..Len(s) : s[i] = [do |-> "put_rule", row |-> c.rules[i]]
  <2>1. DOMAIN c.rules = 1..Len(c.rules)
    BY NormalisedLists, ListFacts
  <2> QED BY <1>1, <2>1 DEF Puts
<1>3. /\ WellFormed(u) /\ u.nodes = t.nodes
  BY BeforeRulesFields
<1>4. Final(t, ab) = u
  BY BeforeRulesAre
<1> HIDE DEF ab, s, u
<1>5. ASSUME NEW i \in 1..Len(s) PROVE ~Refused(R(i - 1), s[i])
  <2>1. /\ Len(ab) + i \in 1..Len(x) /\ x[Len(ab) + i] = s[i]
        /\ (Len(ab) + i) - 1 = Len(ab) + (i - 1) /\ i - 1 \in 0..Len(s)
    BY <1>1, ConcatFacts
  <2>2. Run(t, x)[Len(ab) + (i - 1)] = R(i - 1)
    <3>1. \A n \in 0..Len(s) : Run(t, ab \o s)[Len(ab) + n] = Run(Final(t, ab), s)[n]
      BY <1>1, RunConcat
    <3>2. Run(t, ab \o s)[Len(ab) + (i - 1)] = Run(u, s)[i - 1]
      BY <1>4, <2>1, <3>1
    <3> QED BY <1>1, <3>2
  <2>3. ~Refused(Run(t, x)[(Len(ab) + i) - 1], x[Len(ab) + i])
    BY <2>1
  <2> HIDE DEF R
  <2> QED BY <2>1, <2>2, <2>3
<1>6. /\ R(0) = u /\ \A n \in 0..(Len(s) - 1) : R(n + 1) = Executed(R(n), s[n + 1])
  BY <1>1, RunSteps
<1> HIDE DEF R
<1>7. 0 \in Good
  BY <1>3, <1>6
<1>8. ASSUME NEW n \in Nat, n \in Good PROVE n + 1 \in Good
  <2> SUFFICES ASSUME n + 1 <= Len(s) PROVE WellFormed(R(n + 1)) /\ R(n + 1).nodes = t.nodes
    OBVIOUS
  <2> DEFINE w == R(n)
             v == Executed(w, s[n + 1])
             rule == c.rules[n + 1]
             p == [do |-> "put_rule", row |-> rule]
  <2>1. /\ n \in 0..(Len(s) - 1) /\ n + 1 \in 1..Len(s) /\ (n + 1) - 1 = n
        /\ WellFormed(w) /\ w.nodes = t.nodes
    BY <1>1, <1>8
  <2>2. R(n + 1) = v /\ ~Refused(w, s[n + 1])
    BY <1>5, <1>6, <2>1
  <2>3. s[n + 1] = p
    BY <1>2, <2>1
  <2>4. p.do = "put_rule" /\ p.row = rule
    OBVIOUS
  <2> HIDE DEF p, rule
  <2>5. v = PutRule(w, rule) /\ s[n + 1].do \in Known
    BY <2>3, <2>4, ExecutedIs DEF Known
  <2> HIDE DEF w
  <2>6. WellFormed(v)
    BY <2>1, <2>2, <2>5, StatementKeeps
  <2> HIDE DEF v
  <2>7. v.nodes = w.nodes
    BY <2>1, <2>5, PutRuleIs
  <2> QED BY <2>1, <2>2, <2>6, <2>7
<1> HIDE DEF Good
<1>9. Nat \subseteq Good
  BY <1>7, <1>8, ByInduction
<1>10. ASSUME NEW i \in 1..Len(c.rules) PROVE c.rules[i].node \in t.nodes
  <2> DEFINE p == [do |-> "put_rule", row |-> c.rules[i]]
  <2>1. i \in 1..Len(s) /\ i - 1 \in Nat /\ i - 1 <= Len(s)
    BY <1>1
  <2>2. R(i - 1).nodes = t.nodes
    BY <1>9, <2>1 DEF Good
  <2>3. s[i] = p /\ ~Refused(R(i - 1), s[i])
    BY <1>2, <1>5, <2>1
  <2>4. p.do = "put_rule" /\ p.row = c.rules[i]
    OBVIOUS
  <2> HIDE DEF p
  <2> QED BY <2>2, <2>3, <2>4 DEF Refused
<1> QED BY <1>10 DEF NodesThere

\* A sync that is committed replaces the rows of its keys.
LEMMA SyncImplements ==
  ASSUME WellFormed(saved), NEW request \in Requests, request.kind = "sync", Valid(request),
         TypedSync(request), NEW c, c = Normalised(request), NodesThere(saved, c),
         saved' = Final(saved, SyncProgram(request)[1])
  PROVE  Store!Next
<1> DEFINE u == BeforeRules(saved, c)
           n == Len(c.rules)
           Lg == LastOf(GameKeys(c.games), Len(c.games))
           La == LastOf(RegionKeys(c.regions), Len(c.regions))
           Lr == LastOf(RouteKeys(c.rules), n)
           ng == {c.games[i] : i \in Lg}
           na == {c.regions[i] : i \in La}
           nr == {c.rules[i] : i \in Lr}
<1>1. /\ RulesPut(u, c.rules, n, saved')
      /\ u.games = GamesOf(saved, c) /\ u.categories = CategoriesOf(saved, c)
      /\ u.regions = RegionsOf(saved, c) /\ u.rules = saved.rules /\ u.nodes = saved.nodes
  BY SyncPuts, BeforeRulesFields
<1>2. /\ IsList(c.games) /\ DOMAIN c.games = 1..Len(c.games)
      /\ IsList(c.regions) /\ DOMAIN c.regions = 1..Len(c.regions)
      /\ IsList(c.rules) /\ DOMAIN c.rules = 1..n
      /\ \A i \in 1..Len(c.games) : IsList(c.games[i].categories)
  BY NormalisedLists, ListFacts
<1> DEFINE gk == GameKeys(c.games)
           ak == RegionKeys(c.regions)
           rk == RouteKeys(c.rules)
<1>3. /\ \A i \in 1..Len(c.games) : gk[i] = c.games[i].game
      /\ \A i \in 1..Len(c.regions) : ak[i] = <<c.regions[i].game, c.regions[i].region>>
      /\ \A i \in 1..n : rk[i] = RouteKey(c.rules[i])
  BY <1>2 DEF GameKeys, RegionKeys, RouteKeys
<1>4. /\ Lg \subseteq 1..Len(c.games) /\ La \subseteq 1..Len(c.regions) /\ Lr \subseteq 1..n
      /\ \A i, j \in Lr : rk[i] = rk[j] => i = j
  BY <1>2, LastRows
<1>5. /\ \A x : (\A i \in Lg : gk[i] # x) <=> (\A i \in 1..Len(c.games) : gk[i] # x)
      /\ \A x : (\A i \in La : ak[i] # x) <=> (\A i \in 1..Len(c.regions) : ak[i] # x)
      /\ \A x : (\A i \in Lr : rk[i] # x) <=> (\A i \in 1..n : rk[i] # x)
  <2>1. \A x : (\A i \in Lg : gk[i] # x) <=> (\A i \in 1..Len(c.games) : gk[i] # x)
    BY <1>2, LastKeys
  <2>2. \A x : (\A i \in La : ak[i] # x) <=> (\A i \in 1..Len(c.regions) : ak[i] # x)
    BY <1>2, LastKeys
  <2>3. \A x : (\A i \in Lr : rk[i] # x) <=> (\A i \in 1..n : rk[i] # x)
    BY <1>2, LastKeys
  <2> QED BY <2>1, <2>2, <2>3
<1>6. /\ {j \in DOMAIN c.games : \A k \in DOMAIN c.games : k > j => gk[k] # gk[j]} = Lg
      /\ {j \in DOMAIN c.regions : \A k \in DOMAIN c.regions : k > j => ak[k] # ak[j]} = La
      /\ {j \in DOMAIN c.rules : \A k \in DOMAIN c.rules : k > j => rk[k] # rk[j]} = Lr
  BY <1>2, LastRows
<1> HIDE DEF u, n, Lg, La, Lr, gk, ak, rk
<1>7. ASSUME NEW x
      PROVE  /\ (\A new \in ng : new.game # x) <=> (\A i \in 1..Len(c.games) : c.games[i].game # x)
             /\ (\A new \in na : <<new.game, new.region>> # x)
                <=> (\A i \in 1..Len(c.regions) : <<c.regions[i].game, c.regions[i].region>> # x)
             /\ (\A new \in nr : RouteKey(new) # x) <=> (\A i \in 1..n : RouteKey(c.rules[i]) # x)
  <2>1. (\A new \in ng : new.game # x) <=> (\A i \in 1..Len(c.games) : c.games[i].game # x)
    <3>1. (\A new \in ng : new.game # x) <=> (\A i \in Lg : c.games[i].game # x)
      OBVIOUS
    <3>2. (\A i \in Lg : c.games[i].game # x) <=> (\A i \in Lg : gk[i] # x)
      BY <1>3, <1>4
    <3>3. (\A i \in 1..Len(c.games) : gk[i] # x)
          <=> (\A i \in 1..Len(c.games) : c.games[i].game # x)
      BY <1>3
    <3> QED BY <1>5, <3>1, <3>2, <3>3
  <2>2. (\A new \in na : <<new.game, new.region>> # x)
        <=> (\A i \in 1..Len(c.regions) : <<c.regions[i].game, c.regions[i].region>> # x)
    <3> DEFINE K(i) == <<c.regions[i].game, c.regions[i].region>>
    <3>1. (\A new \in na : <<new.game, new.region>> # x) <=> (\A i \in La : K(i) # x)
      OBVIOUS
    <3>2. \A i \in 1..Len(c.regions) : ak[i] = K(i)
      BY <1>3
    <3> HIDE DEF K
    <3>3. (\A i \in La : K(i) # x) <=> (\A i \in La : ak[i] # x)
      BY <1>4, <3>2
    <3>4. (\A i \in 1..Len(c.regions) : ak[i] # x) <=> (\A i \in 1..Len(c.regions) : K(i) # x)
      BY <3>2
    <3>5. (\A new \in na : <<new.game, new.region>> # x) <=> (\A i \in 1..Len(c.regions) : K(i) # x)
      BY <1>5, <3>1, <3>3, <3>4
    <3> QED BY <3>5 DEF K
  <2>3. (\A new \in nr : RouteKey(new) # x) <=> (\A i \in 1..n : RouteKey(c.rules[i]) # x)
    <3>1. (\A new \in nr : RouteKey(new) # x) <=> (\A i \in Lr : RouteKey(c.rules[i]) # x)
      OBVIOUS
    <3>2. (\A i \in Lr : RouteKey(c.rules[i]) # x) <=> (\A i \in Lr : rk[i] # x)
      BY <1>3, <1>4
    <3>3. (\A i \in 1..n : rk[i] # x) <=> (\A i \in 1..n : RouteKey(c.rules[i]) # x)
      BY <1>3
    <3> QED BY <1>5, <3>1, <3>2, <3>3
  <2> QED BY <2>1, <2>2, <2>3
<1>k. \A row : (\A new \in nr : RouteKey(new) # RouteKey(row)) <=> ~Keyed(c.rules, n, row)
  <2> SUFFICES ASSUME NEW row
               PROVE  (\A new \in nr : RouteKey(new) # RouteKey(row)) <=> ~Keyed(c.rules, n, row)
    OBVIOUS
  <2>1. (\A new \in nr : RouteKey(new) # RouteKey(row))
        <=> (\A i \in 1..n : RouteKey(c.rules[i]) # RouteKey(row))
    BY <1>7
  <2> QED BY <2>1 DEF Keyed
<1>8. saved'.games = {row \in saved.games : \A new \in ng : new.game # row.game}
                     \cup {Store!GameRow(game) : game \in ng}
  <2>1. saved'.games = {row \in saved.games : \A i \in 1..Len(c.games) : c.games[i].game # row.game}
                       \cup {NewGame(c.games[i]) : i \in Lg}
    BY <1>1 DEF RulesPut, GamesOf, Lg
  <2>2. \A game : Store!GameRow(game) = NewGame(game)
    BY DEF Store!GameRow, NewGame, Primary
  <2>3. {Store!GameRow(game) : game \in ng} = {NewGame(c.games[i]) : i \in Lg}
    BY <2>2
  <2>4. {row \in saved.games : \A new \in ng : new.game # row.game}
          = {row \in saved.games : \A i \in 1..Len(c.games) : c.games[i].game # row.game}
    BY <1>7
  <2> QED BY <2>1, <2>3, <2>4
<1>9. saved'.categories = {row \in saved.categories : \A new \in ng : new.game # row.game}
                          \cup UNION {Store!CategoryRows(game) : game \in ng}
  <2>1. saved'.categories =
          {row \in saved.categories : \A i \in 1..Len(c.games) : c.games[i].game # row.game}
          \cup UNION {NewCategories(c.games[i]) : i \in Lg}
    BY <1>1 DEF RulesPut, CategoriesOf, Lg
  <2>2. \A game \in ng : Store!CategoryRows(game) = NewCategories(game)
    <3>1. \A game \in ng : DOMAIN game.categories = 1..Len(game.categories)
      BY <1>2, <1>4, ListFacts
    <3> QED BY <3>1 DEF Store!CategoryRows, NewCategories, NewCategory
  <2>3. {Store!CategoryRows(game) : game \in ng} = {NewCategories(c.games[i]) : i \in Lg}
    BY <2>2
  <2>4. {row \in saved.categories : \A new \in ng : new.game # row.game}
          = {row \in saved.categories : \A i \in 1..Len(c.games) : c.games[i].game # row.game}
    BY <1>7
  <2> QED BY <2>1, <2>3, <2>4
<1>10. saved'.regions = {row \in saved.regions :
                           \A new \in na : <<new.game, new.region>> # <<row.game, row.region>>}
                        \cup na
  <2>1. saved'.regions =
          {row \in saved.regions :
             \A i \in 1..Len(c.regions) :
               <<c.regions[i].game, c.regions[i].region>> # <<row.game, row.region>>}
          \cup na
    BY <1>1 DEF RulesPut, RegionsOf, La
  <2>2. {row \in saved.regions :
           \A new \in na : <<new.game, new.region>> # <<row.game, row.region>>}
          = {row \in saved.regions :
               \A i \in 1..Len(c.regions) :
                 <<c.regions[i].game, c.regions[i].region>> # <<row.game, row.region>>}
    BY <1>7
  <2> QED BY <2>1, <2>2
<1> HIDE DEF ng, na
<1> DEFINE others == {row \in saved'.rules : \A new \in nr : RouteKey(new) # RouteKey(row)}
           left == {row \in saved.rules : \A new \in nr : RouteKey(new) # RouteKey(row)}
<1>11. \A row \in saved'.rules : row \in others <=> ~Keyed(c.rules, n, row)
  BY <1>k
<1>12. others = left
  BY <1>1, <1>k DEF RulesPut
<1>13. {Store!Content(rule) : rule \in saved'.rules \ others} = {Store!Content(rule) : rule \in nr}
  <2>1. \A rule, id : Store!Content(WithId(rule, id)) = Store!Content(rule)
    BY WithIdFields DEF Store!Content, Store!RouteOf, Store!RegionOf
  <2>2. /\ \A row \in saved'.rules : Keyed(c.rules, n, row) =>
             \E i \in Lr : row = WithId(c.rules[i], row.id)
        /\ \A i \in 1..n : \E row \in saved'.rules : RouteKey(row) = RouteKey(c.rules[i])
    BY <1>1 DEF RulesPut, Lr, n
  <2>3. \A row \in saved'.rules \ others : \E i \in Lr : row = WithId(c.rules[i], row.id)
    BY <1>11, <2>2
  <2>4. ASSUME NEW i \in Lr
        PROVE  \E row \in saved'.rules \ others : row = WithId(c.rules[i], row.id)
    <3>1. PICK row \in saved'.rules : RouteKey(row) = RouteKey(c.rules[i])
      BY <1>4, <2>2
    <3>2. Keyed(c.rules, n, row)
      BY <1>4, <3>1 DEF Keyed
    <3>3. PICK j \in Lr : row = WithId(c.rules[j], row.id)
      BY <2>2, <3>2
    <3>4. RouteKey(row) = RouteKey(c.rules[j])
      <4>1. RouteKey(WithId(c.rules[j], row.id)) = RouteKey(c.rules[j])
        BY WithIdFields DEF RouteKey
      <4> QED BY <3>3, <4>1
    <3>5. i = j
      <4>1. rk[i] = RouteKey(c.rules[i]) /\ rk[j] = RouteKey(c.rules[j])
        BY <1>3, <1>4
      <4>2. RouteKey(c.rules[i]) = RouteKey(c.rules[j])
        BY <3>1, <3>4
      <4> QED BY <1>4, <4>1, <4>2
    <3> QED BY <1>11, <3>2, <3>3, <3>5
  <2> HIDE DEF others
  <2>5. \A row \in saved'.rules \ others : \E rule \in nr : Store!Content(row) = Store!Content(rule)
    BY <2>1, <2>3
  <2>6. \A rule \in nr : \E row \in saved'.rules \ others : Store!Content(row) = Store!Content(rule)
    <3>1. \A rule \in nr : \E i \in Lr : rule = c.rules[i]
      OBVIOUS
    <3> QED BY <2>1, <2>4, <3>1
  <2> QED BY <2>5, <2>6
<1>14. \A r, s \in saved'.rules : r.id = s.id => r = s
  BY <1>1 DEF RulesPut, WellFormed
<1>15. \A old \in saved.rules, new \in saved'.rules \ others :
         RouteKey(old) = RouteKey(new) <=> old.id = new.id
  BY <1>1, <1>11 DEF RulesPut
<1>16. \A rule \in nr : rule.node \in saved.nodes
  BY <1>4 DEF NodesThere, n
<1>17. saved'.nodes = saved.nodes
  BY <1>1 DEF RulesPut
<1> HIDE DEF nr
<1>18. Store!PutRows(ng, na, nr)
  BY <1>8, <1>9, <1>10, <1>12, <1>13, <1>14, <1>15, <1>16, <1>17
  DEF Store!PutRows, Store!Others, Store!GameOf, Store!RegionOf, Store!RouteOf, RouteKey
<1> DEFINE ng2 == {c.games[i] : i \in
                     {j \in DOMAIN c.games : \A k \in DOMAIN c.games :
                        k > j => c.games[k].game # c.games[j].game}}
           na2 == {c.regions[i] : i \in
                     {j \in DOMAIN c.regions : \A k \in DOMAIN c.regions :
                        k > j => <<c.regions[k].game, c.regions[k].region>>
                                 # <<c.regions[j].game, c.regions[j].region>>}}
           nr2 == {c.rules[i] : i \in
                     {j \in DOMAIN c.rules : \A k \in DOMAIN c.rules :
                        k > j => <<c.rules[k].source, c.rules[k].external>>
                                 # <<c.rules[j].source, c.rules[j].external>>}}
<1>19. ng2 = ng
  <2>1. {j \in DOMAIN c.games : \A k \in DOMAIN c.games :
           k > j => c.games[k].game # c.games[j].game} = Lg
    BY <1>2, <1>3, <1>6
  <2> QED BY <2>1 DEF ng
<1>20. na2 = na
  <2>1. {j \in DOMAIN c.regions : \A k \in DOMAIN c.regions :
           k > j => <<c.regions[k].game, c.regions[k].region>>
                    # <<c.regions[j].game, c.regions[j].region>>} = La
    <3> DEFINE K(i) == <<c.regions[i].game, c.regions[i].region>>
    <3>1. \A i \in DOMAIN c.regions : ak[i] = K(i)
      BY <1>2, <1>3
    <3> HIDE DEF K
    <3>2. {j \in DOMAIN c.regions : \A k \in DOMAIN c.regions : k > j => K(k) # K(j)} = La
      BY <1>6, <3>1
    <3> QED BY <3>2 DEF K
  <2> QED BY <2>1 DEF na
<1>21. nr2 = nr
  <2>1. {j \in DOMAIN c.rules : \A k \in DOMAIN c.rules :
           k > j => <<c.rules[k].source, c.rules[k].external>>
                    # <<c.rules[j].source, c.rules[j].external>>} = Lr
    <3>1. \A i \in DOMAIN c.rules : rk[i] = RouteKey(c.rules[i])
      BY <1>2, <1>3
    <3>2. {j \in DOMAIN c.rules : \A k \in DOMAIN c.rules :
             k > j => RouteKey(c.rules[k]) # RouteKey(c.rules[j])} = Lr
      BY <1>6, <3>1
    <3> QED BY <3>2 DEF RouteKey
  <2> QED BY <2>1 DEF nr
<1>22. Store!Sync(c)
  <2>1. Store!PutRows(ng2, na2, nr2)
    <3> HIDE DEF ng2, na2, nr2
    <3> QED BY <1>18, <1>19, <1>20, <1>21
  <2> QED BY <2>1 DEF Store!Sync, Store!Latest, Store!GameOf, Store!RegionOf, Store!RouteOf
<1>23. c \in {Normalised(r) : r \in Catalogs("sync")}
  BY DEF Catalogs
<1> QED BY <1>22, <1>23 DEF Store!Next

\* What a commit makes visible is an operation of the abstract catalog.
LEMMA CommitImplements ==
  ASSUME IInv, NEW h \in Handlers, Commit(h)
  PROVE  [Store!Next]_(Store!store)
<1>1. PICK request \in Requests :
        \E k \in 1..Len(Program(request)) :
          /\ Valid(request) /\ IsList(Program(request)[k])
          /\ saved' = Final(saved, Program(request)[k])
          /\ \A i \in 1..Len(Program(request)[k]) :
               ~Refused(Run(saved, Program(request)[k])[i - 1], Program(request)[k][i])
  BY CommitIs
<1>2. PICK k \in 1..Len(Program(request)) :
          /\ Valid(request) /\ IsList(Program(request)[k])
          /\ saved' = Final(saved, Program(request)[k])
          /\ \A i \in 1..Len(Program(request)[k]) :
               ~Refused(Run(saved, Program(request)[k])[i - 1], Program(request)[k][i])
  BY <1>1
<1>3. WellFormed(saved) /\ Typed(request)
  BY CatalogAssumption DEF IInv
<1>4. CASE request.kind = "sync"
  <2>1. Program(request) = SyncProgram(request) /\ TypedSync(request)
    BY <1>3, <1>4 DEF Program, Typed
  <2>2. k = 1
    <3>1. Len(SyncProgram(request)) = 1
      BY <2>1, SyncLists
    <3> QED BY <2>1, <3>1
  <2> DEFINE c == Normalised(request)
             x == SyncProgram(request)[1]
  <2> HIDE DEF c, x
  <2>3. /\ saved' = Final(saved, x)
        /\ \A i \in 1..Len(x) : ~Refused(Run(saved, x)[i - 1], x[i])
    BY <1>2, <2>1, <2>2 DEF x
  <2>4. NodesThere(saved, c)
    BY <1>3, <2>1, <2>3, UnrefusedNodes DEF c, x
  <2>5. Store!Next
    BY <1>2, <1>3, <1>4, <2>1, <2>3, <2>4, SyncImplements DEF c, x
  <2> QED BY <2>5
<1>5. CASE request.kind = "delete"
  <2>1. Program(request) = DeleteProgram(request) /\ TypedDelete(request)
    BY <1>3, <1>5 DEF Program, Typed
  <2>2. k = 1
    <3> DEFINE x == OfIds(request) \o OfExternals(request) \o OfRegions(request)
                    \o FlattenSeq(DropsOfGames(request))
    <3>1. DeleteProgram(request) = <<x>>
      BY <2>1, DeleteLists
    <3> HIDE DEF x
    <3> QED BY <2>1, <3>1, OneIsList
  <2>3. Store!Next
    BY <1>2, <1>3, <1>5, <2>1, <2>2, DeleteImplements
  <2> QED BY <2>3
<1>6. CASE request.kind \in {"create_game", "update_game", "delete_game"}
  <2>1. Program(request) = AdminGameProgram(request) /\ TypedGame(request.game)
    BY <1>3, <1>6 DEF Program, Typed
  <2>2. CASE request.kind \in {"create_game", "update_game"}
    <3>1. Store!Next
      BY <1>2, <1>3, <2>1, <2>2, WriteGameImplements
    <3> QED BY <3>1
  <2>3. CASE request.kind = "delete_game"
    <3>1. Store!Next
      BY <1>2, <1>3, <2>1, <2>3, DropGameImplements
    <3> QED BY <3>1
  <2> QED BY <1>6, <2>2, <2>3
<1>7. CASE request.kind \in {"create_rule", "update_rule", "delete_rule", "delete_node"}
  <2>1. PICK s :
          /\ Program(request) = <<<<s>>>>
          /\ \/ request.kind = "create_rule" /\ s = [do |-> "put_rule", row |-> request.rule]
             \/ /\ request.kind = "update_rule"
                /\ s = [do |-> "set_rule", id |-> request.id, row |-> request.rule]
             \/ request.kind = "delete_rule" /\ s = [do |-> "drop_rule", id |-> request.id]
             \/ request.kind = "delete_node" /\ s = [do |-> "drop_node", node |-> request.node]
    <3>1. CASE request.kind = "create_rule"
      BY <3>1 DEF Program, AdminRuleProgram
    <3>2. CASE request.kind = "update_rule"
      BY <3>2 DEF Program, AdminRuleProgram
    <3>3. CASE request.kind = "delete_rule"
      BY <3>3 DEF Program, AdminRuleProgram
    <3>4. CASE request.kind = "delete_node"
      BY <3>4 DEF Program
    <3> QED BY <1>7, <3>1, <3>2, <3>3, <3>4
  <2>2. k = 1 /\ Program(request)[k] = <<s>>
    BY <2>1, OneIsList
  <2>3. saved' = Executed(saved, s) /\ ~Refused(saved, s)
    BY <1>2, <2>2, OneIs
  <2>4. CASE request.kind = "create_rule"
    <3>1. s.do = "put_rule" /\ s.row = request.rule
      BY <2>1, <2>4
    <3>2. Store!Next
      BY <1>3, <2>3, <2>4, <3>1, CreateRuleImplements
    <3> QED BY <3>2
  <2>5. CASE request.kind = "update_rule"
    <3>1. s.do = "set_rule" /\ s.row = request.rule /\ s.id = request.id
      BY <2>1, <2>5
    <3>2. Store!Next
      BY <1>3, <2>3, <2>5, <3>1, UpdateRuleImplements
    <3> QED BY <3>2
  <2>6. CASE request.kind = "delete_rule"
    <3>1. s.do = "drop_rule"
      BY <2>1, <2>6
    <3> QED BY <1>3, <2>3, <3>1, DeleteRuleImplements
  <2>7. CASE request.kind = "delete_node"
    <3>1. s = [do |-> "drop_node", node |-> request.node]
      BY <2>1, <2>7
    <3> QED BY <1>3, <2>3, <3>1, DeleteNodeImplements
  <2> QED BY <1>7, <2>4, <2>5, <2>6, <2>7
<1> QED BY <1>3, <1>4, <1>5, <1>6, <1>7 DEF Typed

LEMMA RestartImplements ==
  ASSUME IInv, Restart
  PROVE  Store!Seed
<1> DEFINE cs == SeededCategories(saved)
           gs == SeededGames(saved)
<1>1. WellFormed(saved) /\ saved' = Seeded(saved)
  BY DEF Restart, IInv
<1>2. /\ saved'.games = saved.games \cup gs /\ saved'.categories = saved.categories \cup cs
      /\ saved'.regions = saved.regions /\ saved'.rules = saved.rules
      /\ saved'.nodes = saved.nodes
  <2> DEFINE w == Seeded(saved)
  <2>1. /\ w.games = saved.games \cup gs /\ w.categories = saved.categories \cup cs
        /\ w.regions = saved.regions /\ w.rules = saved.rules /\ w.nodes = saved.nodes
    BY <1>1, SeededIs
  <2> HIDE DEF w, gs, cs
  <2> QED BY <1>1, <2>1 DEF w
<1>3. \A row \in saved.games : row.category # None =>
        \E c \in saved'.categories : c.game = row.game /\ c.category = row.category
  <2> SUFFICES ASSUME NEW row \in saved.games, row.category # None
               PROVE  \E c \in saved.categories \cup cs :
                        c.game = row.game /\ c.category = row.category
    BY <1>2
  <2>1. CASE \E c \in saved.categories : <<c.game, c.category>> = <<row.game, row.category>>
    BY <2>1
  <2>2. CASE \A c \in saved.categories : <<c.game, c.category>> # <<row.game, row.category>>
    <3> DEFINE new == [game |-> row.game, category |-> row.category, sort_order |-> 0]
    <3>1. new \in cs
      BY <2>2 DEF SeededCategories
    <3>2. new.game = row.game /\ new.category = row.category
      OBVIOUS
    <3> QED BY <3>1, <3>2
  <2> QED BY <2>1, <2>2
<1>4. \A c \in cs : c.sort_order = 0
                    /\ \E row \in saved.games : row.game = c.game /\ row.category = c.category
  BY DEF SeededCategories
<1>5. \A rule \in saved.rules : \E row \in saved.games \cup gs : row.game = rule.game
  <2> SUFFICES ASSUME NEW rule \in saved.rules, \A row \in saved.games : row.game # rule.game
               PROVE  \E row \in gs : row.game = rule.game
    OBVIOUS
  <2> DEFINE new == [game |-> rule.game, name |-> "seeded", category |-> None]
  <2>1. rule.game \in {row.game : row \in saved.rules} \ {row.game : row \in saved.games}
    OBVIOUS
  <2>2. new \in gs
    BY <2>1 DEF SeededGames
  <2>3. new.game = rule.game
    OBVIOUS
  <2> QED BY <2>2, <2>3
<1>6. \A row \in gs : row.category = None /\ \E rule \in saved.rules : row.game = rule.game
  BY DEF SeededGames
<1> HIDE DEF cs, gs
<1> QED BY <1>2, <1>3, <1>4, <1>5, <1>6 DEF Store!Seed

\* Syncs and deletes are all or nothing: what is committed of the tables changes only as the
\* abstract catalog does, whatever is refused, fails or is rolled back in between.
THEOREM Implements == Spec => ImplementsStore
<1>1. Init => saved.games = {} /\ saved.categories = {} /\ saved.regions = {} /\ saved.rules = {}
  BY DEF Init, Empty
<1>2. IInv /\ [Next]_vars => [Store!Next]_(Store!store)
  <2> SUFFICES ASSUME IInv, [Next]_vars PROVE [Store!Next]_(Store!store)
    OBVIOUS
  <2>1. ASSUME saved' = saved PROVE [Store!Next]_(Store!store)
    BY <2>1 DEF Store!store
  <2>2. ASSUME NEW h \in Handlers, \/ \E request \in Requests : Receive(h, request)
                                   \/ Execute(h) \/ Answer(h)
        PROVE  saved' = saved
    BY <2>2 DEF Receive, Execute, Answer
  <2>3. ASSUME NEW h \in Handlers, Begin(h) PROVE saved' = saved
    BY <2>3 DEF Begin, IInv
  <2>4. ASSUME NEW h \in Handlers, Commit(h) PROVE [Store!Next]_(Store!store)
    BY <2>4, CommitImplements
  <2>5. ASSUME NEW h \in Handlers, Fail(h) PROVE [Store!Next]_(Store!store)
    <3>1. CASE holder # h
      BY <2>1, <2>5, <3>1 DEF Fail
    <3>2. CASE holder = h
      <4> DEFINE w == RolledBack(table)
      <4>1. saved' = w /\ w = [saved EXCEPT !.next_id = table.next_id]
        BY <2>5, <3>2 DEF Fail, RolledBack
      <4>2. WellFormed(saved) /\ WellFormed(table) /\ saved.next_id <= table.next_id
        BY DEF IInv
      <4> HIDE DEF w
      <4>3. /\ w.games = saved.games /\ w.categories = saved.categories
            /\ w.regions = saved.regions /\ w.rules = saved.rules /\ w.nodes = saved.nodes
        BY <4>1, <4>2, RolledBackIs
      <4> QED BY <4>1, <4>3 DEF Store!store
    <3> QED BY <3>1, <3>2
  <2>6. CASE Restart
    BY <2>6, RestartImplements DEF Store!Next
  <2>7. CASE UNCHANGED vars
    BY <2>1, <2>7 DEF vars
  <2> QED BY <2>1, <2>2, <2>3, <2>4, <2>5, <2>6, <2>7 DEF Next
<1> QED BY <1>1, <1>2, Inductive, PTL DEF Spec, ImplementsStore, Store!Spec
=============================================================================
