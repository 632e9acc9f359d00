-------------------------------- MODULE Sums --------------------------------
(***************************************************************************)
(* What a sum over a finite set is worth: facts about SumFunctionOnSet and *)
(* FoldLeft of the community modules, for the modules that add up money or *)
(* points.  The folds are defined by recursion; the facts are proved by    *)
(* descent in the size of the set, from the well-foundedness of < on Nat.  *)
(***************************************************************************)
EXTENDS Integers, Sequences, SequencesExt, FiniteSetTheorems, WellFoundedInduction, TLAPS

\* Induction, without an operator to induct over: a set of numbers of which none is the
\* least is empty.
LEMMA Descent ==
  ASSUME NEW Bad, Bad \subseteq Nat, \A n \in Bad : \E m \in Bad : m < n
  PROVE  Bad = {}
<1> SUFFICES ASSUME Bad # {} PROVE FALSE OBVIOUS
<1>1. PICK x \in Bad : \A y \in Bad : ~(<<y, x>> \in OpToRel(<, Nat))
  BY NatLessThanWellFounded, WFMin
<1>2. \A y \in Bad : ~(y < x) BY <1>1 DEF OpToRel
<1> QED BY <1>2

\* A sum is the value of the fold at the set.
First(s) == CHOOSE x \in s : TRUE
Summand(g, f, s) == IF s = {} THEN 0 ELSE f[First(s)] + g[s \ {First(s)}]
IsFold(g, f, T) == g = [s \in SUBSET T |-> IF s = {} THEN 0
                                           ELSE f[First(s)] + g[s \ {First(s)}]]
SumOn(f, T) == SumFunctionOnSet(f, T)

LEMMA SumUnfolds == ASSUME NEW f, NEW T
  PROVE SumOn(f, T) = (CHOOSE g : IsFold(g, f, T))[T]
BY DEF SumOn, SumFunctionOnSet, FoldFunctionOnSet, MapThenFoldSet, IsFold, First

LEMMA FirstIn == ASSUME NEW s, s # {} PROVE First(s) \in s
BY DEF First

LEMMA FoldsAgree ==
  ASSUME NEW f, NEW T, IsFiniteSet(T), NEW U \in SUBSET T, NEW g, NEW h,
         IsFold(g, f, T), IsFold(h, f, U)
  PROVE  g[U] = h[U]
<1> DEFINE Bad == {n \in Nat : \E s \in SUBSET U : Cardinality(s) = n /\ g[s] # h[s]}
<1>1. \A s \in SUBSET U : IsFiniteSet(s) /\ Cardinality(s) \in Nat
  BY FS_Subset, FS_CardinalityType
<1>2. ASSUME NEW n \in Bad PROVE \E m \in Bad : m < n
  <2>1. PICK s \in SUBSET U : Cardinality(s) = n /\ g[s] # h[s] BY <1>2
  <2>2. s # {} BY <2>1 DEF IsFold
  <2> DEFINE x == First(s)
             r == s \ {x}
  <2>3. x \in s BY <2>2, FirstIn
  <2>4. Cardinality(r) = n - 1 /\ Cardinality(r) \in Nat /\ r \in SUBSET U /\ n \in Nat
    BY <1>1, <2>1, <2>3, FS_RemoveElement
  <2>5. g[s] = f[x] + g[r] /\ h[s] = f[x] + h[r] BY <2>2 DEF IsFold
  <2>6. Cardinality(r) \in Bad BY <2>1, <2>4, <2>5
  <2>7. Cardinality(r) < n BY <2>4
  <2> QED BY <2>6, <2>7
<1>3. Bad = {}
  <2>1. Bad \subseteq Nat OBVIOUS
  <2> HIDE DEF Bad
  <2> QED BY <1>2, <2>1, Descent
<1> QED BY <1>1, <1>3

\* There is a function that the fold is the value of.
LEMMA FoldExists ==
  ASSUME NEW f, NEW T, IsFiniteSet(T)
  PROVE  \E g : IsFold(g, f, T)
<1> DEFINE Small(n) == {s \in SUBSET T : Cardinality(s) <= n}
           Good(g, n) == g = [s \in Small(n) |-> Summand(g, f, s)]
           Bad == {n \in Nat : ~\E g : Good(g, n)}
<1>1. \A s \in SUBSET T : IsFiniteSet(s) /\ Cardinality(s) \in Nat /\ Cardinality(s) <= Cardinality(T)
  BY FS_Subset, FS_CardinalityType
<1>2. \A s \in SUBSET T : s # {} => /\ Cardinality(s \ {First(s)}) = Cardinality(s) - 1
                                    /\ s \ {First(s)} \in SUBSET T
  BY <1>1, FirstIn, FS_RemoveElement
<1>3. ASSUME NEW n \in Bad PROVE \E m \in Bad : m < n
  <2>1. n # 0
    <3>1. \A s \in Small(0) : s = {} BY <1>1, FS_EmptySet
    <3>2. Good([s \in Small(0) |-> 0], 0) BY <3>1 DEF Summand
    <3> QED BY <1>3, <3>2
  <2>2. n \in Nat /\ n - 1 \in Nat /\ n - 1 < n BY <1>3, <2>1
  <2>3. SUFFICES ASSUME n - 1 \notin Bad PROVE FALSE BY <2>2
  <2>4. PICK g : Good(g, n - 1) BY <2>2, <2>3
  <2> DEFINE h == [s \in Small(n) |-> Summand(g, f, s)]
  <2>5. \A s \in Small(n) : s # {} => s \ {First(s)} \in Small(n - 1) BY <1>1, <1>2, <2>2
  <2>6. \A s \in Small(n - 1) : s \in Small(n) /\ h[s] = g[s]
    <3>1. \A s \in Small(n - 1) : s \in Small(n) BY <1>1, <2>2
    <3>2. \A s \in Small(n - 1) : g[s] = Summand(g, f, s) BY <2>4
    <3>3. \A s \in Small(n) : h[s] = Summand(g, f, s) OBVIOUS
    <3> HIDE DEF Small, h
    <3> QED BY <3>1, <3>2, <3>3
  <2>7. \A s \in Small(n) : Summand(h, f, s) = Summand(g, f, s) BY <2>5, <2>6 DEF Summand
  <2>8. Good(h, n) BY <2>7
  <2> QED BY <1>3, <2>8
<1>4. Bad = {}
  <2>1. Bad \subseteq Nat OBVIOUS
  <2> HIDE DEF Bad
  <2> QED BY <1>3, <2>1, Descent
<1>5. Small(Cardinality(T)) = SUBSET T BY <1>1
<1>6. Cardinality(T) \in Nat BY <1>1
<1>7. PICK g : Good(g, Cardinality(T)) BY <1>4, <1>6
<1>8. g = [s \in SUBSET T |-> Summand(g, f, s)] BY <1>5, <1>7
<1>9. IsFold(g, f, T) BY <1>8 DEF IsFold, Summand
<1> QED BY <1>9

LEMMA SumFirst ==
  ASSUME NEW f, NEW T, IsFiniteSet(T)
  PROVE  SumOn(f, T) = IF T = {} THEN 0 ELSE f[First(T)] + SumOn(f, T \ {First(T)})
<1> DEFINE x == First(T)
           U == T \ {x}
           g == CHOOSE g : IsFold(g, f, T)
           h == CHOOSE h : IsFold(h, f, U)
<1>1. IsFiniteSet(U) BY FS_Subset
<1>2. IsFold(g, f, T) /\ IsFold(h, f, U) BY <1>1, FoldExists
<1>3. SumOn(f, T) = g[T] /\ SumOn(f, U) = h[U] BY SumUnfolds
<1> HIDE DEF g, h
<1>4. g[U] = h[U] BY <1>2, FoldsAgree
<1>5. g[T] = IF T = {} THEN 0 ELSE f[x] + g[U] BY <1>2 DEF IsFold
<1> QED BY <1>3, <1>4, <1>5

\* The order in which a fold adds does not matter.
LEMMA SumRemove ==
  ASSUME NEW f, NEW T, IsFiniteSet(T), \A t \in T : f[t] \in Int
  PROVE  /\ SumOn(f, T) \in Int
         /\ \A x \in T : SumOn(f, T) = f[x] + SumOn(f, T \ {x})
<1> DEFINE Fine(U) == SumOn(f, U) \in Int /\ \A x \in U : SumOn(f, U) = f[x] + SumOn(f, U \ {x})
           Bad == {n \in Nat : \E U \in SUBSET T : Cardinality(U) = n /\ ~Fine(U)}
<1>1. \A U \in SUBSET T : IsFiniteSet(U) /\ Cardinality(U) \in Nat BY FS_Subset, FS_CardinalityType
<1>2. \A U \in SUBSET T : SumOn(f, U) = IF U = {} THEN 0 ELSE f[First(U)] + SumOn(f, U \ {First(U)})
  BY <1>1, SumFirst
<1>3. ASSUME NEW n \in Bad PROVE \E m \in Bad : m < n
  <2>1. PICK U \in SUBSET T : Cardinality(U) = n /\ ~Fine(U) BY <1>3
  <2>2. SUFFICES ASSUME \A m \in Bad : ~(m < n) PROVE FALSE OBVIOUS
  <2>3. n \in Nat OBVIOUS
  <2>4. \A V \in SUBSET T : Cardinality(V) < n => Fine(V) BY <1>1, <2>2
  <2> DEFINE c == First(U)
  <2>5. U # {}
    <3>1. U = {} => SumOn(f, U) = 0 BY <1>2
    <3>2. U = {} => Fine(U) BY <3>1
    <3> QED BY <2>1, <3>2
  <2>6. c \in U BY <2>5, FirstIn
  <2>7. ASSUME NEW x \in U
        PROVE  /\ U \ {x} \in SUBSET T /\ Cardinality(U \ {x}) = n - 1
               /\ Cardinality(U \ {x}) < n /\ Fine(U \ {x})
    <3>1. Cardinality(U \ {x}) = n - 1 BY <1>1, <2>1, FS_RemoveElement
    <3>2. Cardinality(U \ {x}) < n BY <2>3, <3>1
    <3> QED BY <2>4, <3>1, <3>2
  <2>8. SumOn(f, U) = f[c] + SumOn(f, U \ {c}) /\ SumOn(f, U \ {c}) \in Int /\ f[c] \in Int
    BY <1>2, <2>5, <2>6, <2>7
  <2>9. ASSUME NEW x \in U PROVE SumOn(f, U) = f[x] + SumOn(f, U \ {x})
    <3>1. CASE x = c BY <2>8, <3>1
    <3>2. CASE x # c
      <4> DEFINE W == (U \ {c}) \ {x}
      <4>1. W = (U \ {x}) \ {c} /\ W \in SUBSET T OBVIOUS
      <4>2. SumOn(f, U \ {c}) = f[x] + SumOn(f, W) BY <2>6, <2>7, <3>2
      <4>3. SumOn(f, U \ {x}) = f[c] + SumOn(f, W)
        <5>1. c \in U \ {x} /\ Fine(U \ {x}) BY <2>6, <2>7, <3>2
        <5>2. SumOn(f, U \ {x}) = f[c] + SumOn(f, (U \ {x}) \ {c}) BY <5>1
        <5> QED BY <4>1, <5>2
      <4>4. SumOn(f, W) \in Int
        <5>1. Cardinality(W) = Cardinality(U \ {c}) - 1 /\ Cardinality(U \ {c}) = n - 1
          BY <1>1, <2>6, <2>7, <3>2, FS_RemoveElement
        <5>2. Cardinality(W) < n BY <2>3, <5>1
        <5> QED BY <2>4, <4>1, <5>2
      <4>5. f[x] \in Int OBVIOUS
      <4> HIDE DEF W
      <4> QED BY <2>8, <4>2, <4>3, <4>4, <4>5
    <3> QED BY <3>1, <3>2
  <2>10. SumOn(f, U) \in Int
    <3> HIDE DEF c
    <3> QED BY <2>8
  <2> QED BY <2>1, <2>9, <2>10
<1>4. Bad = {}
  <2>1. Bad \subseteq Nat OBVIOUS
  <2> HIDE DEF Bad
  <2> QED BY <1>3, <2>1, Descent
<1> QED BY <1>1, <1>4

LEMMA SumEmpty == ASSUME NEW f PROVE SumOn(f, {}) = 0
BY SumFirst, FS_EmptySet

LEMMA SumInt == ASSUME NEW f, NEW T, IsFiniteSet(T), \A t \in T : f[t] \in Int
                PROVE  SumOn(f, T) \in Int
BY SumRemove

\* A relation between summands is one between sums.
LEMMA SumsCompare ==
  ASSUME NEW f, NEW g, NEW T, IsFiniteSet(T), \A t \in T : f[t] \in Int /\ g[t] \in Int
  PROVE  /\ (\A t \in T : f[t] = g[t]) => SumOn(f, T) = SumOn(g, T)
         /\ (\A t \in T : f[t] <= g[t]) => SumOn(f, T) <= SumOn(g, T)
<1> DEFINE Fine(U) == /\ (\A t \in U : f[t] = g[t]) => SumOn(f, U) = SumOn(g, U)
                      /\ (\A t \in U : f[t] <= g[t]) => SumOn(f, U) <= SumOn(g, U)
           Bad == {n \in Nat : \E U \in SUBSET T : Cardinality(U) = n /\ ~Fine(U)}
<1>1. \A U \in SUBSET T : IsFiniteSet(U) /\ Cardinality(U) \in Nat BY FS_Subset, FS_CardinalityType
<1>2. ASSUME NEW n \in Bad PROVE \E m \in Bad : m < n
  <2>1. PICK U \in SUBSET T : Cardinality(U) = n /\ ~Fine(U) BY <1>2
  <2>2. U # {} BY <2>1, SumEmpty
  <2>3. PICK x \in U : TRUE BY <2>2
  <2> DEFINE r == U \ {x}
  <2>4. Cardinality(r) = n - 1 /\ Cardinality(r) \in Nat /\ r \in SUBSET T /\ n \in Nat
    BY <1>1, <2>1, FS_RemoveElement
  <2>5. /\ SumOn(f, U) = f[x] + SumOn(f, r) /\ SumOn(g, U) = g[x] + SumOn(g, r)
        /\ SumOn(f, r) \in Int /\ SumOn(g, r) \in Int /\ f[x] \in Int /\ g[x] \in Int
    BY <1>1, <2>4, SumRemove
  <2>6. ~Fine(r)
    <3> SUFFICES ASSUME Fine(r) PROVE Fine(U) BY <2>1
    <3>1. ASSUME \A t \in U : f[t] = g[t] PROVE SumOn(f, U) = SumOn(g, U)
      BY <2>5, <3>1
    <3>2. ASSUME \A t \in U : f[t] <= g[t] PROVE SumOn(f, U) <= SumOn(g, U)
      <4>1. f[x] <= g[x] /\ SumOn(f, r) <= SumOn(g, r) BY <3>2
      <4> QED BY <2>5, <4>1
    <3> QED BY <3>1, <3>2
  <2>7. Cardinality(r) \in Bad BY <2>4, <2>6
  <2>8. Cardinality(r) < n BY <2>4
  <2> QED BY <2>7, <2>8
<1>3. Bad = {}
  <2>1. Bad \subseteq Nat OBVIOUS
  <2> HIDE DEF Bad
  <2> QED BY <1>2, <2>1, Descent
<1> QED BY <1>1, <1>3

\* One summand changes.
LEMMA SumChanges ==
  ASSUME NEW f, NEW g, NEW T, IsFiniteSet(T), \A t \in T : f[t] \in Int /\ g[t] \in Int,
         NEW x \in T, \A t \in T \ {x} : g[t] = f[t]
  PROVE  SumOn(g, T) = SumOn(f, T) - f[x] + g[x]
<1> DEFINE r == T \ {x}
<1>1. IsFiniteSet(r) BY FS_Subset
<1>2. SumOn(f, T) = f[x] + SumOn(f, r) /\ SumOn(g, T) = g[x] + SumOn(g, r) BY SumRemove
<1>3. SumOn(f, r) \in Int BY <1>1, SumInt
<1>4. SumOn(f, r) = SumOn(g, r) BY <1>1, SumsCompare
<1>5. f[x] \in Int /\ g[x] \in Int OBVIOUS
<1> HIDE DEF r
<1> QED BY <1>2, <1>3, <1>4, <1>5

\* Some summands are one larger.
LEMMA SumMarks ==
  ASSUME NEW f, NEW g, NEW T, IsFiniteSet(T), NEW M \in SUBSET T, \A t \in T : f[t] \in Int,
         \A t \in T : g[t] = IF t \in M THEN f[t] + 1 ELSE f[t]
  PROVE  SumOn(g, T) = SumOn(f, T) + Cardinality(M)
<1> DEFINE Bad == {n \in Nat : \E U \in SUBSET T :
                     Cardinality(U) = n /\ SumOn(g, U) # SumOn(f, U) + Cardinality(M \cap U)}
<1>0. \A t \in T : g[t] \in Int OBVIOUS
<1>1. \A U \in SUBSET T : /\ IsFiniteSet(U) /\ Cardinality(U) \in Nat
                         /\ IsFiniteSet(M \cap U) /\ Cardinality(M \cap U) \in Nat
  BY FS_Subset, FS_CardinalityType
<1>2. ASSUME NEW n \in Bad PROVE \E m \in Bad : m < n
  <2>1. PICK U \in SUBSET T : Cardinality(U) = n /\ SumOn(g, U) # SumOn(f, U) + Cardinality(M \cap U)
    BY <1>2
  <2>2. U # {}
    <3> SUFFICES ASSUME U = {} PROVE FALSE OBVIOUS
    <3>1. SumOn(g, U) = 0 /\ SumOn(f, U) = 0 BY SumEmpty
    <3>2. M \cap U = {} OBVIOUS
    <3>3. Cardinality(M \cap U) = 0 BY <3>2, FS_EmptySet
    <3> QED BY <2>1, <3>1, <3>3
  <2>3. PICK x \in U : TRUE BY <2>2
  <2> DEFINE r == U \ {x}
  <2>4. Cardinality(r) = n - 1 /\ Cardinality(r) \in Nat /\ r \in SUBSET T /\ n \in Nat
    BY <1>1, <2>1, FS_RemoveElement
  <2>5. /\ SumOn(f, U) = f[x] + SumOn(f, r) /\ SumOn(g, U) = g[x] + SumOn(g, r)
        /\ SumOn(f, r) \in Int /\ SumOn(g, r) \in Int /\ f[x] \in Int /\ g[x] \in Int
    <3>1. IsFiniteSet(U) /\ IsFiniteSet(r) BY <1>1, <2>4
    <3>2. \A t \in U : f[t] \in Int /\ g[t] \in Int BY <1>0
    <3>3. SumOn(f, r) \in Int /\ SumOn(g, r) \in Int BY <3>1, <3>2, SumInt
    <3>4. SumOn(f, U) = f[x] + SumOn(f, r) BY <3>1, <3>2, SumRemove
    <3>5. SumOn(g, U) = g[x] + SumOn(g, r) BY <3>1, <3>2, SumRemove
    <3> QED BY <3>2, <3>3, <3>4, <3>5
  <2>6. Cardinality(M \cap U) = IF x \in M THEN Cardinality(M \cap r) + 1 ELSE Cardinality(M \cap r)
    <3>1. IsFiniteSet(M \cap r) BY <1>1, <2>4
    <3>2. CASE x \in M
      <4>1. M \cap U = (M \cap r) \cup {x} /\ x \notin M \cap r BY <3>2
      <4> QED BY <3>1, <3>2, <4>1, FS_AddElement
    <3>3. CASE x \notin M
      <4>1. M \cap U = M \cap r BY <3>3
      <4> QED BY <3>3, <4>1
    <3> QED BY <3>2, <3>3
  <2>7. g[x] = IF x \in M THEN f[x] + 1 ELSE f[x] OBVIOUS
  <2>8. Cardinality(M \cap r) \in Nat BY <1>1, <2>4
  <2>9. SumOn(g, r) # SumOn(f, r) + Cardinality(M \cap r)
    <3> HIDE DEF r
    <3> QED BY <2>1, <2>5, <2>6, <2>7, <2>8
  <2>10. Cardinality(r) \in Bad BY <2>4, <2>9
  <2>11. Cardinality(r) < n BY <2>4
  <2> QED BY <2>10, <2>11
<1>3. Bad = {}
  <2>1. Bad \subseteq Nat OBVIOUS
  <2> HIDE DEF Bad
  <2> QED BY <1>2, <2>1, Descent
<1>4. Cardinality(T) \notin Bad BY <1>3
<1>5. T \in SUBSET T /\ M \cap T = M /\ Cardinality(T) \in Nat BY <1>1
<1> QED BY <1>4, <1>5

LEMMA SumZero ==
  ASSUME NEW f, NEW T, IsFiniteSet(T), \A t \in T : f[t] = 0
  PROVE  SumOn(f, T) = 0
<1> DEFINE Bad == {n \in Nat : \E U \in SUBSET T : Cardinality(U) = n /\ SumOn(f, U) # 0}
<1>1. \A U \in SUBSET T : IsFiniteSet(U) /\ Cardinality(U) \in Nat BY FS_Subset, FS_CardinalityType
<1>2. ASSUME NEW n \in Bad PROVE \E m \in Bad : m < n
  <2>1. PICK U \in SUBSET T : Cardinality(U) = n /\ SumOn(f, U) # 0 BY <1>2
  <2>2. U # {} BY <2>1, SumEmpty
  <2>3. PICK x \in U : TRUE BY <2>2
  <2> DEFINE r == U \ {x}
  <2>4. Cardinality(r) = n - 1 /\ Cardinality(r) \in Nat /\ r \in SUBSET T /\ n \in Nat
    BY <1>1, <2>1, FS_RemoveElement
  <2>5. SumOn(f, U) = 0 + SumOn(f, r) /\ SumOn(f, r) \in Int BY <1>1, <2>4, SumRemove
  <2>6. Cardinality(r) \in Bad BY <2>1, <2>4, <2>5
  <2>7. Cardinality(r) < n BY <2>4
  <2> QED BY <2>6, <2>7
<1>3. Bad = {}
  <2>1. Bad \subseteq Nat OBVIOUS
  <2> HIDE DEF Bad
  <2> QED BY <1>2, <2>1, Descent
<1> QED BY <1>1, <1>3

LEMMA SumNat ==
  ASSUME NEW f, NEW T, IsFiniteSet(T), \A t \in T : f[t] \in Nat
  PROVE  SumOn(f, T) \in Nat /\ \A x \in T : f[x] <= SumOn(f, T)
<1> DEFINE z == [t \in T |-> 0]
<1>1. ASSUME NEW U \in SUBSET T PROVE SumOn(f, U) \in Nat
  <2>1. IsFiniteSet(U) /\ \A t \in U : f[t] \in Int /\ z[t] \in Int /\ z[t] = 0 /\ z[t] <= f[t]
    BY FS_Subset
  <2> HIDE DEF z
  <2>2. SumOn(z, U) = 0 /\ SumOn(z, U) <= SumOn(f, U) /\ SumOn(f, U) \in Int
    BY <2>1, SumZero, SumsCompare, SumInt
  <2> QED BY <2>2
<1>2. ASSUME NEW x \in T PROVE f[x] <= SumOn(f, T)
  <2>1. SumOn(f, T) = f[x] + SumOn(f, T \ {x}) BY SumRemove
  <2>2. SumOn(f, T \ {x}) \in Nat /\ f[x] \in Nat BY <1>1
  <2> QED BY <2>1, <2>2
<1> QED BY <1>1, <1>2

\* What is left of a fold that starts from the greatest element: the same sum.
LEMMA FoldIsSum ==
  ASSUME NEW f, NEW T, IsFiniteSet(T), \A t \in T : f[t] \in Int,
         \A s \in SUBSET T : s # {} => Max(s) \in s,
         NEW g, \A s \in SUBSET T : g[s] = IF s = {} THEN 0 ELSE g[s \ {Max(s)}] + f[Max(s)]
  PROVE  g[T] = SumOn(f, T)
<1> DEFINE Bad == {n \in Nat : \E U \in SUBSET T : Cardinality(U) = n /\ g[U] # SumOn(f, U)}
<1>1. \A U \in SUBSET T : IsFiniteSet(U) /\ Cardinality(U) \in Nat BY FS_Subset, FS_CardinalityType
<1>2. ASSUME NEW n \in Bad PROVE \E m \in Bad : m < n
  <2>1. PICK U \in SUBSET T : Cardinality(U) = n /\ g[U] # SumOn(f, U) BY <1>2
  <2>2. U # {} BY <2>1, SumEmpty
  <2> DEFINE x == Max(U)
             r == U \ {x}
  <2>3. x \in U /\ g[U] = g[r] + f[x] BY <2>2
  <2>4. Cardinality(r) = n - 1 /\ Cardinality(r) \in Nat /\ r \in SUBSET T /\ n \in Nat
    BY <1>1, <2>1, <2>3, FS_RemoveElement
  <2>5. /\ SumOn(f, U) = f[x] + SumOn(f, r) /\ SumOn(f, r) \in Int /\ f[x] \in Int
    BY <1>1, <2>3, <2>4, SumRemove
  <2>6. g[r] # SumOn(f, r)
    <3> HIDE DEF x, r
    <3> QED BY <2>1, <2>3, <2>5
  <2>7. Cardinality(r) \in Bad BY <2>4, <2>6
  <2>8. Cardinality(r) < n BY <2>4
  <2> QED BY <2>7, <2>8
<1>3. Bad = {}
  <2>1. Bad \subseteq Nat OBVIOUS
  <2> HIDE DEF Bad
  <2> QED BY <1>2, <2>1, Descent
<1> QED BY <1>1, <1>3

\* Sequences are folded from their last element.
LEMMA LastIn == ASSUME NEW n \in Nat, NEW s \in SUBSET (1..n), s # {} PROVE Max(s) \in s
<1> DEFINE Bad == {m \in Nat : \E x \in s : m = n - x}
<1>1. PICK x \in s : TRUE OBVIOUS
<1>2. n - x \in Bad OBVIOUS
<1>3. \E m \in Bad : \A k \in Bad : ~(k < m)
  <2>1. Bad \subseteq Nat /\ Bad # {} BY <1>2
  <2> HIDE DEF Bad
  <2> QED BY <2>1, Descent
<1>4. \E y \in s : \A z \in s : y >= z
  <2>1. PICK m \in Bad : \A k \in Bad : ~(k < m) BY <1>3
  <2>2. PICK y \in s : m = n - y BY <2>1
  <2>3. ASSUME NEW z \in s PROVE y >= z
    <3>1. n - z \in Bad OBVIOUS
    <3>2. ~(n - z < n - y) BY <2>1, <2>2, <3>1
    <3> QED BY <3>2
  <2> QED BY <2>3
<1> QED BY <1>4 DEF Max

LEMMA SeqSum ==
  ASSUME NEW n \in Nat, NEW f, \A i \in 1..n : f[i] \in Int
  PROVE  \A s \in SUBSET (1..n) :
            /\ SumOn(f, s) \in Int
            /\ s # {} => Max(s) \in s
            /\ SumOn(f, s) = IF s = {} THEN 0 ELSE SumOn(f, s \ {Max(s)}) + f[Max(s)]
<1> DEFINE T == 1..n
<1>1. IsFiniteSet(T) BY FS_Interval
<1>2. \A s \in SUBSET T : s # {} => Max(s) \in s BY LastIn
<1>3. \A s \in SUBSET T : /\ IsFiniteSet(s) /\ \A t \in s : f[t] \in Int BY <1>1, FS_Subset
<1>4. ASSUME NEW s \in SUBSET T
      PROVE  /\ SumOn(f, s) \in Int
             /\ SumOn(f, s) = IF s = {} THEN 0 ELSE SumOn(f, s \ {Max(s)}) + f[Max(s)]
  <2>0. SumOn(f, s) \in Int BY <1>3, SumInt
  <2>1. CASE s = {} BY <2>0, <2>1, SumEmpty
  <2>2. CASE s # {}
    <3>1. Max(s) \in s BY <1>2, <2>2
    <3>2. SumOn(f, s) = f[Max(s)] + SumOn(f, s \ {Max(s)})
      <4>1. IsFiniteSet(s) /\ \A t \in s : f[t] \in Int BY <1>3
      <4>2. \A t \in s : SumOn(f, s) = f[t] + SumOn(f, s \ {t}) BY <4>1, SumRemove
      <4> QED BY <3>1, <4>2
    <3>3. SumOn(f, s \ {Max(s)}) \in Int
      <4>1. s \ {Max(s)} \in SUBSET T OBVIOUS
      <4> QED BY <1>3, <4>1, SumInt
    <3>4. f[Max(s)] \in Int BY <3>1
    <3> DEFINE a == f[Max(s)]
               b == SumOn(f, s \ {Max(s)})
    <3> HIDE DEF a, b
    <3>5. a + b = b + a BY <3>3, <3>4 DEF a, b
    <3> QED BY <2>0, <2>2, <3>2, <3>5 DEF a, b
  <2> QED BY <2>1, <2>2
<1> QED BY <1>2, <1>4

LEMMA SeqFoldIs ==
  ASSUME NEW n \in Nat, NEW f, \A i \in 1..n : f[i] \in Int,
         NEW g, \A s \in SUBSET (1..n) : g[s] = IF s = {} THEN 0 ELSE g[s \ {Max(s)}] + f[Max(s)]
  PROVE  g[1..n] = SumOn(f, 1..n)
<1> DEFINE T == 1..n
<1>1. IsFiniteSet(T) BY FS_Interval
<1>2. \A s \in SUBSET T : s # {} => Max(s) \in s BY SeqSum
<1>3. \A s \in SUBSET T : g[s] = IF s = {} THEN 0 ELSE g[s \ {Max(s)}] + f[Max(s)] OBVIOUS
<1>4. \A i \in T : f[i] \in Int OBVIOUS
<1> HIDE DEF T
<1>5. g[T] = SumOn(f, T) BY <1>1, <1>2, <1>3, <1>4, FoldIsSum
<1> QED BY <1>5 DEF T

IsSeqFold(g, f, T) == g = [s \in SUBSET T |-> IF s = {} THEN 0 ELSE g[s \ {Max(s)}] + f[Max(s)]]

LEMMA SeqFold ==
  ASSUME NEW n \in Nat, NEW f, \A i \in 1..n : f[i] \in Int
  PROVE  (CHOOSE g : IsSeqFold(g, f, 1..n))[1..n] = SumOn(f, 1..n)
<1> DEFINE w == [s \in SUBSET (1..n) |-> SumOn(f, s)]
           g == CHOOSE g : IsSeqFold(g, f, 1..n)
<1>1. IsSeqFold(w, f, 1..n) BY SeqSum DEF IsSeqFold
<1>2. IsSeqFold(g, f, 1..n) BY <1>1
<1> HIDE DEF g
<1>3. g[1..n] = SumOn(f, 1..n) BY <1>2, SeqFoldIs DEF IsSeqFold
<1> QED BY <1>3 DEF g

-----------------------------------------------------------------------------
(* Sums of products, of quotients and of parts. *)

LEMMA SumScales ==
  ASSUME NEW f, NEW h, NEW T, IsFiniteSet(T), NEW b \in Int,
         \A t \in T : f[t] \in Int /\ h[t] = b * f[t]
  PROVE  SumOn(h, T) = b * SumOn(f, T)
<1> DEFINE Bad == {n \in Nat : \E U \in SUBSET T : Cardinality(U) = n /\ SumOn(h, U) # b * SumOn(f, U)}
<1>1. \A U \in SUBSET T : IsFiniteSet(U) /\ Cardinality(U) \in Nat BY FS_Subset, FS_CardinalityType
<1>2. ASSUME NEW n \in Bad PROVE \E m \in Bad : m < n
  <2>1. PICK U \in SUBSET T : Cardinality(U) = n /\ SumOn(h, U) # b * SumOn(f, U) BY <1>2
  <2>2. U # {} BY <2>1, SumEmpty
  <2>3. PICK x \in U : TRUE BY <2>2
  <2> DEFINE r == U \ {x}
  <2>4. Cardinality(r) = n - 1 /\ Cardinality(r) \in Nat /\ r \in SUBSET T /\ n \in Nat
    BY <1>1, <2>1, FS_RemoveElement
  <2>5. f[x] \in Int /\ h[x] = b * f[x] /\ \A t \in U : f[t] \in Int /\ h[t] \in Int OBVIOUS
  <2>6. /\ SumOn(f, U) = f[x] + SumOn(f, r) /\ SumOn(h, U) = h[x] + SumOn(h, r)
        /\ SumOn(f, r) \in Int
    <3>1. IsFiniteSet(U) /\ IsFiniteSet(r) /\ x \in U BY <1>1, <2>4
    <3>2. \A t \in U : f[t] \in Int BY <2>5
    <3>3. \A t \in U : h[t] \in Int BY <2>5
    <3>4. SumOn(f, U) = f[x] + SumOn(f, r) BY <3>1, <3>2, SumRemove
    <3>5. SumOn(h, U) = h[x] + SumOn(h, r) BY <3>1, <3>3, SumRemove
    <3>6. SumOn(f, r) \in Int BY <3>1, <3>2, SumInt
    <3> QED BY <3>4, <3>5, <3>6
  <2>7. SumOn(h, r) # b * SumOn(f, r)
    <3> HIDE DEF r
    <3> SUFFICES ASSUME SumOn(h, r) = b * SumOn(f, r) PROVE SumOn(h, U) = b * SumOn(f, U) BY <2>1
    <3> QED BY <2>5, <2>6
  <2>8. Cardinality(r) \in Bad BY <2>4, <2>7
  <2>9. Cardinality(r) < n BY <2>4
  <2> QED BY <2>8, <2>9
<1>3. Bad = {}
  <2>1. Bad \subseteq Nat OBVIOUS
  <2> HIDE DEF Bad
  <2> QED BY <1>2, <2>1, Descent
<1> QED BY <1>1, <1>3

\* Summands that are sums.
LEMMA SumsAdd ==
  ASSUME NEW f, NEW g, NEW h, NEW T, IsFiniteSet(T),
         \A t \in T : f[t] \in Int /\ g[t] \in Int /\ h[t] = f[t] + g[t]
  PROVE  SumOn(h, T) = SumOn(f, T) + SumOn(g, T)
<1> DEFINE Bad == {n \in Nat : \E U \in SUBSET T : /\ Cardinality(U) = n
                                                  /\ SumOn(h, U) # SumOn(f, U) + SumOn(g, U)}
<1>1. \A U \in SUBSET T : IsFiniteSet(U) /\ Cardinality(U) \in Nat BY FS_Subset, FS_CardinalityType
<1>2. ASSUME NEW n \in Bad PROVE \E m \in Bad : m < n
  <2>1. PICK U \in SUBSET T : Cardinality(U) = n /\ SumOn(h, U) # SumOn(f, U) + SumOn(g, U) BY <1>2
  <2>2. U # {}
    <3>1. SumOn(h, {}) = 0 /\ SumOn(f, {}) = 0 /\ SumOn(g, {}) = 0 /\ 0 = 0 + 0
      BY SumEmpty
    <3> HIDE DEF Bad
    <3>2. U = {} => SumOn(h, U) = SumOn(f, U) + SumOn(g, U) BY <3>1
    <3> QED BY <2>1, <3>2
  <2>3. PICK x \in U : TRUE BY <2>2
  <2> DEFINE r == U \ {x}
  <2>4. Cardinality(r) = n - 1 /\ Cardinality(r) \in Nat /\ r \in SUBSET T /\ n \in Nat
    BY <1>1, <2>1, FS_RemoveElement
  <2>5. \A t \in T : f[t] \in Int /\ g[t] \in Int /\ h[t] \in Int /\ h[t] = f[t] + g[t] OBVIOUS
  <2>6. SumOn(f, U) = f[x] + SumOn(f, r) /\ SumOn(f, r) \in Int BY <1>1, <2>4, <2>5, SumRemove
  <2>7. SumOn(g, U) = g[x] + SumOn(g, r) /\ SumOn(g, r) \in Int BY <1>1, <2>4, <2>5, SumRemove
  <2>8. SumOn(h, U) = h[x] + SumOn(h, r) /\ SumOn(h, r) \in Int BY <1>1, <2>4, <2>5, SumRemove
  <2>9. SumOn(h, r) # SumOn(f, r) + SumOn(g, r)
    <3> HIDE DEF r
    <3> QED BY <2>1, <2>5, <2>6, <2>7, <2>8
  <2>10. Cardinality(r) \in Bad BY <2>4, <2>9
  <2>11. Cardinality(r) < n BY <2>4
  <2> QED BY <2>10, <2>11
<1>3. Bad = {}
  <2>1. Bad \subseteq Nat OBVIOUS
  <2> HIDE DEF Bad
  <2> QED BY <1>2, <2>1, Descent
<1> QED BY <1>1, <1>3

\* Quotients lose less than a unit each.
LEMMA SumOfFloors ==
  ASSUME NEW e, NEW q, NEW T, IsFiniteSet(T), NEW k \in Nat,
         \A t \in T : /\ e[t] \in Nat /\ q[t] \in Nat
                      /\ q[t] * k <= e[t] /\ e[t] < q[t] * k + k
  PROVE  /\ SumOn(q, T) * k <= SumOn(e, T)
         /\ SumOn(e, T) <= SumOn(q, T) * k + k * Cardinality(T)
         /\ T # {} => SumOn(e, T) < SumOn(q, T) * k + k * Cardinality(T)
<1> DEFINE Fine(U) == /\ SumOn(q, U) * k <= SumOn(e, U)
                      /\ SumOn(e, U) <= SumOn(q, U) * k + k * Cardinality(U)
                      /\ U # {} => SumOn(e, U) < SumOn(q, U) * k + k * Cardinality(U)
           Bad == {n \in Nat : \E U \in SUBSET T : Cardinality(U) = n /\ ~Fine(U)}
<1>1. \A U \in SUBSET T : IsFiniteSet(U) /\ Cardinality(U) \in Nat BY FS_Subset, FS_CardinalityType
<1>2. ASSUME NEW n \in Bad PROVE \E m \in Bad : m < n
  <2>1. PICK U \in SUBSET T : Cardinality(U) = n /\ ~Fine(U) BY <1>2
  <2>2. U # {}
    <3>1. 0 * k = 0 /\ k * 0 = 0 /\ 0 + 0 = 0 OBVIOUS
    <3>2. Fine({}) BY <3>1, SumEmpty, FS_EmptySet
    <3> QED BY <2>1, <3>2
  <2>3. PICK x \in U : TRUE BY <2>2
  <2> DEFINE r == U \ {x}
  <2>4. /\ Cardinality(r) = Cardinality(U) - 1 /\ Cardinality(U) \in Nat /\ Cardinality(r) \in Nat
        /\ r \in SUBSET T /\ n \in Nat /\ Cardinality(U) = n
    BY <1>1, <2>1, FS_RemoveElement
  <2>5. \A t \in U : e[t] \in Int /\ q[t] \in Int OBVIOUS
  <2>6. /\ SumOn(e, U) = e[x] + SumOn(e, r) /\ SumOn(q, U) = q[x] + SumOn(q, r)
        /\ SumOn(e, r) \in Int /\ SumOn(q, r) \in Int
    BY <1>1, <2>4, <2>5, SumRemove
  <2>7. ~Fine(r)
    <3> SUFFICES ASSUME Fine(r) PROVE Fine(U) BY <2>1
    <3> DEFINE A == SumOn(e, r)   B == SumOn(q, r)   c == Cardinality(r)   ex == e[x]   qx == q[x]
    <3>1. /\ A \in Int /\ B \in Int /\ c \in Nat /\ ex \in Nat /\ qx \in Nat
          /\ B * k <= A /\ A <= B * k + k * c /\ qx * k <= ex /\ ex < qx * k + k
      BY <2>4, <2>6
    <3>2. Cardinality(U) = c + 1 BY <2>4
    <3> HIDE DEF A, B, c, ex, qx
    <3>3. (qx + B) * k = qx * k + B * k /\ k * (c + 1) = k * c + k BY <3>1
    <3>4. qx * k \in Int /\ B * k \in Int /\ k * c \in Int BY <3>1
    <3>5. (qx + B) * k <= ex + A /\ ex + A < (qx + B) * k + k * (c + 1) BY <3>1, <3>3, <3>4
    <3>6. (qx + B) * k + k * (c + 1) \in Int /\ ex + A \in Int BY <3>1
    <3>7. SumOn(e, U) = ex + A /\ SumOn(q, U) = qx + B BY <2>6 DEF A, B, ex, qx
    <3> QED BY <3>2, <3>5, <3>6, <3>7
  <2>8. Cardinality(r) \in Bad BY <2>4, <2>7
  <2>9. Cardinality(r) < n BY <2>4
  <2> QED BY <2>8, <2>9
<1>3. Bad = {}
  <2>1. Bad \subseteq Nat OBVIOUS
  <2> HIDE DEF Bad
  <2> QED BY <1>2, <2>1, Descent
<1> QED BY <1>1, <1>3

\* The parts that the keys take of a sum are the sum.
LEMMA SumByKey ==
  ASSUME NEW K, IsFiniteSet(K), NEW T, IsFiniteSet(T), NEW key, NEW f,
         \A t \in T : key[t] \in K /\ f[t] \in Int,
         NEW taken, \A k \in K, t \in T : taken[k][t] = IF key[t] = k THEN f[t] ELSE 0,
         NEW parts, \A k \in K : parts[k] = SumOn(taken[k], T)
  PROVE  SumOn(parts, K) = SumOn(f, T)
<1> DEFINE P(U) == [k \in K |-> SumOn(taken[k], U)]
           Bad == {n \in Nat : \E U \in SUBSET T : Cardinality(U) = n /\ SumOn(P(U), K) # SumOn(f, U)}
<1>1. \A U \in SUBSET T : IsFiniteSet(U) /\ Cardinality(U) \in Nat BY FS_Subset, FS_CardinalityType
<1>0. \A k \in K, t \in T : taken[k][t] \in Int OBVIOUS
<1>2. ASSUME NEW U \in SUBSET T, NEW k \in K PROVE P(U)[k] \in Int /\ P(U)[k] = SumOn(taken[k], U)
  <2>1. \A t \in U : taken[k][t] \in Int BY <1>0
  <2> QED BY <1>1, <2>1, SumInt
<1>3. ASSUME NEW n \in Bad PROVE \E m \in Bad : m < n
  <2>1. PICK U \in SUBSET T : Cardinality(U) = n /\ SumOn(P(U), K) # SumOn(f, U) BY <1>3
  <2>2. U # {}
    <3>1. ASSUME U = {} PROVE SumOn(P(U), K) = SumOn(f, U)
      <4>1. \A k \in K : P(U)[k] = 0 BY <1>2, <3>1, SumEmpty
      <4> HIDE DEF P
      <4> QED BY <3>1, <4>1, SumEmpty, SumZero
    <3> QED BY <2>1, <3>1
  <2>3. PICK x \in U : TRUE BY <2>2
  <2> DEFINE r == U \ {x}
  <2>4. Cardinality(r) = n - 1 /\ Cardinality(r) \in Nat /\ r \in SUBSET T /\ n \in Nat
    BY <1>1, <2>1, FS_RemoveElement
  <2>5. \A t \in U : f[t] \in Int OBVIOUS
  <2>6. SumOn(f, U) = f[x] + SumOn(f, r) /\ SumOn(f, r) \in Int /\ f[x] \in Int
    BY <1>1, <2>4, <2>5, SumRemove
  <2>7. ASSUME NEW k \in K
        PROVE  P(U)[k] = (IF key[x] = k THEN f[x] ELSE 0) + P(r)[k]
    <3>1. \A t \in U : taken[k][t] \in Int BY <1>0
    <3>2. SumOn(taken[k], U) = taken[k][x] + SumOn(taken[k], r) BY <1>1, <3>1, SumRemove
    <3>3. taken[k][x] = IF key[x] = k THEN f[x] ELSE 0 OBVIOUS
    <3>4. P(U)[k] = SumOn(taken[k], U) /\ P(r)[k] = SumOn(taken[k], r) BY <1>2, <2>4
    <3> HIDE DEF P, r
    <3> QED BY <3>2, <3>3, <3>4
  <2>8. \A k \in K : P(U)[k] \in Int /\ P(r)[k] \in Int BY <1>2, <2>4
  <2> DEFINE A == P(U)   B == P(r)   y == key[x]
  <2>9. y \in K OBVIOUS
  <2>10. /\ \A k \in K : B[k] \in Int /\ A[k] \in Int
         /\ A[y] = f[x] + B[y] /\ \A k \in K \ {y} : A[k] = B[k]
    <3> HIDE DEF P, r
    <3>1. \A k \in K : B[k] \in Int /\ A[k] \in Int BY <2>8
    <3>2. A[y] = f[x] + B[y] BY <2>7, <2>9
    <3>3. ASSUME NEW k \in K \ {y} PROVE A[k] = B[k]
      <4>1. A[k] = 0 + B[k] BY <2>7, <3>3
      <4> QED BY <3>1, <4>1
    <3> QED BY <3>1, <3>2, <3>3
  <2> HIDE DEF A, B, y
  <2>11. SumOn(A, K) = SumOn(B, K) - B[y] + A[y] BY <2>9, <2>10, SumChanges
  <2>12. SumOn(B, K) \in Int /\ B[y] \in Int BY <2>9, <2>10, SumInt
  <2>13. SumOn(A, K) = SumOn(B, K) + f[x] BY <2>6, <2>10, <2>11, <2>12
  <2>14. SumOn(P(r), K) # SumOn(f, r) BY <2>1, <2>6, <2>12, <2>13 DEF A, B
  <2>15. Cardinality(r) \in Bad BY <2>4, <2>14
  <2>16. Cardinality(r) < n BY <2>4
  <2> QED BY <2>15, <2>16
<1>4. Bad = {}
  <2>1. Bad \subseteq Nat OBVIOUS
  <2> HIDE DEF Bad
  <2> QED BY <1>3, <2>1, Descent
<1>5. SumOn(P(T), K) = SumOn(f, T)
  <2>1. \A U \in SUBSET T : SumOn(P(U), K) = SumOn(f, U) BY <1>1, <1>4
  <2> HIDE DEF P, Bad
  <2> QED BY <2>1
<1>6. SumOn(parts, K) = SumOn(P(T), K)
  <2>1. \A k \in K : parts[k] = P(T)[k] /\ parts[k] \in Int /\ P(T)[k] \in Int BY <1>2
  <2> HIDE DEF P
  <2> QED BY <2>1, SumsCompare
<1> QED BY <1>5, <1>6
=============================================================================
