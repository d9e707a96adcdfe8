----------------------------- MODULE SumLemmas ------------------------------
(***************************************************************************)
(* What an assignment to one entry of a map, and append(q, n) and q[1:] on *)
(* a slice, do to the sum of the values held.                              *)
(*                                                                         *)
(* A sum is the fold of the community modules, a recursive function on the *)
(* subsets of the index set.  That the recursion defines a function, and   *)
(* what the function yields, is proved from the smallest subset for which  *)
(* it would fail (SmallestSubset).                                         *)
(***************************************************************************)
EXTENDS Integers, Sequences, Functions, FiniteSets, FiniteSetTheorems,
        WellFoundedInduction, TLAPS

\* The provers get half a minute for a step, not five seconds.
USE SMTT(30), ZenonT(30)

Picked(s) == CHOOSE x \in s : TRUE

\* iter satisfies the recursion of a fold by addition of f over the subsets of S
IsSum(iter, f, S) ==
    iter = [s \in SUBSET S |->
              IF s = {} THEN 0 ELSE f[Picked(s)] + iter[s \ {Picked(s)}]]

\* The sum of a function over a set is the fold chosen by the library.
LEMMA SumIsChosen ==
    ASSUME NEW f, NEW S
    PROVE  SumFunctionOnSet(f, S) = (CHOOSE iter : IsSum(iter, f, S))[S]
  BY ZenonT(40) DEF SumFunctionOnSet, FoldFunctionOnSet, MapThenFoldSet, IsSum, Picked

\* A non-empty family of subsets of a finite set has a smallest member.
LEMMA SmallestSubset ==
    ASSUME NEW S, IsFiniteSet(S), NEW F \in SUBSET (SUBSET S), F # {}
    PROVE  \E T \in F : \A U \in F : ~(U \subseteq T /\ U # T)
<1>1. \A U \in SUBSET S : IsFiniteSet(U)
  BY FS_Subset, Zenon
<1>2. F \subseteq FiniteSubsetsOf(S)
  BY <1>1, Zenon DEF FiniteSubsetsOf
<1>3. IsWellFoundedOn(StrictSubsetOrdering(S), FiniteSubsetsOf(S))
  BY FS_StrictSubsetOrderingWellFounded, Zenon
<1>4. PICK T \in F : \A U \in F : ~ (<<U, T>> \in StrictSubsetOrdering(S))
  BY <1>2, <1>3, WFMin, ZenonT(40)
<1>5. ASSUME NEW U \in F, U \subseteq T, U # T
      PROVE  FALSE
  BY <1>4, <1>5, ZenonT(40) DEF StrictSubsetOrdering
<1>6. QED
  BY <1>4, <1>5, Zenon

\* A finite non-empty set of integers has a greatest member.
LEMMA GreatestExists ==
    ASSUME NEW S, S \subseteq Int, IsFiniteSet(S), S # {}
    PROVE  \E m \in S : \A n \in S : n <= m
<1> DEFINE Tops(T) == \E m \in T : \A n \in T : n <= m
           F == {T \in SUBSET S : T # {} /\ ~Tops(T)}
<1>1. SUFFICES ASSUME F # {} PROVE FALSE
  BY <1>1, Zenon
<1>2. F \in SUBSET (SUBSET S)
  BY Zenon
<1>3. PICK T \in F : \A U \in F : ~(U \subseteq T /\ U # T)
  <2> HIDE DEF F, Tops
  <2> QED  BY ONLY <1>1, <1>2, SmallestSubset, IsFiniteSet(S)
<1>4. PICK x \in T : x \in Int
  BY <1>3, ZenonT(40)
<1>5. T \ {x} \notin F
  BY <1>3, <1>4, ZenonT(40)
<1>6. T \ {x} # {}
  <2>1. SUFFICES ASSUME T \ {x} = {} PROVE FALSE
    BY Zenon
  <2>2. \A n \in T : n <= x
    BY <2>1, <1>4
  <2> QED  BY <2>2, <1>3, <1>4, Zenon
<1>7. PICK m \in T \ {x} : \A n \in T \ {x} : n <= m
  BY <1>3, <1>5, <1>6, Zenon
<1>8. \A n \in T : n \in Int
  BY <1>3, Zenon
<1>9. CASE x <= m
  <2>1. \A n \in T : n <= m
    BY <1>7, <1>9, Zenon
  <2> QED  BY <2>1, <1>3, <1>7, Zenon
<1>10. CASE ~(x <= m)
  <2>1. \A n \in T : n <= x
    BY <1>7, <1>8, <1>10
  <2> QED  BY <2>1, <1>3, <1>4, Zenon
<1> QED  BY <1>9, <1>10, Zenon

\* The recursion of the fold, at one subset.
LEMMA IsSumAt ==
    ASSUME NEW f, NEW S, NEW iter, IsSum(iter, f, S)
    PROVE  \A s \in SUBSET S :
             iter[s] = IF s = {} THEN 0 ELSE f[Picked(s)] + iter[s \ {Picked(s)}]
  BY ZenonT(40) DEF IsSum

\* The element a fold picks from a non-empty set is in it.
LEMMA PickedIn ==
    ASSUME NEW s, s # {}
    PROVE  Picked(s) \in s /\ s \ {Picked(s)} \subseteq s /\ s \ {Picked(s)} # s
<1>1. Picked(s) \in s
  BY Zenon DEF Picked
<1>2. QED
  BY <1>1, Zenon

\* At most one function satisfies the recursion of a sum.
LEMMA SumUnique ==
    ASSUME NEW f, NEW S, IsFiniteSet(S), NEW T \in SUBSET S, NEW g, NEW h,
           IsSum(g, f, T), IsSum(h, f, S)
    PROVE  \A s \in SUBSET T : g[s] = h[s]
<1> DEFINE F == {s \in SUBSET T : g[s] # h[s]}
<1>1. SUFFICES ASSUME F # {} PROVE FALSE
  BY Zenon
<1>2. F \in SUBSET (SUBSET T) /\ IsFiniteSet(T)
  BY FS_Subset, Zenon
<1>3. PICK s \in F : \A U \in F : ~(U \subseteq s /\ U # s)
  <2> HIDE DEF F
  <2>1. QED BY <1>1, <1>2, SmallestSubset
<1>4. s \in SUBSET T /\ s \in SUBSET S /\ g[s] # h[s]
  BY <1>3, Zenon
<1>5. s # {}
  BY <1>4, IsSumAt
<1>6. /\ s \ {Picked(s)} \in SUBSET T
      /\ s \ {Picked(s)} \notin F
  BY <1>3, <1>4, <1>5, PickedIn, Zenon
<1>7. g[s \ {Picked(s)}] = h[s \ {Picked(s)}]
  BY <1>6, Zenon
<1>8. g[s] = f[Picked(s)] + g[s \ {Picked(s)}]
  BY <1>4, <1>5, IsSumAt
<1>9. h[s] = f[Picked(s)] + h[s \ {Picked(s)}]
  <2> HIDE DEF F
  <2>1. \A u \in SUBSET S :
          h[u] = IF u = {} THEN 0 ELSE f[Picked(u)] + h[u \ {Picked(u)}]
    BY IsSumAt
  <2>2. QED
    BY <1>4, <1>5, <2>1, Zenon
<1>10. QED
  BY <1>4, <1>7, <1>8, <1>9, Zenon

\* Some function satisfies the recursion of a sum over a finite set.
LEMMA SumExists ==
    ASSUME NEW f, NEW S, IsFiniteSet(S)
    PROVE  \E iter : IsSum(iter, f, S)
<1> DEFINE F == {s \in SUBSET S : ~ \E iter : IsSum(iter, f, s)}
           G(s) == CHOOSE iter : IsSum(iter, f, s)
<1>1. SUFFICES ASSUME F # {} PROVE FALSE
  BY Zenon
<1>2. PICK T \in F : \A U \in F : ~(U \subseteq T /\ U # T)
  <2>1. F \in SUBSET (SUBSET S)
    BY Zenon
  <2> HIDE DEF F
  <2>2. QED
    BY <1>1, <2>1, SmallestSubset
<1>3. \A s \in SUBSET T : s # T => IsSum(G(s), f, s)
  <2>1. ASSUME NEW s \in SUBSET T, s # T
        PROVE  \E iter : IsSum(iter, f, s)
    BY <1>2, <2>1, Zenon
  <2>2. QED
    BY <2>1, Zenon
<1> DEFINE h == [s \in SUBSET T |->
                   IF s = {} THEN 0
                   ELSE f[Picked(s)] + G(s \ {Picked(s)})[s \ {Picked(s)}]]
<1> HIDE DEF G
<1>4. ASSUME NEW s \in SUBSET T, s # T
      PROVE  h[s] = G(s)[s]
  <2>1. IsSum(G(s), f, s)
    BY <1>3, <1>4, Zenon
  <2>2. G(s)[s] = IF s = {} THEN 0 ELSE f[Picked(s)] + G(s)[s \ {Picked(s)}]
    BY <2>1, IsSumAt
  <2>3. CASE s = {}
    BY <2>2, <2>3, Zenon
  <2>4. CASE s # {}
    <3> DEFINE u == s \ {Picked(s)}
    <3>1. u \in SUBSET s /\ u \in SUBSET T /\ u # T /\ u \in SUBSET u
      BY <2>4, PickedIn, Zenon
    <3>2. IsSum(G(u), f, u) /\ IsFiniteSet(s)
      BY <3>1, <1>3, <1>2, FS_Subset, Zenon
    <3>3. G(u)[u] = G(s)[u]
      <4> HIDE DEF u
      <4>1. QED BY <2>1, <3>1, <3>2, SumUnique
    <3>4. QED
      BY <2>2, <2>4, <3>3, Zenon
  <2>5. QED
    BY <2>3, <2>4, Zenon
<1>5. IsSum(h, f, T)
  <2>1. ASSUME NEW s \in SUBSET T
        PROVE  h[s] = IF s = {} THEN 0 ELSE f[Picked(s)] + h[s \ {Picked(s)}]
    <3>1. CASE s = {}
      BY <3>1, Zenon
    <3>2. CASE s # {}
      <4>1. /\ s \ {Picked(s)} \in SUBSET T
            /\ s \ {Picked(s)} # T
        BY <3>2, PickedIn, Zenon
      <4>2. h[s \ {Picked(s)}] = G(s \ {Picked(s)})[s \ {Picked(s)}]
        BY <4>1, <1>4, ZenonT(40)
      <4>3. QED
        BY <3>2, <4>2, Zenon
    <3>3. QED
      BY <3>1, <3>2, Zenon
  <2>2. h = [s \in SUBSET T |->
               IF s = {} THEN 0 ELSE f[Picked(s)] + h[s \ {Picked(s)}]]
    BY <2>1, ZenonT(40)
  <2>3. QED
    BY <2>2, ZenonT(40) DEF IsSum
<1>6. QED
  BY <1>2, <1>5, Zenon

\* The recursion of a sum, as an equation about SumFunctionOnSet.
LEMMA SumUnfolds ==
    ASSUME NEW f, NEW S, IsFiniteSet(S)
    PROVE  SumFunctionOnSet(f, S) =
             IF S = {} THEN 0
             ELSE f[Picked(S)] + SumFunctionOnSet(f, S \ {Picked(S)})
<1> DEFINE G(s) == CHOOSE iter : IsSum(iter, f, s)
           T == S \ {Picked(S)}
<1>1. T \in SUBSET S /\ S \in SUBSET S /\ T \in SUBSET T /\ IsFiniteSet(T)
  BY FS_Subset, Zenon
<1>2. IsSum(G(S), f, S)
  BY SumExists, Zenon
<1>3. IsSum(G(T), f, T)
  BY <1>1, SumExists, Zenon
<1>4. SumFunctionOnSet(f, S) = G(S)[S] /\ SumFunctionOnSet(f, T) = G(T)[T]
  BY SumIsChosen, Zenon
<1> HIDE DEF G
<1>5. G(S)[S] = IF S = {} THEN 0 ELSE f[Picked(S)] + G(S)[T]
  <2>1. \A u \in SUBSET S :
          G(S)[u] = IF u = {} THEN 0 ELSE f[Picked(u)] + G(S)[u \ {Picked(u)}]
    BY <1>2, IsSumAt
  <2>2. QED
    BY <1>1, <2>1, Zenon
<1>6. G(T)[T] = G(S)[T]
  <2> HIDE DEF T
  <2>1. QED BY <1>1, <1>2, <1>3, SumUnique
<1>7. QED
  BY <1>4, <1>5, <1>6, Zenon

\* The sum over no members is zero.
LEMMA SumEmpty == \A f : SumFunctionOnSet(f, {}) = 0
  BY SumUnfolds, FS_EmptySet, Zenon

\* A sum of natural numbers is one.
LEMMA SumIsNat ==
    ASSUME NEW S, IsFiniteSet(S), NEW f, \A x \in S : f[x] \in Nat
    PROVE  SumFunctionOnSet(f, S) \in Nat
<1> DEFINE F == {U \in SUBSET S : SumFunctionOnSet(f, U) \notin Nat}
<1>1. SUFFICES ASSUME F # {} PROVE FALSE
  BY Zenon
<1>2. F \in SUBSET (SUBSET S)
  BY Zenon
<1>3. PICK T \in F : \A U \in F : ~(U \subseteq T /\ U # T)
  <2> HIDE DEF F
  <2>1. QED BY <1>1, <1>2, SmallestSubset
<1>4. T \in SUBSET S /\ IsFiniteSet(T) /\ SumFunctionOnSet(f, T) \notin Nat
  BY <1>3, FS_Subset, Zenon
<1>5. T # {}
  BY <1>4, SumEmpty
<1>6. Picked(T) \in T /\ SumFunctionOnSet(f, T \ {Picked(T)}) \in Nat
  BY <1>3, <1>4, <1>5, PickedIn, Zenon
<1>7. SumFunctionOnSet(f, T) = f[Picked(T)] + SumFunctionOnSet(f, T \ {Picked(T)})
  BY <1>4, <1>5, SumUnfolds, Zenon
<1>8. QED
  BY <1>4, <1>6, <1>7

\* Any member of the set can be taken out of the sum.
LEMMA SumSplits ==
    ASSUME NEW S, IsFiniteSet(S), NEW f, \A x \in S : f[x] \in Nat, NEW x \in S
    PROVE  SumFunctionOnSet(f, S) = f[x] + SumFunctionOnSet(f, S \ {x})
<1> DEFINE Splits(U, y) ==
               SumFunctionOnSet(f, U) = f[y] + SumFunctionOnSet(f, U \ {y})
           F == {U \in SUBSET S : \E y \in U : ~Splits(U, y)}
<1>1. SUFFICES ASSUME F # {} PROVE FALSE
  BY ZenonT(40)
<1>2. F \in SUBSET (SUBSET S)
  BY Zenon
<1>3. PICK T \in F : \A U \in F : ~(U \subseteq T /\ U # T)
  <2> HIDE DEF F
  <2>1. QED BY <1>1, <1>2, SmallestSubset
<1>4. PICK y \in T : ~Splits(T, y)
  BY <1>3, Zenon
<1>5. T \in SUBSET S /\ T # {} /\ IsFiniteSet(T)
  BY <1>3, <1>4, FS_Subset, Zenon
<1> DEFINE p == Picked(T)
<1>6. p \in T /\ Splits(T, p)
  BY <1>5, PickedIn, SumUnfolds, Zenon
<1> HIDE DEF p
<1>7. p # y
  BY <1>4, <1>6, Zenon
<1>8. T \ {p} \notin F /\ T \ {y} \notin F
  BY <1>3, <1>4, <1>6, Zenon
<1>9. Splits(T \ {p}, y) /\ Splits(T \ {y}, p)
  BY <1>4, <1>5, <1>6, <1>7, <1>8, ZenonT(40)
<1>10. (T \ {p}) \ {y} = (T \ {y}) \ {p}
  BY Zenon
<1>11. /\ SumFunctionOnSet(f, (T \ {p}) \ {y}) \in Nat
       /\ f[p] \in Nat /\ f[y] \in Nat
  <2>1. (T \ {p}) \ {y} \in SUBSET S
    BY <1>5, Zenon
  <2>2. IsFiniteSet((T \ {p}) \ {y})
    BY <2>1, FS_Subset, Zenon
  <2>3. QED
    BY <1>4, <1>5, <1>6, <2>1, <2>2, SumIsNat, Zenon
<1>12. QED
  BY <1>4, <1>6, <1>9, <1>10, <1>11

\* A sum depends only on the values at the members of the set.
LEMMA SumSame ==
    ASSUME NEW S, IsFiniteSet(S), NEW f, NEW g, \A x \in S : f[x] = g[x]
    PROVE  SumFunctionOnSet(f, S) = SumFunctionOnSet(g, S)
<1> DEFINE F == {U \in SUBSET S : SumFunctionOnSet(f, U) # SumFunctionOnSet(g, U)}
<1>1. SUFFICES ASSUME F # {} PROVE FALSE
  BY Zenon
<1>2. F \in SUBSET (SUBSET S)
  BY Zenon
<1>3. PICK T \in F : \A U \in F : ~(U \subseteq T /\ U # T)
  <2> HIDE DEF F
  <2>1. QED BY <1>1, <1>2, SmallestSubset
<1>4. /\ T \in SUBSET S /\ IsFiniteSet(T)
      /\ SumFunctionOnSet(f, T) # SumFunctionOnSet(g, T)
  BY <1>3, FS_Subset, Zenon
<1>5. T # {}
  BY <1>4, SumUnfolds, ZenonT(40)
<1> DEFINE p == Picked(T)
<1>6. p \in T /\ SumFunctionOnSet(f, T \ {p}) = SumFunctionOnSet(g, T \ {p})
  BY <1>3, <1>4, <1>5, PickedIn, Zenon
<1>7. /\ SumFunctionOnSet(f, T) = f[p] + SumFunctionOnSet(f, T \ {p})
      /\ SumFunctionOnSet(g, T) = g[p] + SumFunctionOnSet(g, T \ {p})
  BY <1>4, <1>5, SumUnfolds, Zenon
<1>8. f[p] = g[p]
  BY <1>4, <1>6, Zenon
<1>9. QED
  BY <1>4, <1>6, <1>7, <1>8, Zenon

\* Changing one value changes the sum by as much.
LEMMA SumUpdate ==
    ASSUME NEW S, IsFiniteSet(S), NEW f \in [S -> Nat], NEW x \in S, NEW v \in Nat
    PROVE  /\ SumFunction(f) \in Nat
           /\ f[x] <= SumFunction(f)
           /\ SumFunction([f EXCEPT ![x] = v]) = SumFunction(f) - f[x] + v
<1> DEFINE g == [f EXCEPT ![x] = v]
           rest == SumFunctionOnSet(f, S \ {x})
<1>1. DOMAIN f = S /\ DOMAIN g = S /\ g[x] = v /\ f[x] \in Nat
  BY Zenon
<1>2. IsFiniteSet(S \ {x})
  BY FS_RemoveElement, Zenon
<1>3. rest \in Nat
  BY <1>2, SumIsNat, Zenon
<1>4. SumFunctionOnSet(f, S) = f[x] + rest
  BY SumSplits, ZenonT(40)
<1>5. SumFunctionOnSet(g, S) = g[x] + SumFunctionOnSet(g, S \ {x})
  <2>1. \A y \in S : g[y] \in Nat
    BY Zenon
  <2> HIDE DEF g
  <2>2. QED BY <2>1, SumSplits, ZenonT(40)
<1>6. SumFunctionOnSet(g, S \ {x}) = rest
  <2>1. \A y \in S \ {x} : g[y] = f[y]
    BY Zenon
  <2> HIDE DEF g
  <2>2. QED BY <1>2, <2>1, SumSame, Zenon
<1> HIDE DEF g, rest
<1>7. SumFunction(f) = SumFunctionOnSet(f, S) /\ SumFunction(g) = SumFunctionOnSet(g, S)
  BY <1>1, Zenon DEF SumFunction
<1>8. SumFunction(f) \in Nat /\ f[x] <= SumFunction(f)
  BY <1>1, <1>3, <1>4, <1>7
<1>9. SumFunction(g) = SumFunction(f) - f[x] + v
  BY <1>1, <1>3, <1>4, <1>5, <1>6, <1>7
<1>10. QED
  BY <1>8, <1>9, Zenon DEF g

\* The sum of zeros is zero.
LEMMA SumZero ==
    ASSUME NEW f, IsFiniteSet(DOMAIN f), \A x \in DOMAIN f : f[x] = 0
    PROVE  SumFunction(f) = 0
<1> DEFINE S == DOMAIN f
           F == {U \in SUBSET S : SumFunctionOnSet(f, U) # 0}
<1>1. SUFFICES ASSUME F # {} PROVE FALSE
  BY Zenon DEF SumFunction
<1>2. F \in SUBSET (SUBSET S)
  BY Zenon
<1>3. PICK T \in F : \A U \in F : ~(U \subseteq T /\ U # T)
  <2> HIDE DEF F, S
  <2>0. IsFiniteSet(S)
    BY Zenon DEF S
  <2>1. QED BY <1>1, <1>2, <2>0, SmallestSubset
<1>4. T \in SUBSET S /\ IsFiniteSet(T) /\ SumFunctionOnSet(f, T) # 0
  BY <1>3, FS_Subset, Zenon
<1>5. T # {}
  BY <1>4, SumEmpty, Zenon
<1>6. Picked(T) \in T /\ SumFunctionOnSet(f, T \ {Picked(T)}) = 0
  BY <1>3, <1>4, <1>5, PickedIn, Zenon
<1>7. SumFunctionOnSet(f, T) = f[Picked(T)] + SumFunctionOnSet(f, T \ {Picked(T)})
  BY <1>4, <1>5, SumUnfolds, Zenon
<1>8. QED
  BY <1>4, <1>6, <1>7

\* Two maps that differ in one entry have sums that differ by as much.
LEMMA SumChange ==
    ASSUME NEW S, IsFiniteSet(S), NEW f \in [S -> Nat], NEW g \in [S -> Nat],
           NEW x \in S, \A y \in S \ {x} : g[y] = f[y]
    PROVE  /\ SumFunction(f) \in Nat
           /\ f[x] <= SumFunction(f)
           /\ SumFunction(g) = SumFunction(f) + (g[x] - f[x])
<1> DEFINE v == g[x]
<1>1. g = [f EXCEPT ![x] = v]
  BY Zenon
<1>2. v \in Nat /\ f[x] \in Nat
  BY Zenon
<1> HIDE DEF v
<1>3. /\ SumFunction(f) \in Nat
      /\ f[x] <= SumFunction(f)
      /\ SumFunction([f EXCEPT ![x] = v]) = SumFunction(f) - f[x] + v
  BY <1>2, SumUpdate, ZenonT(40)
<1>4. SumFunction(g) = SumFunction(f) + (v - f[x])
  BY <1>1, <1>2, <1>3
<1>5. QED
  BY <1>3, <1>4, Zenon DEF v

\* The sum of a queue is a natural number, zero for the empty queue.
LEMMA SumOfQueue ==
    ASSUME NEW q \in Seq(Nat)
    PROVE  SumFunction(q) \in Nat /\ (q = <<>> => SumFunction(q) = 0)
<1>1. DOMAIN q = 1..Len(q) /\ Len(q) \in Nat
  OBVIOUS
<1>2. IsFiniteSet(DOMAIN q)
  BY <1>1, FS_Interval
<1>3. \A i \in DOMAIN q : q[i] \in Nat
  OBVIOUS
<1>4. SumFunction(q) \in Nat
  BY <1>2, <1>3, SumIsNat, Zenon DEF SumFunction
<1>5. q = <<>> => DOMAIN q = {}
  OBVIOUS
<1>6. q = <<>> => SumFunction(q) = 0
  BY <1>5, SumEmpty, Zenon DEF SumFunction
<1>7. QED
  BY <1>4, <1>6, Zenon

\* A queue that gains an element gains its value.
LEMMA SumAppend ==
    ASSUME NEW q \in Seq(Nat), NEW n \in Nat
    PROVE  SumFunction(Append(q, n)) = SumFunction(q) + n
<1> DEFINE a == Append(q, n)
           k == Len(q) + 1
<1>1. /\ DOMAIN a = 1..k /\ k \in DOMAIN a /\ a[k] = n
      /\ \A i \in DOMAIN a : a[i] \in Nat
      /\ \A i \in DOMAIN q : a[i] = q[i]
      /\ \A i : i \in DOMAIN a \ {k} <=> i \in DOMAIN q
  OBVIOUS
<1>2. IsFiniteSet(DOMAIN a) /\ IsFiniteSet(DOMAIN q)
  BY <1>1, FS_Interval
<1> HIDE DEF a, k
<1>3. SumFunctionOnSet(a, DOMAIN a) = a[k] + SumFunctionOnSet(a, DOMAIN q)
  <2>1. DOMAIN a \ {k} = DOMAIN q
    BY <1>1, ZenonT(40)
  <2>2. QED
    BY <1>1, <1>2, <2>1, SumSplits
<1>4. SumFunctionOnSet(a, DOMAIN q) = SumFunctionOnSet(q, DOMAIN q)
  BY <1>1, <1>2, SumSame, Zenon
<1>5. SumFunction(a) = n + SumFunction(q)
  BY <1>1, <1>3, <1>4, Zenon DEF SumFunction
<1>6. QED
  BY <1>5, SumOfQueue DEF a

\* An interval loses its last or its first place.
LEMMA IntervalFacts ==
    ASSUME NEW a \in Nat, NEW b \in Nat, a <= b
    PROVE  /\ IsFiniteSet(a..b)
           /\ a \in a..b /\ b \in a..b
           /\ (a..b) \ {b} = a..(b - 1)
           /\ (a..b) \ {a} = (a + 1)..b
<1>1. IsFiniteSet(a..b)
  BY FS_Interval
<1>2. \A i : i \in (a..b) \ {b} <=> i \in a..(b - 1)
  OBVIOUS
<1>3. \A i : i \in (a..b) \ {a} <=> i \in (a + 1)..b
  OBVIOUS
<1>4. QED
  BY <1>1, <1>2, <1>3

\* A sum over places does not change when every value moves one place on.
LEMMA SumShift ==
    ASSUME NEW n \in Nat, NEW f, NEW g,
           \A i \in 1..n : f[i] \in Nat /\ g[i + 1] = f[i]
    PROVE  SumFunctionOnSet(f, 1..n) = SumFunctionOnSet(g, 2..(n + 1))
<1> DEFINE Same(k) == SumFunctionOnSet(f, 1..k) = SumFunctionOnSet(g, 2..(k + 1))
           F == {s \in SUBSET (1..n) : \E k \in 0..n : s = 1..k /\ ~Same(k)}
<1>1. SUFFICES ASSUME F # {} PROVE FALSE
  <2>1. ~Same(n) => 1..n \in F
    <3> HIDE DEF Same
    <3>1. QED OBVIOUS
  <2>2. QED BY <2>1, Zenon
<1>2. PICK s \in F : \A U \in F : ~(U \subseteq s /\ U # s)
  <2> DEFINE D == 1..n
  <2>1. F \in SUBSET (SUBSET D) /\ IsFiniteSet(D)
    BY FS_Interval
  <2> HIDE DEF F, D
  <2>2. QED BY <1>1, <2>1, SmallestSubset
<1>4. PICK k \in 0..n : s = 1..k /\ ~Same(k)
  BY <1>2, Zenon
<1>5. k # 0
  <2>1. 1..0 = {} /\ 2..1 = {}
    OBVIOUS
  <2>2. SumFunctionOnSet(f, {}) = 0 /\ SumFunctionOnSet(g, {}) = 0
    BY SumEmpty, Zenon
  <2>3. ASSUME k = 0 PROVE Same(k)
    <3>1. 1..k = {} /\ 2..(k + 1) = {}
      BY <2>3
    <3>2. QED
      BY <2>2, <3>1, ZenonT(40)
  <2>4. QED
    BY <1>4, <2>3, Zenon
<1>6. Same(k - 1)
  <2>1. 1..(k - 1) \notin F
    <3>1. 1..(k - 1) \subseteq s /\ 1..(k - 1) # s
      BY <1>4, <1>5
    <3> HIDE DEF F
    <3>2. QED
      BY <1>2, <3>1, Zenon
  <2>2. k - 1 \in 0..n /\ 1..(k - 1) \in SUBSET (1..n)
    BY <1>4, <1>5
  <2> HIDE DEF Same
  <2>3. QED
    BY <2>1, <2>2, Zenon
<1>7. SumFunctionOnSet(f, 1..k) = f[k] + SumFunctionOnSet(f, 1..(k - 1))
  <2> DEFINE D == 1..k
             E == 1..(k - 1)
  <2>1. IsFiniteSet(D) /\ k \in D /\ D \ {k} = E
    BY <1>4, <1>5, IntervalFacts
  <2>2. \A i \in D : f[i] \in Nat
    BY <1>4, Zenon
  <2> HIDE DEF D, E
  <2>3. SumFunctionOnSet(f, D) = f[k] + SumFunctionOnSet(f, D \ {k})
    <3>1. IsFiniteSet(D) /\ k \in D
      BY <2>1, Zenon
    <3>2. QED
      BY ONLY <3>1, <2>2, SumSplits, ZenonT(40)
  <2>4. SumFunctionOnSet(f, D) = f[k] + SumFunctionOnSet(f, E)
    BY <2>1, <2>3, ZenonT(40)
  <2>5. QED
    BY <2>4, Zenon DEF D, E
<1>8. SumFunctionOnSet(g, 2..(k + 1)) = g[k + 1] + SumFunctionOnSet(g, 2..k)
  <2> DEFINE D == 2..(k + 1)
             E == 2..k
             m == k + 1
  <2>1. IsFiniteSet(D) /\ m \in D /\ D \ {m} = E
    <3>1. 2 \in Nat /\ m \in Nat /\ 2 <= m /\ m - 1 = k
      BY <1>4, <1>5
    <3>2. QED
      BY <3>1, IntervalFacts
  <2>2. \A i \in D : g[i] \in Nat
    <3>1. ASSUME NEW i \in D PROVE g[i] \in Nat
      <4>1. i - 1 \in 1..n /\ (i - 1) + 1 = i
        BY <1>4
      <4>2. QED
        BY <4>1, ZenonT(40)
    <3>2. QED BY <3>1, Zenon
  <2> HIDE DEF D, E, m
  <2>3. SumFunctionOnSet(g, D) = g[m] + SumFunctionOnSet(g, D \ {m})
    <3>1. IsFiniteSet(D) /\ m \in D
      BY <2>1, Zenon
    <3>2. QED
      BY ONLY <3>1, <2>2, SumSplits, ZenonT(40)
  <2>4. SumFunctionOnSet(g, D) = g[m] + SumFunctionOnSet(g, E)
    BY <2>1, <2>3, ZenonT(40)
  <2>5. QED
    BY <2>4, Zenon DEF D, E, m
<1>9. (k - 1) + 1 = k /\ g[k + 1] = f[k]
  BY <1>4, <1>5
<1>10. QED
  BY <1>4, <1>6, <1>7, <1>8, <1>9, Zenon

\* A queue that loses its head loses the head's value.
LEMMA SumTail ==
    ASSUME NEW q \in Seq(Nat), q # <<>>
    PROVE  /\ SumFunction(Tail(q)) = SumFunction(q) - Head(q)
           /\ Head(q) <= SumFunction(q)
<1> DEFINE t == Tail(q)
           n == Len(q) - 1
<1>1. /\ n \in Nat /\ DOMAIN t = 1..n /\ DOMAIN q = 1..(n + 1) /\ t \in Seq(Nat)
      /\ \A i \in 1..n : t[i] \in Nat /\ q[i + 1] = t[i]
      /\ Head(q) = q[1] /\ q[1] \in Nat
      /\ \A i \in 1..(n + 1) : q[i] \in Nat
  OBVIOUS
<1> HIDE DEF t, n
<1>2. SumFunctionOnSet(t, 1..n) = SumFunctionOnSet(q, 2..(n + 1))
  BY <1>1, SumShift, ZenonT(40)
<1>3. SumFunctionOnSet(q, 1..(n + 1)) = q[1] + SumFunctionOnSet(q, 2..(n + 1))
  <2> DEFINE D == 1..(n + 1)
             E == 2..(n + 1)
  <2>1. IsFiniteSet(D) /\ 1 \in D /\ D \ {1} = E
    <3>1. 1 \in Nat /\ n + 1 \in Nat /\ 1 <= n + 1 /\ 1 + 1 = 2
      BY <1>1
    <3>2. QED
      BY <3>1, IntervalFacts
  <2>2. \A i \in D : q[i] \in Nat
    BY <1>1, Zenon
  <2> HIDE DEF D, E
  <2>3. SumFunctionOnSet(q, D) = q[1] + SumFunctionOnSet(q, D \ {1})
    <3>1. IsFiniteSet(D) /\ 1 \in D
      BY <2>1, Zenon
    <3>2. QED
      BY ONLY <3>1, <2>2, SumSplits, ZenonT(40)
  <2>4. SumFunctionOnSet(q, D) = q[1] + SumFunctionOnSet(q, E)
    BY <2>1, <2>3, ZenonT(40)
  <2>5. QED
    BY <2>4, Zenon DEF D, E
<1>4. SumFunction(t) \in Nat /\ SumFunction(q) = q[1] + SumFunction(t)
  BY <1>1, <1>2, <1>3, SumOfQueue, ZenonT(40) DEF SumFunction
<1>5. QED
  BY <1>1, <1>4 DEF t
\* A sum over a set is the sum over a part of it and the sum over the rest.
LEMMA SumParts ==
    ASSUME NEW S, IsFiniteSet(S), NEW f, \A x \in S : f[x] \in Nat, NEW B \in SUBSET S
    PROVE  SumFunctionOnSet(f, S) = SumFunctionOnSet(f, S \ B) + SumFunctionOnSet(f, B)
<1> DEFINE Parts(U) ==
               SumFunctionOnSet(f, S) = SumFunctionOnSet(f, S \ U) + SumFunctionOnSet(f, U)
           F == {U \in SUBSET S : ~Parts(U)}
<1> SUFFICES Parts(B)
  BY Zenon
<1> HIDE DEF Parts
<1>1. SUFFICES ASSUME F # {} PROVE FALSE
  BY Zenon
<1>2. F \in SUBSET (SUBSET S)
  BY Zenon
<1>3. PICK T \in F : \A U \in F : ~(U \subseteq T /\ U # T)
  <2> HIDE DEF F
  <2> QED  BY <1>1, <1>2, SmallestSubset
<1>4. T \in SUBSET S /\ ~Parts(T)
  BY <1>3, ZenonT(40)
<1>5. \A U \in SUBSET S : IsFiniteSet(U) /\ (\A x \in U : f[x] \in Nat) /\ SumFunctionOnSet(f, U) \in Nat
  <2>1. \A U \in SUBSET S : IsFiniteSet(U) /\ (\A x \in U : f[x] \in Nat)
    BY FS_Subset, Zenon
  <2>2. \A U \in SUBSET S : SumFunctionOnSet(f, U) \in Nat
    <3> TAKE U \in SUBSET S
    <3>1. IsFiniteSet(U) /\ \A x \in U : f[x] \in Nat
      BY <2>1, Zenon
    <3> QED  BY ONLY <3>1, SumIsNat, Zenon
  <2> QED  BY <2>1, <2>2, Zenon
<1>6. CASE T = {}
  <2>1. S \ T = S
    BY <1>6, ZenonT(40)
  <2>2. SumFunctionOnSet(f, T) = 0 /\ SumFunctionOnSet(f, S) \in Nat
    BY <1>5, <1>6, SumEmpty, Zenon
  <2>3. SumFunctionOnSet(f, S \ T) = SumFunctionOnSet(f, S)
    BY <2>1, Zenon
  <2> QED  BY <1>4, <2>2, <2>3 DEF Parts
<1>7. CASE T # {}
  <2>1. PICK x : x \in T
    BY <1>7, Zenon
  <2> DEFINE U == T \ {x}
             R == S \ U
  <2>2. U \in SUBSET S /\ U \subseteq T /\ U # T /\ x \in S /\ R \in SUBSET S /\ x \in R
    BY <1>4, <2>1, Zenon
  <2>3. R \ {x} = S \ T /\ S \ T \in SUBSET S
    BY <1>4, <2>1, Zenon
  <2>4. Parts(U)
    BY <1>3, <2>2, Zenon
  <2>5. SumFunctionOnSet(f, S) = SumFunctionOnSet(f, R) + SumFunctionOnSet(f, U)
    BY <2>4, ZenonT(40) DEF Parts
  <2> HIDE DEF U, R
  <2>6. SumFunctionOnSet(f, R) = f[x] + SumFunctionOnSet(f, R \ {x})
    BY <1>5, <2>2, SumSplits, ZenonT(40)
  <2>7. SumFunctionOnSet(f, T) = f[x] + SumFunctionOnSet(f, T \ {x})
    BY <1>4, <1>5, <2>1, SumSplits, ZenonT(40)
  <2>8. T \ {x} = U
    BY Zenon DEF U
  <2>9. /\ SumFunctionOnSet(f, U) \in Nat /\ SumFunctionOnSet(f, S \ T) \in Nat /\ f[x] \in Nat
        /\ SumFunctionOnSet(f, R) \in Nat
    BY <1>5, <2>2, <2>3, ZenonT(40)
  <2>10. SumFunctionOnSet(f, R \ {x}) = SumFunctionOnSet(f, S \ T)
         /\ SumFunctionOnSet(f, T \ {x}) = SumFunctionOnSet(f, U)
    BY <2>3, <2>8, Zenon
  <2>11. SumFunctionOnSet(f, S) = SumFunctionOnSet(f, S \ T) + SumFunctionOnSet(f, T)
    BY <2>5, <2>6, <2>7, <2>9, <2>10
  <2> QED  BY <1>4, <2>11, Zenon DEF Parts
<1> QED  BY <1>6, <1>7, Zenon

\* A set that misses a member of an interval is smaller than the interval.
LEMMA SmallerThanInterval ==
    ASSUME NEW a \in Nat, NEW m \in Nat, NEW P, P \subseteq a..(a + m - 1),
           NEW h \in a..(a + m - 1), h \notin P
    PROVE  Cardinality(P) < m
  <1> DEFINE I == a..(a + m - 1)
  <1>1. m > 0
    OBVIOUS
  <1>2. IsFiniteSet(I) /\ Cardinality(I) = m
    BY <1>1, FS_Interval
  <1>4. P \subseteq I \ {h} /\ h \in I
    BY Zenon
  <1> HIDE DEF I
  <1>3. IsFiniteSet(I \ {h}) /\ Cardinality(I \ {h}) = m - 1
    BY <1>2, <1>4, FS_RemoveElement, Zenon
  <1>5. Cardinality(P) <= Cardinality(I \ {h}) /\ IsFiniteSet(P)
    BY <1>3, <1>4, FS_Subset, ZenonT(40)
  <1>6. Cardinality(P) \in Nat
    BY <1>5, FS_CardinalityType, Zenon
  <1> QED  BY <1>3, <1>5, <1>6

\* A sum that loses one item loses what the item counted for.
LEMMA SumLess ==
    ASSUME NEW S, IsFiniteSet(S), NEW f, NEW g, \A y \in S : f[y] \in Nat,
           NEW x \in S, NEW T \in SUBSET S, \A y \in S : y \in T <=> y # x,
           \A y \in T : g[y] = f[y]
    PROVE  /\ SumFunctionOnSet(f, S) = f[x] + SumFunctionOnSet(g, T)
           /\ SumFunctionOnSet(g, T) \in Nat /\ f[x] \in Nat
  <1>0. T = S \ {x}
    BY Zenon
  <1>1. SumFunctionOnSet(f, S) = f[x] + SumFunctionOnSet(f, T)
    BY <1>0, SumSplits, ZenonT(40)
  <1>2. IsFiniteSet(T) /\ \A y \in T : f[y] \in Nat /\ g[y] = f[y] /\ g[y] \in Nat
    BY FS_RemoveElement
  <1>3. SumFunctionOnSet(f, T) = SumFunctionOnSet(g, T)
    BY ONLY <1>2, SumSame, Zenon
  <1>4. SumFunctionOnSet(g, T) \in Nat
    BY ONLY <1>2, SumIsNat, Zenon
  <1> QED  BY <1>1, <1>3, <1>4, Zenon

=============================================================================
