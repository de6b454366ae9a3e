------------------------------ MODULE SumProofs ------------------------------
(***************************************************************************)
(* What MapThenSumSet computes for every finite set: adding an element to  *)
(* the set adds its value to the sum, whichever elements the fold picks.   *)
(*                                                                         *)
(* The fold is a recursive function on the subsets of its set.  There is   *)
(* no induction here with a predicate for a parameter: where a proof by    *)
(* induction would do, the subsets that break a claim are a set, and a     *)
(* smallest one of them (Smallest) does not break it.                      *)
(***************************************************************************)
EXTENDS FiniteSetsExt, FiniteSetTheorems, WellFoundedInduction, TLAPS

\* The sum of the values that a function has on a set.
SumOver(f, S) == MapThenSumSet(LAMBDA x : f[x], S)

\* The element that the fold takes from a set first.
Pick(S) == CHOOSE x \in S : TRUE

\* The partial sums of a set: what the recursion defines.
PartialStep(f, g, s) == IF s = {} THEN 0 ELSE f[Pick(s)] + g[s \ {Pick(s)}]

Partial(f, T, g) == g = [s \in SUBSET T |-> PartialStep(f, g, s)]

-----------------------------------------------------------------------------
(* The recursion defines something.                                        *)

\* Of a family of subsets of a finite set there is a smallest one.
LEMMA Smallest ==
  ASSUME NEW S, IsFiniteSet(S), NEW F \in SUBSET SUBSET S, F # {}
  PROVE  \E m \in F : \A U \in F : U \subseteq m => U = m
<1>1. \E m \in F : \A U \in F : <<U, m>> \notin StrictSubsetOrdering(S)
  <2>1. IsWellFoundedOn(StrictSubsetOrdering(S), SUBSET S)
    BY FS_StrictSubsetOrderingWellFounded, FS_FiniteSubsetsOfFinite
  <2>. QED
    BY <2>1, WFMin
<1>2. \A U, m \in SUBSET S :
         U \subseteq m /\ U # m => <<U, m>> \in StrictSubsetOrdering(S)
  BY DEF StrictSubsetOrdering
<1>. QED
  BY <1>1, <1>2

\* What is picked is an element.
LEMMA PickIn == \A S : S # {} => Pick(S) \in S
  BY DEF Pick

\* The sum is the last of the partial sums.
LEMMA SumIs ==
  ASSUME NEW f, NEW S
  PROVE  SumOver(f, S) = (CHOOSE g : Partial(f, S, g))[S]
  BY Zenon
  DEF SumOver, MapThenSumSet, MapThenFoldSet, Partial, PartialStep, Pick

\* The partial sums of two sets agree on their common subsets.
LEMMA PartialAgree ==
  ASSUME NEW f, NEW T, IsFiniteSet(T), NEW g, Partial(f, T, g),
         NEW V, NEW h, Partial(f, V, h), NEW S \in SUBSET T, S \in SUBSET V
  PROVE  g[S] = h[S]
<1>. DEFINE F == {s \in SUBSET S : g[s] # h[s]}
<1>. SUFFICES ASSUME F # {} PROVE FALSE
  OBVIOUS
<1>1. IsFiniteSet(S)
  BY FS_Subset
<1>2. PICK m \in F : \A U \in F : U \subseteq m => U = m
  <2>1. F \in SUBSET SUBSET S
    OBVIOUS
  <2>. HIDE DEF F
  <2>. QED
    BY <1>1, <2>1, Smallest
<1>3. g[m] = PartialStep(f, g, m) /\ h[m] = PartialStep(f, h, m)
  BY DEF Partial
<1>4. m # {}
  BY <1>3 DEF PartialStep
<1>5. g[m \ {Pick(m)}] = h[m \ {Pick(m)}]
  BY <1>2, <1>4, PickIn
<1>. QED
  BY <1>3, <1>4, <1>5 DEF PartialStep

\* Every finite set has partial sums: those of its smaller subsets make them
\* up.
LEMMA PartialExist ==
  ASSUME NEW f, NEW T, IsFiniteSet(T)
  PROVE  \E g : Partial(f, T, g)
<1>. DEFINE F == {s \in SUBSET T : ~ \E g : Partial(f, s, g)}
<1>. SUFFICES ASSUME F # {} PROVE FALSE
  OBVIOUS
<1>1. PICK m \in F : \A U \in F : U \subseteq m => U = m
  <2>1. F \in SUBSET SUBSET T
    OBVIOUS
  <2>. HIDE DEF F
  <2>. QED
    BY <2>1, Smallest
<1>. DEFINE Sol(U) == CHOOSE g : Partial(f, U, g)
            G == [U \in SUBSET m |-> Sol(U)[U]]
            g == [s \in SUBSET m |-> PartialStep(f, G, s)]
<1>2. ASSUME NEW U \in SUBSET m, U # m PROVE Partial(f, U, Sol(U))
  <2>1. U \notin F /\ U \in SUBSET T
    BY <1>1, <1>2
  <2>. QED
    BY <2>1
<1>3. ASSUME NEW U \in SUBSET m, U # m PROVE g[U] = G[U]
  <2>1. Sol(U)[U] = PartialStep(f, Sol(U), U)
    <3>. HIDE DEF Sol
    <3>. QED
      BY <1>2, <1>3 DEF Partial
  <2>2. CASE U = {}
    BY <2>1, <2>2 DEF PartialStep
  <2>3. CASE U # {}
    <3>. DEFINE W == U \ {Pick(U)}
    <3>1. W \in SUBSET U /\ W \in SUBSET m /\ W # m
      BY <2>3, PickIn
    <3>2. IsFiniteSet(U)
      BY <1>1, FS_Subset
    <3>3. Partial(f, U, Sol(U)) /\ Partial(f, W, Sol(W))
      BY <1>2, <1>3, <3>1
    <3>. HIDE DEF Sol
    <3>4. Sol(U)[W] = Sol(W)[W]
      BY <3>1, <3>2, <3>3, PartialAgree
    <3>5. G[U] = Sol(U)[U] /\ G[W] = Sol(W)[W]
      BY <3>1
    <3>. QED
      BY <2>1, <2>3, <3>4, <3>5 DEF PartialStep
  <2>. QED
    BY <2>2, <2>3
<1>4. ASSUME NEW s \in SUBSET m
      PROVE  PartialStep(f, G, s) = PartialStep(f, g, s)
  <2>1. CASE s = {}
    BY <2>1 DEF PartialStep
  <2>2. CASE s # {}
    <3>1. s \ {Pick(s)} \in SUBSET m /\ s \ {Pick(s)} # m
      BY <2>2, PickIn
    <3>. HIDE DEF G, g
    <3>. QED
      BY <1>3, <2>2, <3>1 DEF PartialStep
  <2>. QED
    BY <2>1, <2>2
<1>5. Partial(f, m, g)
  <2>. HIDE DEF G
  <2>1. g = [s \in SUBSET m |-> PartialStep(f, g, s)]
    BY <1>4
  <2>. HIDE DEF g
  <2>. QED
    BY <2>1 DEF Partial
<1>. QED
  BY <1>5

-----------------------------------------------------------------------------
(* What a sum is.                                                          *)

\* So the sum is that of the rest and of the element that is picked first.
LEMMA SumOfPicked ==
  ASSUME NEW f, NEW S, IsFiniteSet(S), S # {}
  PROVE  SumOver(f, S) = f[Pick(S)] + SumOver(f, S \ {Pick(S)})
<1>. DEFINE Sol(U) == CHOOSE g : Partial(f, U, g)
            W == S \ {Pick(S)}
<1>1. IsFiniteSet(W)
  BY FS_RemoveElement
<1>2. Partial(f, S, Sol(S)) /\ Partial(f, W, Sol(W))
  BY <1>1, PartialExist
<1>3. SumOver(f, S) = Sol(S)[S] /\ SumOver(f, W) = Sol(W)[W]
  BY SumIs
<1>. HIDE DEF Sol
<1>4. Sol(S)[W] = Sol(W)[W]
  <2>1. W \in SUBSET S /\ W \in SUBSET W
    OBVIOUS
  <2>. HIDE DEF W
  <2>. QED
    BY <1>2, <2>1, PartialAgree
<1>5. Sol(S)[S] = f[Pick(S)] + Sol(S)[W]
  BY <1>2 DEF Partial, PartialStep
<1>. QED
  BY <1>3, <1>4, <1>5

\* The sum over the empty set.
LEMMA SumEmpty ==
  ASSUME NEW f
  PROVE  SumOver(f, {}) = 0
<1>. DEFINE Sol == CHOOSE g : Partial(f, {}, g)
<1>1. Partial(f, {}, Sol)
  BY PartialExist, FS_EmptySet
<1>2. SumOver(f, {}) = Sol[{}]
  BY SumIs
<1>. HIDE DEF Sol
<1>. QED
  BY <1>1, <1>2 DEF Partial, PartialStep

\* The sum of natural numbers is one.
LEMMA SumNat ==
  ASSUME NEW S, IsFiniteSet(S), NEW f, \A x \in S : f[x] \in Nat
  PROVE  SumOver(f, S) \in Nat
<1>. DEFINE F == {s \in SUBSET S : SumOver(f, s) \notin Nat}
<1>. SUFFICES ASSUME F # {} PROVE FALSE
  OBVIOUS
<1>1. PICK m \in F : \A U \in F : U \subseteq m => U = m
  <2>1. F \in SUBSET SUBSET S
    OBVIOUS
  <2>. HIDE DEF F
  <2>. QED
    BY <2>1, Smallest
<1>2. m # {} /\ IsFiniteSet(m)
  <2>1. SumOver(f, m) \notin Nat
    OBVIOUS
  <2>2. m # {}
    BY <2>1, SumEmpty
  <2>. QED
    BY <2>2, FS_Subset
<1>3. Pick(m) \in m /\ Pick(m) \in S
  BY <1>2, PickIn
<1>4. SumOver(f, m \ {Pick(m)}) \in Nat
  BY <1>1, <1>3
<1>5. SumOver(f, m) = f[Pick(m)] + SumOver(f, m \ {Pick(m)})
  BY <1>2, SumOfPicked
<1>. QED
  BY <1>3, <1>4, <1>5

\* Any element could have been picked first.
LEMMA SumRemove ==
  ASSUME NEW S, IsFiniteSet(S), NEW f, \A x \in S : f[x] \in Nat, NEW y \in S
  PROVE  SumOver(f, S) = f[y] + SumOver(f, S \ {y})
<1>. DEFINE F == {s \in SUBSET S :
                    \E z \in s : SumOver(f, s) # f[z] + SumOver(f, s \ {z})}
<1>. SUFFICES ASSUME F # {} PROVE FALSE
  OBVIOUS
<1>1. PICK m \in F : \A U \in F : U \subseteq m => U = m
  <2>1. F \in SUBSET SUBSET S
    OBVIOUS
  <2>. HIDE DEF F
  <2>. QED
    BY <2>1, Smallest
<1>2. PICK z \in m : SumOver(f, m) # f[z] + SumOver(f, m \ {z})
  OBVIOUS
<1>. DEFINE x == Pick(m)
<1>3. x \in m /\ m \in SUBSET S /\ IsFiniteSet(m)
  BY PickIn, FS_Subset
<1>4. SumOver(f, m) = f[x] + SumOver(f, m \ {x})
  BY <1>3, SumOfPicked
<1>5. x # z
  BY <1>2, <1>4
<1>. HIDE DEF x
<1>6. \A U \in SUBSET m : \A w \in U :
         U # m => SumOver(f, U) = f[w] + SumOver(f, U \ {w})
  BY <1>1
<1>7. SumOver(f, m \ {x}) = f[z] + SumOver(f, (m \ {x}) \ {z})
  BY <1>3, <1>5, <1>6
<1>8. SumOver(f, m \ {z}) = f[x] + SumOver(f, (m \ {z}) \ {x})
  BY <1>3, <1>5, <1>6
<1>9. (m \ {x}) \ {z} = (m \ {z}) \ {x} /\ (m \ {x}) \ {z} \in SUBSET S
  BY <1>3
<1>10. SumOver(f, (m \ {x}) \ {z}) \in Nat
  BY <1>9, SumNat, FS_Subset
<1>11. f[x] \in Nat /\ f[z] \in Nat
  BY <1>3
<1>. QED
  <2>. HIDE DEF F
  <2>. QED
    BY <1>2, <1>4, <1>7, <1>8, <1>9, <1>10, <1>11

\* What a new element adds to the sum.
LEMMA SumAdd ==
  ASSUME NEW S, IsFiniteSet(S), NEW y, y \notin S,
         NEW f, \A x \in S \cup {y} : f[x] \in Nat
  PROVE  SumOver(f, S \cup {y}) = SumOver(f, S) + f[y]
<1>1. IsFiniteSet(S \cup {y}) /\ (S \cup {y}) \ {y} = S
  BY FS_AddElement
<1>2. SumOver(f, S \cup {y}) = f[y] + SumOver(f, (S \cup {y}) \ {y})
  BY <1>1, SumRemove
<1>3. f[y] \in Nat /\ SumOver(f, S) \in Nat
  BY SumNat
<1>. QED
  BY <1>1, <1>2, <1>3
=============================================================================
