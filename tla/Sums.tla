-------------------------------- MODULE Sums --------------------------------
(***************************************************************************)
(* Facts about the sum of a function's values over a finite set, the       *)
(* SumFunctionOnSet of the community modules.  Its definition folds with a *)
(* recursive function over the subsets, so that nothing is known of it     *)
(* before that function is shown to exist.                                 *)
(***************************************************************************)
EXTENDS FiniteSetTheorems, FiniteSetsExt, TLAPS

\* Induction over finite sets: of the sets that lack a property one is
\* minimal, all its proper subsets have it.
LEMMA MinimalSet ==
  ASSUME NEW D, IsFiniteSet(D), NEW Bad, Bad \subseteq SUBSET D, Bad # {}
  PROVE \E S \in Bad : \A T \in SUBSET S : T # S => T \notin Bad
<1>1. IsWellFoundedOn(StrictSubsetOrdering(D), SUBSET D)
  BY FS_StrictSubsetOrderingWellFounded, FS_FiniteSubsetsOfFinite
<1>2. PICK S \in Bad : \A T \in Bad : ~ (<<T, S>> \in StrictSubsetOrdering(D))
  BY <1>1, WFMin
<1> QED BY <1>2 DEF StrictSubsetOrdering

Chosen(s) == CHOOSE x \in s : TRUE

\* g sums f over each subset of S, one element after the other.
IsFold(f, g, S) ==
  g = [s \in SUBSET S |-> IF s = {} THEN 0 ELSE f[Chosen(s)] + g[s \ {Chosen(s)}]]

TheFold(f, S) == CHOOSE g : IsFold(f, g, S)

\* The sum of the library is that fold.
LEMMA SumIsFold ==
  ASSUME NEW f, NEW S
  PROVE SumFunctionOnSet(f, S) = TheFold(f, S)[S]
BY DEF SumFunctionOnSet, FoldFunctionOnSet, MapThenFoldSet, TheFold, IsFold, Chosen

\* A fold at one of its subsets.
LEMMA FoldAt ==
  ASSUME NEW f, NEW g, NEW S, IsFold(f, g, S), NEW s \in SUBSET S
  PROVE g[s] = IF s = {} THEN 0 ELSE f[Chosen(s)] + g[s \ {Chosen(s)}]
BY DEF IsFold

\* What is chosen is an element.
LEMMA ChosenIn == ASSUME NEW s, s # {} PROVE Chosen(s) \in s
BY DEF Chosen

\* Two folds agree where both are defined.
LEMMA FoldsAgree ==
  ASSUME NEW D, IsFiniteSet(D), NEW f, NEW g, NEW h, NEW S \in SUBSET D, NEW T \in SUBSET D,
         IsFold(f, g, S), IsFold(f, h, T)
  PROVE \A s \in SUBSET (S \cap T) : g[s] = h[s]
<1> DEFINE Bad == {s \in SUBSET (S \cap T) : g[s] # h[s]}
<1> SUFFICES ASSUME Bad # {} PROVE FALSE
  OBVIOUS
<1>1. PICK s \in Bad : \A u \in SUBSET s : u # s => u \notin Bad
  <2>1. Bad \subseteq SUBSET D
    OBVIOUS
  <2> HIDE DEF Bad
  <2> QED BY <2>1, MinimalSet
<1>2. /\ g[s] = IF s = {} THEN 0 ELSE f[Chosen(s)] + g[s \ {Chosen(s)}]
      /\ h[s] = IF s = {} THEN 0 ELSE f[Chosen(s)] + h[s \ {Chosen(s)}]
  BY FoldAt
<1>3. s # {}
  BY <1>2
<1>4. s \ {Chosen(s)} # s /\ s \ {Chosen(s)} \in SUBSET s
  BY <1>3, ChosenIn
<1>5. g[s \ {Chosen(s)}] = h[s \ {Chosen(s)}]
  BY <1>1, <1>4
<1> QED BY <1>2, <1>3, <1>5

\* A finite set has its fold.
LEMMA FoldExists ==
  ASSUME NEW f, NEW D, IsFiniteSet(D)
  PROVE IsFold(f, TheFold(f, D), D)
<1> DEFINE Bad == {S \in SUBSET D : ~ \E g : IsFold(f, g, S)}
<1> SUFFICES ASSUME Bad # {} PROVE FALSE
  <2>1. D \notin Bad => \E g : IsFold(f, g, D)
    OBVIOUS
  <2> QED BY <2>1 DEF TheFold
<1>1. PICK S \in Bad : \A T \in SUBSET S : T # S => T \notin Bad
  <2>1. Bad \subseteq SUBSET D
    OBVIOUS
  <2> HIDE DEF Bad
  <2> QED BY <2>1, MinimalSet
<1>2. \A T \in SUBSET S : T # S => IsFold(f, TheFold(f, T), T)
  BY <1>1 DEF TheFold
<1> DEFINE g == [s \in SUBSET S |->
                   IF s = {} THEN 0
                   ELSE f[Chosen(s)] + TheFold(f, s \ {Chosen(s)})[s \ {Chosen(s)}]]
<1>3. ASSUME NEW T \in SUBSET S, T # S PROVE g[T] = TheFold(f, T)[T]
  <2>1. IsFold(f, TheFold(f, T), T)
    BY <1>2, <1>3
  <2>2. TheFold(f, T)[T] = IF T = {} THEN 0 ELSE f[Chosen(T)] + TheFold(f, T)[T \ {Chosen(T)}]
    BY <2>1, FoldAt
  <2>3. ASSUME T # {} PROVE TheFold(f, T)[T \ {Chosen(T)}] = TheFold(f, T \ {Chosen(T)})[T \ {Chosen(T)}]
    <3> DEFINE U == T \ {Chosen(T)}
    <3>1. U \in SUBSET S /\ U # S /\ U \in SUBSET D /\ T \in SUBSET D /\ U \in SUBSET (T \cap U)
      BY <2>3, ChosenIn
    <3>2. IsFold(f, TheFold(f, U), U)
      BY <1>2, <3>1
    <3> HIDE DEF U
    <3>3. TheFold(f, T)[U] = TheFold(f, U)[U]
      BY <2>1, <3>1, <3>2, FoldsAgree
    <3> QED BY <3>3 DEF U
  <2> QED BY <2>2, <2>3
<1>4. ASSUME NEW s \in SUBSET S, s # {}
      PROVE g[s \ {Chosen(s)}] = TheFold(f, s \ {Chosen(s)})[s \ {Chosen(s)}]
  <2>1. s \ {Chosen(s)} \in SUBSET S /\ s \ {Chosen(s)} # S
    BY <1>4, ChosenIn
  <2> HIDE DEF g
  <2> QED BY <1>3, <2>1
<1>5. IsFold(f, g, S)
  <2>1. g = [s \in SUBSET S |-> g[s]]
    OBVIOUS
  <2>2. \A s \in SUBSET S : g[s] = IF s = {} THEN 0 ELSE f[Chosen(s)] + g[s \ {Chosen(s)}]
    BY <1>4
  <2> HIDE DEF g
  <2> QED BY <2>1, <2>2 DEF IsFold
<1> QED BY <1>1, <1>5

-----------------------------------------------------------------------------

\* A sum takes the definition's own choice of an element first.
LEMMA SumUnfolds ==
  ASSUME NEW f, NEW S, IsFiniteSet(S)
  PROVE SumFunctionOnSet(f, S) =
          IF S = {} THEN 0 ELSE f[Chosen(S)] + SumFunctionOnSet(f, S \ {Chosen(S)})
<1>1. IsFold(f, TheFold(f, S), S)
  BY FoldExists
<1>2. TheFold(f, S)[S] = IF S = {} THEN 0 ELSE f[Chosen(S)] + TheFold(f, S)[S \ {Chosen(S)}]
  <2> DEFINE g == TheFold(f, S)
  <2> HIDE DEF g
  <2>1. \A s \in SUBSET S : g[s] = IF s = {} THEN 0 ELSE f[Chosen(s)] + g[s \ {Chosen(s)}]
    BY <1>1, FoldAt DEF g
  <2> QED BY <2>1 DEF g
<1>3. TheFold(f, S)[S \ {Chosen(S)}] = TheFold(f, S \ {Chosen(S)})[S \ {Chosen(S)}]
  <2> DEFINE U == S \ {Chosen(S)}
  <2>1. IsFiniteSet(U) /\ U \in SUBSET S /\ U \in SUBSET (S \cap U) /\ S \in SUBSET S
    BY FS_Subset
  <2> HIDE DEF U
  <2>2. IsFold(f, TheFold(f, U), U)
    BY <2>1, FoldExists
  <2>3. TheFold(f, S)[U] = TheFold(f, U)[U]
    BY <1>1, <2>1, <2>2, FoldsAgree
  <2> QED BY <2>3 DEF U
<1> QED BY <1>2, <1>3, SumIsFold

\* The terms are whole numbers.
Summable(f, S) == IsFiniteSet(S) /\ \A x \in S : f[x] \in Int

\* Nothing sums to zero.
LEMMA SumEmpty == ASSUME NEW f PROVE SumFunctionOnSet(f, {}) = 0
BY SumUnfolds, FS_EmptySet

\* A sum of whole numbers is one.
LEMMA SumType ==
  ASSUME NEW f, NEW D, Summable(f, D)
  PROVE SumFunctionOnSet(f, D) \in Int
<1> DEFINE Bad == {S \in SUBSET D : SumFunctionOnSet(f, S) \notin Int}
<1> SUFFICES ASSUME Bad # {} PROVE FALSE
  <2>1. D \in SUBSET D
    OBVIOUS
  <2> QED BY <2>1
<1>1. PICK S \in Bad : \A T \in SUBSET S : T # S => T \notin Bad
  <2>1. Bad \subseteq SUBSET D /\ IsFiniteSet(D)
    BY DEF Summable
  <2> HIDE DEF Bad
  <2> QED BY <2>1, MinimalSet
<1>2. IsFiniteSet(S) /\ S # {}
  <2>1. S \in SUBSET D /\ IsFiniteSet(D)
    BY DEF Summable
  <2>2. IsFiniteSet(S)
    BY <2>1, FS_Subset
  <2>3. SumFunctionOnSet(f, S) # 0
    OBVIOUS
  <2> HIDE DEF Bad
  <2>4. S # {}
    BY <2>3, SumEmpty, Zenon
  <2> QED BY <2>2, <2>4
<1>3. SumFunctionOnSet(f, S) = f[Chosen(S)] + SumFunctionOnSet(f, S \ {Chosen(S)})
  BY <1>2, SumUnfolds
<1>4. S \ {Chosen(S)} # S /\ S \ {Chosen(S)} \in SUBSET S /\ Chosen(S) \in D
  BY <1>2, ChosenIn
<1>5. SumFunctionOnSet(f, S \ {Chosen(S)}) \in Int
  BY <1>1, <1>4
<1> QED BY <1>1, <1>3, <1>4, <1>5 DEF Summable

\* Any term can be taken out of the sum.
LEMMA SumRemove ==
  ASSUME NEW f, NEW D, Summable(f, D), NEW y \in D
  PROVE SumFunctionOnSet(f, D) = f[y] + SumFunctionOnSet(f, D \ {y})
<1> DEFINE Bad == {S \in SUBSET D :
             \E x \in S : SumFunctionOnSet(f, S) # f[x] + SumFunctionOnSet(f, S \ {x})}
<1> SUFFICES ASSUME Bad # {} PROVE FALSE
  <2>1. D \in SUBSET D
    OBVIOUS
  <2> QED BY <2>1
<1>1. PICK S \in Bad : \A T \in SUBSET S : T # S => T \notin Bad
  <2>1. Bad \subseteq SUBSET D /\ IsFiniteSet(D)
    BY DEF Summable
  <2> HIDE DEF Bad
  <2> QED BY <2>1, MinimalSet
<1>2. PICK x \in S : SumFunctionOnSet(f, S) # f[x] + SumFunctionOnSet(f, S \ {x})
  BY <1>1
<1> DEFINE c == Chosen(S)
<1>3. \A T \in SUBSET D : IsFiniteSet(T) /\ Summable(f, T) /\ SumFunctionOnSet(f, T) \in Int
  BY FS_Subset, SumType DEF Summable
<1>4. SumFunctionOnSet(f, S) = f[c] + SumFunctionOnSet(f, S \ {c})
  BY <1>2, <1>3, SumUnfolds
<1>5. c \in S /\ c # x
  BY <1>2, <1>4, ChosenIn
<1> HIDE DEF c
<1>6. SumFunctionOnSet(f, S \ {c}) = f[x] + SumFunctionOnSet(f, (S \ {c}) \ {x})
  <2>1. S \ {c} \notin Bad /\ S \ {c} \in SUBSET D /\ x \in S \ {c}
    BY <1>1, <1>5
  <2> QED BY <2>1
<1>7. SumFunctionOnSet(f, S \ {x}) = f[c] + SumFunctionOnSet(f, (S \ {x}) \ {c})
  <2>1. S \ {x} \notin Bad /\ S \ {x} \in SUBSET D /\ c \in S \ {x}
    BY <1>1, <1>5
  <2> QED BY <2>1
<1>8. (S \ {x}) \ {c} = (S \ {c}) \ {x} /\ (S \ {x}) \ {c} \in SUBSET D
  OBVIOUS
<1>9. /\ f[x] \in Int /\ f[c] \in Int /\ SumFunctionOnSet(f, (S \ {c}) \ {x}) \in Int
  BY <1>3, <1>5, <1>8 DEF Summable
<1>10. /\ SumFunctionOnSet(f, S) = f[c] + (f[x] + SumFunctionOnSet(f, (S \ {c}) \ {x}))
       /\ SumFunctionOnSet(f, S \ {x}) = f[c] + SumFunctionOnSet(f, (S \ {c}) \ {x})
  BY <1>4, <1>6, <1>7, <1>8
<1> HIDE DEF Bad
<1> QED BY <1>2, <1>9, <1>10

\* A new term is added to the sum.
LEMMA SumAdd ==
  ASSUME NEW f, NEW S, NEW y, y \notin S, Summable(f, S \cup {y})
  PROVE SumFunctionOnSet(f, S \cup {y}) = f[y] + SumFunctionOnSet(f, S)
<1>1. (S \cup {y}) \ {y} = S /\ y \in S \cup {y}
  OBVIOUS
<1> QED BY <1>1, SumRemove

\* Only the terms matter.
LEMMA SumSame ==
  ASSUME NEW f, NEW g, NEW D, IsFiniteSet(D), \A x \in D : f[x] = g[x]
  PROVE SumFunctionOnSet(f, D) = SumFunctionOnSet(g, D)
<1> DEFINE Bad == {S \in SUBSET D : SumFunctionOnSet(f, S) # SumFunctionOnSet(g, S)}
<1> SUFFICES ASSUME Bad # {} PROVE FALSE
  <2>1. D \in SUBSET D
    OBVIOUS
  <2> QED BY <2>1
<1>1. PICK S \in Bad : \A T \in SUBSET S : T # S => T \notin Bad
  <2>1. Bad \subseteq SUBSET D
    OBVIOUS
  <2> HIDE DEF Bad
  <2> QED BY <2>1, MinimalSet
<1>2. IsFiniteSet(S) /\ S # {}
  BY <1>1, SumEmpty, FS_Subset
<1>3. /\ SumFunctionOnSet(f, S) = f[Chosen(S)] + SumFunctionOnSet(f, S \ {Chosen(S)})
      /\ SumFunctionOnSet(g, S) = g[Chosen(S)] + SumFunctionOnSet(g, S \ {Chosen(S)})
  BY <1>2, SumUnfolds
<1>4. S \ {Chosen(S)} # S /\ S \ {Chosen(S)} \in SUBSET S /\ Chosen(S) \in D
  BY <1>2, ChosenIn
<1>5. SumFunctionOnSet(f, S \ {Chosen(S)}) = SumFunctionOnSet(g, S \ {Chosen(S)})
  BY <1>1, <1>4
<1> QED BY <1>1, <1>3, <1>4, <1>5

\* One term changes.
LEMMA SumUpdate ==
  ASSUME NEW f, NEW g, NEW S, Summable(f, S), Summable(g, S), NEW y \in S,
         \A x \in S : x # y => g[x] = f[x]
  PROVE SumFunctionOnSet(g, S) = SumFunctionOnSet(f, S) + g[y] - f[y]
<1>1. SumFunctionOnSet(f, S) = f[y] + SumFunctionOnSet(f, S \ {y})
  BY SumRemove
<1>2. SumFunctionOnSet(g, S) = g[y] + SumFunctionOnSet(g, S \ {y})
  BY SumRemove
<1>3. IsFiniteSet(S \ {y}) /\ Summable(f, S \ {y})
  BY FS_Subset DEF Summable
<1>4. SumFunctionOnSet(f, S \ {y}) = SumFunctionOnSet(g, S \ {y}) /\ SumFunctionOnSet(f, S \ {y}) \in Int
  BY <1>3, SumSame, SumType
<1> QED BY <1>1, <1>2, <1>4 DEF Summable

\* A sum of natural numbers is one.
LEMMA SumNat ==
  ASSUME NEW f, NEW D, IsFiniteSet(D), \A x \in D : f[x] \in Nat
  PROVE SumFunctionOnSet(f, D) \in Nat
<1> DEFINE Bad == {S \in SUBSET D : SumFunctionOnSet(f, S) \notin Nat}
<1> SUFFICES ASSUME Bad # {} PROVE FALSE
  <2>1. D \in SUBSET D
    OBVIOUS
  <2> QED BY <2>1
<1>1. PICK S \in Bad : \A T \in SUBSET S : T # S => T \notin Bad
  <2>1. Bad \subseteq SUBSET D
    OBVIOUS
  <2> HIDE DEF Bad
  <2> QED BY <2>1, MinimalSet
<1>2. IsFiniteSet(S) /\ S # {}
  <2>1. S \in SUBSET D
    OBVIOUS
  <2>2. IsFiniteSet(S)
    BY <2>1, FS_Subset
  <2>3. SumFunctionOnSet(f, S) # 0
    OBVIOUS
  <2> HIDE DEF Bad
  <2>4. S # {}
    BY <2>3, SumEmpty, Zenon
  <2> QED BY <2>2, <2>4
<1>3. SumFunctionOnSet(f, S) = f[Chosen(S)] + SumFunctionOnSet(f, S \ {Chosen(S)})
  BY <1>2, SumUnfolds
<1>4. S \ {Chosen(S)} # S /\ S \ {Chosen(S)} \in SUBSET S /\ Chosen(S) \in D
  BY <1>2, ChosenIn
<1>5. SumFunctionOnSet(f, S \ {Chosen(S)}) \in Nat
  BY <1>1, <1>4
<1> QED BY <1>1, <1>3, <1>4, <1>5

\* Naturals one of which is positive sum to a positive number.
LEMMA SumPositive ==
  ASSUME NEW f, NEW D, IsFiniteSet(D), \A x \in D : f[x] \in Nat, NEW y \in D, f[y] > 0
  PROVE SumFunctionOnSet(f, D) > 0
<1>1. SumFunctionOnSet(f, D) = f[y] + SumFunctionOnSet(f, D \ {y})
  BY SumRemove DEF Summable
<1>2. IsFiniteSet(D \ {y})
  BY FS_RemoveElement
<1>3. SumFunctionOnSet(f, D \ {y}) \in Nat
  BY <1>2, SumNat
<1> QED BY <1>1, <1>3

\* Zeros sum to zero.
LEMMA SumZero ==
  ASSUME NEW f, NEW D, IsFiniteSet(D), \A x \in D : f[x] = 0
  PROVE SumFunctionOnSet(f, D) = 0
<1> DEFINE Bad == {S \in SUBSET D : SumFunctionOnSet(f, S) # 0}
<1> SUFFICES ASSUME Bad # {} PROVE FALSE
  <2>1. D \in SUBSET D
    OBVIOUS
  <2> QED BY <2>1
<1>1. PICK S \in Bad : \A T \in SUBSET S : T # S => T \notin Bad
  <2>1. Bad \subseteq SUBSET D
    OBVIOUS
  <2> HIDE DEF Bad
  <2> QED BY <2>1, MinimalSet
<1>2. IsFiniteSet(S) /\ S # {}
  BY <1>1, SumEmpty, FS_Subset
<1>3. SumFunctionOnSet(f, S) = f[Chosen(S)] + SumFunctionOnSet(f, S \ {Chosen(S)})
  BY <1>2, SumUnfolds
<1>4. S \ {Chosen(S)} # S /\ S \ {Chosen(S)} \in SUBSET S /\ Chosen(S) \in D
  BY <1>2, ChosenIn
<1>5. SumFunctionOnSet(f, S \ {Chosen(S)}) = 0
  BY <1>1, <1>4
<1> QED BY <1>1, <1>3, <1>4, <1>5

\* Mapping a function over a set and summing is summing the function.
LEMMA MapSum ==
  ASSUME NEW f, NEW S
  PROVE MapThenSumSet(LAMBDA x : f[x], S) = SumFunctionOnSet(f, S)
<1> DEFINE Step(iter, s) ==
      IF s = {} THEN 0
      ELSE f[CHOOSE x \in s : TRUE] + iter[s \ {CHOOSE x \in s : TRUE}]
<1>1. \A iter : iter = [s \in SUBSET S |-> Step(iter, s)] <=> IsFold(f, iter, S)
  BY DEF IsFold, Chosen
<1>2. MapThenSumSet(LAMBDA x : f[x], S) = (CHOOSE iter : iter = [s \in SUBSET S |-> Step(iter, s)])[S]
  BY DEF MapThenSumSet, MapThenFoldSet
<1>3. (CHOOSE iter : iter = [s \in SUBSET S |-> Step(iter, s)]) = CHOOSE iter : IsFold(f, iter, S)
  <2> HIDE DEF Step
  <2> QED BY <1>1
<1> QED BY <1>2, <1>3, SumIsFold DEF TheFold
=============================================================================
