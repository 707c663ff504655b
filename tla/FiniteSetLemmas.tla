-------------------------- MODULE FiniteSetLemmas ---------------------------
(***************************************************************************)
(* Induction over finite sets, and what follows from it: greatest values,  *)
(* and sums, in which the specifications add up order lines, totals and    *)
(* revenues (SumFunctionOnSet of the community module Functions).          *)
(***************************************************************************)
EXTENDS Integers, Functions, FiniteSetTheorems, TLAPS

\* Induction over the subsets of a finite set, as a statement about the set of
\* the subsets that have the property: no least subset is outside it.
LEMMA SubsetInduction ==
    ASSUME NEW S, IsFiniteSet(S), NEW Good,
           \A T \in SUBSET S : (\A U \in SUBSET T : U # T => U \in Good) => T \in Good
    PROVE  \A T \in SUBSET S : T \in Good
<1> DEFINE R == StrictSubsetOrdering(S)
           Bad == {T \in SUBSET S : T \notin Good}
<1>1. IsWellFoundedOn(R, SUBSET S)
    BY FS_StrictSubsetOrderingWellFounded, FS_FiniteSubsetsOfFinite
<1>2. Bad \subseteq SUBSET S
    OBVIOUS
<1> SUFFICES ASSUME Bad # {} PROVE FALSE
    OBVIOUS
<1>3. PICK T \in Bad : \A U \in Bad : <<U, T>> \notin R
    <2> HIDE DEF R, Bad
    <2> QED BY <1>1, <1>2, WFMin
<1>4. \A U \in SUBSET T : U # T => U \in Good
    BY <1>3 DEF StrictSubsetOrdering
<1> QED BY <1>3, <1>4

\* Among finitely many values there is a greatest.
LEMMA GreatestValue ==
    ASSUME NEW S, IsFiniteSet(S), S # {}, NEW f, \A x \in S : f[x] \in Int
    PROVE  \E x \in S : \A y \in S : f[y] <= f[x]
<1> DEFINE Good == {T \in SUBSET S : T # {} => \E x \in T : \A y \in T : f[y] <= f[x]}
<1>1. ASSUME NEW T \in SUBSET S, \A U \in SUBSET T : U # T => U \in Good, T # {}
      PROVE  \E x \in T : \A y \in T : f[y] <= f[x]
    <2>1. PICK z \in T : TRUE
        BY <1>1
    <2>2. T \ {z} \in Good
        BY <1>1
    <2>3. CASE T \ {z} = {}
        BY <2>3
    <2>4. CASE T \ {z} # {}
        <3>1. PICK x \in T \ {z} : \A y \in T \ {z} : f[y] <= f[x]
            BY <2>2, <2>4
        <3>2. CASE f[z] <= f[x]
            BY <3>1, <3>2
        <3>3. CASE f[x] < f[z]
            BY <3>1, <3>3
        <3> QED BY <3>2, <3>3
    <2> QED BY <2>3, <2>4
<1>2. \A T \in SUBSET S : (\A U \in SUBSET T : U # T => U \in Good) => T \in Good
    BY <1>1
<1> HIDE DEF Good
<1>3. S \in Good
    BY <1>2, SubsetInduction
<1> QED BY <1>3 DEF Good

----------------------------------------------------------------------------
(* The recursion behind SumFunctionOnSet. *)

Some(T) == CHOOSE x \in T : TRUE

SumsUp(g, f, S) ==
    g = [T \in SUBSET S |-> IF T = {} THEN 0 ELSE f[Some(T)] + g[T \ {Some(T)}]]

LEMMA SumUnfold ==
    ASSUME NEW f, NEW S
    PROVE  SumFunctionOnSet(f, S) = (CHOOSE g : SumsUp(g, f, S))[S]
BY DEF SumFunctionOnSet, FoldFunctionOnSet, MapThenFoldSet, SumsUp, Some
\* Two functions that follow the recursion agree.
LEMMA SumUnique ==
    ASSUME NEW f, NEW S, IsFiniteSet(S), NEW g, NEW h, SumsUp(g, f, S),
           \A T \in SUBSET S : h[T] = IF T = {} THEN 0
                                      ELSE f[Some(T)] + h[T \ {Some(T)}]
    PROVE  \A T \in SUBSET S : g[T] = h[T]
<1> DEFINE Good == {T \in SUBSET S : g[T] = h[T]}
<1>1. ASSUME NEW T \in SUBSET S, \A U \in SUBSET T : U # T => U \in Good
      PROVE  T \in Good
    <2>1. CASE T = {}
        BY <2>1 DEF SumsUp
    <2>2. CASE T # {}
        <3>1. Some(T) \in T
            BY <2>2 DEF Some
        <3>2. g[T \ {Some(T)}] = h[T \ {Some(T)}]
            BY <1>1, <3>1
        <3> QED BY <2>2, <3>2 DEF SumsUp
    <2> QED BY <2>1, <2>2
<1> HIDE DEF Good
<1>2. \A T \in SUBSET S : T \in Good
    BY <1>1, SubsetInduction
<1> QED BY <1>2 DEF Good

\* The sum of a finite set takes out the element that CHOOSE picks.
LEMMA SumSome ==
    ASSUME NEW f, NEW S, IsFiniteSet(S)
    PROVE  SumFunctionOnSet(f, S) =
               IF S = {} THEN 0
               ELSE f[Some(S)] + SumFunctionOnSet(f, S \ {Some(S)})
<1> DEFINE Rest(T) == IF T = {} THEN 0
                      ELSE f[Some(T)] + SumFunctionOnSet(f, T \ {Some(T)})
           Good == {T \in SUBSET S : SumFunctionOnSet(f, T) = Rest(T)}
<1>1. ASSUME NEW T \in SUBSET S, \A U \in SUBSET T : U # T => U \in Good
      PROVE  T \in Good
    <2> DEFINE h == [U \in SUBSET T |-> IF U = T THEN Rest(T) ELSE SumFunctionOnSet(f, U)]
    <2>1. \A U \in SUBSET T : h[U] = Rest(U)
        BY <1>1
    <2>2. ASSUME NEW U \in SUBSET T, U # {}
          PROVE  h[U \ {Some(U)}] = SumFunctionOnSet(f, U \ {Some(U)})
        <3>1. Some(U) \in U
            BY <2>2 DEF Some
        <3> QED BY <3>1
    <2>3. \A U \in SUBSET T : h[U] = IF U = {} THEN 0
                                     ELSE f[Some(U)] + h[U \ {Some(U)}]
        BY <2>1, <2>2
    <2>4. SumsUp(h, f, T)
        BY <2>3 DEF SumsUp
    <2> DEFINE c == CHOOSE g : SumsUp(g, f, T)
    <2>5. SumsUp(c, f, T)
        BY <2>4
    <2>6. IsFiniteSet(T)
        BY FS_Subset
    <2>7. SumFunctionOnSet(f, T) = h[T]
        <3>1. SumFunctionOnSet(f, T) = c[T]
            BY SumUnfold
        <3> HIDE DEF h, c
        <3>2. \A U \in SUBSET T : c[U] = h[U]
            BY ONLY <2>3, <2>5, <2>6, SumUnique
        <3> QED BY <3>1, <3>2
    <2> QED BY <2>7
<1> HIDE DEF Good
<1>2. \A T \in SUBSET S : T \in Good
    BY <1>1, SubsetInduction
<1> QED BY <1>2 DEF Good
----------------------------------------------------------------------------
(* What the proofs about the shop use. *)

Numeric(f, S) == \A x \in S : f[x] \in Int

LEMMA SumEmpty == \A f : SumFunctionOnSet(f, {}) = 0
BY SumSome, FS_EmptySet

LEMMA SumType ==
    ASSUME NEW S, IsFiniteSet(S), NEW f, Numeric(f, S)
    PROVE  SumFunctionOnSet(f, S) \in Int
<1> DEFINE Good == {T \in SUBSET S : SumFunctionOnSet(f, T) \in Int}
<1>1. ASSUME NEW T \in SUBSET S, \A U \in SUBSET T : U # T => U \in Good
      PROVE  T \in Good
    <2>1. IsFiniteSet(T)
        BY FS_Subset
    <2>2. CASE T = {}
        BY <2>2, SumEmpty
    <2>3. CASE T # {}
        <3>1. Some(T) \in T
            BY <2>3 DEF Some
        <3>2. f[Some(T)] \in Int /\ SumFunctionOnSet(f, T \ {Some(T)}) \in Int
            BY <1>1, <3>1 DEF Numeric
        <3> QED BY <2>1, <2>3, <3>2, SumSome
    <2> QED BY <2>2, <2>3
<1> HIDE DEF Good
<1>2. \A T \in SUBSET S : T \in Good
    BY <1>1, SubsetInduction
<1> QED BY <1>2 DEF Good

\* Any element can be taken out first.
LEMMA SumRemove ==
    ASSUME NEW S, IsFiniteSet(S), NEW f, Numeric(f, S), NEW e \in S
    PROVE  SumFunctionOnSet(f, S) = f[e] + SumFunctionOnSet(f, S \ {e})
<1> DEFINE Total(T) == SumFunctionOnSet(f, T)
           Good == {T \in SUBSET S : \A x \in T : Total(T) = f[x] + Total(T \ {x})}
<1>1. ASSUME NEW T \in SUBSET S, \A U \in SUBSET T : U # T => U \in Good
      PROVE  T \in Good
    <2> SUFFICES ASSUME NEW x \in T PROVE Total(T) = f[x] + Total(T \ {x})
        OBVIOUS
    <2> DEFINE y == Some(T)
               Tx == T \ {x}
               Ty == T \ {y}
    <2>1. y \in T /\ Total(T) = f[y] + Total(Ty)
        BY SumSome, FS_Subset DEF Some
    <2>2. CASE x = y
        BY <2>1, <2>2
    <2>3. CASE x # y
        <3>1. Tx \in Good /\ Ty \in Good /\ y \in Tx /\ x \in Ty
            BY <1>1, <2>1, <2>3
        <3>2. Total(Tx) = f[y] + Total(Tx \ {y}) /\ Total(Ty) = f[x] + Total(Ty \ {x})
            BY <3>1
        <3>3. Total(Tx \ {y}) = Total(Ty \ {x})
            <4>1. Tx \ {y} = Ty \ {x}
                OBVIOUS
            <4> QED BY ONLY <4>1, Zenon
        <3>4. f[x] \in Int /\ f[y] \in Int /\ Total(Tx \ {y}) \in Int
            <4>1. IsFiniteSet(Tx \ {y}) /\ Numeric(f, Tx \ {y})
                BY FS_Subset DEF Numeric
            <4> QED BY <2>1, <4>1, SumType DEF Numeric
        <3>5. Total(T) = f[x] + Total(Tx)
            <4> HIDE DEF Total, Tx, Ty, y
            <4> QED BY <2>1, <3>2, <3>3, <3>4
        <3> QED BY <3>5
    <2> QED BY <2>2, <2>3
<1> HIDE DEF Good
<1>2. S \in Good
    BY <1>1, SubsetInduction
<1> QED BY <1>2 DEF Good

\* A sum depends on the values at its indices only.
LEMMA SumSame ==
    ASSUME NEW S, IsFiniteSet(S), NEW f, NEW g, \A x \in S : f[x] = g[x]
    PROVE  SumFunctionOnSet(f, S) = SumFunctionOnSet(g, S)
<1> DEFINE Good == {T \in SUBSET S : SumFunctionOnSet(f, T) = SumFunctionOnSet(g, T)}
<1>1. ASSUME NEW T \in SUBSET S, \A U \in SUBSET T : U # T => U \in Good
      PROVE  T \in Good
    <2>1. IsFiniteSet(T)
        BY FS_Subset
    <2>2. CASE T = {}
        BY <2>2, SumEmpty
    <2>3. CASE T # {}
        <3>1. Some(T) \in T
            BY <2>3 DEF Some
        <3>2. SumFunctionOnSet(f, T \ {Some(T)}) = SumFunctionOnSet(g, T \ {Some(T)})
            BY <1>1, <3>1
        <3> QED BY <2>1, <2>3, <3>1, <3>2, SumSome
    <2> QED BY <2>2, <2>3
<1> HIDE DEF Good
<1>2. S \in Good
    BY <1>1, SubsetInduction
<1> QED BY <1>2 DEF Good

\* Changing one value changes the sum by as much.
LEMMA SumChange ==
    ASSUME NEW S, IsFiniteSet(S), NEW f, NEW g, Numeric(f, S), NEW e \in S,
           g[e] \in Int, \A x \in S \ {e} : g[x] = f[x]
    PROVE  SumFunctionOnSet(g, S) = SumFunctionOnSet(f, S) + g[e] - f[e]
<1>1. Numeric(g, S)
    BY DEF Numeric
<1>2. IsFiniteSet(S \ {e}) /\ Numeric(f, S \ {e})
    BY FS_Subset DEF Numeric
<1>3. SumFunctionOnSet(f, S) = f[e] + SumFunctionOnSet(f, S \ {e})
    BY SumRemove
<1>4. SumFunctionOnSet(g, S) = g[e] + SumFunctionOnSet(g, S \ {e})
    BY <1>1, SumRemove
<1>5. SumFunctionOnSet(g, S \ {e}) = SumFunctionOnSet(f, S \ {e})
    BY <1>2, SumSame
<1>6. SumFunctionOnSet(f, S \ {e}) \in Int /\ f[e] \in Int
    BY <1>2, SumType DEF Numeric
<1> QED BY <1>3, <1>4, <1>5, <1>6

LEMMA SumZero ==
    ASSUME NEW S, IsFiniteSet(S), NEW f, \A x \in S : f[x] = 0
    PROVE  SumFunctionOnSet(f, S) = 0
<1> DEFINE Good == {T \in SUBSET S : SumFunctionOnSet(f, T) = 0}
<1>1. ASSUME NEW T \in SUBSET S, \A U \in SUBSET T : U # T => U \in Good
      PROVE  T \in Good
    <2>1. IsFiniteSet(T)
        BY FS_Subset
    <2>2. CASE T = {}
        BY <2>2, SumEmpty
    <2>3. CASE T # {}
        <3>1. Some(T) \in T
            BY <2>3 DEF Some
        <3>2. f[Some(T)] = 0 /\ SumFunctionOnSet(f, T \ {Some(T)}) = 0
            BY <1>1, <3>1
        <3> QED BY <2>1, <2>3, <3>2, SumSome
    <2> QED BY <2>2, <2>3
<1> HIDE DEF Good
<1>2. S \in Good
    BY <1>1, SubsetInduction
<1> QED BY <1>2 DEF Good

\* The parts of a set add up.
LEMMA SumUnion ==
    ASSUME NEW A, IsFiniteSet(A), NEW B, IsFiniteSet(B), A \cap B = {},
           NEW f, Numeric(f, A \cup B)
    PROVE  SumFunctionOnSet(f, A \cup B) =
               SumFunctionOnSet(f, A) + SumFunctionOnSet(f, B)
<1> DEFINE Total(T) == SumFunctionOnSet(f, T)
           Good == {T \in SUBSET A : Total(T \cup B) = Total(T) + Total(B)}
<1>1. ASSUME NEW T \in SUBSET A, \A U \in SUBSET T : U # T => U \in Good
      PROVE  T \in Good
    <2>1. /\ IsFiniteSet(T) /\ IsFiniteSet(T \cup B)
          /\ Numeric(f, T) /\ Numeric(f, T \cup B) /\ Numeric(f, B)
        BY FS_Subset, FS_Union DEF Numeric
    <2>2. Total(B) \in Int
        BY <2>1, SumType
    <2>3. CASE T = {}
        <3>1. T \cup B = B /\ Total(T) = 0
            BY <2>3, SumEmpty
        <3> HIDE DEF Total
        <3> QED BY <2>2, <3>1
    <2>4. CASE T # {}
        <3>1. PICK x \in T : TRUE
            BY <2>4
        <3> DEFINE U == T \ {x}
        <3>2. Total(U \cup B) = Total(U) + Total(B)
            BY <1>1
        <3>3. Total((T \cup B) \ {x}) = Total(U \cup B)
            <4>1. (T \cup B) \ {x} = U \cup B
                OBVIOUS
            <4> QED BY ONLY <4>1, Zenon
        <3>4. Total(T \cup B) = f[x] + Total((T \cup B) \ {x})
            BY <2>1, SumRemove
        <3>5. Total(T) = f[x] + Total(U)
            BY <2>1, SumRemove
        <3>6. f[x] \in Int /\ Total(U) \in Int
            <4>1. IsFiniteSet(U) /\ Numeric(f, U)
                BY <2>1, FS_Subset DEF Numeric
            <4> QED BY <2>1, <4>1, SumType DEF Numeric
        <3>7. Total(T \cup B) = Total(T) + Total(B)
            <4> HIDE DEF Total, U
            <4> QED BY <2>2, <3>2, <3>3, <3>4, <3>5, <3>6
        <3> QED BY <3>7
    <2> QED BY <2>3, <2>4
<1> HIDE DEF Good
<1>2. A \in Good
    BY <1>1, SubsetInduction
<1> QED BY <1>2 DEF Good
============================================================================
