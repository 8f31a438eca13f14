------------------------- MODULE LedgerBook_proofs --------------------------
(* What a sum over a finite set is, and facts about ledger values, for the   *)
(* proofs about the modules that use them.  The sum is SumFunctionOnSet of   *)
(* the community module Functions.  Its definition is recursive and takes    *)
(* the elements in an order of its own; the lemmas about SumFunction need    *)
(* neither.                                                                 *)
EXTENDS LedgerBook, FiniteSetTheorems, WellFoundedInduction, TLAPS

-----------------------------------------------------------------------------
(* Induction over the subsets of a finite set: of the subsets that are        *)
(* counterexamples, B, one is minimal.  In this form no lemma needs an        *)
(* operator for what is proved by induction.                                 *)
LEMMA MinimalSubset ==
  ASSUME NEW S, IsFiniteSet(S), NEW B, B \subseteq SUBSET S, B # {}
  PROVE  \E T \in B : /\ \A U \in B : U \subseteq T => U = T
                      /\ \A x \in T : T \ {x} \notin B
  <1>1. B \subseteq FiniteSubsetsOf(S)
    BY FS_FiniteSubsetsOfFinite
  <1>2. PICK T \in B : \A U \in B : <<U, T>> \notin StrictSubsetOrdering(S)
    BY <1>1, WFMin, FS_StrictSubsetOrderingWellFounded
  <1>3. \A U \in B : U \subseteq T => U = T
    BY <1>2 DEF StrictSubsetOrdering
  <1>4. \A x \in T : T \ {x} \notin B
    BY <1>3
  <1>. QED BY <1>3, <1>4

LEMMA FiniteImage ==
  ASSUME NEW f, IsFiniteSet(DOMAIN f)
  PROVE  IsFiniteSet({f[x] : x \in DOMAIN f})
  <1> DEFINE T == {f[x] : x \in DOMAIN f}
             g == [x \in DOMAIN f |-> f[x]]
  <1>1. g \in Surjection(DOMAIN f, T)
    BY DEF Surjection
  <1> HIDE DEF g, T
  <1>2. IsFiniteSet(T)
    BY <1>1, FS_Surjection
  <1>. QED BY <1>2 DEF T

-----------------------------------------------------------------------------
(* The recursive definition has one solution on every finite set.            *)

\* The element that a sum over a set takes first.
Some(s) == CHOOSE x \in s : TRUE

LEMMA SomeElement ==
  ASSUME NEW s, s # {}
  PROVE  Some(s) \in s
  BY DEF Some

\* g gives every subset of S the sum of W over it.
Adds(W, S, g) ==
    g = [s \in SUBSET S |-> IF s = {} THEN 0 ELSE W[Some(s)] + g[s \ {Some(s)}]]

LEMMA SumUnfolded ==
  ASSUME NEW W, NEW S
  PROVE  SumFunctionOnSet(W, S) = (CHOOSE g : Adds(W, S, g))[S]
  BY DEF SumFunctionOnSet, FoldFunctionOnSet, MapThenFoldSet, Adds, Some

\* The equation, the domain and the uniqueness of a solution.
LEMMA AddsRule ==
  ASSUME NEW W, NEW S, NEW g, Adds(W, S, g), NEW s \in SUBSET S
  PROVE  g[s] = IF s = {} THEN 0 ELSE W[Some(s)] + g[s \ {Some(s)}]
  BY Zenon DEF Adds

LEMMA AddsDomain ==
  ASSUME NEW W, NEW S, NEW g, Adds(W, S, g)
  PROVE  DOMAIN g = SUBSET S /\ g = [s \in SUBSET S |-> g[s]]
  <1> DEFINE body == [s \in SUBSET S |-> IF s = {} THEN 0 ELSE W[Some(s)] + g[s \ {Some(s)}]]
  <1>1. g = body
    BY DEF Adds
  <1>2. DOMAIN body = SUBSET S /\ body = [s \in SUBSET S |-> body[s]]
    OBVIOUS
  <1> HIDE DEF body
  <1>. QED BY <1>1, <1>2

LEMMA AddsUnique ==
  ASSUME NEW W, NEW S, IsFiniteSet(S), NEW g, NEW h, Adds(W, S, g), Adds(W, S, h)
  PROVE  g = h
  <1> DEFINE B == {s \in SUBSET S : g[s] # h[s]}
  <1>1. B = {}
    <2> SUFFICES ASSUME B # {} PROVE FALSE
      OBVIOUS
    <2>1. PICK T \in B : \A x \in T : T \ {x} \notin B
      BY MinimalSubset
    <2>2. T # {}
      BY <2>1, AddsRule
    <2>3. Some(T) \in T
      BY <2>2, SomeElement
    <2>4. g[T \ {Some(T)}] = h[T \ {Some(T)}]
      BY <2>1, <2>3
    <2>5. T \in SUBSET S
      BY <2>1
    <2>6. g[T] = W[Some(T)] + g[T \ {Some(T)}]
      BY <2>2, <2>5, AddsRule
    <2>7. h[T] = W[Some(T)] + h[T \ {Some(T)}]
      BY <2>2, <2>5, AddsRule
    <2>. QED BY <2>1, <2>4, <2>6, <2>7
  <1>2. \A s \in SUBSET S : g[s] = h[s]
    BY <1>1
  <1>3. [s \in SUBSET S |-> g[s]] = [s \in SUBSET S |-> h[s]]
    BY <1>2
  <1>4. g = [s \in SUBSET S |-> g[s]] /\ h = [s \in SUBSET S |-> h[s]]
    BY AddsDomain
  <1>. QED BY <1>3, <1>4

\* A solution on S is one on every subset of S.
LEMMA AddsRestricted ==
  ASSUME NEW W, NEW S, NEW g, Adds(W, S, g), NEW T \in SUBSET S
  PROVE  Adds(W, T, [s \in SUBSET T |-> g[s]])
  <1> DEFINE h == [s \in SUBSET T |-> g[s]]
             k == [s \in SUBSET T |-> IF s = {} THEN 0 ELSE W[Some(s)] + h[s \ {Some(s)}]]
  <1>1. ASSUME NEW s \in SUBSET T
        PROVE  h[s] = k[s]
    <2>1. g[s] = IF s = {} THEN 0 ELSE W[Some(s)] + g[s \ {Some(s)}]
      BY AddsRule
    <2>2. h[s \ {Some(s)}] = g[s \ {Some(s)}]
      OBVIOUS
    <2>. QED BY <2>1, <2>2
  <1>2. h = k
    BY <1>1
  <1>. QED BY <1>2 DEF Adds

\* On a minimal set without a solution the solutions of its subsets make one.
LEMMA AddsExists ==
  ASSUME NEW W, NEW S, IsFiniteSet(S)
  PROVE  \E g : Adds(W, S, g)
  <1> DEFINE B == {s \in SUBSET S : ~\E g : Adds(W, s, g)}
             Fun(s) == CHOOSE g : Adds(W, s, g)
             Val(s) == Fun(s)[s]
  <1>1. SUFFICES B = {}
    BY <1>1
  <1> SUFFICES ASSUME B # {} PROVE FALSE
    OBVIOUS
  <1>2. B \subseteq SUBSET S
    OBVIOUS
  <1>3. PICK T \in B : \A U \in B : U \subseteq T => U = T
    <2> HIDE DEF B
    <2>. QED BY <1>2, MinimalSubset
  <1>4. ASSUME NEW s \in SUBSET T, s # T
        PROVE  Adds(W, s, Fun(s))
    <2>1. \E g : Adds(W, s, g)
      BY <1>3, <1>4
    <2>. QED BY <2>1
  <1>5. ASSUME NEW s \in SUBSET T, s # T, NEW q \in SUBSET s
        PROVE  Fun(s)[q] = Val(q)
    <2>1. Adds(W, s, Fun(s))
      BY <1>4, <1>5
    <2>2. Adds(W, q, [r \in SUBSET q |-> Fun(s)[r]])
      BY <2>1, AddsRestricted
    <2>3. q \in SUBSET T /\ q # T
      BY <1>5
    <2>4. Adds(W, q, Fun(q))
      BY <1>4, <2>3
    <2>5. IsFiniteSet(q)
      BY <1>3, <2>3, FS_Subset
    <2>6. Fun(q) = [r \in SUBSET q |-> Fun(s)[r]]
      BY <2>2, <2>4, <2>5, AddsUnique
    <2> HIDE DEF Fun
    <2>7. Fun(q)[q] = Fun(s)[q]
      BY <2>6
    <2>. QED BY <2>7
  <1>6. ASSUME NEW s \in SUBSET T, s # T
        PROVE  Val(s) = IF s = {} THEN 0 ELSE W[Some(s)] + Val(s \ {Some(s)})
    <2>1. Fun(s)[s] = IF s = {} THEN 0 ELSE W[Some(s)] + Fun(s)[s \ {Some(s)}]
      <3>1. Adds(W, s, Fun(s)) /\ s \in SUBSET s
        BY <1>4, <1>6
      <3> HIDE DEF Fun
      <3>. QED BY <3>1, AddsRule
    <2>2. Fun(s)[s \ {Some(s)}] = Val(s \ {Some(s)})
      BY <1>5, <1>6
    <2>. QED BY <2>1, <2>2
  <1> DEFINE g == [s \in SUBSET T |-> IF s = {} THEN 0 ELSE W[Some(s)] + Val(s \ {Some(s)})]
             k == [s \in SUBSET T |-> IF s = {} THEN 0 ELSE W[Some(s)] + g[s \ {Some(s)}]]
  <1> HIDE DEF Val, Fun
  <1>7. ASSUME NEW s \in SUBSET T
        PROVE  g[s] = k[s]
    <2>1. CASE s = {}
      BY <2>1
    <2>2. CASE s # {}
      <3> DEFINE r == s \ {Some(s)}
      <3>1. Some(s) \in s
        BY <2>2, SomeElement
      <3>2. r \in SUBSET T /\ r # T
        BY <3>1
      <3>3. g[r] = Val(r)
        BY <3>2, <1>6
      <3>. QED BY <2>2, <3>3
    <2>. QED BY <2>1, <2>2
  <1>8. g = k
    BY <1>7
  <1>9. Adds(W, T, g)
    BY <1>8 DEF Adds
  <1>. QED BY <1>3, <1>9

-----------------------------------------------------------------------------
(* The sum of the values of W on a set.                                      *)

LEMMA SumRule ==
  ASSUME NEW W, NEW S, IsFiniteSet(S)
  PROVE  SumFunctionOnSet(W, S) =
            IF S = {} THEN 0 ELSE W[Some(S)] + SumFunctionOnSet(W, S \ {Some(S)})
  <1> DEFINE Fun(s) == CHOOSE g : Adds(W, s, g)
             q == S \ {Some(S)}
  <1>1. IsFiniteSet(q)
    BY FS_RemoveElement
  <1>2. Adds(W, S, Fun(S)) /\ Adds(W, q, Fun(q))
    <2>1. \E g : Adds(W, S, g)
      BY AddsExists
    <2>2. \E g : Adds(W, q, g)
      BY <1>1, AddsExists
    <2>. QED BY <2>1, <2>2
  <1>3. Fun(S)[S] = IF S = {} THEN 0 ELSE W[Some(S)] + Fun(S)[q]
    BY <1>2, AddsRule
  <1>4. Fun(S)[q] = Fun(q)[q]
    <2>1. Adds(W, q, [r \in SUBSET q |-> Fun(S)[r]])
      BY <1>2, AddsRestricted
    <2>2. Fun(q) = [r \in SUBSET q |-> Fun(S)[r]]
      BY <1>1, <1>2, <2>1, AddsUnique
    <2> HIDE DEF Fun
    <2>. QED BY <2>2
  <1>. QED BY <1>3, <1>4, SumUnfolded

LEMMA SumEmpty ==
  ASSUME NEW W
  PROVE  SumFunctionOnSet(W, {}) = 0
  BY SumRule, FS_EmptySet

LEMMA SumType ==
  ASSUME NEW W, NEW S, IsFiniteSet(S), \A x \in S : W[x] \in Int
  PROVE  SumFunctionOnSet(W, S) \in Int
  <1> DEFINE B == {s \in SUBSET S : SumFunctionOnSet(W, s) \notin Int}
  <1> SUFFICES ASSUME B # {} PROVE FALSE
    OBVIOUS
  <1>1. PICK T \in B : \A x \in T : T \ {x} \notin B
    BY MinimalSubset
  <1>2. T # {}
    BY <1>1, SumEmpty
  <1>3. IsFiniteSet(T) /\ Some(T) \in T
    BY <1>1, <1>2, FS_Subset, SomeElement
  <1>4. SumFunctionOnSet(W, T \ {Some(T)}) \in Int
    BY <1>1, <1>3
  <1>5. SumFunctionOnSet(W, T) = W[Some(T)] + SumFunctionOnSet(W, T \ {Some(T)})
    BY <1>2, <1>3, SumRule
  <1>6. W[Some(T)] \in Int
    BY <1>3
  <1>. QED BY <1>1, <1>4, <1>5, <1>6

\* A sum does not depend on the order in which it is taken.
LEMMA SumRemove ==
  ASSUME NEW W, NEW S, IsFiniteSet(S), \A x \in S : W[x] \in Int, NEW x \in S
  PROVE  SumFunctionOnSet(W, S) = W[x] + SumFunctionOnSet(W, S \ {x})
  <1> DEFINE Sum(s) == SumFunctionOnSet(W, s)
             B == {s \in SUBSET S : \E y \in s : Sum(s) # W[y] + Sum(s \ {y})}
  <1> SUFFICES ASSUME B # {} PROVE FALSE
    OBVIOUS
  <1>1. PICK T \in B : \A y \in T : T \ {y} \notin B
    BY MinimalSubset
  <1>2. PICK y \in T : Sum(T) # W[y] + Sum(T \ {y})
    BY <1>1
  <1> DEFINE c == Some(T)
  <1>3. IsFiniteSet(T) /\ c \in T /\ T \subseteq S
    BY <1>1, <1>2, FS_Subset, SomeElement
  <1>4. Sum(T) = W[c] + Sum(T \ {c})
    BY <1>2, <1>3, SumRule
  <1>5. c # y
    BY <1>2, <1>4
  <1>6. Sum(T \ {c}) = W[y] + Sum((T \ {c}) \ {y})
    BY <1>1, <1>3, <1>5
  <1>7. Sum(T \ {y}) = W[c] + Sum((T \ {y}) \ {c})
    BY <1>1, <1>2, <1>3, <1>5
  <1>8. (T \ {c}) \ {y} = (T \ {y}) \ {c} /\ IsFiniteSet((T \ {c}) \ {y})
    BY <1>3, FS_Subset
  <1>9. Sum((T \ {c}) \ {y}) \in Int
    BY <1>3, <1>8, SumType
  <1>10. W[c] \in Int /\ W[y] \in Int
    BY <1>3
  <1> DEFINE rest == Sum((T \ {c}) \ {y})
             a == W[c]
             b == W[y]
  <1>11. Sum(T) = a + (b + rest) /\ b + Sum(T \ {y}) = b + (a + rest)
    BY <1>4, <1>6, <1>7, <1>8
  <1>12. a \in Int /\ b \in Int /\ rest \in Int
    BY <1>9, <1>10
  <1>13. a + (b + rest) = b + (a + rest)
    <2> HIDE DEF a, b, rest
    <2>. QED BY <1>12
  <1>. QED BY <1>2, <1>11, <1>13

LEMMA SumAdd ==
  ASSUME NEW W, NEW S, IsFiniteSet(S), NEW x, x \notin S,
         \A y \in S \cup {x} : W[y] \in Int
  PROVE  SumFunctionOnSet(W, S \cup {x}) = SumFunctionOnSet(W, S) + W[x]
  <1>1. IsFiniteSet(S \cup {x})
    BY FS_AddElement
  <1>2. SumFunctionOnSet(W, S \cup {x}) = W[x] + SumFunctionOnSet(W, (S \cup {x}) \ {x})
    BY <1>1, SumRemove
  <1>3. (S \cup {x}) \ {x} = S
    OBVIOUS
  <1>4. SumFunctionOnSet(W, S) \in Int /\ W[x] \in Int
    BY SumType
  <1>5. SumFunctionOnSet(W, S \cup {x}) = W[x] + SumFunctionOnSet(W, S)
    BY ONLY <1>2, <1>3
  <1>. QED BY ONLY <1>4, <1>5

\* Nor on values outside the set.
LEMMA SumSame ==
  ASSUME NEW W, NEW V, NEW S, IsFiniteSet(S), \A x \in S : W[x] = V[x]
  PROVE  SumFunctionOnSet(W, S) = SumFunctionOnSet(V, S)
  <1> DEFINE B == {s \in SUBSET S : SumFunctionOnSet(W, s) # SumFunctionOnSet(V, s)}
  <1> SUFFICES ASSUME B # {} PROVE FALSE
    OBVIOUS
  <1>1. PICK T \in B : \A x \in T : T \ {x} \notin B
    BY MinimalSubset
  <1>2. T # {}
    BY <1>1, SumEmpty
  <1>3. IsFiniteSet(T) /\ Some(T) \in T
    BY <1>1, <1>2, FS_Subset, SomeElement
  <1>4. /\ SumFunctionOnSet(W, T) = W[Some(T)] + SumFunctionOnSet(W, T \ {Some(T)})
        /\ SumFunctionOnSet(V, T) = V[Some(T)] + SumFunctionOnSet(V, T \ {Some(T)})
    BY <1>2, <1>3, SumRule
  <1>5. SumFunctionOnSet(W, T \ {Some(T)}) = SumFunctionOnSet(V, T \ {Some(T)})
    BY <1>1, <1>3
  <1>. QED BY <1>1, <1>3, <1>4, <1>5

-----------------------------------------------------------------------------
(* The sum of all values of a function.                                      *)

\* Sums of amounts, or of the signed amounts of entries.
Summable(f) == IsFiniteSet(DOMAIN f) /\ \A x \in DOMAIN f : f[x] \in Int

LEMMA SumOfNone ==
  ASSUME NEW f, DOMAIN f = {}
  PROVE  SumFunction(f) = 0
  BY SumEmpty DEF SumFunction

LEMMA SumInt ==
  ASSUME NEW f, Summable(f)
  PROVE  SumFunction(f) \in Int
  BY SumType DEF SumFunction, Summable

LEMMA SumEqual ==
  ASSUME NEW f, NEW g, IsFiniteSet(DOMAIN f), DOMAIN g = DOMAIN f,
         \A x \in DOMAIN f : g[x] = f[x]
  PROVE  SumFunction(g) = SumFunction(f)
  BY SumSame DEF SumFunction

\* g has one value more than f.
LEMMA SumOneMore ==
  ASSUME NEW f, Summable(f), NEW g, NEW x, x \notin DOMAIN f,
         DOMAIN g = DOMAIN f \cup {x}, \A y \in DOMAIN f : g[y] = f[y], g[x] \in Int
  PROVE  Summable(g) /\ SumFunction(g) = SumFunction(f) + g[x]
  <1>1. \A y \in DOMAIN f \cup {x} : g[y] \in Int
    BY DEF Summable
  <1>2. IsFiniteSet(DOMAIN f) /\ IsFiniteSet(DOMAIN f \cup {x})
    BY FS_AddElement DEF Summable
  <1>3. SumFunctionOnSet(g, DOMAIN f \cup {x}) = SumFunctionOnSet(g, DOMAIN f) + g[x]
    BY <1>1, <1>2, SumAdd
  <1>4. SumFunctionOnSet(g, DOMAIN f) = SumFunctionOnSet(f, DOMAIN f)
    BY <1>2, SumSame
  <1>. QED BY <1>1, <1>2, <1>3, <1>4 DEF SumFunction, Summable

\* g differs from f at x only.
LEMMA SumChanged ==
  ASSUME NEW f, Summable(f), NEW g, NEW x \in DOMAIN f,
         DOMAIN g = DOMAIN f, \A y \in DOMAIN f \ {x} : g[y] = f[y], g[x] \in Int
  PROVE  SumFunction(g) = SumFunction(f) + (g[x] - f[x])
  <1>. DEFINE rest == DOMAIN f \ {x}
  <1>1. /\ IsFiniteSet(DOMAIN f) /\ \A y \in DOMAIN f : f[y] \in Int /\ g[y] \in Int
    BY DEF Summable
  <1>2. IsFiniteSet(rest)
    BY <1>1, FS_Subset
  <1>3. /\ SumFunctionOnSet(f, DOMAIN f) = f[x] + SumFunctionOnSet(f, rest)
        /\ SumFunctionOnSet(g, DOMAIN f) = g[x] + SumFunctionOnSet(g, rest)
    BY <1>1, SumRemove
  <1>4. SumFunctionOnSet(g, rest) = SumFunctionOnSet(f, rest)
    BY <1>2, SumSame
  <1>5. SumFunctionOnSet(f, rest) \in Int
    BY <1>1, <1>2, SumType
  <1>6. SumFunction(f) = f[x] + SumFunctionOnSet(f, rest)
    BY <1>3 DEF SumFunction
  <1>7. SumFunction(g) = g[x] + SumFunctionOnSet(f, rest)
    BY <1>3, <1>4 DEF SumFunction
  <1>. QED BY <1>1, <1>5, <1>6, <1>7

LEMMA SumOfZeros ==
  ASSUME NEW f, IsFiniteSet(DOMAIN f), \A x \in DOMAIN f : f[x] = 0
  PROVE  SumFunction(f) = 0
  <1>. DEFINE Sum(s) == SumFunctionOnSet(f, s)
              B == {s \in SUBSET DOMAIN f : Sum(s) # 0}
  <1>1. SUFFICES ASSUME B # {} PROVE FALSE
    <2>1. DOMAIN f \notin B => Sum(DOMAIN f) = 0
      OBVIOUS
    <2>. QED BY <1>1, <2>1 DEF SumFunction
  <1>2. PICK s \in B : \A x \in s : s \ {x} \notin B
    BY <1>1, MinimalSubset
  <1>3. IsFiniteSet(s)
    BY <1>2, FS_Subset
  <1>4. s # {}
    BY <1>2, SumEmpty
  <1>5. Some(s) \in s /\ Sum(s \ {Some(s)}) = 0
    BY <1>2, <1>4, SomeElement
  <1>6. Sum(s) = f[Some(s)] + Sum(s \ {Some(s)})
    BY <1>3, <1>4, SumRule
  <1>. QED BY <1>2, <1>5, <1>6

LEMMA SumNotPositive ==
  ASSUME NEW f, IsFiniteSet(DOMAIN f), \A x \in DOMAIN f : f[x] \in Int /\ f[x] <= 0
  PROVE  SumFunction(f) \in Int /\ SumFunction(f) <= 0
  <1>. DEFINE Sum(s) == SumFunctionOnSet(f, s)
              B == {s \in SUBSET DOMAIN f : ~(Sum(s) \in Int /\ Sum(s) <= 0)}
  <1>1. SUFFICES ASSUME B # {} PROVE FALSE
    <2>1. DOMAIN f \notin B => Sum(DOMAIN f) \in Int /\ Sum(DOMAIN f) <= 0
      OBVIOUS
    <2>. QED BY <1>1, <2>1 DEF SumFunction
  <1>2. PICK s \in B : \A x \in s : s \ {x} \notin B
    BY <1>1, MinimalSubset
  <1>3. IsFiniteSet(s)
    BY <1>2, FS_Subset
  <1>4. s # {}
    <2>1. 0 \in Int /\ 0 <= 0
      OBVIOUS
    <2>. QED BY <1>2, <2>1, SumEmpty
  <1>5. /\ Some(s) \in s
        /\ Sum(s \ {Some(s)}) \in Int /\ Sum(s \ {Some(s)}) <= 0
    BY <1>2, <1>4, SomeElement
  <1>6. Sum(s) = f[Some(s)] + Sum(s \ {Some(s)})
    BY <1>3, <1>4, SumRule
  <1>7. f[Some(s)] \in Int /\ f[Some(s)] <= 0
    BY <1>2, <1>5
  <1>8. \A m, n \in Int : m <= 0 /\ n <= 0 => m + n \in Int /\ m + n <= 0
    OBVIOUS
  <1>9. Sum(s) \in Int /\ Sum(s) <= 0
    BY <1>5, <1>6, <1>7, <1>8
  <1>. QED BY <1>2, <1>9

-----------------------------------------------------------------------------
(* Ledger values.                                                           *)

LEMMA EmptyLedgerType == EmptyLedger \in Ledgers
  BY DEF EmptyLedger, Ledgers

\* Both parts of the table ledger_entries are finite.
FiniteBook(L) == IsFiniteSet(L.entries) /\ IsFiniteSet(L.byHand)

LEMMA SignedType ==
  ASSUME NEW e \in Entries
  PROVE  Signed(e) \in Int
  <1>1. e.amount \in Int /\ e.type \in {"DEBIT", "CREDIT"}
    BY DEF Entries, EntryTypes
  <1>. QED BY <1>1 DEF Signed

LEMMA DeltaType ==
  ASSUME NEW legs, legs \subseteq Entries, NEW a \in Accounts
  PROVE  Delta(legs, a) \in Int
  <1>1. CASE \E e \in legs : e.account = a
    <2>1. (CHOOSE e \in legs : e.account = a) \in Entries
      BY <1>1
    <2>. QED BY <1>1, <2>1, SignedType DEF Delta
  <1>2. CASE ~\E e \in legs : e.account = a
    BY <1>2 DEF Delta
  <1>. QED BY <1>1, <1>2

\* Legs that take nothing from an account add to it.
LEMMA DeltaAdds ==
  ASSUME NEW legs, NEW a, \A e \in legs : e.account = a => Signed(e) \in Nat
  PROVE  Delta(legs, a) \in Nat
  <1>1. CASE \E e \in legs : e.account = a
    <2> DEFINE leg == CHOOSE e \in legs : e.account = a
    <2>1. leg \in legs /\ leg.account = a
      BY <1>1
    <2>2. Delta(legs, a) = Signed(leg)
      BY <1>1 DEF Delta
    <2> HIDE DEF leg
    <2>. QED BY <2>1, <2>2
  <1>2. CASE ~\E e \in legs : e.account = a
    BY <1>2 DEF Delta
  <1>. QED BY <1>1, <1>2

\* A ledger by its columns.
LEMMA LedgerColumns ==
  ASSUME NEW L \in Ledgers
  PROVE  L = [opened |-> L.opened, openedByHand |-> L.openedByHand, balance |-> L.balance,
              entries |-> L.entries, byHand |-> L.byHand]
  BY DEF Ledgers

\* A committed transaction leaves a well-formed ledger.
LEMMA PostedColumns ==
  ASSUME NEW O, NEW H, NEW B, NEW E, NEW D, NEW legs,
         NEW L, L = [opened |-> O, openedByHand |-> H, balance |-> B, entries |-> E, byHand |-> D]
  PROVE  Posted(L, legs) =
           [opened |-> O \cup {e.account : e \in legs}, openedByHand |-> H,
            balance |-> [a \in Accounts |-> B[a] + Delta(legs, a)],
            entries |-> E \cup legs, byHand |-> D]
  <1> DEFINE accounts == O \cup {e.account : e \in legs}
             moved == [a \in Accounts |-> B[a] + Delta(legs, a)]
             more == E \cup legs
  <1>1. Posted(L, legs) =
          [L EXCEPT !.opened = accounts, !.balance = moved, !.entries = more]
    BY DEF Posted
  <1> HIDE DEF accounts, moved, more
  <1>2. Posted(L, legs) = [opened |-> accounts, openedByHand |-> H, balance |-> moved,
                           entries |-> more, byHand |-> D]
    BY <1>1
  <1>. QED BY <1>2 DEF accounts, moved, more

LEMMA PostedType ==
  ASSUME NEW L \in Ledgers, NEW legs, legs \subseteq Entries
  PROVE  Posted(L, legs) \in Ledgers
  <1>1. {e.account : e \in legs} \subseteq Accounts
    BY DEF Entries
  <1>2. [a \in Accounts |-> L.balance[a] + Delta(legs, a)] \in [Accounts -> Int]
    <2>1. \A a \in Accounts : L.balance[a] \in Int
      BY DEF Ledgers
    <2>. QED BY <2>1, DeltaType
  <1>3. /\ L.opened \cup {e.account : e \in legs} \subseteq Accounts
        /\ L.entries \cup legs \subseteq Entries
    BY <1>1 DEF Ledgers
  <1>4. Posted(L, legs) =
          [opened |-> L.opened \cup {e.account : e \in legs}, openedByHand |-> L.openedByHand,
           balance |-> [a \in Accounts |-> L.balance[a] + Delta(legs, a)],
           entries |-> L.entries \cup legs, byHand |-> L.byHand]
    BY LedgerColumns, PostedColumns
  <1>. QED BY <1>2, <1>3, <1>4 DEF Ledgers

\* What it leaves in every column, and in what is computed from them.
LEMMA PostedFields ==
  ASSUME NEW L \in Ledgers, NEW legs
  PROVE  /\ Posted(L, legs).opened = L.opened \cup {e.account : e \in legs}
         /\ Posted(L, legs).openedByHand = L.openedByHand
         /\ Posted(L, legs).entries = L.entries \cup legs
         /\ Posted(L, legs).byHand = L.byHand
         /\ AllEntries(Posted(L, legs)) = AllEntries(L) \cup legs
  <1>1. /\ Posted(L, legs).opened = L.opened \cup {e.account : e \in legs}
        /\ Posted(L, legs).openedByHand = L.openedByHand
        /\ Posted(L, legs).entries = L.entries \cup legs
        /\ Posted(L, legs).byHand = L.byHand
    BY LedgerColumns, PostedColumns
  <1>2. AllEntries(Posted(L, legs)) = AllEntries(L) \cup legs
    BY <1>1 DEF AllEntries
  <1>. QED BY <1>1, <1>2

LEMMA PostedBalance ==
  ASSUME NEW L \in Ledgers, NEW legs, NEW a \in Accounts
  PROVE  Posted(L, legs).balance[a] = L.balance[a] + Delta(legs, a)
  <1>1. Posted(L, legs).balance = [b \in Accounts |-> L.balance[b] + Delta(legs, b)]
    BY LedgerColumns, PostedColumns
  <1>. QED BY <1>1

LEMMA PostedHands ==
  ASSUME NEW L \in Ledgers, NEW legs, NEW a
  PROVE  /\ HandSum(Posted(L, legs), a) = HandSum(L, a)
         /\ TakenByHand(Posted(L, legs), a) = TakenByHand(L, a)
  BY PostedFields DEF HandSum, TakenByHand

-----------------------------------------------------------------------------
(* A committed transaction keeps the books.                                  *)

LEMMA SignedSumNone == SignedSum({}) = 0
  <1>1. DOMAIN [e \in {} |-> Signed(e)] = {}
    OBVIOUS
  <1>. QED BY <1>1, SumOfNone DEF SignedSum

LEMMA SignedSumInt ==
  ASSUME NEW S, S \subseteq Entries, IsFiniteSet(S)
  PROVE  SignedSum(S) \in Int
  <1> DEFINE f == [e \in S |-> Signed(e)]
  <1>1. Summable(f)
    BY SignedType DEF Summable
  <1> HIDE DEF f
  <1>2. SumFunction(f) \in Int
    BY <1>1, SumInt
  <1>. QED BY <1>2 DEF SignedSum, f

LEMMA SignedSumMore ==
  ASSUME NEW S, S \subseteq Entries, IsFiniteSet(S), NEW e \in Entries, e \notin S
  PROVE  SignedSum(S \cup {e}) = SignedSum(S) + Signed(e)
  <1> DEFINE f == [d \in S |-> Signed(d)]
             g == [d \in S \cup {e} |-> Signed(d)]
  <1>1. Summable(f)
    BY SignedType DEF Summable
  <1>2. /\ e \notin DOMAIN f /\ DOMAIN g = DOMAIN f \cup {e}
        /\ \A d \in DOMAIN f : g[d] = f[d]
        /\ g[e] = Signed(e) /\ g[e] \in Int
    BY SignedType
  <1> HIDE DEF f, g
  <1>3. SumFunction(g) = SumFunction(f) + g[e]
    BY <1>1, <1>2, SumOneMore
  <1>. QED BY <1>2, <1>3 DEF SignedSum, f, g

OfAccount(entries, a) == {d \in entries : d.account = a}

\* A sum has one entry more, or does not, as the new entry is one of those asked for.
LEMMA SignedSumOf ==
  ASSUME NEW L, NEW M, L \subseteq Entries, IsFiniteSet(L), NEW e \in Entries, e \notin L,
         M = L \cup {e}, NEW a
  PROVE  SignedSum(OfAccount(M, a))
            = SignedSum(OfAccount(L, a)) + (IF e.account = a THEN Signed(e) ELSE 0)
  <1> DEFINE S == {d \in L : d.account = a}
             R == {d \in M : d.account = a}
             more == IF e.account = a THEN Signed(e) ELSE 0
  <1> SUFFICES SignedSum(R) = SignedSum(S) + more
    BY DEF OfAccount
  <1>1. S \subseteq Entries /\ IsFiniteSet(S) /\ e \notin S
    BY FS_Subset
  <1>2. SignedSum(S) \in Int
    BY <1>1, SignedSumInt
  <1>3. CASE e.account = a
    <2>1. R = S \cup {e}
      BY <1>3
    <2>2. SignedSum(S \cup {e}) = SignedSum(S) + Signed(e)
      BY <1>1, SignedSumMore
    <2>3. more = Signed(e)
      BY <1>3
    <2> HIDE DEF S, R, more
    <2>. QED BY <2>1, <2>2, <2>3
  <1>4. CASE e.account # a
    <2>1. R = S
      BY <1>4
    <2>2. more = 0
      BY <1>4
    <2> HIDE DEF S, R, more
    <2>. QED BY <1>2, <2>1, <2>2
  <1>. QED BY <1>3, <1>4

\* The entries of a new transaction are new.
LEMMA LegsAreNew ==
  ASSUME NEW L, NEW legs, Postable(L, legs)
  PROVE  legs \cap AllEntries(L) = {} /\ legs \cap L.entries = {}
  BY DEF Postable, Recorded, AllEntries

LEMMA PostedSum ==
  ASSUME NEW L \in Ledgers, FiniteBook(L), NEW legs, legs \subseteq Entries,
         OneLegEach(legs), Postable(L, legs), NEW a \in Accounts
  PROVE  EntrySum(Posted(L, legs), a) = EntrySum(L, a) + Delta(legs, a)
  <1> DEFINE S == {e \in AllEntries(L) : e.account = a}
             T == {e \in AllEntries(L) \cup legs : e.account = a}
  <1>1. S \subseteq Entries /\ IsFiniteSet(S)
    <2>1. IsFiniteSet(AllEntries(L)) /\ AllEntries(L) \subseteq Entries
      BY FS_Union DEF AllEntries, FiniteBook, Ledgers
    <2>. QED BY <2>1, FS_Subset
  <1>2. EntrySum(Posted(L, legs), a) = SignedSum(T) /\ EntrySum(L, a) = SignedSum(S)
    BY PostedFields DEF EntrySum
  <1>3. CASE \E e \in legs : e.account = a
    <2> DEFINE leg == CHOOSE e \in legs : e.account = a
    <2>1. leg \in legs /\ leg.account = a
      BY <1>3
    <2>2. \A e \in legs : e.account = a => e = leg
      BY <2>1 DEF OneLegEach
    <2>3. Delta(legs, a) = Signed(leg)
      BY <1>3 DEF Delta
    <2> HIDE DEF leg
    <2>4. T = S \cup {leg}
      BY <2>1, <2>2
    <2>5. leg \in Entries /\ leg \notin S
      BY <2>1, LegsAreNew
    <2> HIDE DEF S, T
    <2>. QED BY <1>1, <1>2, <2>3, <2>4, <2>5, SignedSumMore
  <1>4. CASE ~\E e \in legs : e.account = a
    <2>1. T = S /\ Delta(legs, a) = 0
      BY <1>4 DEF Delta
    <2> HIDE DEF S, T
    <2>2. SignedSum(S) \in Int
      BY <1>1, SignedSumInt
    <2>. QED BY <1>2, <2>1, <2>2
  <1>. QED BY <1>3, <1>4

\* Balances are sums of entries after a transaction if they were before it.
LEMMA PostedConsistent ==
  ASSUME NEW L \in Ledgers, FiniteBook(L), Consistent(L),
         NEW legs, legs \subseteq Entries, IsFiniteSet(legs), OneLegEach(legs), Postable(L, legs)
  PROVE  Consistent(Posted(L, legs)) /\ FiniteBook(Posted(L, legs))
  <1>1. FiniteBook(Posted(L, legs))
    <2>1. IsFiniteSet(L.entries \cup legs) /\ IsFiniteSet(L.byHand)
      BY FS_Union DEF FiniteBook
    <2>2. /\ Posted(L, legs).entries = L.entries \cup legs
          /\ Posted(L, legs).byHand = L.byHand
      BY PostedFields
    <2>. QED BY <2>1, <2>2 DEF FiniteBook
  <1>2. ASSUME NEW a \in Accounts
        PROVE  Posted(L, legs).balance[a] = EntrySum(Posted(L, legs), a)
    <2>1. Posted(L, legs).balance[a] = L.balance[a] + Delta(legs, a)
      BY PostedBalance
    <2>2. L.balance[a] = EntrySum(L, a)
      BY DEF Consistent
    <2>. QED BY <2>1, <2>2, PostedSum
  <1>3. ASSUME NEW e \in AllEntries(L) \cup legs, NEW f \in AllEntries(L) \cup legs,
               e.account = f.account, e.txn = f.txn, e.category = f.category
        PROVE  e = f
    BY <1>3 DEF Consistent, Postable, Recorded, OneLegEach
  <1>4. AllEntries(Posted(L, legs)) = AllEntries(L) \cup legs
    BY PostedFields
  <1>5. \A e, f \in AllEntries(L) \cup legs :
          (e.account = f.account /\ e.txn = f.txn /\ e.category = f.category) => e = f
    BY <1>3
  <1>. QED BY <1>1, <1>2, <1>4, <1>5 DEF Consistent

LEMMA EmptyConsistent == Consistent(EmptyLedger) /\ FiniteBook(EmptyLedger)
  <1>1. /\ EmptyLedger.entries = {} /\ EmptyLedger.byHand = {} /\ AllEntries(EmptyLedger) = {}
        /\ \A a \in Accounts : EmptyLedger.balance[a] = 0
    BY DEF EmptyLedger, AllEntries
  <1>2. \A a : EntrySum(EmptyLedger, a) = 0
    BY <1>1, SignedSumNone DEF EntrySum
  <1>. QED BY <1>1, <1>2, FS_EmptySet DEF Consistent, FiniteBook

-----------------------------------------------------------------------------
(* A transaction of the ledger desk.                                         *)

LEMMA AccountColumns ==
  ASSUME NEW O, NEW H, NEW B, NEW E, NEW D, NEW a,
         NEW L, L = [opened |-> O, openedByHand |-> H, balance |-> B, entries |-> E, byHand |-> D]
  PROVE  AccountByHand(L, a) =
           [opened |-> O \cup {a}, openedByHand |-> H \cup {a}, balance |-> B,
            entries |-> E, byHand |-> D]
  <1> DEFINE accounts == O \cup {a}
             byHand == H \cup {a}
  <1>1. AccountByHand(L, a) = [L EXCEPT !.opened = accounts, !.openedByHand = byHand]
    BY DEF AccountByHand
  <1> HIDE DEF accounts, byHand
  <1>2. AccountByHand(L, a) = [opened |-> accounts, openedByHand |-> byHand, balance |-> B,
                               entries |-> E, byHand |-> D]
    BY <1>1
  <1>. QED BY <1>2 DEF accounts, byHand

LEMMA EntryColumns ==
  ASSUME NEW O, NEW H, NEW B, NEW E, NEW D, NEW e,
         NEW L, L = [opened |-> O, openedByHand |-> H, balance |-> B, entries |-> E, byHand |-> D]
  PROVE  EntryByHand(L, e) =
           [opened |-> O, openedByHand |-> H,
            balance |-> [B EXCEPT ![e.account] = @ + Signed(e)],
            entries |-> E, byHand |-> D \cup {e}]
  <1> DEFINE moved == [B EXCEPT ![e.account] = @ + Signed(e)]
             more == D \cup {e}
  <1>1. EntryByHand(L, e) = [L EXCEPT !.balance = moved, !.byHand = more]
    BY DEF EntryByHand
  <1> HIDE DEF moved, more
  <1>2. EntryByHand(L, e) = [opened |-> O, openedByHand |-> H, balance |-> moved,
                             entries |-> E, byHand |-> more]
    BY <1>1
  <1>. QED BY <1>2 DEF moved, more

LEMMA AccountByHandFields ==
  ASSUME NEW L \in Ledgers, NEW a \in Accounts
  PROVE  /\ AccountByHand(L, a) \in Ledgers
         /\ AccountByHand(L, a).opened = L.opened \cup {a}
         /\ AccountByHand(L, a).openedByHand = L.openedByHand \cup {a}
         /\ AccountByHand(L, a).balance = L.balance
         /\ AccountByHand(L, a).entries = L.entries
         /\ AccountByHand(L, a).byHand = L.byHand
  <1>1. AccountByHand(L, a) =
          [opened |-> L.opened \cup {a}, openedByHand |-> L.openedByHand \cup {a},
           balance |-> L.balance, entries |-> L.entries, byHand |-> L.byHand]
    BY LedgerColumns, AccountColumns
  <1>2. L.opened \cup {a} \subseteq Accounts /\ L.openedByHand \cup {a} \subseteq Accounts
    BY DEF Ledgers
  <1>. QED BY <1>1, <1>2 DEF Ledgers

LEMMA EntryByHandFields ==
  ASSUME NEW L \in Ledgers, NEW e \in Entries
  PROVE  /\ EntryByHand(L, e) \in Ledgers
         /\ EntryByHand(L, e).opened = L.opened
         /\ EntryByHand(L, e).openedByHand = L.openedByHand
         /\ EntryByHand(L, e).balance = [L.balance EXCEPT ![e.account] = @ + Signed(e)]
         /\ EntryByHand(L, e).entries = L.entries
         /\ EntryByHand(L, e).byHand = L.byHand \cup {e}
  <1>1. EntryByHand(L, e) =
          [opened |-> L.opened, openedByHand |-> L.openedByHand,
           balance |-> [L.balance EXCEPT ![e.account] = @ + Signed(e)],
           entries |-> L.entries, byHand |-> L.byHand \cup {e}]
    BY LedgerColumns, EntryColumns
  <1>2. e.account \in Accounts /\ Signed(e) \in Int /\ L.balance \in [Accounts -> Int]
    BY SignedType DEF Entries, Ledgers
  <1>3. [L.balance EXCEPT ![e.account] = @ + Signed(e)] \in [Accounts -> Int]
    BY <1>2
  <1>4. L.byHand \cup {e} \subseteq Entries
    BY DEF Ledgers
  <1>. QED BY <1>1, <1>3, <1>4 DEF Ledgers

LEMMA ReversalType ==
  ASSUME NEW L \in Ledgers, NEW e \in Reversible(L)
  PROVE  e \in Entries /\ Reversal(e) \in Entries
  <1>1. e \in Entries /\ e.txn \in DOMAIN ReversalOf
    BY DEF Reversible, AllEntries, Ledgers
  <1>2. ReversalOf[e.txn] \in Txns /\ Opposite(e.type) \in EntryTypes
    BY <1>1, DeskAssumption DEF Opposite, EntryTypes
  <1>. QED BY <1>1, <1>2 DEF Reversal, Entries

\* It opens an account, or records an entry whose key is free.
LEMMA DeskCases ==
  ASSUME NEW L \in Ledgers, NEW M \in ByHand(L)
  PROVE  \/ \E a \in Accounts \ L.opened : M = AccountByHand(L, a)
         \/ \E e \in Entries :
               e.account \in Accounts /\ Postable(L, {e}) /\ M = EntryByHand(L, e)
  <1>1. CASE \E a \in Offered \ L.opened : M = AccountByHand(L, a)
    BY <1>1, DeskAssumption
  <1>2. CASE \E e \in Recordable(L) : M = EntryByHand(L, e)
    <2>1. PICK e \in Recordable(L) : M = EntryByHand(L, e)
      BY <1>2
    <2>2. e \in Entries /\ Postable(L, {e})
      BY <2>1, DeskAssumption, ReversalType DEF Recordable
    <2>3. e.account \in Accounts
      BY <2>2 DEF Entries
    <2>. QED BY <2>1, <2>2, <2>3
  <1>. QED BY <1>1, <1>2 DEF ByHand

\* Neither touches what the services have recorded.
LEMMA DeskFrame ==
  ASSUME NEW L \in Ledgers, NEW M \in ByHand(L)
  PROVE  /\ M \in Ledgers
         /\ M.entries = L.entries
         /\ FiniteBook(L) => FiniteBook(M)
         /\ L.opened \subseteq M.opened
         /\ L.openedByHand \subseteq M.openedByHand
         /\ M.opened \ M.openedByHand = L.opened \ L.openedByHand
  <1>1. ASSUME NEW a \in Accounts \ L.opened, M = AccountByHand(L, a)
        PROVE  /\ M \in Ledgers /\ M.entries = L.entries /\ M.byHand = L.byHand
               /\ M.opened = L.opened \cup {a} /\ M.openedByHand = L.openedByHand \cup {a}
    BY <1>1, AccountByHandFields
  <1>2. ASSUME NEW e \in Entries, M = EntryByHand(L, e)
        PROVE  /\ M \in Ledgers /\ M.entries = L.entries
               /\ M.byHand = L.byHand \cup {e}
               /\ M.opened = L.opened /\ M.openedByHand = L.openedByHand
    BY <1>2, EntryByHandFields
  <1>3. CASE \E a \in Accounts \ L.opened : M = AccountByHand(L, a)
    BY <1>1, <1>3 DEF FiniteBook
  <1>4. CASE \E e \in Entries : M = EntryByHand(L, e)
    BY <1>2, <1>4, FS_AddElement DEF FiniteBook
  <1>. QED BY <1>3, <1>4, DeskCases

\* What it adds to a balance is what it adds to the sum of entries by hand, and
\* what it takes is counted as taken by hand.
LEMMA DeskMoves ==
  ASSUME NEW L \in Ledgers, FiniteBook(L), NEW M \in ByHand(L), NEW a \in Accounts
  PROVE  /\ M.balance[a] - L.balance[a] = EntrySum(M, a) - EntrySum(L, a)
         /\ M.balance[a] - L.balance[a] = HandSum(M, a) - HandSum(L, a)
         /\ M.balance[a] + TakenByHand(M, a) >= L.balance[a] + TakenByHand(L, a)
  <1> DEFINE H == {d \in L.byHand : d.account = a}
             N == {d \in L.byHand : d.account = a /\ Signed(d) < 0}
             A == {d \in AllEntries(L) : d.account = a}
  <1>1. /\ IsFiniteSet(L.byHand) /\ L.byHand \subseteq Entries
        /\ IsFiniteSet(AllEntries(L)) /\ AllEntries(L) \subseteq Entries
    BY FS_Union DEF FiniteBook, AllEntries, Ledgers
  <1>2. /\ IsFiniteSet(H) /\ H \subseteq Entries
        /\ IsFiniteSet(N) /\ N \subseteq Entries
        /\ IsFiniteSet(A) /\ A \subseteq Entries
    BY <1>1, FS_Subset
  <1>3. /\ HandSum(L, a) = SignedSum(H) /\ SignedSum(H) \in Int
        /\ TakenByHand(L, a) = -SignedSum(N) /\ SignedSum(N) \in Int
        /\ EntrySum(L, a) = SignedSum(A) /\ SignedSum(A) \in Int
        /\ L.balance[a] \in Int
    <2>1. SignedSum(H) \in Int /\ SignedSum(N) \in Int /\ SignedSum(A) \in Int
      BY <1>2, SignedSumInt
    <2>2. L.balance[a] \in Int
      BY DEF Ledgers
    <2>. QED BY <2>1, <2>2 DEF HandSum, TakenByHand, EntrySum
  <1>4. CASE \E b \in Accounts \ L.opened : M = AccountByHand(L, b)
    <2>1. M.balance = L.balance /\ M.byHand = L.byHand /\ AllEntries(M) = AllEntries(L)
      BY <1>4, AccountByHandFields DEF AllEntries
    <2>2. /\ HandSum(M, a) = SignedSum(H) /\ TakenByHand(M, a) = -SignedSum(N)
          /\ EntrySum(M, a) = SignedSum(A)
      BY <2>1 DEF HandSum, TakenByHand, EntrySum
    <2> HIDE DEF H, N, A
    <2>. QED BY <1>3, <2>1, <2>2
  <1>5. ASSUME NEW e \in Entries, e.account \in Accounts, Postable(L, {e}), M = EntryByHand(L, e)
        PROVE  /\ M.balance[a] - L.balance[a] = EntrySum(M, a) - EntrySum(L, a)
               /\ M.balance[a] - L.balance[a] = HandSum(M, a) - HandSum(L, a)
               /\ M.balance[a] + TakenByHand(M, a) >= L.balance[a] + TakenByHand(L, a)
    <2> DEFINE more == IF e.account = a THEN Signed(e) ELSE 0
               O == {d \in M.byHand : d.account = a /\ Signed(d) < 0}
    <2>1. /\ M.balance = [L.balance EXCEPT ![e.account] = @ + Signed(e)]
          /\ M.byHand = L.byHand \cup {e} /\ AllEntries(M) = AllEntries(L) \cup {e}
      BY <1>5, EntryByHandFields DEF AllEntries
    <2>2. Signed(e) \in Int
      BY SignedType
    <2>3. M.balance[a] = L.balance[a] + more
      <3>1. L.balance \in [Accounts -> Int]
        BY DEF Ledgers
      <3>. QED BY <1>3, <1>5, <2>1, <2>2, <3>1
    <2>4. e \notin AllEntries(L) /\ e \notin L.byHand
      BY <1>5, LegsAreNew DEF AllEntries
    <2>5. HandSum(M, a) = SignedSum(H) + more
      <3> DEFINE before == L.byHand
                 after == M.byHand
      <3>2. /\ before \subseteq Entries /\ IsFiniteSet(before) /\ e \notin before
            /\ after = before \cup {e}
        BY <1>1, <2>1, <2>4
      <3> HIDE DEF before, after
      <3>3. SignedSum(OfAccount(after, a))
              = SignedSum(OfAccount(before, a)) + (IF e.account = a THEN Signed(e) ELSE 0)
        BY <3>2, SignedSumOf
      <3>1. SignedSum({d \in M.byHand : d.account = a}) = SignedSum(H) + more
        BY <3>3 DEF before, after, OfAccount
      <3>. QED BY <3>1 DEF HandSum
    <2>6. EntrySum(M, a) = SignedSum(A) + more
      <3> DEFINE before == AllEntries(L)
                 after == AllEntries(M)
      <3>2. /\ before \subseteq Entries /\ IsFiniteSet(before) /\ e \notin before
            /\ after = before \cup {e}
        BY <1>1, <2>1, <2>4
      <3> HIDE DEF before, after
      <3>3. SignedSum(OfAccount(after, a))
              = SignedSum(OfAccount(before, a)) + (IF e.account = a THEN Signed(e) ELSE 0)
        BY <3>2, SignedSumOf
      <3>1. SignedSum({d \in AllEntries(M) : d.account = a}) = SignedSum(A) + more
        BY <3>3 DEF before, after, OfAccount
      <3>. QED BY <3>1 DEF EntrySum
    <2>7. TakenByHand(M, a) = -SignedSum(O)
      BY DEF TakenByHand
    <2>8. CASE e.account = a /\ Signed(e) < 0
      <3>1. O = N \cup {e} /\ e \notin N
        BY <2>1, <2>4, <2>8
      <3>2. SignedSum(N \cup {e}) = SignedSum(N) + Signed(e)
        BY <1>2, <3>1, SignedSumMore
      <3>3. more = Signed(e) /\ SignedSum(O) = SignedSum(N) + Signed(e)
        BY <2>8, <3>1, <3>2
      <3> HIDE DEF H, N, A, O, more
      <3>. QED BY <1>3, <2>2, <2>3, <2>5, <2>6, <2>7, <3>3
    <2>9. CASE ~(e.account = a /\ Signed(e) < 0)
      <3>1. O = N
        BY <2>1, <2>9
      <3>2. more \in Nat
        BY <2>2, <2>9
      <3> HIDE DEF H, N, A, O, more
      <3>. QED BY <1>3, <2>2, <2>3, <2>5, <2>6, <2>7, <3>1, <3>2
    <2>. QED BY <2>8, <2>9
  <1>. QED BY <1>4, <1>5, DeskCases

\* The amount taken by hand is not negative.
LEMMA TakenNat ==
  ASSUME NEW L \in Ledgers, FiniteBook(L), NEW a
  PROVE  TakenByHand(L, a) \in Nat
  <1> DEFINE N == {d \in L.byHand : d.account = a /\ Signed(d) < 0}
             f == [d \in N |-> Signed(d)]
  <1>1. IsFiniteSet(N) /\ N \subseteq Entries
    BY FS_Subset DEF FiniteBook, Ledgers
  <1>2. /\ IsFiniteSet(DOMAIN f)
        /\ \A d \in DOMAIN f : f[d] \in Int /\ f[d] <= 0
    BY <1>1, SignedType
  <1> HIDE DEF f
  <1>3. SumFunction(f) \in Int /\ SumFunction(f) <= 0
    BY <1>2, SumNotPositive
  <1>4. TakenByHand(L, a) = -SumFunction(f)
    BY DEF TakenByHand, SignedSum, f
  <1>. QED BY <1>3, <1>4

\* So it keeps the books.
LEMMA DeskConsistent ==
  ASSUME NEW L \in Ledgers, FiniteBook(L), Consistent(L), NEW M \in ByHand(L)
  PROVE  Consistent(M) /\ FiniteBook(M)
  <1>1. FiniteBook(M) /\ M \in Ledgers
    BY DeskFrame
  <1>2. ASSUME NEW a \in Accounts
        PROVE  M.balance[a] = EntrySum(M, a)
    <2>1. M.balance[a] - L.balance[a] = EntrySum(M, a) - EntrySum(L, a)
      BY DeskMoves
    <2>2. L.balance[a] = EntrySum(L, a)
      BY DEF Consistent
    <2>3. EntrySum(M, a) \in Int /\ M.balance[a] \in Int /\ L.balance[a] \in Int
      <3> DEFINE A == {d \in AllEntries(M) : d.account = a}
      <3>1. IsFiniteSet(AllEntries(M)) /\ AllEntries(M) \subseteq Entries
        BY <1>1, FS_Union DEF FiniteBook, AllEntries, Ledgers
      <3>2. IsFiniteSet(A) /\ A \subseteq Entries
        BY <3>1, FS_Subset
      <3>3. SignedSum(A) \in Int
        BY <3>2, SignedSumInt
      <3>. QED BY <1>1, <3>3 DEF EntrySum, Ledgers
    <2>. QED BY <2>1, <2>2, <2>3
  <1>3. ASSUME NEW e \in AllEntries(M), NEW f \in AllEntries(M),
               e.account = f.account, e.txn = f.txn, e.category = f.category
        PROVE  e = f
    <2>1. CASE \E b \in Accounts \ L.opened : M = AccountByHand(L, b)
      <3>1. AllEntries(M) = AllEntries(L)
        BY <2>1, AccountByHandFields DEF AllEntries
      <3>. QED BY <1>3, <3>1 DEF Consistent
    <2>2. CASE \E d \in Entries : Postable(L, {d}) /\ M = EntryByHand(L, d)
      <3>1. PICK d \in Entries : Postable(L, {d}) /\ M = EntryByHand(L, d)
        BY <2>2
      <3>2. AllEntries(M) = AllEntries(L) \cup {d}
        <4>1. M.byHand = L.byHand \cup {d} /\ M.entries = L.entries
          BY <3>1, EntryByHandFields
        <4>. QED BY <4>1 DEF AllEntries
      <3>. QED BY <1>3, <3>1, <3>2 DEF Consistent, Postable, Recorded
    <2>. QED BY <2>1, <2>2, DeskCases
  <1>4. \A e, f \in AllEntries(M) :
          (e.account = f.account /\ e.txn = f.txn /\ e.category = f.category) => e = f
    BY <1>3
  <1>. QED BY <1>1, <1>2, <1>4 DEF Consistent

=============================================================================
