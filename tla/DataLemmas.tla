-------------------------- MODULE DataLemmas --------------------------
(***************************************************************************)
(* What the operators shared by the components compute, for every input:   *)
(* the roundings of Fixed, sums over finite sets, the binary search of     *)
(* QueueSearch, and the powers of Fixed.  Facts that need induction take   *)
(* the smallest counterexample of a set (LeastSubset, LeastNat).           *)
(***************************************************************************)
EXTENDS Fixed, QueueSearch, Functions, FiniteSetTheorems, TLAPS

----------------------------------------------------------------------
\* Rounding

\* Division rounding down, characterised without division.
LEMMA DivFloor ==
    ASSUME NEW a \in Nat, NEW b \in Nat \ {0}
    PROVE  /\ a \div b \in Nat
           /\ (a \div b) * b <= a
           /\ a < (a \div b) * b + b
  BY SMT

\* Division rounding up, characterised without division.
LEMMA DivUpBounds ==
    ASSUME NEW a \in Nat, NEW b \in Nat \ {0}
    PROVE  /\ DivUp(a, b) \in Nat
           /\ a <= DivUp(a, b) * b
           /\ DivUp(a, b) * b < a + b
<1>1. a + (b - 1) \in Nat
  OBVIOUS
<1>2. /\ DivUp(a, b) \in Nat
      /\ DivUp(a, b) * b <= a + (b - 1)
      /\ a + (b - 1) < DivUp(a, b) * b + b
  BY <1>1, DivFloor DEF DivUp
<1>3. DivUp(a, b) * b \in Nat
  BY <1>2
<1> QED
  BY <1>2, <1>3

\* Products of natural numbers, in either order.
LEMMA MulNat ==
    ASSUME NEW a \in Nat, NEW b \in Nat
    PROVE  a * b \in Nat /\ a * b = b * a
  BY SMT

\* Multiplication keeps order.
LEMMA MulMono ==
    ASSUME NEW a \in Nat, NEW b \in Nat, NEW c \in Nat, a <= b
    PROVE  a * c <= b * c /\ c * a <= c * b
  BY SMT

\* Strict order of products is that of the factors.
LEMMA MulCancel ==
    ASSUME NEW a \in Nat, NEW b \in Nat, NEW c \in Nat, a * c < b * c
    PROVE  a < b
  BY SMT

\* DivUp(a, b) is the least c with a <= c * b.
LEMMA DivUpLeast ==
    ASSUME NEW a \in Nat, NEW b \in Nat \ {0}, NEW c \in Nat, a <= c * b
    PROVE  DivUp(a, b) <= c
<1>1. DivUp(a, b) \in Nat /\ DivUp(a, b) * b < a + b
  BY DivUpBounds
<1>2. (c + 1) * b = c * b + b
  BY SMT
<1>3. DivUp(a, b) * b < (c + 1) * b
  <2>1. c * b \in Nat /\ DivUp(a, b) * b \in Nat
    BY <1>1, SMT
  <2> QED BY <1>1, <1>2, <2>1
<1>4. DivUp(a, b) < c + 1
  BY <1>1, <1>3, MulCancel
<1> QED BY <1>1, <1>4

\* a \div b is the greatest c with c * b <= a.
LEMMA DivGreatest ==
    ASSUME NEW a \in Nat, NEW b \in Nat \ {0}, NEW c \in Nat, c * b <= a
    PROVE  c <= a \div b
<1>1. a \div b \in Nat /\ a < (a \div b) * b + b
  BY DivFloor
<1>2. (a \div b + 1) * b = (a \div b) * b + b
  BY <1>1, SMT
<1>3. c * b < (a \div b + 1) * b
  <2>1. c * b \in Nat /\ (a \div b) * b \in Nat
    BY <1>1, SMT
  <2> QED BY <1>1, <1>2, <2>1
<1> QED BY <1>1, <1>3, MulCancel

\* A positive dividend gives a positive quotient when rounding up.
LEMMA DivUpPositive ==
    ASSUME NEW a \in Nat, NEW b \in Nat \ {0}, a > 0
    PROVE  DivUp(a, b) > 0
<1>1. DivUp(a, b) \in Nat /\ a <= DivUp(a, b) * b
  BY DivUpBounds
<1>2. CASE DivUp(a, b) = 0
  BY <1>1, <1>2
<1> QED BY <1>1, <1>2

\* Division to the nearest, characterised without division.
LEMMA DivRoundBounds ==
    ASSUME NEW a \in Nat, NEW b \in Nat \ {0}
    PROVE  /\ DivRound(a, b) \in Nat
           /\ DivRound(a, b) * b <= a + b \div 2
           /\ a + b \div 2 < DivRound(a, b) * b + b
<1>1. a + b \div 2 \in Nat
  BY SMT
<1> QED BY <1>1, DivFloor DEF DivRound

\* Every division grows with its dividend.
LEMMA DivMono ==
    ASSUME NEW a \in Nat, NEW c \in Nat, NEW b \in Nat \ {0}, a <= c
    PROVE  a \div b <= c \div b
<1>1. a \div b \in Nat /\ (a \div b) * b <= a
  BY DivFloor
<1>2. (a \div b) * b \in Nat
  BY <1>1
<1>3. (a \div b) * b <= c
  BY <1>1, <1>2
<1> QED BY <1>1, <1>3, DivGreatest

\* Rounding to the nearest as well.
LEMMA DivRoundMono ==
    ASSUME NEW a \in Nat, NEW c \in Nat, NEW b \in Nat \ {0}, a <= c
    PROVE  DivRound(a, b) <= DivRound(c, b)
<1>1. a + b \div 2 \in Nat /\ c + b \div 2 \in Nat /\ a + b \div 2 <= c + b \div 2
  BY SMT
<1> QED BY <1>1, DivMono DEF DivRound

----------------------------------------------------------------------
\* Induction, for sets instead of predicates: the smallest counterexample.

\* A set of subsets of a finite set has a least one.
LEMMA LeastSubset ==
    ASSUME NEW S, IsFiniteSet(S), NEW Bad \in SUBSET (SUBSET S), Bad # {}
    PROVE  \E T \in Bad : \A U \in Bad : U \subseteq T => U = T
<1>1. IsWellFoundedOn(StrictSubsetOrdering(S), SUBSET S)
  BY FS_FiniteSubsetsOfFinite, FS_StrictSubsetOrderingWellFounded
<1>2. PICK T \in Bad : \A U \in Bad : <<U, T>> \notin StrictSubsetOrdering(S)
  BY <1>1, WFMin
<1>3. ASSUME NEW U \in Bad, U \subseteq T
      PROVE  U = T
  BY <1>2, <1>3 DEF StrictSubsetOrdering
<1> QED BY <1>3

\* A set of natural numbers has a least one.
LEMMA LeastNat ==
    ASSUME NEW Bad \in SUBSET Nat, Bad # {}
    PROVE  \E n \in Bad : \A m \in Bad : n <= m
<1>1. PICK n \in Bad : \A m \in Bad : <<m, n>> \notin OpToRel(<, Nat)
  BY NatLessThanWellFounded, WFMin
<1>2. ASSUME NEW m \in Bad
      PROVE  n <= m
  <2>1. ~(m < n)
    BY <1>1 DEF OpToRel
  <2> QED BY <2>1
<1> QED BY <1>2

\* What holds of 0 and is passed on to the next number holds of all.
LEMMA AllNat ==
    ASSUME NEW Good, 0 \in Good, \A n \in Nat : n \in Good => n + 1 \in Good
    PROVE  \A n \in Nat : n \in Good
<1>1. SUFFICES ASSUME Nat \ Good # {} PROVE FALSE
  OBVIOUS
<1>2. PICK n \in Nat \ Good : \A m \in Nat \ Good : n <= m
  BY <1>1, LeastNat
<1>3. n - 1 \in Nat /\ n - 1 \notin Nat \ Good
  BY <1>2
<1> QED BY <1>2, <1>3

\* What a function makes of a finite set is finite and no larger.
LEMMA ImageBound ==
    ASSUME NEW S, IsFiniteSet(S), NEW f
    PROVE  /\ IsFiniteSet({f[x] : x \in S})
           /\ Cardinality({f[x] : x \in S}) <= Cardinality(S)
<1> DEFINE T == {f[x] : x \in S}
           g == [x \in S |-> f[x]]
<1>1. g \in Surjection(S, T)
  BY DEF Surjection
<1> HIDE DEF g
<1>2. IsFiniteSet(T) /\ Cardinality(T) <= Cardinality(S)
  BY <1>1, FS_Surjection
<1> QED BY <1>2

\* A finite set of natural numbers that is not empty has a greatest one.
LEMMA GreatestNat ==
    ASSUME NEW T, NEW n \in Nat, T \subseteq 0 .. n, T # {}
    PROVE  \E m \in T : \A i \in T : i <= m
<1> DEFINE Bad == {d \in Nat : n - d \in T}
<1>1. Bad # {}
  <2>1. PICK i \in T : TRUE
    OBVIOUS
  <2>2. n - i \in Nat /\ n - (n - i) = i
    BY <2>1
  <2> QED BY <2>1, <2>2
<1>2. PICK d \in Bad : \A k \in Bad : d <= k
  <2>1. Bad \in SUBSET Nat
    OBVIOUS
  <2> HIDE DEF Bad
  <2> QED BY <1>1, <2>1, LeastNat
<1>3. ASSUME NEW i \in T
      PROVE  i <= n - d
  <2>1. n - i \in Nat /\ n - (n - i) = i /\ i \in Nat
    OBVIOUS
  <2>2. n - i \in Bad
    BY <2>1
  <2>3. d <= n - i /\ d \in Nat
    BY <1>2, <2>2
  <2> QED BY <2>1, <2>3
<1> QED BY <1>2, <1>3

----------------------------------------------------------------------
\* Sums

\* The element that the fold of the library takes out first.
Pick(s) == CHOOSE x \in s : TRUE

\* g sums f up over every subset of S.
IsSum(f, S, g) ==
    g = [s \in SUBSET S |-> IF s = {} THEN 0 ELSE f[Pick(s)] + g[s \ {Pick(s)}]]

LEMMA SumUnfolds ==
    ASSUME NEW f, NEW S
    PROVE  SumFunctionOnSet(f, S) = (CHOOSE g : IsSum(f, S, g))[S]
<1>1. SumFunctionOnSet(f, S) =
        (CHOOSE g : g = [s \in SUBSET S |->
                           IF s = {} THEN 0 ELSE f[Pick(s)] + g[s \ {Pick(s)}]])[S]
  BY DEF SumFunctionOnSet, FoldFunctionOnSet, MapThenFoldSet, Pick
<1> QED BY <1>1 DEF IsSum

LEMMA PickIn ==
    ASSUME NEW s, s # {}
    PROVE  Pick(s) \in s
BY DEF Pick

\* Two functions that sum f up agree where both are defined.
LEMMA SumUnique ==
    ASSUME NEW f, NEW S, IsFiniteSet(S), NEW T, NEW g, NEW h,
           IsSum(f, S, g), IsSum(f, T, h)
    PROVE  \A R \in SUBSET (S \cap T) : g[R] = h[R]
<1> DEFINE Bad == {R \in SUBSET S : R \subseteq T /\ g[R] # h[R]}
<1>1. SUFFICES ASSUME Bad # {} PROVE FALSE
  OBVIOUS
<1>2. PICK R \in Bad : \A U \in Bad : U \subseteq R => U = R
  <2>1. Bad \in SUBSET (SUBSET S)
    OBVIOUS
  <2> HIDE DEF Bad
  <2> QED BY <1>1, <2>1, LeastSubset
<1>3. /\ g[R] = IF R = {} THEN 0 ELSE f[Pick(R)] + g[R \ {Pick(R)}]
      /\ h[R] = IF R = {} THEN 0 ELSE f[Pick(R)] + h[R \ {Pick(R)}]
  BY <1>2 DEF IsSum
<1>4. R # {}
  BY <1>2, <1>3
<1>5. R \ {Pick(R)} # R /\ R \ {Pick(R)} \in SUBSET R
  BY <1>4, PickIn
<1>6. g[R \ {Pick(R)}] = h[R \ {Pick(R)}]
  BY <1>2, <1>5
<1> QED BY <1>2, <1>3, <1>4, <1>6

\* The sum of f over a finite set is that over one element less, and that element's.
LEMMA SumStep ==
    ASSUME NEW f, NEW A, IsFiniteSet(A)
    PROVE  \A T \in SUBSET A :
               /\ IsSum(f, T, CHOOSE g : IsSum(f, T, g))
               /\ SumFunctionOnSet(f, T) =
                    IF T = {} THEN 0
                    ELSE f[Pick(T)] + SumFunctionOnSet(f, T \ {Pick(T)})
<1> DEFINE G(T) == CHOOSE g : IsSum(f, T, g)
           Bad  == {T \in SUBSET A : ~IsSum(f, T, G(T))}
<1>1. ASSUME NEW T \in SUBSET A, \A R \in SUBSET T : R # T => IsSum(f, R, G(R))
      PROVE  IsSum(f, T, G(T))
  <2> DEFINE h == [s \in SUBSET T |->
                     IF s = {} THEN 0 ELSE f[Pick(s)] + G(s \ {Pick(s)})[s \ {Pick(s)}]]
  <2>1. ASSUME NEW r \in SUBSET T, r # T
        PROVE  h[r] = G(r)[r]
    <3>1. G(r) = [s \in SUBSET r |->
                     IF s = {} THEN 0 ELSE f[Pick(s)] + G(r)[s \ {Pick(s)}]]
      BY <1>1, <2>1 DEF IsSum
    <3>2. G(r)[r] = IF r = {} THEN 0 ELSE f[Pick(r)] + G(r)[r \ {Pick(r)}]
      <4> HIDE DEF G
      <4> QED BY <3>1
    <3>3. CASE r # {}
      <4> DEFINE q == r \ {Pick(r)}
      <4>1. q \in SUBSET r /\ q # r /\ q \in SUBSET T /\ q # T
        BY <3>3, <2>1, PickIn
      <4>2. IsSum(f, q, G(q)) /\ IsSum(f, r, G(r)) /\ IsFiniteSet(r)
        BY <1>1, <2>1, <4>1, FS_Subset
      <4>3. G(r)[q] = G(q)[q]
        <5> HIDE DEF G, q
        <5> QED BY <4>1, <4>2, SumUnique
      <4>4. h[r] = f[Pick(r)] + G(q)[q]
        <5> HIDE DEF G
        <5> QED BY <3>3
      <4> HIDE DEF G, h
      <4> QED BY <3>2, <3>3, <4>3, <4>4
    <3>4. CASE r = {}
      <4>1. h[r] = 0
        BY <3>4
      <4> HIDE DEF G, h
      <4> QED BY <3>2, <3>4, <4>1
    <3> QED BY <3>3, <3>4
  <2>2. IsSum(f, T, h)
    <3>1. ASSUME NEW s \in SUBSET T, s # {}
          PROVE  h[s \ {Pick(s)}] = G(s \ {Pick(s)})[s \ {Pick(s)}]
      <4>1. s \ {Pick(s)} \in SUBSET T /\ s \ {Pick(s)} # T
        BY <3>1, PickIn
      <4> HIDE DEF h, G
      <4> QED BY <2>1, <4>1
    <3>2. ASSUME NEW s \in SUBSET T
          PROVE  h[s] = IF s = {} THEN 0 ELSE f[Pick(s)] + h[s \ {Pick(s)}]
      <4>1. h[s] = IF s = {} THEN 0 ELSE f[Pick(s)] + G(s \ {Pick(s)})[s \ {Pick(s)}]
        <5> HIDE DEF G
        <5> QED OBVIOUS
      <4> HIDE DEF h, G
      <4> QED BY <3>1, <4>1
    <3>3. h = [s \in SUBSET T |-> h[s]]
      <4> HIDE DEF G
      <4> QED OBVIOUS
    <3> HIDE DEF h
    <3> QED BY <3>2, <3>3 DEF IsSum
  <2>3. \E g : IsSum(f, T, g)
    <3> HIDE DEF h
    <3> QED BY <2>2
  <2> QED BY <2>3
<1>2. \A T \in SUBSET A : IsSum(f, T, G(T))
  <2>1. SUFFICES ASSUME Bad # {} PROVE FALSE
    OBVIOUS
  <2>2. PICK T \in Bad : \A U \in Bad : U \subseteq T => U = T
    <3>1. Bad \in SUBSET (SUBSET A)
      OBVIOUS
    <3> HIDE DEF Bad
    <3> QED BY <2>1, <3>1, LeastSubset
  <2>3. T \in SUBSET A /\ ~IsSum(f, T, G(T))
    BY <2>2
  <2>4. \A R \in SUBSET T : R # T => IsSum(f, R, G(R))
    <3> HIDE DEF G
    <3> QED BY <2>2
  <2> HIDE DEF G
  <2> QED BY <1>1, <2>3, <2>4
<1>3. ASSUME NEW T \in SUBSET A
      PROVE  SumFunctionOnSet(f, T) =
                 IF T = {} THEN 0 ELSE f[Pick(T)] + SumFunctionOnSet(f, T \ {Pick(T)})
  <2>1. SumFunctionOnSet(f, T) = G(T)[T]
    BY SumUnfolds
  <2>2. G(T)[T] = IF T = {} THEN 0 ELSE f[Pick(T)] + G(T)[T \ {Pick(T)}]
    <3>1. G(T) = [s \in SUBSET T |->
                     IF s = {} THEN 0 ELSE f[Pick(s)] + G(T)[s \ {Pick(s)}]]
      BY <1>2 DEF IsSum
    <3> HIDE DEF G
    <3> QED BY <3>1
  <2>3. ASSUME T # {}
        PROVE  G(T)[T \ {Pick(T)}] = SumFunctionOnSet(f, T \ {Pick(T)})
    <3> DEFINE q == T \ {Pick(T)}
    <3>1. q \in SUBSET (T \cap q) /\ q \in SUBSET A
      OBVIOUS
    <3>2. IsSum(f, q, G(q)) /\ IsSum(f, T, G(T)) /\ IsFiniteSet(T)
      BY <1>2, <3>1, FS_Subset
    <3>3. G(T)[q] = G(q)[q]
      <4> HIDE DEF G, q
      <4> QED BY <3>1, <3>2, SumUnique
    <3>4. SumFunctionOnSet(f, q) = G(q)[q]
      BY SumUnfolds
    <3> QED BY <3>3, <3>4
  <2> HIDE DEF G
  <2> QED BY <2>1, <2>2, <2>3
<1> QED BY <1>2, <1>3

\* Any element may be taken out first.
LEMMA SumTakeOut ==
    ASSUME NEW f, NEW A, IsFiniteSet(A), \A y \in A : f[y] \in Int
    PROVE  /\ SumFunctionOnSet(f, A) \in Int
           /\ \A x \in A : SumFunctionOnSet(f, A) = f[x] + SumFunctionOnSet(f, A \ {x})
<1> DEFINE Sum(T) == SumFunctionOnSet(f, T)
           Bad    == {T \in SUBSET A :
                        ~ (Sum(T) \in Int /\ \A x \in T : Sum(T) = f[x] + Sum(T \ {x}))}
<1>1. SUFFICES ASSUME Bad # {} PROVE FALSE
  OBVIOUS
<1>2. PICK T \in Bad : \A U \in Bad : U \subseteq T => U = T
  <2>1. Bad \in SUBSET (SUBSET A)
    OBVIOUS
  <2> HIDE DEF Bad
  <2> QED BY <1>1, <2>1, LeastSubset
<1>3. /\ T \in SUBSET A
      /\ ~ (Sum(T) \in Int /\ \A x \in T : Sum(T) = f[x] + Sum(T \ {x}))
  BY <1>2
<1>4. ASSUME NEW x \in T
      PROVE  /\ Sum(T \ {x}) \in Int
             /\ \A y \in T \ {x} : Sum(T \ {x}) = f[y] + Sum((T \ {x}) \ {y})
  <2>1. T \ {x} \in SUBSET A /\ T \ {x} \subseteq T /\ T \ {x} # T
    BY <1>3
  <2> HIDE DEF Sum
  <2> QED BY <1>2, <2>1
<1>5. Sum(T) = IF T = {} THEN 0 ELSE f[Pick(T)] + Sum(T \ {Pick(T)})
  BY <1>3, SumStep
<1> HIDE DEF Sum, Bad
<1>6. T # {}
  BY <1>3, <1>5
<1> DEFINE p == Pick(T)
<1>7. p \in T /\ f[p] \in Int /\ Sum(T \ {p}) \in Int /\ Sum(T) = f[p] + Sum(T \ {p})
  BY <1>3, <1>4, <1>5, <1>6, PickIn
<1> HIDE DEF p
<1>8. ASSUME NEW x \in T, x # p
      PROVE  Sum(T) = f[x] + Sum(T \ {x})
  <2>1. (T \ {p}) \ {x} = (T \ {x}) \ {p}
    OBVIOUS
  <2>2. Sum(T \ {p}) = f[x] + Sum((T \ {x}) \ {p})
    BY <1>4, <1>7, <1>8, <2>1
  <2>3. Sum(T \ {x}) = f[p] + Sum((T \ {x}) \ {p})
    BY <1>4, <1>7, <1>8
  <2>4. Sum((T \ {x}) \ {p}) \in Int
    <3>1. (T \ {x}) \ {p} \in SUBSET A /\ (T \ {x}) \ {p} \subseteq T /\ (T \ {x}) \ {p} # T
      BY <1>3, <1>7
    <3> QED BY <1>2, <3>1 DEF Bad
  <2>5. f[x] \in Int
    BY <1>3
  <2> HIDE DEF Sum
  <2> QED BY <1>7, <2>2, <2>3, <2>4, <2>5
<1>9. Sum(T) \in Int
  BY <1>7
<1>10. \A x \in T : Sum(T) = f[x] + Sum(T \ {x})
  BY <1>7, <1>8, Zenon
<1> QED BY <1>3, <1>9, <1>10, Zenon

\* The sum over a set depends on the values over that set only, and keeps their order.
LEMMA SumMonotonic ==
    ASSUME NEW A, IsFiniteSet(A), NEW f, NEW g,
           \A y \in A : f[y] \in Int /\ g[y] \in Int /\ f[y] <= g[y]
    PROVE  SumFunctionOnSet(f, A) <= SumFunctionOnSet(g, A)
<1> DEFINE F(T) == SumFunctionOnSet(f, T)
           G(T) == SumFunctionOnSet(g, T)
           Bad  == {T \in SUBSET A : ~(F(T) <= G(T))}
<1>1. SUFFICES ASSUME Bad # {} PROVE FALSE
  OBVIOUS
<1>2. PICK T \in Bad : \A U \in Bad : U \subseteq T => U = T
  <2>1. Bad \in SUBSET (SUBSET A)
    OBVIOUS
  <2> HIDE DEF Bad
  <2> QED BY <1>1, <2>1, LeastSubset
<1>3. T \in SUBSET A /\ ~(F(T) <= G(T)) /\ IsFiniteSet(T)
  BY <1>2, FS_Subset
<1>4. T # {}
  <2>1. F({}) = 0 /\ G({}) = 0
    BY SumStep
  <2> HIDE DEF F, G
  <2> QED BY <1>3, <2>1
<1>5. PICK x \in T : TRUE
  BY <1>4
<1>6. F(T) = f[x] + F(T \ {x}) /\ G(T) = g[x] + G(T \ {x})
  BY <1>3, SumTakeOut
<1>7. IsFiniteSet(T \ {x}) /\ T \ {x} \in SUBSET A /\ T \ {x} # T
  BY <1>3, FS_Subset
<1>8. F(T \ {x}) \in Int /\ G(T \ {x}) \in Int
  BY <1>7, SumTakeOut
<1> HIDE DEF F, G
<1>9. F(T \ {x}) <= G(T \ {x})
  BY <1>2, <1>7
<1>10. f[x] \in Int /\ g[x] \in Int /\ f[x] <= g[x]
  BY <1>3
<1> QED BY <1>3, <1>6, <1>8, <1>9, <1>10

\* The sum over a set depends on the values over that set only.
LEMMA SumSame ==
    ASSUME NEW A, IsFiniteSet(A), NEW f, NEW g, \A y \in A : f[y] \in Int /\ f[y] = g[y]
    PROVE  SumFunctionOnSet(f, A) = SumFunctionOnSet(g, A)
<1>1. /\ SumFunctionOnSet(f, A) <= SumFunctionOnSet(g, A)
      /\ SumFunctionOnSet(g, A) <= SumFunctionOnSet(f, A)
  BY SumMonotonic
<1>2. SumFunctionOnSet(f, A) \in Int /\ SumFunctionOnSet(g, A) \in Int
  BY SumTakeOut
<1> QED BY <1>1, <1>2

\* A sum of natural numbers is one, is no less than any of them, and is 0 when all are.
LEMMA SumNat ==
    ASSUME NEW A, IsFiniteSet(A), NEW f \in [A -> Nat]
    PROVE  /\ SumFunction(f) \in Nat
           /\ \A x \in A : f[x] <= SumFunction(f)
           /\ (\A x \in A : f[x] = 0) => SumFunction(f) = 0
<1> DEFINE z == [y \in A |-> 0]
<1>1. SumFunction(f) = SumFunctionOnSet(f, A)
  BY DEF SumFunction
<1>2. ASSUME NEW T \in SUBSET A
      PROVE  SumFunctionOnSet(z, T) = 0
  <2> DEFINE Bad == {R \in SUBSET T : SumFunctionOnSet(z, R) # 0}
  <2>1. IsFiniteSet(T)
    BY FS_Subset
  <2>2. SUFFICES ASSUME Bad # {} PROVE FALSE
    BY <2>1
  <2>3. PICK R \in Bad : \A U \in Bad : U \subseteq R => U = R
    <3>1. Bad \in SUBSET (SUBSET T)
      OBVIOUS
    <3> HIDE DEF Bad
    <3> QED BY <2>1, <2>2, <3>1, LeastSubset
  <2>4. R \in SUBSET A /\ R # {}
    <3>1. SumFunctionOnSet(z, {}) = 0
      BY SumStep
    <3> QED BY <2>3, <3>1
  <2>5. SumFunctionOnSet(z, R) = z[Pick(R)] + SumFunctionOnSet(z, R \ {Pick(R)})
    <3> HIDE DEF z, Bad
    <3> QED BY <2>4, SumStep
  <2>6. Pick(R) \in R /\ z[Pick(R)] = 0
    BY <2>4, PickIn
  <2>7. SumFunctionOnSet(z, R \ {Pick(R)}) = 0
    <3> HIDE DEF z
    <3> QED BY <2>3, <2>6
  <2> HIDE DEF z
  <2> QED BY <2>3, <2>5, <2>6, <2>7
<1>3. ASSUME NEW T \in SUBSET A
      PROVE  SumFunctionOnSet(f, T) \in Int /\ 0 <= SumFunctionOnSet(f, T)
  <2>1. \A y \in T : z[y] \in Int /\ f[y] \in Int /\ z[y] <= f[y]
    OBVIOUS
  <2>2. IsFiniteSet(T)
    BY FS_Subset
  <2> HIDE DEF z
  <2>3. SumFunctionOnSet(z, T) <= SumFunctionOnSet(f, T)
    BY <2>1, <2>2, SumMonotonic
  <2>4. SumFunctionOnSet(f, T) \in Int
    BY <2>1, <2>2, SumTakeOut
  <2> QED BY <1>2, <2>3, <2>4
<1>4. ASSUME NEW x \in A
      PROVE  f[x] <= SumFunctionOnSet(f, A)
  <2>1. SumFunctionOnSet(f, A) = f[x] + SumFunctionOnSet(f, A \ {x})
    BY SumTakeOut
  <2>2. SumFunctionOnSet(f, A \ {x}) \in Int /\ 0 <= SumFunctionOnSet(f, A \ {x})
    BY <1>3
  <2>3. f[x] \in Nat
    OBVIOUS
  <2> QED BY <2>1, <2>2, <2>3
<1>5. ASSUME \A x \in A : f[x] = 0
      PROVE  SumFunctionOnSet(f, A) = 0
  <2>1. f = z
    BY <1>5
  <2> QED BY <1>2, <2>1
<1> QED BY <1>1, <1>3, <1>4, <1>5

\* The sum of multiples is the multiple of the sum.
LEMMA SumScaled ==
    ASSUME NEW A, IsFiniteSet(A), NEW q \in Nat, NEW f, NEW g,
           \A y \in A : f[y] \in Nat /\ g[y] = q * f[y]
    PROVE  SumFunctionOnSet(g, A) = q * SumFunctionOnSet(f, A)
<1>0. \A y \in A : f[y] \in Int /\ g[y] \in Int
  <2> SUFFICES ASSUME NEW y \in A PROVE f[y] \in Int /\ g[y] \in Int
    OBVIOUS
  <2>1. f[y] \in Nat /\ g[y] = q * f[y]
    OBVIOUS
  <2>2. q * f[y] \in Nat
    BY <2>1, MulNat
  <2> QED BY <2>1, <2>2
<1> DEFINE F(T) == SumFunctionOnSet(f, T)
           G(T) == SumFunctionOnSet(g, T)
           Bad  == {T \in SUBSET A : G(T) # q * F(T)}
<1>1. SUFFICES ASSUME Bad # {} PROVE FALSE
  OBVIOUS
<1>2. PICK T \in Bad : \A U \in Bad : U \subseteq T => U = T
  <2>1. Bad \in SUBSET (SUBSET A)
    OBVIOUS
  <2> HIDE DEF Bad
  <2> QED BY <1>1, <2>1, LeastSubset
<1>3. T \in SUBSET A /\ G(T) # q * F(T) /\ IsFiniteSet(T)
  BY <1>2, FS_Subset
<1>4. T # {}
  <2>1. F({}) = 0 /\ G({}) = 0
    BY SumStep
  <2> HIDE DEF F, G
  <2> QED BY <1>3, <2>1
<1>5. PICK x \in T : TRUE
  BY <1>4
<1>6. F(T) = f[x] + F(T \ {x}) /\ G(T) = g[x] + G(T \ {x})
  BY <1>0, <1>3, SumTakeOut
<1>7. IsFiniteSet(T \ {x}) /\ T \ {x} \in SUBSET A /\ T \ {x} # T
  BY <1>3, FS_Subset
<1>8. F(T \ {x}) \in Int
  BY <1>0, <1>7, SumTakeOut
<1> HIDE DEF F, G
<1>9. G(T \ {x}) = q * F(T \ {x})
  BY <1>2, <1>7
<1>10. f[x] \in Int /\ g[x] = q * f[x]
  BY <1>3
<1>11. q * (f[x] + F(T \ {x})) = q * f[x] + q * F(T \ {x})
  BY <1>8, <1>10
<1> QED BY <1>3, <1>6, <1>9, <1>10, <1>11

\* The same of a sum over some elements of its domain.
LEMMA SumOnNat ==
    ASSUME NEW A, IsFiniteSet(A), NEW f, \A y \in A : f[y] \in Nat
    PROVE  /\ SumFunctionOnSet(f, A) \in Nat
           /\ \A x \in A : f[x] <= SumFunctionOnSet(f, A)
           /\ (\A x \in A : f[x] = 0) => SumFunctionOnSet(f, A) = 0
<1> DEFINE g == [y \in A |-> f[y]]
<1>1. g \in [A -> Nat] /\ \A y \in A : g[y] = f[y]
  OBVIOUS
<1>2. \A y \in A : f[y] \in Int /\ f[y] = g[y]
  BY <1>1
<1> HIDE DEF g
<1>3. SumFunctionOnSet(f, A) = SumFunctionOnSet(g, A)
  BY <1>2, SumSame
<1>4. SumFunction(g) = SumFunctionOnSet(g, A)
  BY <1>1 DEF SumFunction
<1>5. /\ SumFunction(g) \in Nat
      /\ \A x \in A : g[x] <= SumFunction(g)
      /\ (\A x \in A : g[x] = 0) => SumFunction(g) = 0
  BY <1>1, SumNat
<1> QED BY <1>1, <1>3, <1>4, <1>5

\* The sum over two sets that have nothing in common is that of their sums.
LEMMA SumUnion ==
    ASSUME NEW A, NEW B, IsFiniteSet(A), IsFiniteSet(B), A \cap B = {},
           NEW f, \A y \in A \cup B : f[y] \in Int
    PROVE  SumFunctionOnSet(f, A \cup B) = SumFunctionOnSet(f, A) + SumFunctionOnSet(f, B)
<1> DEFINE F(T) == SumFunctionOnSet(f, T)
           Bad  == {T \in SUBSET B : F(A \cup T) # F(A) + F(T)}
<1>1. SUFFICES ASSUME Bad # {} PROVE FALSE
  OBVIOUS
<1>2. PICK T \in Bad : \A U \in Bad : U \subseteq T => U = T
  <2>1. Bad \in SUBSET (SUBSET B)
    OBVIOUS
  <2> HIDE DEF Bad
  <2> QED BY <1>1, <2>1, LeastSubset
<1>3. T \in SUBSET B /\ F(A \cup T) # F(A) + F(T) /\ IsFiniteSet(T) /\ IsFiniteSet(A \cup T)
  <2>1. T \in SUBSET B /\ F(A \cup T) # F(A) + F(T)
    BY <1>2
  <2>2. IsFiniteSet(T)
    BY <2>1, FS_Subset
  <2> QED BY <2>1, <2>2, FS_Union
<1>4. F(A) \in Int
  BY SumTakeOut
<1>5. T # {}
  <2>1. F({}) = 0
    BY SumStep
  <2>2. A \cup {} = A
    OBVIOUS
  <2> HIDE DEF F
  <2> QED BY <1>3, <1>4, <2>1, <2>2
<1>6. PICK x \in T : TRUE
  BY <1>5
<1>7. F(T) = f[x] + F(T \ {x}) /\ F(T \ {x}) \in Int /\ f[x] \in Int
  <2>1. \A y \in T : f[y] \in Int
    BY <1>3
  <2>2. IsFiniteSet(T \ {x})
    BY <1>3, FS_Subset
  <2> QED BY <1>3, <2>1, <2>2, SumTakeOut
<1>8. F(A \cup T) = f[x] + F(A \cup (T \ {x}))
  <2>1. \A y \in A \cup T : f[y] \in Int
    BY <1>3
  <2>2. (A \cup T) \ {x} = A \cup (T \ {x})
    BY <1>3
  <2>3. F(A \cup T) = f[x] + F((A \cup T) \ {x})
    BY <1>3, <2>1, SumTakeOut
  <2> HIDE DEF F
  <2> QED BY <2>2, <2>3
<1>9. T \ {x} \in SUBSET B /\ T \ {x} # T /\ T \ {x} \subseteq T
  BY <1>3
<1> HIDE DEF F
<1>10. F(A \cup (T \ {x})) = F(A) + F(T \ {x})
  BY <1>2, <1>9
<1> QED BY <1>3, <1>4, <1>7, <1>8, <1>10

\* What is zero adds nothing.
LEMMA SumSupport ==
    ASSUME NEW A, IsFiniteSet(A), NEW S \in SUBSET A, NEW f, \A y \in S : f[y] \in Int,
           \A y \in A \ S : f[y] = 0
    PROVE  SumFunctionOnSet(f, A) = SumFunctionOnSet(f, S)
<1>1. IsFiniteSet(S) /\ IsFiniteSet(A \ S) /\ S \cap (A \ S) = {} /\ S \cup (A \ S) = A
  BY FS_Subset
<1>2. SumFunctionOnSet(f, A \ S) = 0
  BY <1>1, SumOnNat
<1>3. \A y \in S \cup (A \ S) : f[y] \in Int
  OBVIOUS
<1>4. SumFunctionOnSet(f, A) = SumFunctionOnSet(f, S) + SumFunctionOnSet(f, A \ S)
  <2>1. SumFunctionOnSet(f, S \cup (A \ S)) = SumFunctionOnSet(f, S) + SumFunctionOnSet(f, A \ S)
    BY <1>1, <1>3, SumUnion
  <2> QED BY <1>1, <2>1, Zenon
<1>5. SumFunctionOnSet(f, S) \in Int
  BY <1>1, SumTakeOut
<1> QED BY <1>1, <1>2, <1>4, <1>5

\* The sum of sums.
LEMMA SumAdds ==
    ASSUME NEW A, IsFiniteSet(A), NEW f, NEW g, NEW h,
           \A y \in A : f[y] \in Int /\ g[y] \in Int /\ h[y] = f[y] + g[y]
    PROVE  SumFunctionOnSet(h, A) = SumFunctionOnSet(f, A) + SumFunctionOnSet(g, A)
<1> DEFINE F(T) == SumFunctionOnSet(f, T)
           G(T) == SumFunctionOnSet(g, T)
           H(T) == SumFunctionOnSet(h, T)
           Bad  == {T \in SUBSET A : H(T) # F(T) + G(T)}
<1>0. \A y \in A : h[y] \in Int
  OBVIOUS
<1>1. SUFFICES ASSUME Bad # {} PROVE FALSE
  OBVIOUS
<1>2. PICK T \in Bad : \A U \in Bad : U \subseteq T => U = T
  <2>1. Bad \in SUBSET (SUBSET A)
    OBVIOUS
  <2> HIDE DEF Bad
  <2> QED BY <1>1, <2>1, LeastSubset
<1>3. T \in SUBSET A /\ H(T) # F(T) + G(T) /\ IsFiniteSet(T)
  BY <1>2, FS_Subset
<1>4. T # {}
  <2>1. F({}) = 0 /\ G({}) = 0 /\ H({}) = 0
    BY SumStep
  <2> HIDE DEF F, G, H, Bad
  <2>2. H({}) = F({}) + G({})
    BY <2>1
  <2> QED BY <1>3, <2>2, Zenon
<1>5. PICK x \in T : TRUE
  BY <1>4
<1>6. /\ F(T) = f[x] + F(T \ {x}) /\ G(T) = g[x] + G(T \ {x}) /\ H(T) = h[x] + H(T \ {x})
      /\ F(T \ {x}) \in Int /\ G(T \ {x}) \in Int
  <2>1. \A y \in T : f[y] \in Int /\ g[y] \in Int /\ h[y] \in Int
    BY <1>0, <1>3
  <2>2. IsFiniteSet(T \ {x})
    BY <1>3, FS_Subset
  <2>3. F(T) = f[x] + F(T \ {x}) /\ F(T \ {x}) \in Int
    BY <1>3, <2>1, <2>2, SumTakeOut
  <2>4. G(T) = g[x] + G(T \ {x}) /\ G(T \ {x}) \in Int
    BY <1>3, <2>1, <2>2, SumTakeOut
  <2>5. H(T) = h[x] + H(T \ {x})
    BY <1>3, <2>1, <2>2, SumTakeOut
  <2> QED BY <2>3, <2>4, <2>5
<1>7. T \ {x} \in SUBSET A /\ T \ {x} # T /\ T \ {x} \subseteq T
  BY <1>3
<1> HIDE DEF F, G, H
<1>8. H(T \ {x}) = F(T \ {x}) + G(T \ {x})
  BY <1>2, <1>7
<1>9. f[x] \in Int /\ g[x] \in Int /\ h[x] = f[x] + g[x]
  BY <1>3
<1> QED BY <1>3, <1>6, <1>8, <1>9

\* Equal shares.
LEMMA SumEqual ==
    ASSUME NEW A, IsFiniteSet(A), NEW k \in Nat, NEW f, \A y \in A : f[y] = k
    PROVE  SumFunctionOnSet(f, A) = Cardinality(A) * k
<1> DEFINE F(T) == SumFunctionOnSet(f, T)
           Bad  == {T \in SUBSET A : F(T) # Cardinality(T) * k}
<1>1. SUFFICES ASSUME Bad # {} PROVE FALSE
  OBVIOUS
<1>2. PICK T \in Bad : \A U \in Bad : U \subseteq T => U = T
  <2>1. Bad \in SUBSET (SUBSET A)
    OBVIOUS
  <2> HIDE DEF Bad
  <2> QED BY <1>1, <2>1, LeastSubset
<1>3. T \in SUBSET A /\ F(T) # Cardinality(T) * k /\ IsFiniteSet(T)
  BY <1>2, FS_Subset
<1>4. T # {}
  <2>1. F({}) = 0 /\ Cardinality({}) = 0
    BY SumStep, FS_EmptySet
  <2> HIDE DEF F
  <2> QED BY <1>3, <2>1
<1>5. PICK x \in T : TRUE
  BY <1>4
<1>6. F(T) = k + F(T \ {x})
  <2>1. \A y \in T : f[y] \in Int
    BY <1>3
  <2>2. f[x] = k
    BY <1>3
  <2> QED BY <1>3, <2>1, <2>2, SumTakeOut
<1>7. T \ {x} \in SUBSET A /\ T \ {x} # T /\ T \ {x} \subseteq T
  BY <1>3
<1>8. Cardinality(T \ {x}) \in Nat /\ Cardinality(T) = Cardinality(T \ {x}) + 1
  <2>1. IsFiniteSet(T \ {x}) /\ Cardinality(T \ {x}) = Cardinality(T) - 1
    BY <1>3, FS_RemoveElement
  <2>2. Cardinality(T \ {x}) \in Nat /\ Cardinality(T) \in Nat
    BY <1>3, <2>1, FS_CardinalityType
  <2> QED BY <2>1, <2>2
<1> HIDE DEF F
<1>9. F(T \ {x}) = Cardinality(T \ {x}) * k
  BY <1>2, <1>7
<1>10. (Cardinality(T \ {x}) + 1) * k = Cardinality(T \ {x}) * k + k
  BY <1>8
<1>11. Cardinality(T \ {x}) * k \in Nat
  BY <1>8, MulNat
<1> QED BY <1>3, <1>6, <1>8, <1>9, <1>10, <1>11

\* What changes one value changes the sum by as much.
LEMMA SumChange ==
    ASSUME NEW A, IsFiniteSet(A), NEW f \in [A -> Int], NEW g \in [A -> Int], NEW x \in A,
           \A y \in A : y # x => g[y] = f[y]
    PROVE  /\ SumFunction(f) \in Int /\ SumFunction(g) \in Int
           /\ SumFunction(g) = SumFunction(f) + (g[x] - f[x])
<1>1. SumFunction(f) = SumFunctionOnSet(f, A) /\ SumFunction(g) = SumFunctionOnSet(g, A)
  BY DEF SumFunction
<1>2. /\ SumFunctionOnSet(f, A) \in Int
      /\ SumFunctionOnSet(g, A) \in Int
      /\ SumFunctionOnSet(f, A) = f[x] + SumFunctionOnSet(f, A \ {x})
      /\ SumFunctionOnSet(g, A) = g[x] + SumFunctionOnSet(g, A \ {x})
  BY SumTakeOut
<1>3. IsFiniteSet(A \ {x}) /\ \A y \in A \ {x} : f[y] \in Int /\ f[y] = g[y]
  BY FS_Subset
<1>4. /\ SumFunctionOnSet(f, A \ {x}) = SumFunctionOnSet(g, A \ {x})
      /\ SumFunctionOnSet(f, A \ {x}) \in Int
  BY <1>3, SumSame, SumTakeOut
<1>5. f[x] \in Int /\ g[x] \in Int
  OBVIOUS
<1> QED BY <1>1, <1>2, <1>4, <1>5

----------------------------------------------------------------------
\* Binary search

\* The bounds the search may have.
Bounds(right) == (0 .. right) \X (0 .. right)

\* g searches between any two bounds.
IsSearch(due, right, g) ==
    g = [b \in Bounds(right) |->
            IF b[1] >= b[2] - 1 THEN b[2] ELSE g[Narrowed(due, b[1], b[2])]]

LEMMA SearchUnfolds ==
    ASSUME NEW due, NEW left, NEW right
    PROVE  SearchEnd(due, left, right) = (CHOOSE g : IsSearch(due, right, g))[<<left, right>>]
BY DEF SearchEnd, IsSearch, Bounds

\* A round of the search moves one bound in.
LEMMA NarrowedIn ==
    ASSUME NEW due, NEW right \in Nat, NEW b \in Bounds(right), ~(b[1] >= b[2] - 1)
    PROVE  /\ Narrowed(due, b[1], b[2]) \in Bounds(right)
           /\ LET c == Narrowed(due, b[1], b[2])
              IN  /\ c[2] - c[1] < b[2] - b[1]
                  /\ \/ b[1] < c[1] /\ c[2] = b[2] /\ c[1] + 1 \in due /\ c[1] < b[2]
                     \/ c[1] = b[1] /\ c[2] < b[2] /\ c[2] + 1 \notin due /\ b[1] < c[2]
<1> DEFINE test == (b[1] + b[2]) \div 2
<1>1. b[1] \in 0 .. right /\ b[2] \in 0 .. right /\ b[1] < b[2] - 1
  BY DEF Bounds
<1>2. test \in 0 .. right /\ b[1] < test /\ test < b[2]
  BY <1>1
<1>3. CASE test + 1 \in due
  <2>1. Narrowed(due, b[1], b[2]) = <<test, b[2]>>
    BY <1>3 DEF Narrowed
  <2> HIDE DEF test
  <2> QED BY <1>1, <1>2, <1>3, <2>1 DEF Bounds
<1>4. CASE test + 1 \notin due
  <2>1. Narrowed(due, b[1], b[2]) = <<b[1], test>>
    BY <1>4 DEF Narrowed
  <2> HIDE DEF test
  <2> QED BY <1>1, <1>2, <1>4, <2>1 DEF Bounds
<1> QED BY <1>3, <1>4

\* The search between any two bounds ends.
LEMMA SearchExists ==
    ASSUME NEW due, NEW right \in Nat
    PROVE  \E g : IsSearch(due, right, g)
<1> DEFINE Round(g) == [b \in Bounds(right) |->
                           IF b[1] >= b[2] - 1 THEN b[2] ELSE g[Narrowed(due, b[1], b[2])]]
           Settled(n, g) == \A b \in Bounds(right) : b[2] - b[1] <= n => g[b] = Round(g)[b]
           Good == {n \in Nat : \E g : Settled(n, g)}
<1>1. 0 \in Good
  <2>1. Settled(0, [b \in Bounds(right) |-> b[2]])
    BY DEF Bounds
  <2> HIDE DEF Settled
  <2> QED BY <2>1
<1>2. ASSUME NEW n \in Nat, n \in Good
      PROVE  n + 1 \in Good
  <2>1. PICK g : Settled(n, g)
    <3> HIDE DEF Settled
    <3> QED BY <1>2
  <2>2. ASSUME NEW b \in Bounds(right), b[2] - b[1] <= n + 1
        PROVE  Round(g)[b] = Round(Round(g))[b]
    <3>1. CASE b[1] >= b[2] - 1
      BY <3>1
    <3>2. CASE ~(b[1] >= b[2] - 1)
      <4> DEFINE c == Narrowed(due, b[1], b[2])
      <4>1. c \in Bounds(right) /\ c[2] - c[1] < b[2] - b[1]
        BY <3>2, NarrowedIn
      <4>2. c[2] - c[1] <= n
        BY <4>1, <2>2 DEF Bounds
      <4>3. g[c] = Round(g)[c]
        <5> HIDE DEF c, Round
        <5> QED BY <2>1, <4>1, <4>2
      <4>4. Round(g)[b] = g[c] /\ Round(Round(g))[b] = Round(g)[c]
        BY <3>2
      <4> HIDE DEF c, Round
      <4> QED BY <4>3, <4>4
    <3> QED BY <3>1, <3>2
  <2>3. Settled(n + 1, Round(g))
    <3> HIDE DEF Round
    <3> QED BY <2>2
  <2> HIDE DEF Settled, Round
  <2> QED BY <2>3
<1>3. right \in Good
  <2> HIDE DEF Good
  <2> QED BY <1>1, <1>2, AllNat
<1>4. PICK g : Settled(right, g)
  <2> HIDE DEF Settled
  <2> QED BY <1>3
<1>5. ASSUME NEW b \in Bounds(right)
      PROVE  Round(g)[b] = Round(Round(g))[b]
  <2>1. \A c \in Bounds(right) : c[2] - c[1] <= right
    BY DEF Bounds
  <2>2. \A c \in Bounds(right) : g[c] = Round(g)[c]
    <3> HIDE DEF Round
    <3> QED BY <1>4, <2>1
  <2>3. CASE b[1] >= b[2] - 1
    BY <2>3
  <2>4. CASE ~(b[1] >= b[2] - 1)
    <3>1. Narrowed(due, b[1], b[2]) \in Bounds(right)
      BY <2>4, NarrowedIn
    <3>2. /\ Round(g)[b] = g[Narrowed(due, b[1], b[2])]
          /\ Round(Round(g))[b] = Round(g)[Narrowed(due, b[1], b[2])]
      BY <2>4
    <3> HIDE DEF Round
    <3> QED BY <2>2, <3>1, <3>2
  <2> QED BY <2>3, <2>4
<1>6. Round(g) = Round(Round(g))
  <2>1. Round(g) = [b \in Bounds(right) |-> Round(g)[b]]
    OBVIOUS
  <2>2. Round(Round(g)) = [b \in Bounds(right) |-> Round(Round(g))[b]]
    OBVIOUS
  <2> HIDE DEF Round
  <2> QED BY <1>5, <2>1, <2>2
<1>7. IsSearch(due, right, Round(g))
  BY <1>6 DEF IsSearch
<1> QED
  <2> HIDE DEF Round
  <2> QED BY <1>7

\* Between bounds of which the first is due and the entries that are due are a prefix, the
\* search returns the last entry that is due.
LEMMA SearchFindsLast ==
    ASSUME NEW due, NEW left \in Nat, NEW right \in Nat, NEW last \in (left + 1) .. right,
           \A i \in (left + 1) .. right : i \in due <=> i <= last
    PROVE  SearchEnd(due, left, right) = last
<1> DEFINE g == CHOOSE g : IsSearch(due, right, g)
           Good == {n \in Nat : \A b \in Bounds(right) :
                       left <= b[1] /\ b[1] < last /\ last <= b[2] /\ b[2] - b[1] <= n
                           => g[b] = last}
<1>1. \A b \in Bounds(right) :
          g[b] = IF b[1] >= b[2] - 1 THEN b[2] ELSE g[Narrowed(due, b[1], b[2])]
  <2>1. IsSearch(due, right, g)
    BY SearchExists
  <2> HIDE DEF g
  <2> QED BY <2>1 DEF IsSearch
<1> HIDE DEF g
<1>2. 0 \in Good
  BY DEF Bounds
<1>3. ASSUME NEW n \in Nat, n \in Good
      PROVE  n + 1 \in Good
  <2>1. ASSUME NEW b \in Bounds(right), left <= b[1], b[1] < last, last <= b[2],
               b[2] - b[1] <= n + 1
        PROVE  g[b] = last
    <3>0. b[1] \in Nat /\ b[2] \in Nat /\ b[2] <= right
      BY DEF Bounds
    <3>1. CASE b[1] >= b[2] - 1
      BY <1>1, <2>1, <3>0, <3>1
    <3>2. CASE ~(b[1] >= b[2] - 1)
      <4> DEFINE c == Narrowed(due, b[1], b[2])
      <4>1. /\ c \in Bounds(right) /\ c[2] - c[1] < b[2] - b[1]
            /\ \/ b[1] < c[1] /\ c[2] = b[2] /\ c[1] + 1 \in due /\ c[1] < b[2]
               \/ c[1] = b[1] /\ c[2] < b[2] /\ c[2] + 1 \notin due /\ b[1] < c[2]
        BY <3>2, NarrowedIn
      <4>2. g[b] = g[c]
        BY <1>1, <3>2
      <4> HIDE DEF c
      <4>3. c[1] \in Nat /\ c[2] \in Nat
        BY <4>1 DEF Bounds
      <4>4. left <= c[1] /\ c[1] < last /\ last <= c[2] /\ c[2] - c[1] <= n
        BY <2>1, <3>0, <4>1, <4>3
      <4>5. g[c] = last
        BY <1>3, <4>1, <4>4
      <4> QED BY <4>2, <4>5
    <3> QED BY <3>1, <3>2
  <2> QED BY <2>1
<1>4. right \in Good
  <2> HIDE DEF Good
  <2> QED BY <1>2, <1>3, AllNat
<1>5. <<left, right>> \in Bounds(right) /\ right - left <= right
  BY DEF Bounds
<1>6. g[<<left, right>>] = last
  BY <1>4, <1>5
<1> QED BY <1>6, SearchUnfolds DEF g

\* When the first entry is due, and no entry is due after one that is not, the search
\* returns an entry that is due and none after it is.
LEMMA SearchFindsEnd ==
    ASSUME NEW due, NEW left \in Nat, NEW right \in Nat, left < right, left + 1 \in due,
           \A i, j \in (left + 1) .. right : i <= j /\ j \in due => i \in due
    PROVE  /\ SearchEnd(due, left, right) \in (left + 1) .. right
           /\ \A i \in (left + 1) .. right : i \in due <=> i <= SearchEnd(due, left, right)
<1> DEFINE Late == {i \in (left + 1) .. right : i \notin due}
<1>1. ASSUME NEW last \in (left + 1) .. right,
             \A i \in (left + 1) .. right : i \in due <=> i <= last
      PROVE  SearchEnd(due, left, right) = last
  BY <1>1, SearchFindsLast
<1>2. \E last \in (left + 1) .. right : \A i \in (left + 1) .. right : i \in due <=> i <= last
  <2>1. CASE Late = {}
    <3>1. right \in (left + 1) .. right
      OBVIOUS
    <3> QED BY <2>1, <3>1
  <2>2. CASE Late # {}
    <3>1. Late \in SUBSET Nat
      OBVIOUS
    <3>2. PICK n \in Late : \A m \in Late : n <= m
      <4> HIDE DEF Late
      <4> QED BY <2>2, <3>1, LeastNat
    <3>3. n \in (left + 1) .. right /\ n \notin due /\ n # left + 1
      BY <3>2
    <3>4. n - 1 \in (left + 1) .. right
      BY <3>3
    <3>5. ASSUME NEW i \in (left + 1) .. right
          PROVE  i \in due <=> i <= n - 1
      <4>1. CASE i <= n - 1
        <5>1. ~(n <= i)
          BY <3>3, <4>1
        <5> QED BY <3>2, <4>1, <5>1
      <4>2. CASE ~(i <= n - 1)
        <5>1. n <= i
          BY <3>3, <4>2
        <5> QED BY <3>3, <4>2, <5>1
      <4> QED BY <4>1, <4>2
    <3> QED BY <3>4, <3>5
  <2> QED BY <2>1, <2>2
<1> QED BY <1>1, <1>2

----------------------------------------------------------------------
\* Powers of a ratio

\* What powu's loop runs on, at the scale SQ and up to the exponent y.
Rounds(SQ, y) == (0 .. SQ) \X (0 .. SQ) \X (0 .. y)

IsPower(SQ, y, g) ==
    g = [s \in Rounds(SQ, y) |-> IF s[3] <= 1 THEN Multiplied(SQ, s) ELSE g[Squared(SQ, s)]]

\* The product of two ratios, however rounded, is a ratio.
LEMMA ProductIn ==
    ASSUME NEW SQ \in Nat \ {0}, NEW a \in 0 .. SQ, NEW b \in 0 .. SQ
    PROVE  DivRound(a * b, SQ) \in 0 .. SQ
<1> DEFINE p == a * b
           h == SQ \div 2
           q == (p + h) \div SQ
<1>1. p \in Nat /\ p <= SQ * SQ /\ SQ * SQ \in Nat
  <2>1. a * b <= SQ * b /\ SQ * b <= SQ * SQ
    BY MulMono
  <2>2. a * b \in Nat /\ SQ * b \in Nat /\ SQ * SQ \in Nat
    BY MulNat
  <2> QED BY <2>1, <2>2
<1>2. h \in Nat /\ h < SQ
  OBVIOUS
<1> HIDE DEF p, h
<1>3. q \in Nat /\ q * SQ <= p + h
  BY <1>1, <1>2, DivFloor
<1>4. (SQ + 1) * SQ = SQ * SQ + SQ
  BY SMT
<1>5. q * SQ \in Nat /\ (SQ + 1) * SQ \in Nat
  BY <1>3, MulNat
<1> HIDE DEF q
<1>6. q < SQ + 1
  BY <1>1, <1>2, <1>3, <1>4, <1>5, MulCancel
<1>7. DivRound(a * b, SQ) = q
  BY DEF DivRound, q, p, h
<1> QED BY <1>3, <1>6, <1>7

\* A round of the loop keeps ratios and lowers the exponent.
LEMMA RoundIn ==
    ASSUME NEW SQ \in Nat \ {0}, NEW y \in Nat, NEW s \in Rounds(SQ, y)
    PROVE  /\ Multiplied(SQ, s) \in 0 .. SQ
           /\ s[3] > 1 => Squared(SQ, s) \in Rounds(SQ, y) /\ Squared(SQ, s)[3] < s[3]
<1>1. s[1] \in 0 .. SQ /\ s[2] \in 0 .. SQ /\ s[3] \in 0 .. y
  BY DEF Rounds
<1>2. Multiplied(SQ, s) \in 0 .. SQ /\ DivRound(s[2] * s[2], SQ) \in 0 .. SQ
  BY <1>1, ProductIn DEF Multiplied
<1>3. ASSUME s[3] > 1
      PROVE  s[3] \div 2 \in 0 .. y /\ s[3] \div 2 < s[3]
  BY <1>1, <1>3
<1>4. Squared(SQ, s) = <<Multiplied(SQ, s), DivRound(s[2] * s[2], SQ), s[3] \div 2>>
  BY DEF Squared
<1> QED BY <1>2, <1>3, <1>4 DEF Rounds

\* The loop ends on all that it may run on.
LEMMA PowerExists ==
    ASSUME NEW SQ \in Nat \ {0}, NEW y \in Nat
    PROVE  \E g : IsPower(SQ, y, g)
<1> DEFINE Round(g) == [s \in Rounds(SQ, y) |->
                           IF s[3] <= 1 THEN Multiplied(SQ, s) ELSE g[Squared(SQ, s)]]
           Settled(n, g) == \A s \in Rounds(SQ, y) : s[3] <= n => g[s] = Round(g)[s]
           Good == {n \in Nat : \E g : Settled(n, g)}
<1>0. \A s \in Rounds(SQ, y) : s[3] \in 0 .. y
  BY DEF Rounds
<1>1. 0 \in Good
  <2>1. Settled(0, [s \in Rounds(SQ, y) |-> Multiplied(SQ, s)])
    BY <1>0
  <2> HIDE DEF Settled
  <2> QED BY <2>1
<1>2. ASSUME NEW n \in Nat, n \in Good
      PROVE  n + 1 \in Good
  <2>1. PICK g : Settled(n, g)
    <3> HIDE DEF Settled
    <3> QED BY <1>2
  <2>2. ASSUME NEW s \in Rounds(SQ, y), s[3] <= n + 1
        PROVE  Round(g)[s] = Round(Round(g))[s]
    <3>1. CASE s[3] <= 1
      BY <3>1
    <3>2. CASE ~(s[3] <= 1)
      <4> DEFINE c == Squared(SQ, s)
      <4>1. c \in Rounds(SQ, y) /\ c[3] < s[3]
        BY <1>0, <3>2, RoundIn
      <4>2. c[3] <= n
        BY <1>0, <4>1, <2>2
      <4>3. g[c] = Round(g)[c]
        <5> HIDE DEF c, Round
        <5> QED BY <2>1, <4>1, <4>2
      <4>4. Round(g)[s] = g[c] /\ Round(Round(g))[s] = Round(g)[c]
        BY <3>2
      <4> HIDE DEF c, Round
      <4> QED BY <4>3, <4>4
    <3> QED BY <3>1, <3>2
  <2>3. Settled(n + 1, Round(g))
    <3> HIDE DEF Round
    <3> QED BY <2>2
  <2> HIDE DEF Settled, Round
  <2> QED BY <2>3
<1>3. y \in Good
  <2> HIDE DEF Good
  <2> QED BY <1>1, <1>2, AllNat
<1>4. PICK g : Settled(y, g)
  <2> HIDE DEF Settled
  <2> QED BY <1>3
<1>5. \A s \in Rounds(SQ, y) : g[s] = Round(g)[s]
  <2> HIDE DEF Round
  <2> QED BY <1>0, <1>4
<1>6. ASSUME NEW s \in Rounds(SQ, y)
      PROVE  Round(g)[s] = Round(Round(g))[s]
  <2>1. CASE s[3] <= 1
    BY <2>1
  <2>2. CASE ~(s[3] <= 1)
    <3>1. Squared(SQ, s) \in Rounds(SQ, y)
      BY <1>0, <2>2, RoundIn
    <3>2. Round(g)[s] = g[Squared(SQ, s)] /\ Round(Round(g))[s] = Round(g)[Squared(SQ, s)]
      BY <2>2
    <3> HIDE DEF Round
    <3> QED BY <1>5, <3>1, <3>2
  <2> QED BY <2>1, <2>2
<1>7. Round(g) = Round(Round(g))
  <2>1. Round(g) = [s \in Rounds(SQ, y) |-> Round(g)[s]]
    OBVIOUS
  <2>2. Round(Round(g)) = [s \in Rounds(SQ, y) |-> Round(Round(g))[s]]
    OBVIOUS
  <2> HIDE DEF Round
  <2> QED BY <1>6, <2>1, <2>2
<1>8. IsPower(SQ, y, Round(g))
  BY <1>7 DEF IsPower
<1> QED
  <2> HIDE DEF Round
  <2> QED BY <1>8

\* The loop returns a ratio at its scale.
LEMMA PowerIn ==
    ASSUME NEW SQ \in Nat \ {0}, NEW y \in Nat, NEW g, IsPower(SQ, y, g), NEW s \in Rounds(SQ, y)
    PROVE  g[s] \in 0 .. SQ
<1> DEFINE Bad == {n \in Nat : \E t \in Rounds(SQ, y) : t[3] = n /\ g[t] \notin 0 .. SQ}
<1>0. \A t \in Rounds(SQ, y) : t[3] \in 0 .. y
  BY DEF Rounds
<1>1. Bad = {}
  <2> SUFFICES ASSUME Bad # {} PROVE FALSE
    OBVIOUS
  <2>1. PICK n \in Bad : \A m \in Bad : n <= m
    <3> HIDE DEF Bad
    <3> QED BY LeastNat DEF Bad
  <2>2. PICK t \in Rounds(SQ, y) : t[3] = n /\ g[t] \notin 0 .. SQ
    BY <2>1
  <2>3. g[t] = IF t[3] <= 1 THEN Multiplied(SQ, t) ELSE g[Squared(SQ, t)]
    BY DEF IsPower
  <2>4. ~(t[3] <= 1)
    BY <2>2, <2>3, RoundIn
  <2>5. Squared(SQ, t) \in Rounds(SQ, y) /\ Squared(SQ, t)[3] < t[3]
    BY <1>0, <2>4, RoundIn
  <2>6. g[Squared(SQ, t)] \notin 0 .. SQ
    BY <2>2, <2>3, <2>4
  <2>7. Squared(SQ, t)[3] \in Bad
    BY <1>0, <2>5, <2>6
  <2> HIDE DEF Bad
  <2> QED BY <1>0, <2>1, <2>2, <2>5, <2>7
<1>2. s[3] \in Nat
  BY <1>0
<1> QED BY <1>1, <1>2

\* A power of a ratio is a ratio, for any scale and exponent: what a payout
\* needs, to pay no more than is left.
LEMMA PowuIsRatio ==
    ASSUME NEW scale \in Nat \ {0}, NEW x \in 0 .. scale, NEW y \in Nat
    PROVE  powu(scale, x, y) \in 0 .. scale
<1> DEFINE SQ == scale * scale
           power == CHOOSE g : IsPower(SQ, y, g)
           start == <<SQ, x * scale, y>>
<1>1. SQ \in Nat \ {0}
  BY SMT
<1>2. powu(scale, x, y) = IF y = 1 THEN x
                          ELSE IF x = scale \/ y = 0 THEN scale
                          ELSE power[start] \div scale
  BY DEF powu, IsPower, Rounds
<1>3. x * scale \in Nat /\ x * scale <= SQ
  BY MulNat, MulMono
<1> HIDE DEF SQ
<1>4. start \in Rounds(SQ, y)
  BY <1>1, <1>3 DEF Rounds
<1>5. IsPower(SQ, y, power)
  BY <1>1, PowerExists
<1> HIDE DEF power, start
<1>6. power[start] \in 0 .. SQ
  BY <1>1, <1>4, <1>5, PowerIn
<1> DEFINE p == power[start]
           q == p \div scale
<1> HIDE DEF p
<1>7. p \in 0 .. SQ
  BY <1>6 DEF p
<1>8. q \in Nat /\ q * scale <= p
  BY <1>7, DivFloor
<1> HIDE DEF q
<1>9. q * scale \in Nat /\ (scale + 1) * scale = SQ + scale
  BY <1>8, SMT DEF SQ
<1>10. q < scale + 1
  BY <1>1, <1>7, <1>8, <1>9, MulCancel
<1>11. power[start] \div scale \in 0 .. scale
  BY <1>8, <1>10 DEF p, q
<1> QED BY <1>2, <1>11
======================================================================
