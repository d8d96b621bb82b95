------------------------ MODULE AggregatedStatsProofs ------------------------
(***************************************************************************)
(* Theorems about AggregatedStatsCollection: any number of players, any    *)
(* fights, any windows and any order of the calls. The first part is about *)
(* sums over finite sets in general, the second about lists of lines, the  *)
(* third about the filters; the invariant, that whatever is kept is what   *)
(* would have been computed, comes last.                                   *)
(***************************************************************************)
EXTENDS AggregatedStatsCollection, FiniteSetTheorems, TLAPS

-----------------------------------------------------------------------------
(* A set of natural numbers has a least member. *)
LEMMA LeastNumber ==
  ASSUME NEW N, N \subseteq Nat, N # {}
  PROVE  \E n \in N : \A k \in N : n <= k
<1> DEFINE Less == {ss \in Nat \X Nat : ss[1] < ss[2]}
<1>1. IsWellFoundedOn(Less, Nat)
  <2>1. OpToRel(<, Nat) = Less
    BY DEF OpToRel
  <2> QED
    BY <2>1, NatLessThanWellFounded
<1>2. PICK n \in N : \A k \in N : ~ (<<k, n>> \in Less)
  <2> HIDE DEF Less
  <2> QED
    BY <1>1, WFMin
<1>3. ASSUME NEW k \in N
      PROVE  n <= k
  <2>1. <<k, n>> \in Nat \X Nat /\ <<k, n>> \notin Less
    BY <1>2
  <2>2. ~ (k < n)
    BY <2>1
  <2> QED
    BY <2>2
<1> QED BY <1>3

(* Induction over a finite set: if some of its subsets are bad, one of     *)
(* them is bad and none of its own parts is.                               *)
LEMMA SmallestBad ==
  ASSUME NEW S, IsFiniteSet(S), NEW Bad, Bad \subseteq SUBSET S, Bad # {}
  PROVE  \E T \in Bad : \A U \in Bad : U \subseteq T => U = T
<1> DEFINE Sizes == {n \in Nat : \E T \in Bad : Cardinality(T) = n}
<1>1. \A T \in Bad : IsFiniteSet(T) /\ Cardinality(T) \in Nat
  BY FS_Subset, FS_CardinalityType
<1>2. Sizes \subseteq Nat
  OBVIOUS
<1>3. Sizes # {}
  BY <1>1
<1>4. PICK n \in Sizes : \A k \in Sizes : n <= k
  <2> HIDE DEF Sizes
  <2> QED
    BY <1>2, <1>3, LeastNumber
<1>5. PICK T \in Bad : Cardinality(T) = n
  OBVIOUS
<1>6. ASSUME NEW U \in Bad, U \subseteq T
      PROVE  U = T
  <2>1. Cardinality(U) <= Cardinality(T)
    BY <1>1, <1>6, FS_Subset
  <2>2. Cardinality(U) \in Sizes
    BY <1>1
  <2>3. Cardinality(U) = Cardinality(T)
    BY <1>1, <1>4, <1>5, <2>1, <2>2
  <2> QED
    BY <1>1, <1>6, <2>3, FS_Subset
<1> QED BY <1>6

(* The element a sum takes first. *)
First(s) == CHOOSE x \in s : TRUE

(* What a sum over the subsets of S has to satisfy. *)
IsSum(g, f, S) ==
  g = [s \in SUBSET S |-> IF s = {} THEN 0 ELSE f[First(s)] + g[s \ {First(s)}]]

(* It is one of the set. *)
LEMMA FirstIn == ASSUME NEW s, s # {} PROVE First(s) \in s
  BY DEF First

(* There is such a function: one for subsets of at most n elements gives   *)
(* one for subsets of at most n + 1.                                       *)
LEMMA SumExists ==
  ASSUME NEW S, IsFiniteSet(S), NEW f
  PROVE  \E g : IsSum(g, f, S)
<1> DEFINE Upto(n) == {s \in SUBSET S : Cardinality(s) <= n}
           Good(n, g) == g = [s \in Upto(n) |->
             IF s = {} THEN 0 ELSE f[First(s)] + g[s \ {First(s)}]]
           Bad == {n \in Nat : ~ \E g : Good(n, g)}
<1>0. \A s \in SUBSET S : IsFiniteSet(s) /\ Cardinality(s) \in Nat
  BY FS_Subset, FS_CardinalityType
<1>1. Bad = {}
  <2> SUFFICES ASSUME Bad # {} PROVE FALSE
    OBVIOUS
  <2>2. PICK n \in Bad : \A k \in Bad : n <= k
    <3>1. Bad \subseteq Nat
      OBVIOUS
    <3> HIDE DEF Bad
    <3> QED
      BY <3>1, LeastNumber
  <2>3. n # 0
    <3>1. Upto(0) = {{}}
      <4>1. \A s \in SUBSET S : Cardinality(s) = 0 <=> s = {}
        BY <1>0, FS_EmptySet
      <4>2. \A s \in SUBSET S : Cardinality(s) <= 0 <=> Cardinality(s) = 0
        BY <1>0
      <4> QED BY <4>1, <4>2
    <3>2. Good(0, [s \in {{}} |-> 0])
      <4> HIDE DEF Upto
      <4> QED BY <3>1
    <3>3. \E g : Good(0, g)
      <4> HIDE DEF Good
      <4> QED BY <3>2
    <3> HIDE DEF Good
    <3> QED BY <3>3
  <2>4. n - 1 \in Nat /\ n - 1 \notin Bad
    <3>1. n - 1 \in Nat /\ ~ (n <= n - 1)
      BY <2>3
    <3> QED BY <2>2, <3>1
  <2>5. PICK g : Good(n - 1, g)
    BY <2>4
  <2> DEFINE h == [s \in Upto(n) |->
               IF s = {} THEN 0 ELSE f[First(s)] + g[s \ {First(s)}]]
  <2>6. ASSUME NEW s \in Upto(n), s # {}
        PROVE  h[s \ {First(s)}] = g[s \ {First(s)}]
    <3> DEFINE t == s \ {First(s)}
    <3>1. t \in SUBSET S /\ Cardinality(t) = Cardinality(s) - 1
      BY <1>0, <2>6, FirstIn, FS_RemoveElement
    <3>2. t \in Upto(n) /\ t \in Upto(n - 1)
      BY <1>0, <3>1
    <3> HIDE DEF t, Upto
    <3>3. h[t] = IF t = {} THEN 0 ELSE f[First(t)] + g[t \ {First(t)}]
      BY <3>2
    <3>4. g[t] = IF t = {} THEN 0 ELSE f[First(t)] + g[t \ {First(t)}]
      BY <2>5, <3>2
    <3> QED BY <3>3, <3>4 DEF t
  <2>7. Good(n, h)
    <3> HIDE DEF Upto
    <3>1. h = [s \in Upto(n) |->
               IF s = {} THEN 0 ELSE f[First(s)] + h[s \ {First(s)}]]
      BY <2>6
    <3> QED BY <3>1
  <2> QED BY <2>7
<1>2. Cardinality(S) \in Nat /\ Upto(Cardinality(S)) = SUBSET S
  BY <1>0, FS_Subset, FS_CardinalityType
<1>3. PICK g : Good(Cardinality(S), g)
  BY <1>1, <1>2
<1> QED
  <2> HIDE DEF Upto
  <2> QED BY <1>2, <1>3 DEF IsSum

(* There is only one, also when it is defined on more sets. *)
LEMMA SumUnique ==
  ASSUME NEW S, IsFiniteSet(S), NEW f, NEW R, S \subseteq R, NEW g, NEW h,
         IsSum(g, f, S), IsSum(h, f, R)
  PROVE  g[S] = h[S]
<1> DEFINE Bad == {s \in SUBSET S : g[s] # h[s]}
<1>1. ASSUME Bad # {}
      PROVE  FALSE
  <2>1. PICK T \in Bad : \A U \in Bad : U \subseteq T => U = T
    <3>1. Bad \subseteq SUBSET S
      OBVIOUS
    <3> HIDE DEF Bad
    <3> QED BY <1>1, <3>1, SmallestBad
  <2>2. T \in SUBSET S /\ T \in SUBSET R
    OBVIOUS
  <2>3. /\ g[T] = IF T = {} THEN 0 ELSE f[First(T)] + g[T \ {First(T)}]
        /\ h[T] = IF T = {} THEN 0 ELSE f[First(T)] + h[T \ {First(T)}]
    BY <2>2 DEF IsSum
  <2>4. T # {}
    BY <2>3
  <2>5. g[T \ {First(T)}] = h[T \ {First(T)}]
    BY <2>1, <2>2, <2>4, FirstIn
  <2> QED BY <2>3, <2>5
<1> QED BY <1>1

-----------------------------------------------------------------------------
Sum(f, T) == SumFunctionOnSet(f, T)

(* The fold of the library takes the elements in that order. *)
LEMMA SumIsSum ==
  ASSUME NEW S, IsFiniteSet(S), NEW f
  PROVE  \E g : IsSum(g, f, S) /\ Sum(f, S) = g[S]
<1> DEFINE Recur == CHOOSE g : g = [s \in SUBSET S |->
             IF s = {} THEN 0
             ELSE f[CHOOSE x \in s : TRUE] + g[s \ {CHOOSE x \in s : TRUE}]]
<1>1. Sum(f, S) = Recur[S]
  BY DEF Sum, SumFunctionOnSet, FoldFunctionOnSet, MapThenFoldSet
<1>2. Recur = CHOOSE g : IsSum(g, f, S)
  BY DEF IsSum, First
<1> HIDE DEF Recur
<1>3. IsSum(Recur, f, S)
  BY <1>2, SumExists
<1> QED BY <1>1, <1>3

(* The sum without its first element. *)
LEMMA SumStep ==
  ASSUME NEW S, IsFiniteSet(S), NEW f
  PROVE  Sum(f, S) = IF S = {} THEN 0 ELSE f[First(S)] + Sum(f, S \ {First(S)})
<1>1. PICK g : IsSum(g, f, S) /\ Sum(f, S) = g[S]
  BY SumIsSum
<1>2. g[S] = IF S = {} THEN 0 ELSE f[First(S)] + g[S \ {First(S)}]
  BY <1>1 DEF IsSum
<1>3. ASSUME S # {}
      PROVE  Sum(f, S \ {First(S)}) = g[S \ {First(S)}]
  <2> DEFINE T == S \ {First(S)}
  <2>1. IsFiniteSet(T) /\ T \subseteq S
    BY FS_Subset
  <2>2. PICK h : IsSum(h, f, T) /\ Sum(f, T) = h[T]
    BY <2>1, SumIsSum
  <2> HIDE DEF T
  <2>3. h[T] = g[T]
    BY <1>1, <2>1, <2>2, SumUnique
  <2> QED BY <2>2, <2>3 DEF T
<1> QED BY <1>1, <1>2, <1>3

(* Nothing sums up to zero. *)
LEMMA SumEmpty ==
  ASSUME NEW f
  PROVE  Sum(f, {}) = 0
  BY SumStep, FS_EmptySet

(* The order does not matter: any element may be taken first. *)
LEMMA SumWithout ==
  ASSUME NEW S, IsFiniteSet(S), NEW f \in [S -> Nat]
  PROVE  \A T \in SUBSET S :
           /\ Sum(f, T) \in Nat
           /\ \A x \in T : Sum(f, T) = f[x] + Sum(f, T \ {x})
<1> DEFINE Fine(T) == /\ Sum(f, T) \in Nat
                      /\ \A x \in T : Sum(f, T) = f[x] + Sum(f, T \ {x})
           Bad == {T \in SUBSET S : ~ Fine(T)}
<1>1. ASSUME Bad # {}
      PROVE  FALSE
  <2>1. PICK T \in Bad : \A U \in Bad : U \subseteq T => U = T
    <3>1. Bad \subseteq SUBSET S
      OBVIOUS
    <3> HIDE DEF Bad
    <3> QED BY <1>1, <3>1, SmallestBad
  <2>2. T \subseteq S /\ ~ Fine(T)
    OBVIOUS
  <2>3. ASSUME NEW x \in T
        PROVE  Fine(T \ {x})
    <3>1. T \ {x} \subseteq T /\ T \ {x} # T /\ T \ {x} \in SUBSET S
      BY <2>2
    <3> QED BY <2>1, <3>1
  <2> HIDE DEF Bad
  <2>4. ASSUME NEW U \in SUBSET S
        PROVE  Sum(f, U) = IF U = {} THEN 0
                           ELSE f[First(U)] + Sum(f, U \ {First(U)})
    BY FS_Subset, SumStep
  <2>5. CASE T = {}
    BY <2>2, <2>5, SumEmpty
  <2>6. CASE T # {}
    <3> DEFINE c == First(T)
    <3>1. c \in T /\ f[c] \in Nat
      BY <2>2, <2>6, FirstIn
    <3> HIDE DEF c
    <3>2. Sum(f, T) = f[c] + Sum(f, T \ {c})
      BY <2>2, <2>4, <2>6 DEF c
    <3>3. Sum(f, T \ {c}) \in Nat
      BY <2>3, <3>1
    <3>4. ASSUME NEW x \in T
          PROVE  Sum(f, T) = f[x] + Sum(f, T \ {x})
      <4>1. CASE x = c
        BY <3>2, <4>1
      <4>2. CASE x # c
        <5>1. x \in T \ {c} /\ c \in T \ {x} /\ f[x] \in Nat
          BY <2>2, <3>1, <4>2
        <5>2. Sum(f, T \ {c}) = f[x] + Sum(f, (T \ {c}) \ {x})
          BY <2>3, <3>1, <5>1
        <5>3. Sum(f, T \ {x}) = f[c] + Sum(f, (T \ {x}) \ {c})
          BY <2>3, <5>1
        <5>4. Sum(f, (T \ {c}) \ {x}) = Sum(f, (T \ {x}) \ {c})
          <6>1. (T \ {c}) \ {x} = (T \ {x}) \ {c}
            OBVIOUS
          <6> QED BY <6>1
        <5>5. Sum(f, (T \ {x}) \ {c}) \in Nat
          <6>1. Fine((T \ {x}) \ {c})
            <7>1. (T \ {x}) \ {c} \in SUBSET S
              BY <2>2
            <7>2. (T \ {x}) \ {c} \subseteq T /\ (T \ {x}) \ {c} # T
              BY <3>1
            <7> QED BY <2>1, <7>1, <7>2 DEF Bad
          <6> QED BY <6>1
        <5> HIDE DEF Fine
        <5> QED BY <3>1, <3>2, <5>1, <5>2, <5>3, <5>4, <5>5
      <4> QED BY <4>1, <4>2
    <3> QED BY <2>2, <3>1, <3>2, <3>3, <3>4
  <2> QED BY <2>5, <2>6
<1> QED BY <1>1

(* Sums of functions that agree are equal. *)
LEMMA SumAgrees ==
  ASSUME NEW S, IsFiniteSet(S), NEW f, NEW g, \A x \in S : f[x] = g[x]
  PROVE  Sum(f, S) = Sum(g, S)
<1> DEFINE Bad == {T \in SUBSET S : Sum(f, T) # Sum(g, T)}
<1>1. ASSUME Bad # {}
      PROVE  FALSE
  <2>1. PICK T \in Bad : \A U \in Bad : U \subseteq T => U = T
    <3>1. Bad \subseteq SUBSET S
      OBVIOUS
    <3> HIDE DEF Bad
    <3> QED BY <1>1, <3>1, SmallestBad
  <2>2. IsFiniteSet(T) /\ T \subseteq S /\ Sum(f, T) # Sum(g, T)
    BY FS_Subset
  <2>3. T # {}
    BY <2>2, SumEmpty
  <2>4. First(T) \in T
    BY <2>3, FirstIn
  <2>5. Sum(f, T \ {First(T)}) = Sum(g, T \ {First(T)})
    <3>1. T \ {First(T)} \subseteq T /\ T \ {First(T)} # T
      BY <2>4
    <3>2. T \ {First(T)} \in SUBSET S
      BY <2>2
    <3> QED BY <2>1, <3>1, <3>2
  <2>6. /\ Sum(f, T) = f[First(T)] + Sum(f, T \ {First(T)})
        /\ Sum(g, T) = g[First(T)] + Sum(g, T \ {First(T)})
    BY <2>2, <2>3, SumStep
  <2> QED BY <2>2, <2>4, <2>5, <2>6
<1> QED
  <2>1. S \in SUBSET S /\ S \notin Bad
    BY <1>1
  <2> QED BY <2>1

(* The sum over two sets that have nothing in common. *)
LEMMA SumUnion ==
  ASSUME NEW S, IsFiniteSet(S), NEW f \in [S -> Nat],
         NEW A \in SUBSET S, NEW B \in SUBSET S, A \cap B = {}
  PROVE  Sum(f, A \cup B) = Sum(f, A) + Sum(f, B)
<1> DEFINE Bad == {T \in SUBSET A : Sum(f, T \cup B) # Sum(f, T) + Sum(f, B)}
<1>0. IsFiniteSet(A)
  BY FS_Subset
<1>1. ASSUME Bad # {}
      PROVE  FALSE
  <2>1. PICK T \in Bad : \A U \in Bad : U \subseteq T => U = T
    <3>1. Bad \subseteq SUBSET A
      OBVIOUS
    <3> HIDE DEF Bad
    <3> QED BY <1>0, <1>1, <3>1, SmallestBad
  <2>2. T \subseteq A /\ Sum(f, T \cup B) # Sum(f, T) + Sum(f, B)
    OBVIOUS
  <2>3. T # {}
    <3>1. Sum(f, {}) = 0 /\ {} \cup B = B /\ Sum(f, B) \in Nat
      BY SumEmpty, SumWithout
    <3> QED BY <2>2, <3>1
  <2>4. PICK x : x \in T
    BY <2>3
  <2>5. Sum(f, (T \ {x}) \cup B) = Sum(f, T \ {x}) + Sum(f, B)
    <3>1. T \ {x} \subseteq T /\ T \ {x} # T /\ T \ {x} \in SUBSET A
      BY <2>2, <2>4
    <3> QED BY <2>1, <3>1
  <2>6. T \in SUBSET S /\ T \cup B \in SUBSET S /\ x \in T \cup B
    BY <2>2, <2>4
  <2>7. /\ Sum(f, T) = f[x] + Sum(f, T \ {x})
        /\ Sum(f, T \cup B) = f[x] + Sum(f, (T \cup B) \ {x})
    BY <2>4, <2>6, SumWithout
  <2>8. (T \cup B) \ {x} = (T \ {x}) \cup B
    BY <2>2, <2>4
  <2>9. /\ Sum(f, T \ {x}) \in Nat /\ Sum(f, B) \in Nat /\ f[x] \in Nat
    <3>1. T \ {x} \in SUBSET S
      BY <2>6
    <3> QED BY <2>4, <2>6, <3>1, SumWithout
  <2> QED BY <2>2, <2>5, <2>7, <2>8, <2>9
<1> QED
  <2>1. A \in SUBSET A /\ A \notin Bad
    BY <1>1
  <2> QED BY <2>1

(* A sum of natural numbers does not shrink with the set. *)
LEMMA SumMonotone ==
  ASSUME NEW S, IsFiniteSet(S), NEW f \in [S -> Nat],
         NEW A \in SUBSET S, NEW B \in SUBSET S, A \subseteq B
  PROVE  Sum(f, A) <= Sum(f, B)
<1>1. A \cup (B \ A) = B /\ A \cap (B \ A) = {} /\ B \ A \in SUBSET S
  OBVIOUS
<1>2. Sum(f, B) = Sum(f, A) + Sum(f, B \ A)
  BY <1>1, SumUnion
<1>3. Sum(f, A) \in Nat /\ Sum(f, B \ A) \in Nat
  BY <1>1, SumWithout
<1> QED BY <1>2, <1>3

(* The number of elements is a sum, too. *)
LEMMA CardinalityIsSum ==
  ASSUME NEW S, IsFiniteSet(S)
  PROVE  Cardinality(S) = Sum([x \in S |-> 1], S)
<1> DEFINE one == [x \in S |-> 1]
           Bad == {T \in SUBSET S : Cardinality(T) # Sum(one, T)}
<1>0. one \in [S -> Nat]
  OBVIOUS
<1>1. ASSUME Bad # {}
      PROVE  FALSE
  <2>1. PICK T \in Bad : \A U \in Bad : U \subseteq T => U = T
    <3>1. Bad \subseteq SUBSET S
      OBVIOUS
    <3> HIDE DEF Bad
    <3> QED BY <1>1, <3>1, SmallestBad
  <2>2. IsFiniteSet(T) /\ T \in SUBSET S /\ Cardinality(T) # Sum(one, T)
    BY FS_Subset
  <2>3. T # {}
    BY <2>2, SumEmpty, FS_EmptySet
  <2>4. PICK x : x \in T
    BY <2>3
  <2>5. Cardinality(T \ {x}) = Sum(one, T \ {x})
    <3>1. T \ {x} \subseteq T /\ T \ {x} # T /\ T \ {x} \in SUBSET S
      BY <2>2, <2>4
    <3> QED BY <2>1, <3>1
  <2>6. Cardinality(T \ {x}) = Cardinality(T) - 1 /\ Cardinality(T) \in Nat
    BY <2>2, <2>4, FS_RemoveElement, FS_CardinalityType
  <2>7. one[x] = 1
    BY <2>2, <2>4
  <2> HIDE DEF one
  <2>8. Sum(one, T) = one[x] + Sum(one, T \ {x})
    BY <1>0, <2>2, <2>4, SumWithout
  <2> QED BY <2>2, <2>5, <2>6, <2>7, <2>8
<1> QED
  <2>1. S \in SUBSET S /\ S \notin Bad
    BY <1>1
  <2> QED BY <2>1

(* The lines of a list: the sum over the values of key of what each of     *)
(* them sums up to is the sum of it all.                                   *)
LEMMA SumOfParts ==
  ASSUME NEW S, IsFiniteSet(S), NEW f \in [S -> Nat],
         NEW K, IsFiniteSet(K), NEW key \in [S -> K]
  PROVE  LET part == [k \in K |-> Sum(f, {x \in S : key[x] = k})]
         IN  part \in [K -> Nat] /\ Sum(part, K) = Sum(f, S)
<1> DEFINE part == [k \in K |-> Sum(f, {x \in S : key[x] = k})]
           Of(L) == {x \in S : key[x] \in L}
           Bad == {L \in SUBSET K : Sum(part, L) # Sum(f, Of(L))}
<1>0. part \in [K -> Nat]
  BY SumWithout
<1>1. ASSUME Bad # {}
      PROVE  FALSE
  <2>1. PICK L \in Bad : \A U \in Bad : U \subseteq L => U = L
    <3>1. Bad \subseteq SUBSET K
      OBVIOUS
    <3> HIDE DEF Bad
    <3> QED BY <1>1, <3>1, SmallestBad
  <2>2. L \in SUBSET K /\ Sum(part, L) # Sum(f, Of(L))
    OBVIOUS
  <2>3. L # {}
    <3>1. Of({}) = {}
      OBVIOUS
    <3> QED BY <2>2, <3>1, SumEmpty
  <2>4. PICK k : k \in L
    BY <2>3
  <2>5. Sum(part, L \ {k}) = Sum(f, Of(L \ {k}))
    <3>1. L \ {k} \subseteq L /\ L \ {k} # L /\ L \ {k} \in SUBSET K
      BY <2>2, <2>4
    <3> HIDE DEF part, Of
    <3> QED BY <2>1, <3>1
  <2> DEFINE P == {x \in S : key[x] = k}
  <2>6. part[k] = Sum(f, P)
    BY <2>2, <2>4
  <2>7. /\ Of(L) = P \cup Of(L \ {k})
        /\ P \cap Of(L \ {k}) = {}
        /\ P \in SUBSET S /\ Of(L \ {k}) \in SUBSET S
    BY <2>4
  <2> HIDE DEF part, Of, Bad, P
  <2>8. Sum(f, Of(L)) = Sum(f, P) + Sum(f, Of(L \ {k}))
    <3> DEFINE Rest == Of(L \ {k})
    <3>1. P \in SUBSET S /\ Rest \in SUBSET S /\ P \cap Rest = {}
      BY <2>7
    <3> HIDE DEF Rest
    <3>2. Sum(f, P \cup Rest) = Sum(f, P) + Sum(f, Rest)
      BY <3>1, SumUnion
    <3> QED BY <2>7, <3>2 DEF Rest
  <2>9. Sum(part, L) = part[k] + Sum(part, L \ {k})
    BY <1>0, <2>2, <2>4, SumWithout
  <2> QED BY <2>2, <2>5, <2>6, <2>8, <2>9
<1>2. Of(K) = S
  OBVIOUS
<1> QED
  <2>1. K \in SUBSET K /\ K \notin Bad
    BY <1>1
  <2>2. Sum(part, K) = Sum(f, Of(K))
    BY <2>1
  <2> QED BY <1>0, <1>2, <2>2

-----------------------------------------------------------------------------
(* Entries and lists. *)
Indices(src) == DOMAIN src.Events

(* A fight has finitely many events. *)
LEMMA EventTypes ==
  ASSUME NEW src, IsFight(src)
  PROVE  /\ IsFiniteSet(Indices(src))
         /\ \A i \in Indices(src) : src.Events[i] \in HealEvents
<1>1. PICK n \in Nat : Indices(src) = 1..n
  BY DEF IsFight, Indices
<1> QED
  BY <1>1, FS_Interval DEF IsFight, Indices

(* What an entry sums up. *)
Sizes(src) == [i \in Indices(src) |-> src.Events[i].Size]
Barriers(src, I) == {i \in I : src.Events[i].IsBarrierGeneration}

(* The parts of an entry are sums over the events it stands for. *)
LEMMA EntryIs ==
  ASSUME NEW src, IsFight(src), NEW I \in SUBSET Indices(src)
  PROVE  /\ EntryOf(src, I) = Entry(Sum(Sizes(src), I), Cardinality(I),
                                    Sum(Sizes(src), Barriers(src, I)))
         /\ EntryOf(src, I) \in Entries
<1> DEFINE J == Barriers(src, I)
           f == [i \in I |-> src.Events[i].Size]
           g == [i \in J |-> src.Events[i].Size]
<1>1. /\ J \in SUBSET I /\ J \in SUBSET Indices(src)
      /\ IsFiniteSet(I) /\ IsFiniteSet(J)
  BY EventTypes, FS_Subset DEF Barriers
<1>2. EntryOf(src, I) = Entry(SumFunction(f), Cardinality(I), SumFunction(g))
  BY DEF EntryOf, Barriers
<1>3. SumFunction(f) = Sum(f, I) /\ SumFunction(g) = Sum(g, J)
  BY DEF SumFunction, Sum
<1>4. Sum(f, I) = Sum(Sizes(src), I)
  <2>1. \A i \in I : f[i] = Sizes(src)[i]
    BY DEF Sizes
  <2> QED
    BY <1>1, <2>1, SumAgrees
<1>5. Sum(g, J) = Sum(Sizes(src), J)
  <2>1. \A i \in J : g[i] = Sizes(src)[i]
    BY <1>1 DEF Sizes
  <2> QED
    BY <1>1, <2>1, SumAgrees
<1>6. Sizes(src) \in [Indices(src) -> Nat]
  BY EventTypes DEF Sizes, HealEvents
<1>7. Sum(Sizes(src), I) \in Nat /\ Sum(Sizes(src), J) \in Nat
  BY <1>1, <1>6, EventTypes, SumWithout
<1>8. Cardinality(I) \in Nat
  BY <1>1, FS_CardinalityType
<1> QED
  BY <1>2, <1>3, <1>4, <1>5, <1>7, <1>8 DEF Entry, Entries

(* What the parts of a set of events sum up to, by a key of theirs. *)
LEMMA PartsAddUp ==
  ASSUME NEW S, IsFiniteSet(S), NEW f \in [S -> Nat],
         NEW K, IsFiniteSet(K), NEW I \in SUBSET S, NEW key \in [I -> K],
         NEW part, part = [k \in K |-> Sum(f, {i \in I : key[i] = k})]
  PROVE  SumFunction(part) = Sum(f, I)
<1> DEFINE h == [i \in I |-> f[i]]
           Of(k) == {i \in I : key[i] = k}
<1>1. IsFiniteSet(I) /\ h \in [I -> Nat]
  BY FS_Subset
<1>2. ASSUME NEW J \in SUBSET I
      PROVE  Sum(h, J) = Sum(f, J)
  <2>1. IsFiniteSet(J) /\ \A i \in J : h[i] = f[i]
    BY <1>1, FS_Subset
  <2> QED
    BY <2>1, SumAgrees
<1> DEFINE lines == [k \in K |-> Sum(h, Of(k))]
<1>3. lines = part
  <2>1. \A k \in K : Of(k) \in SUBSET I
    OBVIOUS
  <2> HIDE DEF Of, h
  <2>2. \A k \in K : Sum(h, Of(k)) = Sum(f, Of(k))
    BY <1>2, <2>1
  <2> QED
    BY <2>2 DEF Of
<1>4. Sum(lines, K) = Sum(h, I)
  <2> HIDE DEF h
  <2> QED
    BY <1>1, SumOfParts
<1>5. SumFunction(part) = Sum(part, K)
  BY DEF SumFunction, Sum
<1> QED
  BY <1>2, <1>3, <1>4, <1>5

(* A list that has a line for every value of a key adds up to what all     *)
(* its events do, whatever the key.                                        *)
LEMMA LinesAddUp ==
  ASSUME NEW src, IsFight(src), NEW I \in SUBSET Indices(src),
         NEW K, IsFiniteSet(K), NEW key \in [I -> K],
         NEW list,
         list = [k \in K |-> EntryOf(src, {i \in I : key[i] = k})]
  PROVE  SumOf(list) = EntryOf(src, I)
<1> DEFINE Of(k) == {i \in I : key[i] = k}
           J == Barriers(src, I)
           OfJ(k) == {i \in J : key[i] = k}
           f == Sizes(src)
           one == [i \in Indices(src) |-> 1]
<1>1. /\ f \in [Indices(src) -> Nat] /\ one \in [Indices(src) -> Nat]
      /\ IsFiniteSet(Indices(src))
  BY EventTypes DEF Sizes, HealEvents
<1>2. J \in SUBSET I /\ J \in SUBSET Indices(src)
  BY DEF Barriers
<1>3. ASSUME NEW k \in K
      PROVE  /\ Of(k) \in SUBSET Indices(src)
             /\ Barriers(src, Of(k)) = OfJ(k)
  BY DEF Barriers
<1>4. ASSUME NEW L \in SUBSET Indices(src)
      PROVE  Cardinality(L) = Sum(one, L)
  <2> DEFINE mine == [i \in L |-> 1]
  <2>1. IsFiniteSet(L)
    BY <1>1, FS_Subset
  <2>2. Cardinality(L) = Sum(mine, L)
    BY <2>1, CardinalityIsSum
  <2>3. \A i \in L : mine[i] = one[i]
    OBVIOUS
  <2> HIDE DEF mine, one
  <2>4. Sum(mine, L) = Sum(one, L)
    BY <2>1, <2>3, SumAgrees
  <2> QED
    BY <2>2, <2>4
<1> HIDE DEF J, f, one
<1>5. ASSUME NEW k \in K
      PROVE  list[k] = Entry(Sum(f, Of(k)), Sum(one, Of(k)), Sum(f, OfJ(k)))
  <2> DEFINE P == Of(k)
  <2>1. list[k] = EntryOf(src, P)
    OBVIOUS
  <2>2. P \in SUBSET Indices(src) /\ Barriers(src, P) = OfJ(k)
    BY <1>3
  <2> HIDE DEF P, OfJ
  <2>3. list[k] = Entry(Sum(f, P), Cardinality(P), Sum(f, OfJ(k)))
    BY <2>1, <2>2, EntryIs DEF f
  <2>4. Cardinality(P) = Sum(one, P)
    BY <1>4, <2>2
  <2> QED
    BY <2>3, <2>4 DEF P
<1>6. DOMAIN list = K
  OBVIOUS
<1>7. ASSUME NEW k \in K
       PROVE  /\ list[k].Healing = Sum(f, Of(k))
              /\ list[k].Hits = Sum(one, Of(k))
              /\ list[k].BarrierGeneration = Sum(f, OfJ(k))
  <2> HIDE DEF Of, OfJ
  <2>1. list[k] = Entry(Sum(f, Of(k)), Sum(one, Of(k)), Sum(f, OfJ(k)))
    BY <1>5
  <2> QED
    BY <2>1 DEF Entry
<1>8. [k \in K |-> list[k].Healing] = [k \in K |-> Sum(f, Of(k))]
  BY <1>7
<1>9. [k \in K |-> list[k].Hits] = [k \in K |-> Sum(one, Of(k))]
  BY <1>7
<1>10. [k \in K |-> list[k].BarrierGeneration] = [k \in K |-> Sum(f, OfJ(k))]
  BY <1>7
<1>11. SumFunction([k \in K |-> Sum(f, Of(k))]) = Sum(f, I)
  BY <1>1, PartsAddUp
<1>12. SumFunction([k \in K |-> Sum(one, Of(k))]) = Sum(one, I)
  BY <1>1, PartsAddUp
<1>13. SumFunction([k \in K |-> Sum(f, OfJ(k))]) = Sum(f, J)
  <2> DEFINE mine == [i \in J |-> key[i]]
  <2>1. mine \in [J -> K]
    BY <1>2
  <2>2. \A k \in K : {i \in J : mine[i] = k} = OfJ(k)
    OBVIOUS
  <2>3. [k \in K |-> Sum(f, {i \in J : mine[i] = k})]
          = [k \in K |-> Sum(f, OfJ(k))]
    BY <2>2
  <2> HIDE DEF mine
  <2>4. SumFunction([k \in K |-> Sum(f, {i \in J : mine[i] = k})]) = Sum(f, J)
    BY <1>1, <1>2, <2>1, PartsAddUp
  <2> QED
    BY <2>3, <2>4
<1>14. SumOf(list) = Entry(Sum(f, I), Sum(one, I), Sum(f, J))
  <2> HIDE DEF Of, OfJ
  <2> QED
    BY <1>6, <1>8, <1>9, <1>10, <1>11, <1>12, <1>13 DEF SumOf
<1> QED
  BY <1>4, <1>14, EntryIs DEF f, J

(* More events never sum up to less. *)
LEMMA MoreIsAtLeast ==
  ASSUME NEW src, IsFight(src),
         NEW I \in SUBSET Indices(src), NEW J \in SUBSET Indices(src),
         I \subseteq J
  PROVE  AtMost(EntryOf(src, I), EntryOf(src, J))
<1>1. /\ IsFiniteSet(Indices(src)) /\ IsFiniteSet(J)
      /\ Sizes(src) \in [Indices(src) -> Nat]
  BY EventTypes, FS_Subset DEF Sizes, HealEvents
<1>2. Sum(Sizes(src), I) <= Sum(Sizes(src), J)
  BY <1>1, SumMonotone
<1>3. Cardinality(I) <= Cardinality(J)
  BY <1>1, FS_Subset
<1>4. Sum(Sizes(src), Barriers(src, I)) <= Sum(Sizes(src), Barriers(src, J))
  <2>1. /\ Barriers(src, I) \in SUBSET Indices(src)
        /\ Barriers(src, J) \in SUBSET Indices(src)
        /\ Barriers(src, I) \subseteq Barriers(src, J)
    BY DEF Barriers
  <2> QED
    BY <1>1, <2>1, SumMonotone
<1> QED
  BY <1>2, <1>3, <1>4, EntryIs DEF AtMost, Entry

(* The agents, or the skills, that events name. *)
LEMMA KeysAreFinite ==
  ASSUME NEW src, IsFight(src), NEW I \in SUBSET Indices(src), NEW field
  PROVE  /\ IsFiniteSet(I)
         /\ IsFiniteSet({src.Events[i][field] : i \in I})
<1> DEFINE key == [i \in I |-> src.Events[i][field]]
           K == {src.Events[i][field] : i \in I}
<1>1. IsFiniteSet(I)
  BY EventTypes, FS_Subset
<1>2. key \in Surjection(I, K)
  BY DEF Surjection
<1> HIDE DEF key, K
<1>3. IsFiniteSet(K)
  BY <1>1, <1>2, FS_Surjection
<1> QED
  BY <1>1, <1>3 DEF K

(* A list of lines by agent, or by skill, adds up to what its events do.   *)
LEMMA ListAddsUp ==
  ASSUME NEW src, IsFight(src), NEW I \in SUBSET Indices(src), NEW field
  PROVE  SumOf(ListBy(src, I, field)) = EntryOf(src, I)
<1> DEFINE K == {src.Events[i][field] : i \in I}
           key == [i \in I |-> src.Events[i][field]]
<1>1. IsFiniteSet(K) /\ key \in [I -> K]
  BY KeysAreFinite
<1>2. \A k \in K : {i \in I : src.Events[i][field] = k}
                     = {i \in I : key[i] = k}
  OBVIOUS
<1>3. ListBy(src, I, field)
        = [k \in K |-> EntryOf(src, {i \in I : key[i] = k})]
  BY <1>2 DEF ListBy
<1> HIDE DEF K, key
<1> QED
  BY <1>1, <1>3, LinesAddUp

(* So does a list of skills in which those that do damage are translated,  *)
(* whichever these are.                                                    *)
LEMMA TranslatedAddsUp ==
  ASSUME NEW src, IsFight(src), NEW I \in SUBSET Indices(src), NEW damaging
  PROVE  SumOf(Translated(ListBy(src, I, "SkillId"), damaging, FALSE))
           = EntryOf(src, I)
<1> DEFINE skill == [i \in I |-> src.Events[i].SkillId]
           K == {src.Events[i].SkillId : i \in I}
           list == ListBy(src, I, "SkillId")
           indirect == {s \in K : IsSkillIndirectHealing(s, damaging)}
           I2 == {i \in I : skill[i] \in indirect}
           total == SumOf([s \in indirect |-> list[s]])
           shown == (K \ indirect)
                      \cup (IF indirect = {} THEN {}
                                             ELSE {IndirectHealingSkillId})
           key == [i \in I |-> IF skill[i] \in indirect
                                 THEN IndirectHealingSkillId ELSE skill[i]]
<1>1. /\ IsFiniteSet(K) /\ IsFiniteSet(indirect)
      /\ IsFiniteSet({IndirectHealingSkillId})
  <2>1. IsFiniteSet(K)
    BY KeysAreFinite
  <2>2. indirect \subseteq K
    OBVIOUS
  <2> HIDE DEF K, indirect
  <2> QED
    BY <2>1, <2>2, FS_Subset, FS_Singleton
<1>2. skill \in [I -> K] /\ IndirectHealingSkillId \notin K
  BY EventTypes DEF HealEvents
<1>3. list = [k \in K |-> EntryOf(src, {i \in I : skill[i] = k})]
  <2>1. \A k \in K : {i \in I : src.Events[i].SkillId = k}
                       = {i \in I : skill[i] = k}
    OBVIOUS
  <2> QED
    BY <2>1 DEF ListBy
<1>4. Translated(list, damaging, FALSE)
        = [s \in shown |-> IF s = IndirectHealingSkillId THEN total
                                                         ELSE list[s]]
  <2>1. DOMAIN list = K
    BY <1>3
  <2> HIDE DEF list, K
  <2> QED
    BY <2>1 DEF Translated
<1> HIDE DEF skill, K, list
<1>5. total = EntryOf(src, I2)
  <2> DEFINE mine == [i \in I2 |-> skill[i]]
             part == [s \in indirect |-> list[s]]
  <2>1. mine \in [I2 -> indirect]
    BY <1>2
  <2>2. \A k \in indirect : {i \in I : skill[i] = k} = {i \in I2 : mine[i] = k}
    OBVIOUS
  <2>3. \A k \in indirect : list[k] = EntryOf(src, {i \in I2 : mine[i] = k})
    BY <1>3, <2>2
  <2>4. part = [k \in indirect |-> EntryOf(src, {i \in I2 : mine[i] = k})]
    BY <2>3
  <2>5. I2 \in SUBSET Indices(src)
    OBVIOUS
  <2> HIDE DEF mine, I2, indirect, part
  <2>6. SumOf(part) = EntryOf(src, I2)
    BY <1>1, <2>1, <2>4, <2>5, LinesAddUp
  <2> QED
    BY <2>6 DEF part
<1>6. IsFiniteSet(shown) /\ key \in [I -> shown]
  <2>1. IsFiniteSet(K \ indirect)
    BY <1>1, FS_Subset
  <2>2. IsFiniteSet(shown)
    BY <1>1, <2>1, FS_EmptySet, FS_Union
  <2>3. key \in [I -> shown]
    BY <1>2
  <2> QED
    BY <2>2, <2>3
<1>7. ASSUME NEW s \in shown
      PROVE  (IF s = IndirectHealingSkillId THEN total ELSE list[s])
               = EntryOf(src, {i \in I : key[i] = s})
  <2>1. CASE s = IndirectHealingSkillId
    <3>1. {i \in I : key[i] = s} = I2
      BY <1>2, <2>1
    <3> QED
      BY <1>5, <2>1, <3>1
  <2>2. CASE s # IndirectHealingSkillId
    <3>1. s \in K \ indirect
      BY <2>2
    <3>2. {i \in I : key[i] = s} = {i \in I : skill[i] = s}
      BY <2>2, <3>1
    <3> QED
      BY <1>3, <2>2, <3>1, <3>2
  <2> QED
    BY <2>1, <2>2
<1> HIDE DEF shown, key, total, I2
<1>8. Translated(list, damaging, FALSE)
        = [s \in shown |-> EntryOf(src, {i \in I : key[i] = s})]
  BY <1>4, <1>7
<1>9. SumOf(Translated(list, damaging, FALSE)) = EntryOf(src, I)
  <2> DEFINE result == Translated(list, damaging, FALSE)
  <2>1. result = [s \in shown |-> EntryOf(src, {i \in I : key[i] = s})]
    BY <1>8
  <2> HIDE DEF result
  <2>2. SumOf(result) = EntryOf(src, I)
    BY <1>6, <2>1, LinesAddUp
  <2> QED
    BY <2>2 DEF result
<1> QED
  BY <1>9 DEF list

-----------------------------------------------------------------------------
(* The largest of two numbers. *)
LEMMA MaxOfTwo ==
  ASSUME NEW m \in Nat, NEW n \in Nat
  PROVE  Max({m, n}) \in {m, n} /\ Max({m, n}) >= m /\ Max({m, n}) >= n
<1>1. \E x \in {m, n} : \A y \in {m, n} : x >= y
  <2>1. CASE m >= n
    BY <2>1
  <2>2. CASE n >= m
    BY <2>2
  <2> QED
    BY <2>1, <2>2
<1> QED
  BY <1>1 DEF Max

(* The end of combat is a time and not before combat was entered. *)
LEMMA EndIsAfterStart ==
  ASSUME NEW src, IsFight(src), NEW options
  PROVE  /\ GetCombatEnd(src, options) \in Nat
         /\ GetCombatEnd(src, options) >= src.EnteredCombatTime
         /\ GetCombatTime(src, options) >= 0
<1>1. LastHeal(src) \in Nat
  <2>1. CASE src.Events = <<>>
    BY <2>1 DEF LastHeal
  <2>2. CASE src.Events # <<>>
    <3>1. src.Events[Len(src.Events)] \in HealEvents
      BY <2>2 DEF IsFight
    <3> QED
      BY <2>2, <3>1 DEF LastHeal, HealEvents
  <2> QED
    BY <2>1, <2>2
<1>2. Max({LastDamage(src), LastHeal(src)}) \in Nat
  BY <1>1, MaxOfTwo DEF LastDamage, IsFight
<1>3. ChosenEnd(src, options) \in Nat
  BY <1>1, <1>2 DEF ChosenEnd, LastDamage, IsFight
<1> DEFINE end == IF ChosenEnd(src, options) # 0 THEN ChosenEnd(src, options)
                  ELSE IF src.ExitedCombatTime # 0 THEN src.ExitedCombatTime
                  ELSE src.CollectionTime
<1>4. end \in Nat /\ src.EnteredCombatTime \in Nat
  BY <1>3 DEF IsFight
<1>5. GetCombatEnd(src, options) = Max({src.EnteredCombatTime, end})
  BY DEF GetCombatEnd
<1> HIDE DEF end
<1>6. /\ GetCombatEnd(src, options) \in Nat
      /\ GetCombatEnd(src, options) >= src.EnteredCombatTime
  BY <1>4, <1>5, MaxOfTwo
<1> QED
  BY <1>4, <1>6 DEF GetCombatTime

-----------------------------------------------------------------------------
(* The chain of filters that three functions go through keeps the events   *)
(* that count.                                                             *)
CountedIndices(src) == {i \in DOMAIN src.Events : Counts(src, src.Events[i])}

(* GetAgents, GetSkills and their filters leave what counts. *)
LEMMA FilterKeepsWhatCounts ==
  ASSUME NEW src, IsFight(src), IsWindow(mOptions)
  PROVE  Mapped(src, mOptions) = CountedIndices(src)
<1> SUFFICES ASSUME NEW i \in DOMAIN src.Events
             PROVE  i \in Mapped(src, mOptions)
                      <=> Counts(src, src.Events[i])
  BY DEF Mapped, Remaining, CountedIndices
<1> DEFINE e == src.Events[i]
           agent == e.AgentId
<1>1. e \in HealEvents
  BY EventTypes DEF Indices
<1>2. ~ FilterInternal(src, agent, mOptions) <=>
        IF agent \in DOMAIN src.Agents
          THEN LET a == src.Agents[agent] IN
                 /\ a.IsMinion => ~ mOptions.ExcludeMinions
                 /\ ~ GroupExcluded(src, a)
          ELSE ~ mOptions.ExcludeUnmapped
  <2>1. CASE agent \in DOMAIN src.Agents
    <3> DEFINE a == src.Agents[agent]
    <3>1. a.Subgroup \in Nat /\ a.IsMinion \in BOOLEAN /\ src.SubGroup \in Nat
      BY <2>1 DEF IsFight
    <3>2. GroupExcluded(src, a) <=>
            \/ a.Subgroup = src.SubGroup /\ mOptions.ExcludeGroup
            \/ /\ a.Subgroup # src.SubGroup /\ a.Subgroup # 0
               /\ mOptions.ExcludeOffGroup
            \/ /\ a.Subgroup # src.SubGroup /\ a.Subgroup = 0
               /\ mOptions.ExcludeOffSquad
      BY DEF GroupExcluded, IsWindow
    <3>3. FilterInternal(src, agent, mOptions) <=>
            \/ a.IsMinion /\ mOptions.ExcludeMinions
            \/ /\ a.Subgroup = 0 /\ src.SubGroup # 0
               /\ mOptions.ExcludeOffSquad
            \/ /\ a.Subgroup # 0 /\ a.Subgroup # src.SubGroup
               /\ mOptions.ExcludeOffGroup
            \/ a.Subgroup = src.SubGroup /\ mOptions.ExcludeGroup
      BY <2>1 DEF FilterInternal
    <3> QED
      BY <2>1, <3>1, <3>2, <3>3
  <2>2. CASE agent \notin DOMAIN src.Agents
    BY <2>2 DEF FilterInternal, IsWindow
  <2> QED
    BY <2>1, <2>2
<1>3. ~ FilterSkill(e.SkillId, mOptions) <=>
        (mOptions.IncludedSkills \cap Nat # {}
           => e.SkillId \in mOptions.IncludedSkills)
  BY <1>1 DEF FilterSkill, ParseUInt32String, HealEvents
<1>4. ~ (IF e.IsAgainstDowned THEN mOptions.ExcludeAgainstDowned
                              ELSE mOptions.ExcludeAgainstNonDowned) <=>
        /\ mOptions.ExcludeAgainstDowned => ~ e.IsAgainstDowned
        /\ mOptions.ExcludeAgainstNonDowned => e.IsAgainstDowned
  BY <1>1 DEF HealEvents, IsWindow
<1>5. ~ (IF e.IsBarrierGeneration THEN mOptions.ExcludeBarrierGeneration
                                  ELSE mOptions.ExcludeHealing) <=>
        /\ mOptions.ExcludeBarrierGeneration => ~ e.IsBarrierGeneration
        /\ mOptions.ExcludeHealing => e.IsBarrierGeneration
  BY <1>1 DEF HealEvents, IsWindow
<1> DEFINE late == e.Time <= GetCombatEnd(src, mOptions)
<1>6. i \in Mapped(src, mOptions) <=>
        /\ late
        /\ ~ (IF e.IsAgainstDowned THEN mOptions.ExcludeAgainstDowned
                                   ELSE mOptions.ExcludeAgainstNonDowned)
        /\ ~ (IF e.IsBarrierGeneration THEN mOptions.ExcludeBarrierGeneration
                                       ELSE mOptions.ExcludeHealing)
        /\ ~ FilterSkill(e.SkillId, mOptions)
        /\ ~ FilterInternal(src, agent, mOptions)
  BY DEF Mapped, Remaining
<1>7. Counts(src, e) <=>
        /\ late
        /\ mOptions.ExcludeAgainstDowned => ~ e.IsAgainstDowned
        /\ mOptions.ExcludeAgainstNonDowned => e.IsAgainstDowned
        /\ mOptions.ExcludeBarrierGeneration => ~ e.IsBarrierGeneration
        /\ mOptions.ExcludeHealing => e.IsBarrierGeneration
        /\ mOptions.IncludedSkills \cap Nat # {}
             => e.SkillId \in mOptions.IncludedSkills
        /\ IF agent \in DOMAIN src.Agents
             THEN LET a == src.Agents[agent] IN
                    /\ a.IsMinion => ~ mOptions.ExcludeMinions
                    /\ ~ GroupExcluded(src, a)
             ELSE ~ mOptions.ExcludeUnmapped
  BY DEF Counts
<1> HIDE DEF e, agent, late
<1> QED
  BY <1>2, <1>3, <1>4, <1>5, <1>6, <1>7 DEF e

(* So the reference count is an entry for the events that they leave. *)
LEMMA CountedIs ==
  ASSUME NEW src, IsFight(src), IsWindow(mOptions)
  PROVE  /\ Mapped(src, mOptions) \in SUBSET Indices(src)
         /\ Remaining(src, mOptions) \in SUBSET Indices(src)
         /\ Counted(src) = EntryOf(src, Mapped(src, mOptions))
<1>1. Mapped(src, mOptions) = CountedIndices(src)
  BY FilterKeepsWhatCounts
<1> QED
  BY <1>1 DEF Counted, CountedIndices, Mapped, Remaining, Indices

(* Whole lists add up to what counts, whichever skills do damage. *)
LEMMA WholeListsAddUp ==
  ASSUME NEW src, IsFight(src), IsWindow(mOptions)
  PROVE  /\ Counted(src) \in Entries
         /\ SumOf(AgentList(src, mOptions)) = Counted(src)
         /\ \A damaging :
              SumOf(SkillList(src, mOptions, damaging, FALSE)) = Counted(src)
<1> DEFINE I == Mapped(src, mOptions)
<1>1. I \in SUBSET Indices(src) /\ Counted(src) = EntryOf(src, I)
  BY CountedIs
<1>2. SumOf(ListBy(src, I, "AgentId")) = EntryOf(src, I)
  BY <1>1, ListAddsUp
<1>3. ASSUME NEW damaging
      PROVE  SumOf(Translated(ListBy(src, I, "SkillId"), damaging, FALSE))
               = EntryOf(src, I)
  BY <1>1, TranslatedAddsUp
<1> QED
  BY <1>1, <1>2, <1>3, EntryIs DEF AgentList, SkillList

(* The list of skills that healed an agent adds up to the agent's line.    *)
LEMMA SkillsOfAgentAddUp ==
  ASSUME NEW src, IsFight(src), IsWindow(mOptions), NEW damaging,
         NEW a \in DOMAIN AgentList(src, mOptions)
  PROVE  SumOf(SkillListOf(src, mOptions, a, damaging, FALSE))
           = AgentList(src, mOptions)[a]
<1> DEFINE I == Mapped(src, mOptions)
           ofAgent == {i \in Remaining(src, mOptions) :
                         src.Events[i].AgentId = a}
<1>1. \A i \in I : i \in Remaining(src, mOptions)
  BY DEF Mapped
<1>2. PICK j \in I : src.Events[j].AgentId = a
  BY DEF AgentList, ListBy
<1>3. ~ FilterInternal(src, a, mOptions)
  BY <1>2 DEF Mapped
<1>4. ofAgent = {i \in I : src.Events[i].AgentId = a}
  BY <1>1, <1>3 DEF Mapped
<1>5. AgentList(src, mOptions)[a] = EntryOf(src, ofAgent)
  BY <1>2, <1>4 DEF AgentList, ListBy
<1>6. ofAgent \in SUBSET Indices(src)
  BY CountedIs
<1> HIDE DEF ofAgent
<1>7. SumOf(Translated(ListBy(src, ofAgent, "SkillId"), damaging, FALSE))
        = EntryOf(src, ofAgent)
  BY <1>6, TranslatedAddsUp
<1> QED
  BY <1>5, <1>7 DEF SkillListOf, ofAgent

(* The list of agents that a skill healed adds up to the skill's line, of  *)
(* which the one for indirect healing is none.                             *)
LEMMA AgentsOfSkillAddUp ==
  ASSUME NEW src, IsFight(src), IsWindow(mOptions), NEW damaging, NEW debug,
         NEW k \in DOMAIN SkillList(src, mOptions, damaging, debug),
         k # IndirectHealingSkillId
  PROVE  SumOf(AgentListOf(src, mOptions, k))
           = SkillList(src, mOptions, damaging, debug)[k]
<1> DEFINE I == Mapped(src, mOptions)
           ofSkill == {i \in I : src.Events[i].SkillId = k}
           list == ListBy(src, I, "SkillId")
<1>1. k \in DOMAIN list
        /\ SkillList(src, mOptions, damaging, debug)[k] = list[k]
  BY DEF SkillList, Translated
<1>2. list[k] = EntryOf(src, ofSkill)
  BY <1>1 DEF ListBy
<1>3. ofSkill \in SUBSET Indices(src)
  BY CountedIs
<1> HIDE DEF ofSkill
<1>4. SumOf(ListBy(src, ofSkill, "AgentId")) = EntryOf(src, ofSkill)
  BY <1>3, ListAddsUp
<1> QED
  BY <1>1, <1>2, <1>4 DEF AgentListOf, ofSkill

-----------------------------------------------------------------------------
(* The events that are left of a group. *)
OfGroup(src, f) ==
  {i \in Remaining(src, mOptions) :
     ~ FilterInternal(src, src.Events[i].AgentId, FakeOptions(f))}

(* The events of a group are among those of the next, and a window with *)
(* the options of a group has that group's events.                      *)
LEMMA GroupsAreNested ==
  ASSUME NEW src, IsFight(src), IsWindow(mOptions)
  PROVE  /\ \A f \in GroupFilters : OfGroup(src, f) \in SUBSET Indices(src)
         /\ OfGroup(src, "Group") \subseteq OfGroup(src, "Squad")
         /\ OfGroup(src, "Squad") \subseteq OfGroup(src, "AllExcludingMinions")
         /\ OfGroup(src, "AllExcludingMinions") \subseteq OfGroup(src, "All")
         /\ mOptions.ExcludeUnmapped =>
              Mapped(src, mOptions) \subseteq OfGroup(src, "All")
         /\ \A f \in GroupFilters :
              SameAgents(f) => Mapped(src, mOptions) = OfGroup(src, f)
<1> DEFINE Left(i, f) ==
             ~ FilterInternal(src, src.Events[i].AgentId, FakeOptions(f))
<1>1. ASSUME NEW i
      PROVE  /\ Left(i, "Group") => Left(i, "Squad")
             /\ Left(i, "Squad") => Left(i, "AllExcludingMinions")
             /\ Left(i, "AllExcludingMinions") => Left(i, "All")
  BY DEF FilterInternal, FakeOptions
<1>2. ASSUME NEW i, mOptions.ExcludeUnmapped,
             ~ FilterInternal(src, src.Events[i].AgentId, mOptions)
      PROVE  Left(i, "All")
  BY <1>2 DEF FilterInternal, FakeOptions
<1>3. ASSUME NEW f \in GroupFilters, SameAgents(f), NEW i
      PROVE  FilterInternal(src, src.Events[i].AgentId, mOptions)
               <=> ~ Left(i, f)
  <2>1. /\ mOptions.ExcludeGroup = FakeOptions(f).ExcludeGroup
        /\ mOptions.ExcludeOffGroup = FakeOptions(f).ExcludeOffGroup
        /\ mOptions.ExcludeOffSquad = FakeOptions(f).ExcludeOffSquad
        /\ mOptions.ExcludeMinions = FakeOptions(f).ExcludeMinions
        /\ mOptions.ExcludeUnmapped = FakeOptions(f).ExcludeUnmapped
    BY <1>3 DEF SameAgents, AgentKeys, FakeOptions
  <2> QED
    BY <2>1 DEF FilterInternal
<1>4. \A f \in GroupFilters : OfGroup(src, f) \in SUBSET Indices(src)
  BY CountedIs DEF OfGroup
<1>5. /\ OfGroup(src, "Group") \subseteq OfGroup(src, "Squad")
      /\ OfGroup(src, "Squad") \subseteq OfGroup(src, "AllExcludingMinions")
      /\ OfGroup(src, "AllExcludingMinions") \subseteq OfGroup(src, "All")
  <2> HIDE DEF Left
  <2>1. \A f : OfGroup(src, f) = {i \in Remaining(src, mOptions) : Left(i, f)}
    BY DEF OfGroup, Left
  <2> QED
    BY <1>1, <2>1
<1>6. ASSUME mOptions.ExcludeUnmapped
      PROVE  Mapped(src, mOptions) \subseteq OfGroup(src, "All")
  BY <1>2, <1>6 DEF Mapped, OfGroup
<1>7. ASSUME NEW f \in GroupFilters, SameAgents(f)
      PROVE  Mapped(src, mOptions) = OfGroup(src, f)
  BY <1>3, <1>7 DEF Mapped, OfGroup
<1> QED
  BY <1>4, <1>5, <1>6, <1>7

(* GroupsNest, of the list of totals. *)
LEMMA TotalsNest ==
  ASSUME NEW src, IsFight(src), IsWindow(mOptions)
  PROVE  LET g == GroupFilterTotals(src, mOptions)
             counted == Counted(src)
         IN  /\ AtMost(g["Group"], g["Squad"])
             /\ AtMost(g["Squad"], g["AllExcludingMinions"])
             /\ AtMost(g["AllExcludingMinions"], g["All"])
             /\ mOptions.ExcludeUnmapped => AtMost(counted, g["All"])
             /\ \A f \in GroupFilters : SameAgents(f) => counted = g[f]
<1> DEFINE g == GroupFilterTotals(src, mOptions)
<1>1. \A f \in GroupFilters : g[f] = EntryOf(src, OfGroup(src, f))
  BY DEF GroupFilterTotals, OfGroup
<1>2. \A f \in {"Group", "Squad", "AllExcludingMinions", "All"} :
        /\ f \in GroupFilters
        /\ OfGroup(src, f) \in SUBSET Indices(src)
  BY GroupsAreNested DEF GroupFilters
<1> HIDE DEF g
<1>3. /\ AtMost(g["Group"], g["Squad"])
      /\ AtMost(g["Squad"], g["AllExcludingMinions"])
      /\ AtMost(g["AllExcludingMinions"], g["All"])
  BY <1>1, <1>2, GroupsAreNested, MoreIsAtLeast
<1>4. /\ Counted(src) = EntryOf(src, Mapped(src, mOptions))
      /\ Mapped(src, mOptions) \in SUBSET Indices(src)
  BY CountedIs
<1>5. mOptions.ExcludeUnmapped => AtMost(Counted(src), g["All"])
  BY <1>1, <1>2, <1>4, GroupsAreNested, MoreIsAtLeast
<1>6. \A f \in GroupFilters : SameAgents(f) => Counted(src) = g[f]
  BY <1>1, <1>4, GroupsAreNested
<1> QED
  BY <1>3, <1>5, <1>6 DEF g

-----------------------------------------------------------------------------
StatsFields ==
  {"mySourceData", "myTotal", "myFilteredAgents", "mySkills",
   "myGroupFilterTotals", "myAgentsDetailed", "mySkillsDetailed"}

(* What is kept of a player is what would have been computed, with some    *)
(* table of damaging skills, from the snapshot.                            *)
TotalKept(s) ==
  s.myTotal # Unset =>
    \E D \in SUBSET Skills :
      s.myTotal = SumOf(SkillList(s.mySourceData, mOptions, D, mDebugMode))

SkillsKept(s) ==
  s.mySkills # Unset =>
    \E D \in SUBSET Skills :
      s.mySkills = SkillList(s.mySourceData, mOptions, D, mDebugMode)

ListsKept(s) ==
  /\ s.myFilteredAgents # Unset =>
       s.myFilteredAgents = AgentList(s.mySourceData, mOptions)
  /\ s.myGroupFilterTotals # Unset =>
       s.myGroupFilterTotals = GroupFilterTotals(s.mySourceData, mOptions)

DetailsKept(s) ==
  /\ \A a \in DOMAIN s.myAgentsDetailed : \E D \in SUBSET Skills :
       s.myAgentsDetailed[a]
         = SkillListOf(s.mySourceData, mOptions, a, D, mDebugMode)
  /\ \A k \in DOMAIN s.mySkillsDetailed :
       s.mySkillsDetailed[k] = AgentListOf(s.mySourceData, mOptions, k)

Kept(s) ==
  /\ DOMAIN s = StatsFields
  /\ IsFight(s.mySourceData)
  /\ TotalKept(s) /\ SkillsKept(s) /\ ListsKept(s) /\ DetailsKept(s)

SettingsInv ==
  /\ IsWindow(mOptions)
  /\ mDebugMode \in BOOLEAN
  /\ mLocalState \in Players
  /\ myDamagingSkills \in SUBSET Skills

KeptInv ==
  /\ mSourceData = [p \in Players |-> mSourceData[p]]
  /\ \A p \in Players : Kept(mSourceData[p])

(* The lines of the players are their totals, which stay. *)
PeersInv ==
  /\ mPeersOutgoingStats # Unset \/ mPeersOutgoingTotal # Unset =>
       /\ \A p \in Players : mSourceData[p].myTotal # Unset
       /\ mPeersOutgoingStats = [p \in Players |-> mSourceData[p].myTotal]
  /\ mPeersOutgoingTotal # Unset =>
       mPeersOutgoingTotal = SumOf(mPeersOutgoingStats)

IInv == SettingsInv /\ KeptInv /\ PeersInv

-----------------------------------------------------------------------------
(* Entries that are added up are an entry. *)
LEMMA SumIsEntry ==
  ASSUME NEW K, IsFiniteSet(K), NEW list \in [K -> Entries]
  PROVE  SumOf(list) \in Entries
<1> DEFINE healing == [k \in K |-> list[k].Healing]
           hits == [k \in K |-> list[k].Hits]
           barrier == [k \in K |-> list[k].BarrierGeneration]
<1>1. /\ healing \in [K -> Nat] /\ hits \in [K -> Nat]
      /\ barrier \in [K -> Nat]
  BY DEF Entries
<1>2. SumOf(list) = Entry(SumFunction(healing), SumFunction(hits),
                          SumFunction(barrier))
  BY DEF SumOf
<1>3. /\ DOMAIN healing = K /\ DOMAIN hits = K /\ DOMAIN barrier = K
  OBVIOUS
<1> HIDE DEF healing, hits, barrier
<1>4. ASSUME NEW f \in [K -> Nat]
      PROVE  SumFunction(f) \in Nat
  <2>1. Sum(f, K) \in Nat
    BY SumWithout
  <2> QED
    BY <2>1 DEF SumFunction, Sum
<1> QED
  BY <1>1, <1>2, <1>4 DEF Entry, Entries

(* The total of a list of skills is an entry, in debug mode too. *)
LEMMA TotalIsSet ==
  ASSUME NEW src, IsFight(src), IsWindow(mOptions), NEW D
  PROVE  SumOf(SkillList(src, mOptions, D, mDebugMode)) # Unset
<1> DEFINE I == Mapped(src, mOptions)
           K == {src.Events[i].SkillId : i \in I}
           list == ListBy(src, I, "SkillId")
           indirect == {s \in DOMAIN list : IsSkillIndirectHealing(s, D)}
           part == [s \in indirect |-> list[s]]
           shown == (IF mDebugMode THEN DOMAIN list
                                   ELSE DOMAIN list \ indirect)
                    \cup (IF indirect = {} THEN {}
                                           ELSE {IndirectHealingSkillId})
           result == Translated(list, D, mDebugMode)
<1>1. I \in SUBSET Indices(src)
  BY CountedIs
<1>2. IsFiniteSet(K)
  <2> HIDE DEF I
  <2> QED
    BY <1>1, KeysAreFinite
<1>3. list \in [K -> Entries]
  <2>1. ASSUME NEW k \in K
        PROVE  EntryOf(src, {i \in I : src.Events[i].SkillId = k}) \in Entries
    <3> DEFINE J == {i \in I : src.Events[i].SkillId = k}
    <3>1. J \in SUBSET Indices(src)
      BY <1>1
    <3> HIDE DEF J
    <3> QED
      BY <3>1, EntryIs DEF J
  <2> QED
    BY <2>1 DEF ListBy
<1> HIDE DEF list, K, I
<1>4. /\ IsFiniteSet(indirect) /\ IsFiniteSet(K \ indirect)
      /\ IsFiniteSet({IndirectHealingSkillId}) /\ IsFiniteSet({})
  <2>1. indirect \subseteq K /\ K \ indirect \subseteq K
    BY <1>3
  <2> HIDE DEF indirect
  <2> QED
    BY <1>2, <2>1, FS_Subset, FS_Singleton, FS_EmptySet
<1>5. SumOf(part) \in Entries
  <2>1. part \in [indirect -> Entries]
    BY <1>3
  <2> HIDE DEF part, indirect
  <2> QED
    BY <1>4, <2>1, SumIsEntry
<1>6. IsFiniteSet(shown)
  <2> DEFINE A == IF mDebugMode THEN DOMAIN list ELSE DOMAIN list \ indirect
             B == IF indirect = {} THEN {} ELSE {IndirectHealingSkillId}
  <2>1. IsFiniteSet(A) /\ IsFiniteSet(B)
    BY <1>2, <1>3, <1>4
  <2> HIDE DEF A, B
  <2>2. IsFiniteSet(A \cup B)
    BY <2>1, FS_Union
  <2> QED
    BY <2>2 DEF A, B
<1>7. result = [s \in shown |-> IF s = IndirectHealingSkillId THEN SumOf(part)
                                                              ELSE list[s]]
  BY DEF Translated
<1>8. ASSUME NEW s \in shown
      PROVE  (IF s = IndirectHealingSkillId THEN SumOf(part) ELSE list[s])
               \in Entries
  BY <1>3, <1>5
<1> HIDE DEF shown, result, part
<1>9. result \in [shown -> Entries]
  BY <1>7, <1>8
<1>10. SumOf(result) \in Entries
  BY <1>6, <1>9, SumIsEntry
<1> QED
  BY <1>10, UnsetAssumption DEF SkillList, result, list, I

-----------------------------------------------------------------------------
(* One player's statistics after a call: everything is kept, the total too *)
(* if there was one.                                                       *)
Goes(s, t) ==
  /\ Kept(t)
  /\ s.myTotal # Unset => t.myTotal = s.myTotal

(* GetSkills, of the list of all skills. *)
LEMMA SkillsGo ==
  ASSUME NEW s, Kept(s), SettingsInv
  PROVE  LET t == GetSkills(s, mOptions, myDamagingSkills, mDebugMode)
         IN  /\ Goes(s, t)
             /\ t.myTotal = s.myTotal
             /\ \E D \in SUBSET Skills :
                  t.mySkills
                    = SkillList(t.mySourceData, mOptions, D, mDebugMode)
<1> DEFINE new == SkillList(s.mySourceData, mOptions, myDamagingSkills,
                            mDebugMode)
           t == GetSkills(s, mOptions, myDamagingSkills, mDebugMode)
<1>1. CASE s.mySkills # Unset
  BY <1>1 DEF GetSkills, Goes, Kept, SkillsKept
<1>2. CASE s.mySkills = Unset
  <2>1. t = [s EXCEPT !.mySkills = new]
    BY <1>2 DEF GetSkills
  <2> HIDE DEF t
  <2>2. /\ DOMAIN t = StatsFields
        /\ t.mySkills = new
        /\ t.mySourceData = s.mySourceData
        /\ t.myTotal = s.myTotal
        /\ t.myFilteredAgents = s.myFilteredAgents
        /\ t.myGroupFilterTotals = s.myGroupFilterTotals
        /\ t.myAgentsDetailed = s.myAgentsDetailed
        /\ t.mySkillsDetailed = s.mySkillsDetailed
    BY <2>1 DEF Kept, StatsFields
  <2>3. t.mySkills = SkillList(t.mySourceData, mOptions, myDamagingSkills,
                               mDebugMode)
    BY <2>2
  <2>4. Kept(t)
    <3>1. SkillsKept(t)
      BY <2>3 DEF SkillsKept, SettingsInv
    <3>2. TotalKept(t)
      BY <2>2 DEF TotalKept, Kept
    <3>3. ListsKept(t)
      BY <2>2 DEF ListsKept, Kept
    <3>4. DetailsKept(t)
      BY <2>2 DEF DetailsKept, Kept
    <3> QED
      BY <2>2, <3>1, <3>2, <3>3, <3>4 DEF Kept
  <2> QED
    BY <2>2, <2>3, <2>4 DEF Goes, t, SettingsInv
<1> QED
  BY <1>1, <1>2

(* GetTotal; afterwards there is one. *)
LEMMA TotalGoes ==
  ASSUME NEW s, Kept(s), SettingsInv
  PROVE  Goes(s, Totalled(s)) /\ Totalled(s).myTotal # Unset
<1> DEFINE u == GetSkills(s, mOptions, myDamagingSkills, mDebugMode)
           t == Totalled(s)
<1>1. /\ Kept(u) /\ u.myTotal = s.myTotal
  BY SkillsGo DEF Goes
<1>2. PICK D \in SUBSET Skills :
        u.mySkills = SkillList(u.mySourceData, mOptions, D, mDebugMode)
  BY SkillsGo
<1>3. t = IF u.myTotal # Unset THEN u
          ELSE [u EXCEPT !.myTotal = SumOf(u.mySkills)]
  BY DEF Totalled, GetTotal
<1> HIDE DEF u, t
<1>4. CASE u.myTotal # Unset
  BY <1>1, <1>3, <1>4 DEF Goes, t
<1>5. CASE u.myTotal = Unset
  <2>1. /\ DOMAIN t = StatsFields
        /\ t.myTotal = SumOf(u.mySkills)
        /\ t.mySkills = u.mySkills
        /\ t.mySourceData = u.mySourceData
        /\ t.myFilteredAgents = u.myFilteredAgents
        /\ t.myGroupFilterTotals = u.myGroupFilterTotals
        /\ t.myAgentsDetailed = u.myAgentsDetailed
        /\ t.mySkillsDetailed = u.mySkillsDetailed
    BY <1>1, <1>3, <1>5 DEF Kept, StatsFields
  <2>2. t.myTotal = SumOf(SkillList(t.mySourceData, mOptions, D, mDebugMode))
    BY <1>2, <2>1
  <2>3. t.myTotal # Unset
    <3>1. IsFight(u.mySourceData) /\ IsWindow(mOptions)
      BY <1>1 DEF Kept, SettingsInv
    <3> QED
      BY <1>2, <2>1, <3>1, TotalIsSet
  <2>4. TotalKept(t)
    BY <2>2 DEF TotalKept
  <2>5. SkillsKept(t)
    BY <1>1, <2>1 DEF SkillsKept, Kept
  <2>6. ListsKept(t)
    BY <1>1, <2>1 DEF ListsKept, Kept
  <2>7. DetailsKept(t)
    BY <1>1, <2>1 DEF DetailsKept, Kept
  <2>8. IsFight(t.mySourceData)
    BY <1>1, <2>1 DEF Kept
  <2> QED
    BY <1>1, <1>5, <2>1, <2>3, <2>4, <2>5, <2>6, <2>7, <2>8 DEF Goes, Kept, t
<1> QED
  BY <1>4, <1>5

(* GetAgents, of the list of all agents, and GetGroupFilterTotals. *)
LEMMA ListsGo ==
  ASSUME NEW s, Kept(s)
  PROVE  /\ Goes(s, GetAgents(s, mOptions))
         /\ Goes(s, GetGroupFilterTotals(s, mOptions))
<1>1. Goes(s, s)
  BY DEF Goes
<1>2. Goes(s, GetAgents(s, mOptions))
  <2> DEFINE t == [s EXCEPT !.myFilteredAgents =
                     AgentList(s.mySourceData, mOptions)]
  <2>1. /\ DOMAIN t = StatsFields
        /\ t.myTotal = s.myTotal
        /\ t.mySkills = s.mySkills
        /\ t.mySourceData = s.mySourceData
        /\ t.myFilteredAgents = AgentList(s.mySourceData, mOptions)
        /\ t.myGroupFilterTotals = s.myGroupFilterTotals
        /\ t.myAgentsDetailed = s.myAgentsDetailed
        /\ t.mySkillsDetailed = s.mySkillsDetailed
    BY DEF Kept, StatsFields
  <2> HIDE DEF t
  <2>2. TotalKept(t) /\ SkillsKept(t) /\ DetailsKept(t)
    BY <2>1 DEF Kept, TotalKept, SkillsKept, DetailsKept
  <2>3. ListsKept(t)
    BY <2>1 DEF Kept, ListsKept
  <2>4. Goes(s, t)
    BY <2>1, <2>2, <2>3 DEF Goes, Kept
  <2> QED
    BY <1>1, <2>4 DEF GetAgents, t
<1>3. Goes(s, GetGroupFilterTotals(s, mOptions))
  <2> DEFINE t == [s EXCEPT !.myGroupFilterTotals =
                     GroupFilterTotals(s.mySourceData, mOptions)]
  <2>1. /\ DOMAIN t = StatsFields
        /\ t.myTotal = s.myTotal
        /\ t.mySkills = s.mySkills
        /\ t.mySourceData = s.mySourceData
        /\ t.myFilteredAgents = s.myFilteredAgents
        /\ t.myGroupFilterTotals = GroupFilterTotals(s.mySourceData, mOptions)
        /\ t.myAgentsDetailed = s.myAgentsDetailed
        /\ t.mySkillsDetailed = s.mySkillsDetailed
    BY DEF Kept, StatsFields
  <2> HIDE DEF t
  <2>2. TotalKept(t) /\ SkillsKept(t) /\ DetailsKept(t)
    BY <2>1 DEF Kept, TotalKept, SkillsKept, DetailsKept
  <2>3. ListsKept(t)
    BY <2>1 DEF Kept, ListsKept
  <2>4. Goes(s, t)
    BY <2>1, <2>2, <2>3 DEF Goes, Kept
  <2> QED
    BY <1>1, <2>4 DEF GetGroupFilterTotals, t
<1> QED
  BY <1>2, <1>3

(* GetDetails. *)
LEMMA DetailsGo ==
  ASSUME NEW s, Kept(s), SettingsInv, NEW d, NEW id
  PROVE  Goes(s, GetDetails(s, d, id, mOptions, myDamagingSkills, mDebugMode))
<1>1. CASE d = "Skills"
  <2> DEFINE new == AgentListOf(s.mySourceData, mOptions, id)
             details == With(s.mySkillsDetailed, id, new)
             t == [s EXCEPT !.mySkillsDetailed = details]
  <2>1. \A k \in DOMAIN details :
          details[k] = AgentListOf(s.mySourceData, mOptions, k)
    BY DEF With, Kept, DetailsKept
  <2> HIDE DEF details
  <2>2. /\ DOMAIN t = StatsFields
        /\ t.myTotal = s.myTotal
        /\ t.mySkills = s.mySkills
        /\ t.mySourceData = s.mySourceData
        /\ t.myFilteredAgents = s.myFilteredAgents
        /\ t.myGroupFilterTotals = s.myGroupFilterTotals
        /\ t.myAgentsDetailed = s.myAgentsDetailed
        /\ t.mySkillsDetailed = details
    BY DEF Kept, StatsFields
  <2> HIDE DEF t
  <2>3. TotalKept(t) /\ SkillsKept(t) /\ ListsKept(t)
    BY <2>2 DEF Kept, TotalKept, SkillsKept, ListsKept
  <2>4. DetailsKept(t)
    BY <2>1, <2>2 DEF Kept, DetailsKept
  <2>5. Goes(s, t)
    BY <2>2, <2>3, <2>4 DEF Goes, Kept
  <2> QED
    BY <1>1, <2>5 DEF GetDetails, t, details
<1>2. CASE d # "Skills"
  <2> DEFINE new == SkillListOf(s.mySourceData, mOptions, id,
                                myDamagingSkills, mDebugMode)
             details == With(s.myAgentsDetailed, id, new)
             t == [s EXCEPT !.myAgentsDetailed = details]
  <2>1. \A a \in DOMAIN details : \E D \in SUBSET Skills :
          details[a] = SkillListOf(s.mySourceData, mOptions, a, D, mDebugMode)
    BY DEF With, Kept, DetailsKept, SettingsInv
  <2> HIDE DEF details
  <2>2. /\ DOMAIN t = StatsFields
        /\ t.myTotal = s.myTotal
        /\ t.mySkills = s.mySkills
        /\ t.mySourceData = s.mySourceData
        /\ t.myFilteredAgents = s.myFilteredAgents
        /\ t.myGroupFilterTotals = s.myGroupFilterTotals
        /\ t.myAgentsDetailed = details
        /\ t.mySkillsDetailed = s.mySkillsDetailed
    BY DEF Kept, StatsFields
  <2> HIDE DEF t
  <2>3. TotalKept(t) /\ SkillsKept(t) /\ ListsKept(t)
    BY <2>2 DEF Kept, TotalKept, SkillsKept, ListsKept
  <2>4. DetailsKept(t)
    BY <2>1, <2>2 DEF Kept, DetailsKept
  <2>5. Goes(s, t)
    BY <2>2, <2>3, <2>4 DEF Goes, Kept
  <2> QED
    BY <1>2, <2>5 DEF GetDetails, t, details
<1> QED
  BY <1>1, <1>2

-----------------------------------------------------------------------------
(* Nothing is kept of a player at first. *)
LEMMA IInvInit ==
  Init => IInv
<1> SUFFICES ASSUME Init PROVE IInv
  OBVIOUS
<1>1. PICK players \in Sources :
        /\ mSourceData = [p \in DOMAIN players |-> NewStats(players[p])]
        /\ mLocalState \in DOMAIN players
  BY DEF Init
<1>2. Players = DOMAIN players
  BY <1>1 DEF Players
<1>3. SettingsInv
  BY <1>1, <1>2, WindowsAssumption DEF Init, SettingsInv
<1>4. ASSUME NEW p \in Players
      PROVE  Kept(mSourceData[p])
  <2>1. mSourceData[p] = NewStats(players[p]) /\ IsFight(players[p])
    BY <1>1, <1>2, SourcesAssumption
  <2>2. Kept(NewStats(players[p]))
    <3> DEFINE s == NewStats(players[p])
    <3>1. /\ DOMAIN s = StatsFields
          /\ s.mySourceData = players[p]
          /\ s.myTotal = Unset /\ s.mySkills = Unset
          /\ s.myFilteredAgents = Unset /\ s.myGroupFilterTotals = Unset
          /\ s.myAgentsDetailed = <<>> /\ s.mySkillsDetailed = <<>>
      BY DEF NewStats, StatsFields
    <3>2. DOMAIN <<>> = {}
      OBVIOUS
    <3> HIDE DEF s
    <3> QED
      BY <2>1, <3>1, <3>2
      DEF Kept, TotalKept, SkillsKept, ListsKept, DetailsKept, s
  <2> QED
    BY <2>1, <2>2
<1>5. KeptInv
  BY <1>1, <1>2, <1>4 DEF KeptInv, Players
<1>6. PeersInv
  BY DEF Init, PeersInv
<1> QED
  BY <1>3, <1>5, <1>6 DEF IInv

(* A call after which everything is still kept of every player. *)
LEMMA AllGo ==
  ASSUME SettingsInv, UNCHANGED fixedVars, Players' = Players,
         mSourceData' = [q \in Players |-> mSourceData'[q]],
         \A q \in Players : Kept(mSourceData'[q])
  PROVE  KeptInv'
<1>1. ASSUME NEW q \in Players
      PROVE  Kept(mSourceData[q])'
  BY DEF Kept, TotalKept, SkillsKept, ListsKept, DetailsKept, fixedVars
<1> QED
  BY <1>1 DEF KeptInv

(* A call that is about one player. *)
LEMMA OneGoes ==
  ASSUME IInv, UNCHANGED <<fixedVars, peersVars, myDamagingSkills>>,
         NEW p \in Players, NEW t, Goes(mSourceData[p], t),
         mSourceData' = [mSourceData EXCEPT ![p] = t]
  PROVE  IInv'
<1>1. /\ Players' = Players
      /\ mSourceData' = [q \in Players |-> mSourceData'[q]]
      /\ mSourceData'[p] = t
      /\ \A q \in Players \ {p} : mSourceData'[q] = mSourceData[q]
  BY DEF IInv, KeptInv, Players
<1>2. ASSUME NEW q \in Players
      PROVE  /\ Kept(mSourceData'[q])
             /\ mSourceData[q].myTotal # Unset =>
                  mSourceData'[q].myTotal = mSourceData[q].myTotal
  BY <1>1 DEF Goes, IInv, KeptInv
<1>3. KeptInv'
  BY <1>1, <1>2, AllGo DEF IInv
<1>4. PeersInv'
  <2>1. ASSUME \A q \in Players : mSourceData[q].myTotal # Unset
        PROVE  /\ \A q \in Players : mSourceData'[q].myTotal # Unset
               /\ [q \in Players |-> mSourceData'[q].myTotal]
                    = [q \in Players |-> mSourceData[q].myTotal]
    BY <1>2, <2>1
  <2> QED
    BY <1>1, <2>1 DEF IInv, PeersInv, peersVars
<1>5. SettingsInv'
  BY <1>1 DEF IInv, SettingsInv, fixedVars
<1> QED
  BY <1>3, <1>4, <1>5 DEF IInv

(* The calls that are about the local player. *)
LEMMA LocalCalls ==
  ASSUME IInv, UNCHANGED <<fixedVars, myDamagingSkills>>,
         \/ CollectionGetTotal
         \/ \E d \in DataSources : CollectionGetStats(d)
         \/ \E d, id : CollectionGetDetails(d, id)
  PROVE  IInv'
<1> DEFINE s == mSourceData[mLocalState]
<1>1. mLocalState \in Players /\ Kept(s) /\ SettingsInv
  BY DEF IInv, SettingsInv, KeptInv
<1> HIDE DEF s
<1>2. ASSUME NEW t, AskLocal(t), Goes(s, t)
      PROVE  IInv'
  BY <1>1, <1>2, OneGoes DEF AskLocal, s
<1>3. CASE CollectionGetTotal
  BY <1>1, <1>2, <1>3, TotalGoes DEF CollectionGetTotal, s
<1>4. ASSUME NEW d \in DataSources, CollectionGetStats(d)
      PROVE  IInv'
  <2> DEFINE t == GetStats(s, d, mOptions, myDamagingSkills, mDebugMode)
  <2>1. Goes(s, t)
    BY <1>1, SkillsGo, ListsGo DEF GetStats
  <2>2. AskLocal(t)
    BY <1>4 DEF CollectionGetStats, s
  <2> HIDE DEF t
  <2> QED
    BY <1>2, <2>1, <2>2
<1>5. ASSUME NEW d, NEW id, CollectionGetDetails(d, id)
      PROVE  IInv'
  <2> DEFINE t == GetDetails(s, d, id, mOptions, myDamagingSkills, mDebugMode)
  <2>1. Goes(s, t)
    BY <1>1, DetailsGo
  <2>2. AskLocal(t)
    BY <1>5 DEF CollectionGetDetails, s
  <2> HIDE DEF t
  <2> QED
    BY <1>2, <2>1, <2>2
<1> QED
  BY <1>3, <1>4, <1>5

(* The list of the players and its total. *)
LEMMA PeersCalls ==
  ASSUME IInv, UNCHANGED <<fixedVars, myDamagingSkills>>,
         PeersGetStats \/ PeersGetTotal
  PROVE  IInv'
<1>1. ASSUME mPeersOutgoingStats = Unset, PeersOutgoing
      PROVE  /\ SettingsInv' /\ KeptInv'
             /\ \A p \in Players' : mSourceData'[p].myTotal # Unset
             /\ mPeersOutgoingStats'
                  = [p \in Players' |-> mSourceData'[p].myTotal]
  <2>1. /\ mSourceData' = [p \in Players |-> Totalled(mSourceData[p])]
        /\ mPeersOutgoingStats' = [p \in Players |-> mSourceData'[p].myTotal]
    BY <1>1 DEF PeersOutgoing
  <2>2. /\ Players' = Players
        /\ mSourceData' = [p \in Players |-> mSourceData'[p]]
    BY <2>1 DEF Players
  <2>3. ASSUME NEW p \in Players
        PROVE  Kept(mSourceData'[p]) /\ mSourceData'[p].myTotal # Unset
    <3>1. Kept(mSourceData[p]) /\ SettingsInv
      BY DEF IInv, KeptInv
    <3> QED
      BY <2>1, <3>1, TotalGoes DEF Goes
  <2>4. KeptInv'
    BY <2>2, <2>3, AllGo DEF IInv
  <2>5. SettingsInv'
    BY <2>2 DEF IInv, SettingsInv, fixedVars
  <2> QED
    BY <2>1, <2>2, <2>3, <2>4, <2>5
<1>2. ASSUME mPeersOutgoingStats # Unset, PeersOutgoing
      PROVE  /\ SettingsInv' /\ KeptInv'
             /\ \A p \in Players' : mSourceData'[p].myTotal # Unset
             /\ mPeersOutgoingStats'
                  = [p \in Players' |-> mSourceData'[p].myTotal]
  <2>1. UNCHANGED <<mSourceData, mPeersOutgoingStats>>
    BY <1>2 DEF PeersOutgoing
  <2>2. Players' = Players
    BY <2>1 DEF Players
  <2>3. KeptInv'
    BY <2>1, <2>2, AllGo DEF IInv, KeptInv
  <2>4. SettingsInv'
    BY <2>2 DEF IInv, SettingsInv, fixedVars
  <2> QED
    BY <1>2, <2>1, <2>2, <2>3, <2>4 DEF IInv, PeersInv
<1>3. CASE PeersGetStats
  <2>1. PeersOutgoing /\ mPeersOutgoingTotal' = mPeersOutgoingTotal
    BY <1>3 DEF PeersGetStats
  <2>2. mPeersOutgoingTotal # Unset =>
          mPeersOutgoingTotal = SumOf(mPeersOutgoingStats')
    <3>1. CASE mPeersOutgoingTotal # Unset
      <4>1. /\ \A p \in Players : mSourceData[p].myTotal # Unset
            /\ mPeersOutgoingStats
                 = [p \in Players |-> mSourceData[p].myTotal]
            /\ mPeersOutgoingTotal = SumOf(mPeersOutgoingStats)
        BY <3>1 DEF IInv, PeersInv
      <4>2. mPeersOutgoingStats' = mPeersOutgoingStats
        <5>1. CASE mPeersOutgoingStats # Unset
          BY <2>1, <5>1 DEF PeersOutgoing
        <5>2. CASE mPeersOutgoingStats = Unset
          <6>1. \A p \in Players : Totalled(mSourceData[p]).myTotal
                                     = mSourceData[p].myTotal
            BY <4>1, TotalGoes DEF IInv, KeptInv, Goes
          <6>2. mPeersOutgoingStats'
                  = [p \in Players |-> Totalled(mSourceData[p]).myTotal]
            BY <2>1, <5>2 DEF PeersOutgoing
          <6> QED
            BY <4>1, <6>1, <6>2
        <5> QED
          BY <5>1, <5>2
      <4> QED
        BY <4>1, <4>2
    <3> QED
      BY <3>1
  <2> QED
    BY <1>1, <1>2, <2>1, <2>2 DEF IInv, PeersInv
<1>4. CASE PeersGetTotal
  <2>1. CASE mPeersOutgoingTotal # Unset
    <3>1. UNCHANGED <<mSourceData, peersVars>>
      BY <1>4, <2>1 DEF PeersGetTotal
    <3>2. Players' = Players
      BY <3>1 DEF Players
    <3>3. KeptInv'
      BY <3>1, <3>2, AllGo DEF IInv, KeptInv
    <3>4. SettingsInv' /\ PeersInv'
      BY <3>1, <3>2 DEF IInv, SettingsInv, PeersInv, fixedVars, peersVars
    <3> QED
      BY <3>3, <3>4 DEF IInv
  <2>2. CASE mPeersOutgoingTotal = Unset
    <3>1. /\ PeersOutgoing
          /\ mPeersOutgoingTotal' = SumOf(mPeersOutgoingStats')
      BY <1>4, <2>2 DEF PeersGetTotal
    <3> QED
      BY <1>1, <1>2, <3>1 DEF IInv, PeersInv
  <2> QED
    BY <2>1, <2>2
<1> QED
  BY <1>3, <1>4

(* Every step keeps the invariant. *)
LEMMA IInvNext ==
  IInv /\ [Next]_vars => IInv'
<1> SUFFICES ASSUME IInv, [Next]_vars PROVE IInv'
  OBVIOUS
<1>1. ASSUME UNCHANGED <<mSourceData, peersVars, fixedVars>>,
             myDamagingSkills' \in SUBSET Skills
      PROVE  IInv'
  <2>1. Players' = Players
    BY <1>1 DEF Players
  <2>2. KeptInv'
    BY <1>1, <2>1, AllGo DEF IInv, KeptInv
  <2>3. SettingsInv' /\ PeersInv'
    BY <1>1, <2>1 DEF IInv, SettingsInv, PeersInv, fixedVars, peersVars
  <2> QED
    BY <2>2, <2>3 DEF IInv
<1>2. CASE UNCHANGED vars
  BY <1>1, <1>2 DEF vars, IInv, SettingsInv
<1>3. CASE Ask /\ UNCHANGED fixedVars
  <2>1. UNCHANGED <<fixedVars, myDamagingSkills>>
    BY <1>3 DEF Ask
  <2>2. ASSUME NEW p \in Players, PeersGetDetails(p)
        PROVE  IInv'
    <3> DEFINE t == GetSkills(mSourceData[p], mOptions, myDamagingSkills,
                              mDebugMode)
    <3>1. /\ mSourceData' = [mSourceData EXCEPT ![p] = t]
          /\ UNCHANGED peersVars
      BY <2>2 DEF PeersGetDetails
    <3>2. Goes(mSourceData[p], t)
      BY SkillsGo DEF IInv, KeptInv
    <3> HIDE DEF t
    <3> QED
      BY <2>1, <3>1, <3>2, OneGoes
  <2> QED
    BY <1>3, <2>1, <2>2, LocalCalls, PeersCalls DEF Ask
<1>4. CASE SkillDoesDamage /\ UNCHANGED fixedVars
  BY <1>1, <1>4 DEF SkillDoesDamage, RegisterDamagingSkill, IInv, SettingsInv
<1> QED
  BY <1>2, <1>3, <1>4 DEF Next

(* Everything that AggregatedStats keeps, in every state, is what it would *)
(* compute from the snapshot with one of the tables of damaging skills,    *)
(* and the list of the players and its total agree with their totals       *)
(* (AggregatedStats.cpp:45-613, AggregatedStatsCollection.cpp:31-96).      *)
THEOREM CachesAreKept == Spec => []IInv
<1>1. Init => IInv
  BY IInvInit
<1>2. IInv /\ [Next]_vars => IInv'
  BY IInvNext
<1> QED
  BY <1>1, <1>2, PTL DEF Spec

-----------------------------------------------------------------------------
(* The invariant implies TotalsMatch. *)
LEMMA IInvGivesTotals == IInv => TotalsMatch
<1> SUFFICES ASSUME IInv, NEW p \in Players
             PROVE  LET s == mSourceData[p]
                        counted == Counted(s.mySourceData)
                    IN /\ s.myTotal # Unset /\ ~ mDebugMode =>
                            s.myTotal = counted
                       /\ s.mySkills # Unset /\ ~ mDebugMode =>
                            SumOf(s.mySkills) = counted
                       /\ s.myFilteredAgents # Unset =>
                            SumOf(s.myFilteredAgents) = counted
  BY DEF TotalsMatch
<1> DEFINE s == mSourceData[p]
           src == s.mySourceData
<1>1. Kept(s) /\ IsFight(src) /\ IsWindow(mOptions) /\ mDebugMode \in BOOLEAN
  BY DEF IInv, KeptInv, SettingsInv, Kept
<1> HIDE DEF s
<1>2. SumOf(AgentList(src, mOptions)) = Counted(src)
  BY <1>1, WholeListsAddUp
<1>3. ASSUME NEW D, ~ mDebugMode
      PROVE  SumOf(SkillList(src, mOptions, D, mDebugMode)) = Counted(src)
  BY <1>1, <1>3, WholeListsAddUp
<1>4. s.myTotal # Unset /\ ~ mDebugMode => s.myTotal = Counted(src)
  BY <1>1, <1>3 DEF Kept, TotalKept
<1>5. s.mySkills # Unset /\ ~ mDebugMode => SumOf(s.mySkills) = Counted(src)
  BY <1>1, <1>3 DEF Kept, SkillsKept
<1>6. s.myFilteredAgents # Unset => SumOf(s.myFilteredAgents) = Counted(src)
  BY <1>1, <1>2 DEF Kept, ListsKept
<1> QED
  BY <1>4, <1>5, <1>6 DEF s

(* The invariant implies DetailsAddUp. *)
LEMMA IInvGivesDetails == IInv => DetailsAddUp
<1> SUFFICES ASSUME IInv PROVE DetailsAddUp
  OBVIOUS
<1>1. ASSUME NEW p \in Players
      PROVE  LET s == mSourceData[p] IN
             /\ s.myFilteredAgents # Unset /\ ~ mDebugMode =>
                  \A a \in DOMAIN s.myFilteredAgents
                           \cap DOMAIN s.myAgentsDetailed :
                    SumOf(s.myAgentsDetailed[a]) = s.myFilteredAgents[a]
             /\ s.mySkills # Unset =>
                  \A k \in (DOMAIN s.mySkills \cap DOMAIN s.mySkillsDetailed)
                           \ {IndirectHealingSkillId} :
                    SumOf(s.mySkillsDetailed[k]) = s.mySkills[k]
  <2> DEFINE s == mSourceData[p]
             src == s.mySourceData
  <2>1. /\ Kept(s) /\ IsFight(src) /\ IsWindow(mOptions)
        /\ mDebugMode \in BOOLEAN
    BY DEF IInv, KeptInv, SettingsInv, Kept
  <2> HIDE DEF s
  <2>2. ASSUME s.myFilteredAgents # Unset, ~ mDebugMode,
               NEW a \in DOMAIN s.myFilteredAgents
                         \cap DOMAIN s.myAgentsDetailed
        PROVE  SumOf(s.myAgentsDetailed[a]) = s.myFilteredAgents[a]
    <3>1. s.myFilteredAgents = AgentList(src, mOptions)
      BY <2>1, <2>2 DEF Kept, ListsKept
    <3>2. PICK D \in SUBSET Skills :
            s.myAgentsDetailed[a]
              = SkillListOf(src, mOptions, a, D, mDebugMode)
      BY <2>1 DEF Kept, DetailsKept
    <3>3. mDebugMode = FALSE
      BY <2>1, <2>2
    <3>4. SumOf(SkillListOf(src, mOptions, a, D, FALSE))
            = AgentList(src, mOptions)[a]
      BY <2>1, <2>2, <3>1, SkillsOfAgentAddUp
    <3> QED
      BY <3>1, <3>2, <3>3, <3>4
  <2>3. ASSUME s.mySkills # Unset,
               NEW k \in (DOMAIN s.mySkills \cap DOMAIN s.mySkillsDetailed)
                         \ {IndirectHealingSkillId}
        PROVE  SumOf(s.mySkillsDetailed[k]) = s.mySkills[k]
    <3>1. PICK D \in SUBSET Skills :
            s.mySkills = SkillList(src, mOptions, D, mDebugMode)
      BY <2>1, <2>3 DEF Kept, SkillsKept
    <3>2. s.mySkillsDetailed[k] = AgentListOf(src, mOptions, k)
      BY <2>1 DEF Kept, DetailsKept
    <3>3. SumOf(AgentListOf(src, mOptions, k))
            = SkillList(src, mOptions, D, mDebugMode)[k]
      BY <2>1, <3>1, AgentsOfSkillAddUp
    <3> QED
      BY <3>1, <3>2, <3>3
  <2> QED
    BY <2>2, <2>3 DEF s
<1> QED
  BY <1>1 DEF DetailsAddUp, IInv, PeersInv

(* The invariant implies GroupsNest. *)
LEMMA IInvGivesGroups == IInv => GroupsNest
<1> SUFFICES ASSUME IInv, NEW p \in Players,
                    mSourceData[p].myGroupFilterTotals # Unset
             PROVE  LET g == mSourceData[p].myGroupFilterTotals
                        counted == Counted(mSourceData[p].mySourceData)
                    IN  /\ AtMost(g["Group"], g["Squad"])
                        /\ AtMost(g["Squad"], g["AllExcludingMinions"])
                        /\ AtMost(g["AllExcludingMinions"], g["All"])
                        /\ mOptions.ExcludeUnmapped => AtMost(counted, g["All"])
                        /\ \A f \in GroupFilters :
                             SameAgents(f) => counted = g[f]
  BY DEF GroupsNest
<1> DEFINE src == mSourceData[p].mySourceData
<1>1. /\ IsFight(src) /\ IsWindow(mOptions)
      /\ mSourceData[p].myGroupFilterTotals = GroupFilterTotals(src, mOptions)
  BY DEF IInv, KeptInv, SettingsInv, Kept, ListsKept
<1> QED
  BY <1>1, TotalsNest

(* The total and the lists of a player add up to the heals that count,     *)
(* whatever was asked for first and whichever skills were found to do      *)
(* damage in between (GetTotal, GetSkills, GetAgents).                     *)
THEOREM TotalsAlwaysMatch == Spec => []TotalsMatch
  BY CachesAreKept, IInvGivesTotals, PTL

(* Detail windows add up to the lines they were opened from, and the list  *)
(* of the players to its total (GetDetails, PeersOutgoing).                *)
THEOREM DetailsAlwaysAddUp == Spec => []DetailsAddUp
  BY CachesAreKept, IInvGivesDetails, PTL

(* The totals by group are nested and consistent with the window's own     *)
(* filters (GetGroupFilterTotals, FilterInternal).                         *)
THEOREM GroupsAlwaysNest == Spec => []GroupsNest
  BY CachesAreKept, IInvGivesGroups, PTL

(* The unsigned difference in GetCombatTime never wraps around.            *)
THEOREM NoFightEndsBeforeItStarts == Spec => []EndNotBeforeStart
<1>1. IInv => EndNotBeforeStart
  BY EndIsAfterStart DEF IInv, KeptInv, Kept, EndNotBeforeStart
<1> QED
  BY <1>1, CachesAreKept, PTL

=============================================================================
