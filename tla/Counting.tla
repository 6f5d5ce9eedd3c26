------------------------------ MODULE Counting ------------------------------
(* Facts about numbers of elements that the proofs on the registries share: one *)
(* element more or less, and the elements of a family of sets taken together.   *)
EXTENDS FiniteSetTheorems, FunctionTheorems, TLAPS

LEMMA OneMore ==
  ASSUME NEW S, IsFiniteSet(S), NEW x, NEW T, T \subseteq S \cup {x}
  PROVE  Cardinality(T) <= Cardinality(S) + 1
<1>1. IsFiniteSet(S \cup {x}) /\ Cardinality(S) \in Nat
  BY FS_AddElement, FS_CardinalityType
<1>2. Cardinality(S \cup {x}) = IF x \in S THEN Cardinality(S) ELSE Cardinality(S) + 1
  BY FS_AddElement
<1>3. IsFiniteSet(T) /\ Cardinality(T) <= Cardinality(S \cup {x})
  BY <1>1, FS_Subset
<1>4. Cardinality(T) \in Nat
  BY <1>3, FS_CardinalityType
<1>5. QED
  BY <1>1, <1>2, <1>3, <1>4

LEMMA OneLess ==
  ASSUME NEW S, IsFiniteSet(S), NEW x \in S
  PROVE  Cardinality(S \ {x}) = Cardinality(S) - 1
BY FS_RemoveElement

LEMMA PartOf ==
  ASSUME NEW S, IsFiniteSet(S), NEW T \in SUBSET S
  PROVE  IsFiniteSet(T) /\ Cardinality(T) \in Nat /\ Cardinality(T) <= Cardinality(S)
BY FS_Subset, FS_CardinalityType

\* What the indices in R hold of B, when i holds p[i].
Held(R, B, p) == {x \in R \X B : x[2] \in p[x[1]]}

LEMMA HeldFinite ==
  ASSUME NEW R, IsFiniteSet(R), NEW B, IsFiniteSet(B), NEW p
  PROVE  IsFiniteSet(Held(R, B, p)) /\ Cardinality(Held(R, B, p)) \in Nat
BY FS_Product, FS_Subset, FS_CardinalityType DEF Held

\* A set of at most c elements can be numbered from 1 to c.
LEMMA Numbered ==
  ASSUME NEW S, IsFiniteSet(S), NEW c \in Nat, Cardinality(S) <= c
  PROVE  \E g \in [S -> 1..c] : \A a, b \in S : g[a] = g[b] => a = b
<1>1. Cardinality(S) \in Nat /\ ExistsBijection(1..Cardinality(S), S)
  BY FS_CardinalityType
<1>2. PICK g : g \in Bijection(S, 1..Cardinality(S))
  BY <1>1, Fun_ExistsBijSymmetric DEF ExistsBijection
<1>3. g \in [S -> 1..Cardinality(S)] /\ \A a, b \in S : g[a] = g[b] => a = b
  BY <1>2 DEF Bijection, Injection, IsInjective
<1>4. g \in [S -> 1..c]
  BY <1>1, <1>3
<1>5. QED
  BY <1>3, <1>4

\* Holders of at most c each hold at most c times as many as there are holders.
LEMMA HeldBound ==
  ASSUME NEW R, IsFiniteSet(R), NEW B, NEW c \in Nat,
         NEW p \in [R -> SUBSET B],
         \A i \in R : IsFiniteSet(p[i]) /\ Cardinality(p[i]) <= c
  PROVE  Cardinality(Held(R, B, p)) <= Cardinality(R) * c
<1> DEFINE Fits(i, g) == /\ g \in [p[i] -> 1..c]
                         /\ \A a, b \in p[i] : g[a] = g[b] => a = b
           num == [i \in R |-> CHOOSE g : Fits(i, g)]
           h   == [x \in Held(R, B, p) |-> <<x[1], num[x[1]][x[2]]>>]
<1>1. ASSUME NEW i \in R PROVE Fits(i, num[i])
  <2>1. \E g : Fits(i, g)
    BY Numbered
  <2>2. num[i] = CHOOSE g : Fits(i, g)
    OBVIOUS
  <2> HIDE DEF num, Fits
  <2>3. QED
    BY <2>1, <2>2
<1> HIDE DEF num
<1>2. ASSUME NEW x \in Held(R, B, p)
      PROVE  /\ x[1] \in R /\ x[2] \in p[x[1]] /\ x = <<x[1], x[2]>>
             /\ h[x] = <<x[1], num[x[1]][x[2]]>> /\ num[x[1]][x[2]] \in 1..c
  <2>1. x[1] \in R /\ x[2] \in p[x[1]] /\ x = <<x[1], x[2]>>
    BY DEF Held
  <2>2. num[x[1]][x[2]] \in 1..c
    BY <1>1, <2>1
  <2>3. QED
    BY <2>1, <2>2
<1>3. h \in [Held(R, B, p) -> R \X (1..c)]
  BY <1>2
<1>4. ASSUME NEW x \in Held(R, B, p), NEW y \in Held(R, B, p), h[x] = h[y] PROVE x = y
  <2>1. x[1] = y[1] /\ num[x[1]][x[2]] = num[x[1]][y[2]]
    BY <1>2, <1>4
  <2>2. x[2] = y[2]
    <3>1. Fits(x[1], num[x[1]]) /\ x[2] \in p[x[1]] /\ y[2] \in p[x[1]]
      BY <1>1, <1>2, <2>1
    <3> HIDE DEF h
    <3>2. QED
      BY <2>1, <3>1
  <2>3. QED
    BY <1>2, <2>1, <2>2
<1>5. h \in Injection(Held(R, B, p), R \X (1..c))
  BY <1>3, <1>4 DEF Injection, IsInjective
<1>6. /\ IsFiniteSet(1..c) /\ Cardinality(1..c) = c
  BY FS_Interval
<1>7. /\ IsFiniteSet(R \X (1..c)) /\ Cardinality(R \X (1..c)) = Cardinality(R) * c
  BY <1>6, FS_Product
<1>8. QED
  BY <1>5, <1>7, FS_Injection

-----------------------------------------------------------------------------
(* A registry of slots G out of B, and for each of the threads R the slots p[i] *)
(* it has counted for itself and not yet used.                                  *)

Shares(R, B, c, G, p) ==
  /\ Cardinality(G) + Cardinality(Held(R, B, p)) <= Cardinality(R) * c
  /\ \A i \in R : Cardinality(p[i]) <= c

LEMMA SharesShrink ==
  ASSUME NEW R, IsFiniteSet(R), NEW B, IsFiniteSet(B), NEW c \in Nat,
         NEW G \in SUBSET B, NEW p \in [R -> SUBSET B], Shares(R, B, c, G, p),
         NEW H \in SUBSET G, NEW q \in [R -> SUBSET B],
         \A i \in R : q[i] \subseteq p[i]
  PROVE  Shares(R, B, c, H, q)
<1>1. Held(R, B, q) \subseteq Held(R, B, p)
  BY DEF Held
<1>2. /\ Cardinality(Held(R, B, q)) <= Cardinality(Held(R, B, p))
      /\ Cardinality(Held(R, B, q)) \in Nat /\ Cardinality(Held(R, B, p)) \in Nat
  BY <1>1, HeldFinite, FS_Subset
<1>3. /\ Cardinality(H) <= Cardinality(G)
      /\ Cardinality(H) \in Nat /\ Cardinality(G) \in Nat
  BY PartOf
<1>4. ASSUME NEW i \in R PROVE Cardinality(q[i]) <= c
  <2>1. /\ p[i] \in SUBSET B /\ q[i] \in SUBSET p[i] /\ Cardinality(p[i]) <= c
    BY DEF Shares
  <2>2. IsFiniteSet(p[i]) /\ Cardinality(p[i]) \in Nat
    BY <2>1, PartOf
  <2>3. Cardinality(q[i]) <= Cardinality(p[i]) /\ Cardinality(q[i]) \in Nat
    BY <2>1, <2>2, PartOf
  <2>4. QED
    BY <2>1, <2>2, <2>3
<1>5. Cardinality(R) * c \in Nat
  BY FS_CardinalityType
<1>6. QED
  BY <1>2, <1>3, <1>4, <1>5 DEF Shares

\* A thread counts what is left of c for itself; the others hold at most c each.
LEMMA SharesCounted ==
  ASSUME NEW R, IsFiniteSet(R), NEW B, IsFiniteSet(B), NEW c \in Nat,
         NEW G \in SUBSET B, NEW p \in [R -> SUBSET B],
         \A i \in R : Cardinality(p[i]) <= c,
         NEW r \in R, NEW S \in SUBSET B, Cardinality(S) + Cardinality(G) <= c
  PROVE  Shares(R, B, c, G, [p EXCEPT ![r] = S])
<1> DEFINE q      == [p EXCEPT ![r] = S]
           others == R \ {r}
           rest   == [i \in others |-> p[i]]
<1>1. q \in [R -> SUBSET B] /\ q[r] = S /\ \A i \in others : q[i] = p[i]
  OBVIOUS
<1>2. /\ IsFiniteSet(S) /\ Cardinality(S) \in Nat /\ Cardinality(G) \in Nat
      /\ Cardinality(R) \in Nat
  BY PartOf, FS_CardinalityType
<1>3. IsFiniteSet(others) /\ Cardinality(others) = Cardinality(R) - 1
  BY FS_RemoveElement
<1>4. Cardinality(Held(others, B, rest)) <= Cardinality(others) * c
  <2>1. \A i \in others : IsFiniteSet(rest[i]) /\ Cardinality(rest[i]) <= c
    BY PartOf
  <2>2. QED
    BY <1>3, <2>1, HeldBound
<1>5. IsFiniteSet({r} \X S) /\ Cardinality({r} \X S) = Cardinality(S)
  <2>1. Cardinality({r} \X S) = Cardinality({r}) * Cardinality(S)
    BY <1>2, FS_Singleton, FS_Product
  <2>2. Cardinality({r}) = 1 /\ IsFiniteSet({r} \X S)
    BY <1>2, FS_Singleton, FS_Product
  <2>3. QED
    BY <1>2, <2>1, <2>2
<1>6. Held(R, B, q) \subseteq Held(others, B, rest) \cup ({r} \X S)
  <2>1. ASSUME NEW x \in Held(R, B, q)
        PROVE  x \in Held(others, B, rest) \/ x \in {r} \X S
    <3>1. x[1] \in R /\ x[2] \in B /\ x[2] \in q[x[1]] /\ x = <<x[1], x[2]>>
      BY DEF Held
    <3>2. CASE x[1] = r
      BY <1>1, <3>1, <3>2
    <3>3. CASE x[1] # r
      BY <1>1, <3>1, <3>3 DEF Held
    <3>4. QED
      BY <3>2, <3>3
  <2>2. QED
    BY <2>1
<1>7. Cardinality(Held(R, B, q)) <=
        Cardinality(Held(others, B, rest)) + Cardinality({r} \X S)
  <2> DEFINE X == Held(others, B, rest)
             Y == {r} \X S
  <2>1. /\ IsFiniteSet(X) /\ IsFiniteSet(Y) /\ IsFiniteSet(X \cup Y)
        /\ Cardinality(X \cup Y) = Cardinality(X) + Cardinality(Y) - Cardinality(X \cap Y)
        /\ IsFiniteSet(X \cap Y)
    BY <1>3, <1>5, HeldFinite, FS_Union, FS_Intersection
  <2>2. Cardinality(Held(R, B, q)) <= Cardinality(X \cup Y)
    BY <1>6, <2>1, FS_Subset
  <2>3. /\ Cardinality(X) \in Nat /\ Cardinality(Y) \in Nat
        /\ Cardinality(X \cap Y) \in Nat /\ Cardinality(X \cup Y) \in Nat
        /\ Cardinality(Held(R, B, q)) \in Nat
    BY <2>1, HeldFinite, FS_CardinalityType
  <2> HIDE DEF X, Y
  <2>4. QED
    BY <2>1, <2>2, <2>3 DEF X, Y
<1>8. Cardinality(G) + Cardinality(Held(R, B, q)) <= Cardinality(R) * c
  <2>1. /\ Cardinality(Held(R, B, q)) \in Nat
        /\ Cardinality(Held(others, B, rest)) \in Nat
    BY <1>3, HeldFinite
  <2>2. \A n \in Nat : n * c + c = (n + 1) * c /\ n * c \in Nat
    OBVIOUS
  <2>3. Cardinality(others) * c + c = Cardinality(R) * c
        /\ Cardinality(others) * c \in Nat
    <3>1. Cardinality(others) \in Nat /\ Cardinality(R) = Cardinality(others) + 1
      BY <1>2, <1>3, FS_CardinalityType
    <3>2. QED
      BY <2>2, <3>1
  <2> DEFINE product == Cardinality(others) * c
  <2> HIDE DEF product, q, others, rest
  <2>4. QED
    BY <1>2, <1>4, <1>5, <1>7, <2>1, <2>3 DEF product
<1>9. \A i \in R : Cardinality(q[i]) <= c
  BY <1>1, <1>2
<1>10. QED
  BY <1>8, <1>9 DEF Shares

\* The same for threads that keep within their shares, or for a thread that takes none.
LEMMA SharesCount ==
  ASSUME NEW R, IsFiniteSet(R), NEW B, IsFiniteSet(B), NEW c \in Nat,
         NEW G \in SUBSET B, NEW p \in [R -> SUBSET B], Shares(R, B, c, G, p),
         NEW r \in R, NEW S \in SUBSET B,
         S = {} \/ Cardinality(S) + Cardinality(G) <= c
  PROVE  Shares(R, B, c, G, [p EXCEPT ![r] = S])
<1>1. CASE S = {}
  BY <1>1, SharesShrink
<1>2. CASE Cardinality(S) + Cardinality(G) <= c
  BY <1>2, SharesCounted DEF Shares
<1>3. QED
  BY <1>1, <1>2

\* As above while some of the others, who have counted nothing, are each about to put
\* one slot back into the registry: that counts as there already.
LEMMA SharesCountAhead ==
  ASSUME NEW R, IsFiniteSet(R), NEW B, IsFiniteSet(B), NEW c \in Nat \ {0},
         NEW G \in SUBSET B, NEW p \in [R -> SUBSET B], NEW k \in [R -> SUBSET B],
         \A i \in R : Cardinality(p[i]) <= c,
         \A i \in R : k[i] = {} \/ (p[i] = {} /\ \E x : k[i] = {x}),
         NEW r \in R, k[r] = {},
         NEW S \in SUBSET B, Cardinality(S) + Cardinality(G) <= c,
         NEW P, P = {b \in B : \E i \in R : b \in k[i]}
  PROVE  Shares(R, B, c, G \cup P, [p EXCEPT ![r] = S])
<1> DEFINE t == [i \in R |-> p[i] \cup k[i]]
           Y == Held(R, B, [t EXCEPT ![r] = S])
           Z == Held(R, B, [p EXCEPT ![r] = S])
           K == Held(R, B, k)
<1>1. ASSUME NEW i \in R PROVE t[i] \in SUBSET B /\ Cardinality(t[i]) <= c
  <2>1. CASE k[i] = {}
    <3>1. t[i] = p[i]
      BY <2>1
    <3>2. QED
      BY <3>1
  <2>2. CASE k[i] # {}
    <3>1. PICK x : t[i] = {x}
      BY <2>2
    <3>2. Cardinality(t[i]) = 1
      BY <3>1, FS_Singleton
    <3>3. QED
      BY <3>2
  <2>3. QED
    BY <2>1, <2>2
<1>2. /\ Cardinality(G) + Cardinality(Y) <= Cardinality(R) * c
      /\ \A i \in R : Cardinality([p EXCEPT ![r] = S][i]) <= c
  <2>1. t \in [R -> SUBSET B] /\ \A i \in R : Cardinality(t[i]) <= c
    BY <1>1
  <2>2. Shares(R, B, c, G, [t EXCEPT ![r] = S])
    BY <2>1, SharesCounted
  <2>3. Shares(R, B, c, G, [p EXCEPT ![r] = S])
    BY SharesCounted
  <2>4. QED
    BY <2>2, <2>3 DEF Shares
<1>3. Y = Z \cup K /\ Z \cap K = {}
  <2>1. ASSUME NEW x \in R \X B
        PROVE  /\ x \in Y <=> x \in Z \/ x \in K
               /\ ~(x \in Z /\ x \in K)
    <3>1. CASE x[1] = r
      BY <3>1 DEF Held
    <3>2. CASE x[1] # r
      BY <3>2 DEF Held
    <3>3. QED
      BY <3>1, <3>2
  <2>2. Y \subseteq R \X B /\ Z \subseteq R \X B /\ K \subseteq R \X B
    BY DEF Held
  <2> HIDE DEF Y, Z, K
  <2>3. QED
    BY <2>1, <2>2
<1>4. /\ IsFiniteSet(Z) /\ IsFiniteSet(K) /\ Cardinality(Z) \in Nat
      /\ Cardinality(K) \in Nat
  BY HeldFinite
<1>5. Cardinality(P) <= Cardinality(K)
  <2> DEFINE h == [b \in P |-> <<CHOOSE i \in R : b \in k[i], b>>]
  <2>1. ASSUME NEW b \in P PROVE h[b] \in K /\ h[b][2] = b
    BY DEF Held
  <2>2. h \in [P -> K]
    BY <2>1
  <2>3. \A a, b \in P : h[a] = h[b] => a = b
    BY <2>1
  <2> HIDE DEF h, K
  <2>4. h \in Injection(P, K)
    BY <2>2, <2>3 DEF Injection, IsInjective
  <2>5. QED
    BY <1>4, <2>4, FS_Injection
<1>6. /\ Cardinality(G \cup P) <= Cardinality(G) + Cardinality(P)
      /\ Cardinality(G \cup P) \in Nat /\ Cardinality(G) \in Nat /\ Cardinality(P) \in Nat
  <2>1. IsFiniteSet(G) /\ IsFiniteSet(P) /\ IsFiniteSet(G \cap P)
    BY FS_Subset, FS_Intersection
  <2>2. /\ Cardinality(G \cup P) = Cardinality(G) + Cardinality(P) - Cardinality(G \cap P)
        /\ IsFiniteSet(G \cup P)
    BY <2>1, FS_Union
  <2>3. QED
    BY <2>1, <2>2, FS_CardinalityType
<1>7. Cardinality(Y) = Cardinality(Z) + Cardinality(K)
  <2>1. /\ Cardinality(Z \cup K) = Cardinality(Z) + Cardinality(K) - Cardinality(Z \cap K)
        /\ Cardinality(Z \cap K) = 0
    BY <1>3, <1>4, FS_Union, FS_EmptySet
  <2> HIDE DEF Y, Z, K
  <2>2. QED
    BY <1>3, <1>4, <2>1
<1>8. Cardinality(R) * c \in Nat
  BY FS_CardinalityType
<1> HIDE DEF Y, K
<1>9. Cardinality(G \cup P) + Cardinality(Z) <= Cardinality(R) * c
  <2> HIDE DEF Z
  <2>1. QED
    BY <1>2, <1>4, <1>5, <1>6, <1>7, <1>8
<1>10. QED
  BY <1>2, <1>9 DEF Shares

\* A thread uses one of the slots it counted.
LEMMA SharesUse ==
  ASSUME NEW R, IsFiniteSet(R), NEW B, IsFiniteSet(B), NEW c \in Nat,
         NEW G \in SUBSET B, NEW p \in [R -> SUBSET B], Shares(R, B, c, G, p),
         NEW r \in R, NEW b \in p[r], NEW H \in SUBSET B, H \subseteq G \cup {b}
  PROVE  Shares(R, B, c, H, [p EXCEPT ![r] = @ \ {b}])
<1> SUFFICES ASSUME NEW q, q = [p EXCEPT ![r] = @ \ {b}]
             PROVE  Shares(R, B, c, H, q)
  OBVIOUS
<1>1. q \in [R -> SUBSET B] /\ q[r] = p[r] \ {b} /\ \A i \in R \ {r} : q[i] = p[i]
  OBVIOUS
<1>2. /\ IsFiniteSet(G) /\ Cardinality(G) \in Nat /\ Cardinality(H) \in Nat
      /\ Cardinality(H) <= Cardinality(G) + 1
  BY PartOf, OneMore
<1>3. <<r, b>> \in Held(R, B, p) /\ Held(R, B, q) \subseteq Held(R, B, p) \ {<<r, b>>}
  BY <1>1 DEF Held
<1>4. /\ IsFiniteSet(Held(R, B, p)) /\ Cardinality(Held(R, B, p)) \in Nat
      /\ Cardinality(Held(R, B, q)) \in Nat
  BY HeldFinite
<1>5. Cardinality(Held(R, B, p) \ {<<r, b>>}) = Cardinality(Held(R, B, p)) - 1
  BY <1>3, <1>4, OneLess
<1>6. Cardinality(Held(R, B, q)) <= Cardinality(Held(R, B, p) \ {<<r, b>>})
  <2>1. IsFiniteSet(Held(R, B, p) \ {<<r, b>>})
    BY <1>4, FS_RemoveElement
  <2>2. QED
    BY <1>3, <2>1, FS_Subset
<1>7. \A i \in R : Cardinality(q[i]) <= c
  <2>1. Shares(R, B, c, G, q)
    BY <1>1, SharesShrink
  <2>2. QED
    BY <2>1 DEF Shares
<1>8. Cardinality(R) * c \in Nat
  BY FS_CardinalityType
<1>9. Cardinality(H) + Cardinality(Held(R, B, q)) <= Cardinality(R) * c
  BY <1>2, <1>4, <1>5, <1>6, <1>8 DEF Shares
<1>10. QED
  BY <1>7, <1>9 DEF Shares

=============================================================================
