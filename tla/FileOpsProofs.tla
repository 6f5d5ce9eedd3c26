--------------------------- MODULE FileOpsProofs ---------------------------
(***************************************************************************)
(* What TLAPS proves of FileOps, for every value of the constants: its     *)
(* type, and that the index lists what is on the disk.                     *)
(*                                                                         *)
(* IInv is the type with what it rests on.  Order is what a request may    *)
(* count on while no mishap has happened.  AllServed says that each file   *)
(* has a row or is to get one, Exact that each row has a file or is to     *)
(* lose its place, and that no two rows have one place.                    *)
(***************************************************************************)
EXTENDS FileOps, SequenceTheorems, FiniteSetTheorems, WellFoundedInduction, TLAPS

LEMMA LeastOf ==
  ASSUME NEW N \in SUBSET Nat, N # {}
  PROVE  \E n \in N : \A m \in N : n <= m
<1> DEFINE Less == {ss \in Nat \X Nat : ss[1] < ss[2]}
<1>1. IsWellFoundedOn(Less, Nat)
  BY NatLessThanWellFounded DEF OpToRel
<1>2. PICK n \in N : \A m \in N : <<m, n>> \notin Less
  BY <1>1, WFMin
<1>3. \A m \in N : m \in Nat /\ n \in Nat /\ ~(m < n)
  BY <1>2
<1>4. QED
  BY <1>3

-----------------------------------------------------------------------------
(* Paths *)

Path == Seq(STRING)

\* What of q comes after its prefix p.
Rest(p, q) == SubSeq(q, Len(p) + 1, Len(q))

LEMMA UnderPointwise ==
  ASSUME NEW p \in Path, NEW q \in Path
  PROVE  Under(p, q) <=> /\ Len(p) <= Len(q)
                         /\ \A i \in 1 .. Len(p) : q[i] = p[i]
<1> USE DEF Path
<1>1. Len(p) \in Nat /\ Len(q) \in Nat /\ SubSeq(p, 1, Len(p)) = p
  BY LenProperties, SubSeqFull
<1>2. CASE Len(p) <= Len(q)
  <2>1. \A i \in 1 .. Len(p) : q[i] \in STRING
    BY <1>1, <1>2, ElementOfSeq
  <2>2. /\ SubSeq(q, 1, Len(p)) \in Seq(STRING) /\ Len(SubSeq(q, 1, Len(p))) = Len(p)
        /\ \A i \in 1 .. Len(p) : SubSeq(q, 1, Len(p))[i] = q[i]
    <3>1. /\ SubSeq(q, 1, Len(p)) \in Seq(STRING)
          /\ Len(SubSeq(q, 1, Len(p))) = IF 1 <= Len(p) THEN Len(p) - 1 + 1 ELSE 0
          /\ \A i \in 1 .. Len(p) - 1 + 1 : SubSeq(q, 1, Len(p))[i] = q[1 + i - 1]
      BY <1>1, <2>1, SubSeqProperties
    <3>2. \A i \in 1 .. Len(p) : SubSeq(q, 1, Len(p))[i] = q[i]
      <4> TAKE i \in 1 .. Len(p)
      <4>1. i \in 1 .. Len(p) - 1 + 1 /\ 1 + i - 1 = i
        BY <1>1
      <4>2. QED
        BY <3>1, <4>1
    <3>3. QED
      BY <1>1, <3>1, <3>2
  <2>3. (\A i \in 1 .. Len(p) : SubSeq(q, 1, Len(p))[i] = p[i]) => SubSeq(q, 1, Len(p)) = p
    BY <2>2, SeqEqual
  <2>4. QED
    BY <1>1, <1>2, <2>2, <2>3 DEF Under, IsPrefix
<1>3. CASE ~(Len(p) <= Len(q))
  BY <1>3 DEF Under, IsPrefix
<1>4. QED
  BY <1>2, <1>3

LEMMA UnderSelf == ASSUME NEW p \in Path PROVE Under(p, p)
BY UnderPointwise, LenProperties DEF Path

LEMMA UnderTransitive ==
  ASSUME NEW p \in Path, NEW q \in Path, NEW r \in Path, Under(p, q), Under(q, r)
  PROVE  Under(p, r)
<1>1. Len(p) \in Nat /\ Len(q) \in Nat /\ Len(r) \in Nat
  BY LenProperties DEF Path
<1>2. QED
  BY <1>1, UnderPointwise

\* Of two folders on the way to a third the shorter path is on the way to the longer.
LEMMA OneWay ==
  ASSUME NEW p \in Path, NEW q \in Path, NEW r \in Path, Under(p, r), Under(q, r),
         Len(p) <= Len(q)
  PROVE  Under(p, q)
<1>1. Len(p) \in Nat /\ Len(q) \in Nat /\ Len(r) \in Nat
  BY LenProperties DEF Path
<1>2. QED
  BY <1>1, UnderPointwise

LEMMA SameLength ==
  ASSUME NEW p \in Path, NEW q \in Path, Under(p, q), Len(p) = Len(q)
  PROVE  p = q
<1>1. \A i \in 1 .. Len(p) : p[i] = q[i]
  BY UnderPointwise
<1>2. QED
  BY <1>1, SeqEqual DEF Path

LEMMA PartPath ==
  ASSUME NEW q \in Path, NEW i \in Nat, NEW j \in Nat, 1 <= i, j <= Len(q)
  PROVE  /\ SubSeq(q, i, j) \in Path
         /\ Len(SubSeq(q, i, j)) = IF i <= j THEN j - i + 1 ELSE 0
         /\ \A k \in 1 .. j - i + 1 : SubSeq(q, i, j)[k] = q[i + k - 1]
<1>1. Len(q) \in Nat
  BY LenProperties DEF Path
<1>2. \A k \in i .. j : q[k] \in STRING
  BY <1>1, ElementOfSeq DEF Path
<1>3. QED
  BY <1>2, SubSeqProperties DEF Path

LEMMA RestIsRest ==
  ASSUME NEW p \in Path, NEW q \in Path, Under(p, q)
  PROVE  /\ Rest(p, q) \in Path /\ Len(Rest(p, q)) = Len(q) - Len(p)
         /\ p \o Rest(p, q) = q
<1>1. Len(p) \in Nat /\ Len(q) \in Nat /\ Len(p) <= Len(q)
  BY LenProperties, UnderPointwise DEF Path
<1>2. Len(p) + 1 \in Nat /\ 1 <= Len(p) + 1 /\ Len(q) <= Len(q)
  BY <1>1
<1>3. /\ Rest(p, q) \in Path
      /\ Len(Rest(p, q)) = IF Len(p) + 1 <= Len(q) THEN Len(q) - (Len(p) + 1) + 1 ELSE 0
      /\ \A k \in 1 .. Len(q) - (Len(p) + 1) + 1 : Rest(p, q)[k] = q[Len(p) + 1 + k - 1]
  BY <1>1, <1>2, PartPath DEF Rest
<1>4. Len(Rest(p, q)) = Len(q) - Len(p)
  BY <1>1, <1>3
<1>5. /\ p \o Rest(p, q) \in Path /\ Len(p \o Rest(p, q)) = Len(p) + Len(Rest(p, q))
      /\ \A i \in 1 .. Len(p) + Len(Rest(p, q)) : (p \o Rest(p, q))[i] =
           IF i <= Len(p) THEN p[i] ELSE Rest(p, q)[i - Len(p)]
  BY <1>3, ConcatProperties DEF Path
<1>6. \A i \in 1 .. Len(q) : (p \o Rest(p, q))[i] = q[i]
  <2> SUFFICES ASSUME NEW i \in 1 .. Len(q) PROVE (p \o Rest(p, q))[i] = q[i]
    OBVIOUS
  <2>1. CASE i <= Len(p)
    BY <1>1, <1>4, <1>5, <2>1, UnderPointwise
  <2>2. CASE ~(i <= Len(p))
    <3>1. /\ i - Len(p) \in 1 .. Len(q) - (Len(p) + 1) + 1
          /\ Len(p) + 1 + (i - Len(p)) - 1 = i /\ i \in 1 .. Len(p) + Len(Rest(p, q))
      BY <1>1, <1>4, <2>2
    <3>2. Rest(p, q)[i - Len(p)] = q[i]
      BY <1>3, <3>1
    <3>3. QED
      BY <1>5, <2>2, <3>1, <3>2
  <2>3. QED
    BY <2>1, <2>2
<1>7. p \o Rest(p, q) = q
  <2>1. Len(p \o Rest(p, q)) = Len(q)
    BY <1>1, <1>4, <1>5
  <2>2. \A t \in Seq(STRING) : Len(t) = Len(q) /\ (\A i \in 1 .. Len(q) : t[i] = q[i]) => t = q
    BY SeqEqual DEF Path
  <2>3. QED
    BY <1>5, <1>6, <2>1, <2>2 DEF Path
<1>8. QED
  BY <1>3, <1>4, <1>7

LEMMA RestOfConcat ==
  ASSUME NEW p \in Path, NEW s \in Path
  PROVE  /\ p \o s \in Path /\ Len(p \o s) = Len(p) + Len(s)
         /\ Under(p, p \o s) /\ Rest(p, p \o s) = s
<1>1. Len(p) \in Nat /\ Len(s) \in Nat
  BY LenProperties DEF Path
<1>2. /\ p \o s \in Path /\ Len(p \o s) = Len(p) + Len(s)
      /\ \A i \in 1 .. Len(p) + Len(s) : (p \o s)[i] =
           IF i <= Len(p) THEN p[i] ELSE s[i - Len(p)]
  BY ConcatProperties DEF Path
<1>3. Under(p, p \o s)
  <2> SUFFICES ASSUME NEW t \in Path, Len(t) = Len(p) + Len(s),
                      \A i \in 1 .. Len(p) + Len(s) : t[i] = IF i <= Len(p) THEN p[i] ELSE s[i - Len(p)]
               PROVE  Under(p, t)
    BY <1>2
  <2>1. QED
    BY <1>1, UnderPointwise
<1>4. Rest(p, p \o s) = s
  <2> SUFFICES ASSUME NEW t \in Path, Len(t) = Len(p) + Len(s), Under(p, t),
                      \A i \in 1 .. Len(p) + Len(s) : t[i] = IF i <= Len(p) THEN p[i] ELSE s[i - Len(p)]
               PROVE  Rest(p, t) = s
    BY <1>2, <1>3
  <2>1. Rest(p, t) \in Path /\ Len(Rest(p, t)) = Len(s)
    BY <1>1, RestIsRest
  <2>2. ASSUME NEW k \in 1 .. Len(s) PROVE Rest(p, t)[k] = s[k]
    <3>1. /\ Len(p) + 1 \in Nat /\ Len(t) \in Nat /\ k \in 1 .. Len(t) - (Len(p) + 1) + 1
          /\ Len(p) + 1 + k - 1 = Len(p) + k /\ 1 <= Len(p) + 1
      BY <1>1
    <3>2. Rest(p, t)[k] = t[Len(p) + k]
      BY <3>1, PartPath DEF Rest
    <3>3. QED
      BY <1>1, <3>2
  <2>3. QED
    BY <2>1, <2>2, SeqEqual DEF Path
<1>5. QED
  BY <1>2, <1>3, <1>4

\* One path after another, by a name the provers need not look behind.
Then(p, q) == p \o q

LEMMA OneAfterAnother ==
  ASSUME NEW p \in Path, NEW q \in Path, NEW r \in Path
  PROVE  Then(Then(p, q), r) = Then(p, Then(q, r))
<1>1. \A s, t, u \in Seq(STRING) : (s \o t) \o u = s \o (t \o u)
  BY ConcatAssociative
<1>2. QED
  BY SMTT(30), <1>1 DEF Path, Then

LEMMA ThenRest ==
  ASSUME NEW p \in Path, NEW q \in Path
  PROVE  /\ Then(p, q) \in Path /\ Under(p, Then(p, q)) /\ Rest(p, Then(p, q)) = q
         /\ Under(p, q) => Rest(p, q) \in Path /\ q = Then(p, Rest(p, q))
<1>1. Then(p, q) \in Path /\ Under(p, Then(p, q)) /\ Rest(p, Then(p, q)) = q
  BY RestOfConcat DEF Then
<1>2. ASSUME Under(p, q) PROVE Rest(p, q) \in Path /\ q = Then(p, Rest(p, q))
  BY <1>2, RestIsRest DEF Then
<1>3. QED
  BY <1>1, <1>2

\* The same way on from another folder.
LEMMA SameWayOn ==
  ASSUME NEW n \in Path, NEW p \in Path, NEW r \in Path, NEW q \in Path,
         Under(n, r), Under(r, q)
  PROVE  Under(p \o Rest(n, r), p \o Rest(n, q))
<1>1. PICK a \in Path, b \in Path : /\ a = Rest(n, r) /\ r = Then(n, a)
                                     /\ b = Rest(r, q) /\ q = Then(r, b)
  BY ThenRest
<1>2. Then(a, b) \in Path /\ Then(p, a) \in Path
  BY ThenRest
<1>3. q = Then(n, Then(a, b))
  BY <1>1, OneAfterAnother
<1>4. Rest(n, q) = Then(a, b)
  BY <1>2, <1>3, ThenRest
<1>5. Then(p, Rest(n, q)) = Then(Then(p, a), b)
  BY <1>4, OneAfterAnother
<1>6. Under(Then(p, a), Then(p, Rest(n, q)))
  BY <1>2, <1>5, ThenRest
<1>7. QED
  BY <1>1, <1>6 DEF Then

LEMMA FrontIsAbove ==
  ASSUME NEW n \in Path, n # <<>>
  PROVE  /\ Front(n) \in Path /\ Len(n) \in Nat \ {0} /\ Len(Front(n)) = Len(n) - 1
         /\ Under(Front(n), n)
         /\ \A r \in Path : Under(r, n) /\ Len(r) < Len(n) => Under(r, Front(n))
<1>1. Len(n) \in Nat \ {0}
  BY EmptySeq, LenProperties DEF Path
<1>2. /\ Front(n) \in Path /\ Len(Front(n)) = Len(n) - 1
      /\ \A k \in 1 .. Len(n) - 1 : Front(n)[k] = n[k]
  <2>1. /\ SubSeq(n, 1, Len(n) - 1) \in Path
        /\ Len(SubSeq(n, 1, Len(n) - 1)) = IF 1 <= Len(n) - 1 THEN Len(n) - 1 - 1 + 1 ELSE 0
        /\ \A k \in 1 .. Len(n) - 1 - 1 + 1 : SubSeq(n, 1, Len(n) - 1)[k] = n[1 + k - 1]
    <3>1. Len(n) - 1 \in Nat /\ 1 \in Nat /\ 1 <= 1 /\ Len(n) - 1 <= Len(n)
      BY <1>1
    <3>2. QED
      BY <3>1, PartPath
  <2>2. Len(SubSeq(n, 1, Len(n) - 1)) = Len(n) - 1
    <3>1. \A m \in Nat : m >= 1 => (IF 1 <= m - 1 THEN m - 1 - 1 + 1 ELSE 0) = m - 1
      OBVIOUS
    <3>2. Len(n) \in Nat /\ Len(n) >= 1
      BY <1>1
    <3>3. QED
      BY <2>1, <3>1, <3>2, Zenon
  <2>3. ASSUME NEW k \in 1 .. Len(n) - 1 PROVE SubSeq(n, 1, Len(n) - 1)[k] = n[k]
    <3>1. k \in 1 .. Len(n) - 1 - 1 + 1 /\ 1 + k - 1 = k
      BY <1>1
    <3>2. QED
      BY <2>1, <3>1
  <2>4. QED
    BY <2>1, <2>2, <2>3 DEF Front
<1>3. Under(Front(n), n)
  BY <1>1, <1>2, UnderPointwise
<1>4. ASSUME NEW r \in Path, Under(r, n), Len(r) < Len(n) PROVE Under(r, Front(n))
  <2>1. Len(r) \in Nat /\ Len(r) <= Len(Front(n))
    BY <1>1, <1>2, <1>4, LenProperties DEF Path
  <2>2. QED
    BY <1>2, <1>3, <1>4, <2>1, OneWay
<1>5. QED
  BY <1>1, <1>2, <1>3, <1>4

LEMMA FrontOfAppend ==
  ASSUME NEW n \in Path, NEW e \in STRING
  PROVE  /\ Append(n, e) \in Path /\ Append(n, e) # <<>> /\ Len(Append(n, e)) = Len(n) + 1
         /\ Front(Append(n, e)) = n
<1>1. ASSUME NEW S, NEW s \in Seq(S), NEW x \in S
      PROVE  /\ Append(s, x) \in Seq(S) /\ Append(s, x) # <<>>
             /\ Len(Append(s, x)) = Len(s) + 1
             /\ \A i \in 1 .. Len(s) : Append(s, x)[i] = s[i]
  BY AppendProperties
<1>2. /\ Append(n, e) \in Path /\ Append(n, e) # <<>> /\ Len(Append(n, e)) = Len(n) + 1
      /\ \A i \in 1 .. Len(n) : Append(n, e)[i] = n[i]
  BY <1>1, Zenon DEF Path
<1> SUFFICES ASSUME NEW t \in Path, t # <<>>, Len(t) = Len(n) + 1,
                    \A i \in 1 .. Len(n) : t[i] = n[i]
             PROVE  Front(t) = n
  BY <1>2, Zenon
<1>3. Front(t) \in Path /\ Len(Front(t)) = Len(n) /\ Under(Front(t), t) /\ Len(n) \in Nat
  BY FrontIsAbove, LenProperties DEF Path
<1>4. \A i \in 1 .. Len(n) : Front(t)[i] = n[i]
  BY <1>3, UnderPointwise
<1>5. QED
  BY <1>3, <1>4, SeqEqual DEF Path

LEMMA LastName == ASSUME NEW p \in Path, p # <<>> PROVE Last(p) \in STRING
BY ElementOfSeq, EmptySeq, LenProperties DEF Path, Last

-----------------------------------------------------------------------------
(* The paths that may be *)

LEMMA PathsArePaths ==
  ASSUME NEW p \in Paths
  PROVE  p \in Path /\ p # <<>> /\ Len(p) \in Nat \ {0}
<1>1. p \in Path /\ p # <<>>
  BY FileAssumption DEF Path, Absent
<1>2. QED
  BY <1>1, EmptySeq DEF Path

LEMMA PathsAreClosed ==
  ASSUME NEW p \in Paths, NEW q \in Path, q # <<>>, Under(q, p)
  PROVE  q \in Paths
<1>1. p \in Path /\ Len(p) \in Nat /\ Len(q) \in Nat \ {0} /\ Len(q) <= Len(p)
  BY PathsArePaths, UnderPointwise, EmptySeq DEF Path
<1>2. q = SubSeq(p, 1, Len(q))
  BY SubSeqFull DEF Under, IsPrefix, Path
<1>3. Len(q) \in 1 .. Len(p)
  BY <1>1
<1>4. QED
  BY <1>2, <1>3, FileAssumption

\* The first name of a path, and every folder on the way to one that is there at first.
LEMMA RootsAreClosed ==
  /\ \A p \in Roots, q \in Paths : Under(q, p) => q \in Roots
  /\ \A p \in Paths : Len(p) = 1 => p \in Roots
<1>1. ASSUME NEW p \in Roots, NEW q \in Paths, Under(q, p) PROVE q \in Roots
  <2>1. p \in Path /\ q \in Path /\ Len(p) \in Nat /\ Len(q) \in Nat \ {0} /\ Len(q) <= Len(p)
    BY <1>1, PathsArePaths, UnderPointwise, FileAssumption
  <2>2. q = SubSeq(p, 1, Len(q))
    BY <1>1, <2>1, SubSeqFull DEF Under, IsPrefix, Path
  <2>3. Len(q) \in 1 .. Len(p)
    BY <2>1
  <2>4. QED
    BY <2>2, <2>3, FileAssumption
<1>2. ASSUME NEW p \in Paths, Len(p) = 1 PROVE p \in Roots
  <2>1. p \in Path
    BY PathsArePaths
  <2>2. SubSeq(p, 1, 1) = p
    BY <1>2, <2>1, SubSeqFull DEF Path
  <2>3. QED
    BY <2>2, FileAssumption
<1>3. QED
  BY <1>1, <1>2

-----------------------------------------------------------------------------
(* Paths replaced in other paths *)

LEMMA FoundIsThere ==
  ASSUME NEW p \in Path, NEW q \in Path, Occurs(p, q)
  PROVE  /\ Min(Found(p, q)) \in Found(p, q) /\ Max(Found(p, q)) \in Found(p, q)
         /\ \A i \in Found(p, q) : /\ i \in Nat /\ i - 1 \in Nat /\ i - 1 <= Len(q)
                                   /\ i + Len(p) \in Nat /\ 1 <= i + Len(p)
<1>1. Len(p) \in Nat /\ Len(q) \in Nat
  BY LenProperties DEF Path
<1>2. /\ Found(p, q) \subseteq 1 .. Len(q) - Len(p) + 1 /\ Found(p, q) # {}
      /\ Found(p, q) \in SUBSET Nat
  <2>1. Found(p, q) \subseteq 1 .. Len(q) - Len(p) + 1
    BY Zenon DEF Found
  <2>2. 1 .. Len(q) - Len(p) + 1 \subseteq Nat
    BY <1>1
  <2>3. QED
    BY <2>1, <2>2 DEF Occurs
<1>3. \E i \in Found(p, q) : \A j \in Found(p, q) : i <= j
  BY <1>2, LeastOf
<1>4. \E i \in Found(p, q) : \A j \in Found(p, q) : i >= j
  <2> DEFINE top  == Len(q) + 1
             gaps == {top - i : i \in Found(p, q)}
  <2>1. gaps \in SUBSET Nat /\ gaps # {}
    BY <1>1, <1>2
  <2>2. PICK g \in gaps : \A h \in gaps : g <= h
    BY <2>1, LeastOf
  <2>3. PICK i \in Found(p, q) : g = top - i
    BY <2>2
  <2>4. ASSUME NEW j \in Found(p, q) PROVE i >= j
    <3>1. top - i <= top - j
      BY <2>2, <2>3
    <3>2. i \in Nat /\ j \in Nat
      BY <1>2
    <3>3. QED
      BY <1>1, <3>1, <3>2
  <2>5. QED
    BY <2>4
<1>5. \A i \in Found(p, q) : /\ i \in Nat /\ i - 1 \in Nat /\ i - 1 <= Len(q)
                             /\ i + Len(p) \in Nat /\ 1 <= i + Len(p)
  BY <1>1, <1>2
<1>6. QED
  BY <1>3, <1>4, <1>5 DEF Min, Max

LEMMA RenamedIsPath ==
  ASSUME NEW p \in Path, NEW n \in Path, NEW q \in Path, Occurs(p, q)
  PROVE  Renamed(p, n, q) \in Path
<1>1. PICK i \in Nat : /\ i = Min(Found(p, q)) /\ i - 1 \in Nat /\ i - 1 <= Len(q)
                       /\ i + Len(p) \in Nat /\ 1 <= i + Len(p)
  BY FoundIsThere
<1>2. Len(q) \in Nat
  BY LenProperties DEF Path
<1>3. SubSeq(q, 1, i - 1) \in Path /\ SubSeq(q, i + Len(p), Len(q)) \in Path
  BY <1>1, <1>2, PartPath
<1>4. SubSeq(q, 1, i - 1) \o n \in Path
  BY <1>3, RestOfConcat
<1>5. (SubSeq(q, 1, i - 1) \o n) \o SubSeq(q, i + Len(p), Len(q)) \in Path
  BY <1>3, <1>4, RestOfConcat
<1>6. QED
  BY <1>1, <1>5 DEF Renamed

LEMMA RehungIsPath ==
  ASSUME NEW p \in Path, p # <<>>, NEW n \in Path, NEW q \in Path, Occurs(p, q)
  PROVE  Rehung(p, n, q) \in Path
<1>1. PICK i \in Nat : /\ i = Max(Found(p, q)) /\ i + Len(p) \in Nat /\ 1 <= i + Len(p)
  BY FoundIsThere
<1>2. Len(q) \in Nat /\ Last(p) \in STRING
  BY LenProperties, LastName DEF Path
<1>3. SubSeq(q, i + Len(p), Len(q)) \in Path /\ <<Last(p)>> \in Path
  BY <1>1, <1>2, PartPath DEF Path
<1>4. n \o <<Last(p)>> \in Path
  BY <1>3, RestOfConcat
<1>5. (n \o <<Last(p)>>) \o SubSeq(q, i + Len(p), Len(q)) \in Path
  BY <1>3, <1>4, RestOfConcat
<1>6. QED
  BY <1>1, <1>5 DEF Rehung

-----------------------------------------------------------------------------
(* The inductive invariant: the type, and what it rests on *)

Names == OnFiles \cup {"photod", "photor", "photofo"}

\* A folder is in a folder that is there, and users keep their folders.
Tree ==
  /\ watch \in [Paths -> Paths \cup {Absent, Unwatched}]
  /\ \A p, q \in Paths : Exists(q) /\ Under(p, q) => Exists(p)
  /\ \A p \in Paths : Len(p) = 1 => Exists(p)

Stock ==
  /\ files \subseteq {l \in Places : Exists(l.dir)}
  /\ IsFiniteSet(files)

Index ==
  /\ rows \subseteq Object /\ lastId \in Nat
  /\ \A r, x \in rows : r.id = x.id => r = x
  /\ \A r \in rows : r.id <= lastId

Event == [kind : {"close", "delete", "create"},
          at : [dir : Path, file : Files \cup {NoFile}]]

Watcher ==
  /\ queue \in Seq(Event)
  /\ stage \in {"wait", "open", "select", "insert"}
  /\ stage = "open" => queue # <<>> /\ Head(queue).kind = "close"
  /\ inserting \in IF stage \in {"select", "insert"} THEN Places ELSE {NoPlace}

\* What each request has read and checked so far.
OfFile ==
  /\ op \in OnFiles /\ from \in Places /\ to \in Places
  /\ row \in Object /\ row.id <= lastId
  /\ op = "filerename" => to.dir = from.dir
  /\ op = "photom" => Exists(to.dir)

OfLoop ==
  /\ op \in {"photod", "photor", "photofo"}
  /\ from \in Paths /\ to \in Path /\ to # <<>>
  /\ \A r \in todo : r \in Object /\ r.id <= lastId
                     /\ (op # "photod" => Occurs(from, r.at.dir))

OfMove ==
  /\ Exists(from) /\ Len(from) > 1 /\ Front(to) \in Paths /\ Exists(Front(to))
  /\ ~Refused(from, to) => Movable(from, to)

Request ==
  /\ pc \in {"idle", "disk", "save", "twins", "query", "each", "move"}
  /\ todo \subseteq Object
  /\ pc \in {"disk", "save", "twins"} => OfFile
  /\ pc \in {"query", "each", "move"} => OfLoop
  /\ pc = "query" => op # "photofo"
  /\ pc = "move" => op = "photofo"
  /\ pc \in {"each", "move"} /\ op = "photofo" => OfMove

IInv == Tree /\ Stock /\ Index /\ Watcher /\ Request /\ ops \in Nat /\ changes \in Nat

LEMMA Typed == IInv => TypeOK
BY DEF IInv, Tree, Stock, Index, Watcher, Request, OfFile, Event, Path, TypeOK

-----------------------------------------------------------------------------
(* What happens to the tree *)

LEMMA Above ==
  ASSUME Tree, NEW q \in Paths, Exists(q), NEW p \in Path, p # <<>>, Under(p, q)
  PROVE  p \in Paths /\ Exists(p)
<1>1. p \in Paths
  BY PathsAreClosed
<1>2. QED
  BY <1>1 DEF Tree

LEMMA FolderMoves ==
  ASSUME Tree, Stock, NEW p \in Paths, Exists(p), Len(p) > 1,
         NEW n \in Path, n # <<>>, Len(n) > 1, Front(n) \in Paths, Exists(Front(n)),
         ~(n \in Paths /\ Exists(n)), ~Under(p, n), Movable(p, n), MoveFolder(p, n)
  PROVE  Tree' /\ Stock'
<1> DEFINE back(q) == p \o Rest(n, q)
<1>a. p \in Path /\ p # <<>> /\ Len(p) \in Nat /\ Len(n) \in Nat
  BY PathsArePaths, LenProperties DEF Path
<1>b. /\ \A q \in Paths : watch'[q] = IF Under(n, q) /\ back(q) \in Paths THEN watch[back(q)]
                                      ELSE IF Under(p, q) THEN Absent ELSE watch[q]
      /\ DOMAIN watch' = Paths /\ watch' = [q \in Paths |-> watch'[q]]
      /\ files' = {IF Under(p, l.dir) THEN [l EXCEPT !.dir = n \o Rest(p, @)] ELSE l : l \in files}
  BY DEF MoveFolder, Rest
<1>c. ASSUME NEW q \in Paths, Under(n, q) PROVE back(q) \in Path /\ Under(p, back(q)) /\ back(q) # <<>>
  <2>1. q \in Path /\ Rest(n, q) \in Path
    BY <1>c, PathsArePaths, RestIsRest
  <2>2. back(q) \in Path /\ Under(p, back(q)) /\ Len(back(q)) = Len(p) + Len(Rest(n, q))
    BY <1>a, <2>1, RestOfConcat
  <2>3. Len(Rest(n, q)) \in Nat /\ Len(<<>>) = 0
    BY <2>1, LenProperties, EmptySeq DEF Path
  <2>4. Len(back(q)) # 0
    BY <1>a, <2>2, <2>3
  <2>5. QED
    BY <2>2, <2>3, <2>4
<1>1. ~Under(n, p)
  BY Above, <1>a
<1>2. ASSUME NEW q \in Paths, Under(n, q) PROVE ~Exists(q) /\ ~Under(p, q)
  <2>1. q \in Path
    BY PathsArePaths
  <2>2. ~Exists(q)
    BY <1>2, Above
  <2>3. Under(p, q) => Under(p, n) \/ Under(n, p)
    <3>1. Len(p) <= Len(n) \/ Len(n) <= Len(p)
      BY <1>a
    <3>2. QED
      BY <1>2, <1>a, <2>1, <3>1, OneWay
  <2>4. QED
    BY <1>1, <2>2, <2>3
<1>3. ASSUME NEW q \in Paths
      PROVE  Exists(q)' <=> \/ Under(n, q) /\ back(q) \in Paths /\ Exists(back(q))
                            \/ ~Under(p, q) /\ Exists(q)
  BY <1>b, <1>2 DEF Exists
<1> HIDE DEF back
<1>4. watch' \in [Paths -> Paths \cup {Absent, Unwatched}]
  <2>1. ASSUME NEW q \in Paths PROVE watch'[q] \in Paths \cup {Absent, Unwatched}
    BY <1>b DEF Tree
  <2>2. QED
    BY <1>b, <2>1
<1>5. ASSUME NEW r \in Paths, NEW q \in Paths, Exists(q)', Under(r, q) PROVE Exists(r)'
  <2>0. r \in Path /\ q \in Path /\ r # <<>> /\ Len(r) \in Nat
    BY PathsArePaths
  <2>1. CASE Under(n, q) /\ back(q) \in Paths /\ Exists(back(q)) /\ Len(n) <= Len(r)
    <3>1. Under(n, r)
      BY <1>5, <2>0, <2>1, OneWay
    <3>2. Under(back(r), back(q))
      BY <1>5, <1>a, <2>0, <3>1, SameWayOn DEF back
    <3>3. back(r) \in Paths /\ Exists(back(r))
      BY <1>c, <2>1, <3>1, <3>2, Above
    <3>4. QED
      BY <1>3, <3>1, <3>3
  <2>2. CASE Under(n, q) /\ Len(r) < Len(n)
    <3>1. Under(r, n)
      BY <1>5, <1>a, <2>0, <2>2, OneWay
    <3>2. Under(r, Front(n))
      BY <2>0, <2>2, <3>1, FrontIsAbove
    <3>3. Exists(r)
      BY <2>0, <3>2, Above
    <3>4. ~Under(p, r)
      BY <1>a, <2>0, <3>1, UnderTransitive
    <3>5. QED
      BY <1>3, <3>3, <3>4
  <2>3. CASE ~Under(p, q) /\ Exists(q)
    <3>1. Exists(r) /\ ~Under(p, r)
      BY <1>5, <1>a, <2>0, <2>3, Above, UnderTransitive
    <3>2. QED
      BY <1>3, <3>1
  <2>4. QED
    BY <1>3, <1>5, <1>a, <2>0, <2>1, <2>2, <2>3
<1>6. ASSUME NEW q \in Paths, Len(q) = 1 PROVE Exists(q)'
  <2>1. Exists(q) /\ q \in Path
    BY <1>6, PathsArePaths DEF Tree
  <2>2. ~Under(p, q)
    BY <1>6, <1>a, <2>1, UnderPointwise
  <2>3. QED
    BY <1>3, <2>1, <2>2
<1> DEFINE g(l) == IF Under(p, l.dir) THEN [l EXCEPT !.dir = n \o Rest(p, @)] ELSE l
<1>7. ASSUME NEW l \in files PROVE g(l) \in Places /\ Exists(g(l).dir)'
  <2>0. l \in Places /\ l.dir \in Paths /\ Exists(l.dir) /\ l.file \in Files /\ l.dir \in Path
    BY PathsArePaths DEF Stock, Places
  <2>1. CASE ~Under(p, l.dir)
    <3>1. g(l) = l
      BY <2>1
    <3>2. QED
      BY <1>3, <2>0, <2>1, <3>1
  <2>2. CASE Under(p, l.dir)
    <3> DEFINE d == n \o Rest(p, l.dir)
    <3>1. d \in Paths
      BY <2>0, <2>2 DEF Movable, Rest
    <3>2. Rest(p, l.dir) \in Path /\ p \o Rest(p, l.dir) = l.dir
      BY <1>a, <2>0, <2>2, RestIsRest
    <3>3. Under(n, d) /\ Rest(n, d) = Rest(p, l.dir)
      BY <3>2, RestOfConcat
    <3>4. back(d) = l.dir
      BY <3>2, <3>3 DEF back
    <3>5. Exists(d)'
      BY <1>3, <2>0, <3>1, <3>3, <3>4
    <3>6. g(l) = [dir |-> d, file |-> l.file]
      BY <2>0, <2>2 DEF Places
    <3> HIDE DEF d, g
    <3>7. QED
      BY <2>0, <3>1, <3>5, <3>6 DEF Places
  <2>3. QED
    BY <2>1, <2>2
<1>8. files' = {g(l) : l \in files}
  BY <1>b
<1> HIDE DEF g
<1>9. IsFiniteSet(files')
  <2> DEFINE f == [l \in files |-> g(l)]
  <2>1. f \in Surjection(files, files')
    BY <1>8 DEF Surjection
  <2>2. QED
    BY <2>1, FS_Surjection DEF Stock
<1>10. files' \subseteq {l \in Places : Exists(l.dir)'}
  BY <1>7, <1>8
<1>11. QED
  BY <1>4, <1>5, <1>6, <1>9, <1>10 DEF Tree, Stock

\* A change of the folders that there are, at q only.
LEMMA FolderGoes ==
  ASSUME Tree, Stock, NEW p \in Paths, Len(p) > 1,
         watch' = [q \in Paths |-> IF Under(p, q) THEN Absent ELSE watch[q]],
         files' = files \ {l \in files : Under(p, l.dir)}
  PROVE  Tree' /\ Stock'
<1>1. \A q \in Paths : Exists(q)' <=> ~Under(p, q) /\ Exists(q)
  BY DEF Exists
<1>2. watch' \in [Paths -> Paths \cup {Absent, Unwatched}]
  BY DEF Tree
<1>3. ASSUME NEW r \in Paths, NEW q \in Paths, Exists(q)', Under(r, q) PROVE Exists(r)'
  <2>1. Exists(q) /\ Exists(r) /\ ~Under(p, q)
    BY <1>1, <1>3 DEF Tree
  <2>2. ~Under(p, r)
    BY <1>3, <2>1, PathsArePaths, UnderTransitive
  <2>3. QED
    BY <1>1, <2>1, <2>2
<1>4. ASSUME NEW q \in Paths, Len(q) = 1 PROVE Exists(q)'
  <2>1. p \in Path /\ q \in Path /\ Len(p) \in Nat
    BY PathsArePaths
  <2>2. ~Under(p, q) /\ Exists(q)
    BY <1>4, <2>1, UnderPointwise DEF Tree
  <2>3. QED
    BY <1>1, <2>2
<1>5. IsFiniteSet(files')
  BY FS_Subset DEF Stock
<1>6. files' \subseteq {l \in Places : Exists(l.dir)'}
  <2>1. \A l \in files : l \in Places /\ l.dir \in Paths /\ Exists(l.dir)
    BY DEF Stock, Places
  <2>2. QED
    BY <1>1, <2>1
<1>7. QED
  BY <1>2, <1>3, <1>4, <1>5, <1>6 DEF Tree, Stock

LEMMA FolderComes ==
  ASSUME Tree, Stock, NEW p \in Paths,
         watch' = [q \in Paths |-> IF Under(q, p) /\ ~Exists(q) THEN Unwatched ELSE watch[q]],
         files' = files
  PROVE  Tree' /\ Stock'
<1>1. \A q \in Paths : Exists(q)' <=> Under(q, p) \/ Exists(q)
  BY FileAssumption DEF Exists, Absent, Unwatched
<1>2. watch' \in [Paths -> Paths \cup {Absent, Unwatched}]
  BY DEF Tree
<1>3. ASSUME NEW r \in Paths, NEW q \in Paths, Exists(q)', Under(r, q) PROVE Exists(r)'
  <2>1. Under(q, p) => Under(r, p)
    BY <1>3, PathsArePaths, UnderTransitive
  <2>2. Exists(q) => Exists(r)
    BY <1>3 DEF Tree
  <2>3. QED
    BY <1>1, <1>3, <2>1, <2>2
<1>4. \A q \in Paths : Len(q) = 1 => Exists(q)'
  BY <1>1 DEF Tree
<1>5. files' \subseteq {l \in Places : Exists(l.dir)'}
  BY <1>1 DEF Stock, Places
<1>6. QED
  BY <1>2, <1>3, <1>4, <1>5 DEF Tree, Stock

\* The first folder that os.makedirs makes is made in another.
LEMMA MadeInFolder ==
  ASSUME Tree, NEW p \in Paths, NEW new, new = {q \in Paths : Under(q, p) /\ ~Exists(q)},
         NEW top, top = (CHOOSE q \in new : \A x \in new : Len(q) <= Len(x)), ~Exists(p)
  PROVE  /\ top \in new /\ \A x \in new : Len(top) <= Len(x)
         /\ Front(top) \in Paths /\ Exists(Front(top)) /\ Under(Front(top), p)
<1>1. p \in new
  BY UnderSelf, PathsArePaths
<1> DEFINE lengths == {Len(q) : q \in new}
<1>2. lengths \in SUBSET Nat /\ lengths # {}
  BY <1>1, PathsArePaths
<1>3. PICK m \in lengths : \A k \in lengths : m <= k
  BY <1>2, LeastOf
<1>4. \E q \in new : \A x \in new : Len(q) <= Len(x)
  BY <1>3
<1>5. top \in new /\ \A x \in new : Len(top) <= Len(x)
  BY <1>4
<1>6. /\ top \in Paths /\ top \in Path /\ top # <<>> /\ ~Exists(top) /\ Under(top, p)
      /\ p \in Path
  BY <1>5, PathsArePaths
<1>7. /\ Front(top) \in Path /\ Under(Front(top), top) /\ Len(Front(top)) = Len(top) - 1
      /\ Len(top) \in Nat \ {0}
  BY <1>6, FrontIsAbove
<1>8. Front(top) # <<>>
  <2>1. Len(top) # 1
    BY <1>6 DEF Tree
  <2>2. Len(<<>>) = 0
    BY EmptySeq
  <2>3. Len(top) - 1 # 0
    BY <1>7, <2>1
  <2>4. QED
    BY <1>7, <2>2, <2>3
<1>9. Front(top) \in Paths /\ Under(Front(top), p)
  BY <1>6, <1>7, <1>8, PathsAreClosed, UnderTransitive
<1>10. Exists(Front(top))
  <2>1. ~(Len(top) <= Len(top) - 1)
    BY <1>7
  <2>2. QED
    BY <1>5, <1>7, <1>9, <2>1
<1>11. QED
  BY <1>5, <1>9, <1>10

-----------------------------------------------------------------------------
(* Events *)

LEMMA AsSequence ==
  ASSUME NEW S, IsFiniteSet(S), NEW s, s = SetToSeq(S)
  PROVE  /\ Cardinality(S) \in Nat /\ DOMAIN s = 1 .. Cardinality(S)
         /\ s \in [1 .. Cardinality(S) -> S]
         /\ \A x \in S : \E i \in 1 .. Cardinality(S) : s[i] = x
         /\ \A i, j \in 1 .. Cardinality(S) : s[i] = s[j] => i = j
<1> DEFINE D == 1 .. Cardinality(S)
<1>1. Cardinality(S) \in Nat /\ ExistsBijection(D, S)
  BY FS_CardinalityType
<1>2. PICK g : g \in Bijection(D, S)
  BY <1>1 DEF ExistsBijection
<1>3. g \in [D -> S] /\ IsInjective(g)
  BY <1>2 DEF Bijection, Injection, IsInjective
<1>4. s \in [D -> S] /\ IsInjective(s)
  BY <1>3 DEF SetToSeq
<1>5. \A i, j \in D : s[i] = s[j] => i = j
  BY <1>4 DEF IsInjective
<1>6. \A x \in S : \E i \in D : s[i] = x
  <2>1. IsFiniteSet(D) /\ Cardinality(D) = Cardinality(S)
    <3>1. Cardinality(D) = IF 1 > Cardinality(S) THEN 0 ELSE Cardinality(S) - 1 + 1
      BY <1>1, FS_Interval
    <3>2. IsFiniteSet(D)
      BY <1>1, FS_Interval
    <3>3. QED
      BY <1>1, <3>1, <3>2
  <2>2. s \in Injection(D, S)
    BY <1>4, <1>5 DEF Injection, IsInjective
  <2>3. s \in Surjection(D, S)
    BY <2>1, <2>2, FS_Injection
  <2>4. QED
    BY <2>3 DEF Surjection
<1>7. QED
  BY <1>1, <1>4, <1>5, <1>6

LEMMA EventsAreEvents ==
  ASSUME Tree, NEW kind \in {"close", "delete", "create"}, NEW S \in SUBSET Places, IsFiniteSet(S)
  PROVE  Events(kind, S) \in Seq(Event)
<1> DEFINE heard == {l \in S : watch[l.dir] # Unwatched}
<1>1. IsFiniteSet(heard)
  BY FS_Subset
<1>2. PICK s : s = SetToSeq(heard)
  OBVIOUS
<1> DEFINE D == 1 .. Cardinality(heard)
<1>3. /\ Cardinality(heard) \in Nat /\ DOMAIN s = D /\ s \in [D -> heard]
  BY <1>1, <1>2, AsSequence
<1> DEFINE ev == [i \in D |-> [kind |-> kind, at |-> [s[i] EXCEPT !.dir = watch[@]]]]
<1>4. Events(kind, S) = ev
  BY <1>2, <1>3 DEF Events
<1>5. ASSUME NEW i \in D PROVE ev[i] \in Event
  <2>1. s[i] \in heard
    BY <1>3
  <2>2. PICK l \in Places : l = s[i]
    BY <2>1
  <2>3. l.dir \in Paths /\ l.file \in Files /\ l = [dir |-> l.dir, file |-> l.file]
    BY <2>2 DEF Places
  <2>4. watch[l.dir] \in Path
    <3>1. watch[l.dir] \in Paths \cup {Absent}
      BY <2>1, <2>2, <2>3 DEF Tree
    <3>2. Absent \in Path
      BY EmptySeq DEF Absent, Path
    <3>3. QED
      BY <3>1, <3>2, PathsArePaths
  <2>5. [l EXCEPT !.dir = watch[@]] = [dir |-> watch[l.dir], file |-> l.file]
    BY <2>3
  <2>6. ev[i] = [kind |-> kind, at |-> [dir |-> watch[l.dir], file |-> l.file]]
    BY <2>2, <2>5
  <2> HIDE DEF ev
  <2>7. QED
    BY <2>3, <2>4, <2>6 DEF Event
<1>6. ev \in [D -> Event]
  BY <1>5
<1>7. QED
  <2>1. \A T : \A m \in Nat : [1 .. m -> T] \subseteq Seq(T)
    BY SeqDef
  <2> HIDE DEF ev, heard
  <2>2. QED
    BY <1>3, <1>4, <1>6, <2>1

\* More events do not change which one is the first.
LEMMA QueueLasts ==
  ASSUME Watcher, NEW es \in Seq(Event), queue' = queue \o es, UNCHANGED <<stage, inserting>>
  PROVE  Watcher'
<1>1. PICK q, more : q = queue /\ more = queue' /\ q \in Seq(Event) /\ more = q \o es
  BY DEF Watcher
<1>2. more \in Seq(Event) /\ Len(more) = Len(q) + Len(es) /\ Len(q) \in Nat /\ Len(es) \in Nat
  BY <1>1, ConcatProperties, LenProperties
<1>3. q # <<>> => more # <<>> /\ Head(more) = Head(q)
  <2> SUFFICES ASSUME q # <<>> PROVE more # <<>> /\ Head(more) = Head(q)
    OBVIOUS
  <2>1. Len(q) > 0
    BY <1>1, <1>2, EmptySeq
  <2>2. more[1] = q[1]
    BY <1>1, <1>2, <2>1, ConcatProperties
  <2>3. more # <<>>
    BY <1>2, <2>1, EmptySeq
  <2>4. QED
    BY <1>1, <1>2, <2>2, <2>3, HeadTailProperties
<1>4. QED
  BY <1>1, <1>2, <1>3 DEF Watcher

LEMMA Reported ==
  ASSUME Tree, Watcher, NEW kind \in {"close", "delete", "create"},
         NEW S \in SUBSET Places, IsFiniteSet(S),
         queue' = queue \o Events(kind, S), UNCHANGED <<stage, inserting>>
  PROVE  Watcher'
BY EventsAreEvents, QueueLasts

-----------------------------------------------------------------------------
(* Every step keeps the invariant *)

LEMMA Initially == Init => IInv
<1> SUFFICES ASSUME Init PROVE IInv
  OBVIOUS
<1>1. Tree
  <2>1. \A p \in Paths : Exists(p) <=> p \in Roots
    BY FileAssumption DEF Init, Exists
  <2>2. watch \in [Paths -> Paths \cup {Absent, Unwatched}]
    BY DEF Init
  <2>3. QED
    BY <2>1, <2>2, RootsAreClosed DEF Tree
<1>2. Stock
  <2>1. \A l \in Stored : l \in Places /\ watch[l.dir] # Absent
    BY FileAssumption DEF Init, Places
  <2>2. QED
    BY <2>1, FileAssumption DEF Init, Stock, Exists
<1>3. Index
  <2>1. PICK s : s = SetToSeq(Stored)
    OBVIOUS
  <2> DEFINE D == 1 .. Cardinality(Stored)
  <2>2. /\ Cardinality(Stored) \in Nat /\ DOMAIN s = D /\ s \in [D -> Stored]
    BY <2>1, AsSequence, FileAssumption
  <2>3. rows = {[id |-> i, at |-> s[i]] : i \in D}
    BY <2>1, <2>2 DEF Init
  <2>4. lastId = Cardinality(Stored)
    BY DEF Init
  <2>5. ASSUME NEW i \in D PROVE [id |-> i, at |-> s[i]] \in Object
    <3>1. s[i] \in [dir : Roots, file : Files] /\ Roots \subseteq Path
      BY <2>2, FileAssumption, PathsArePaths
    <3>2. s[i] \in [dir : Path, file : Files]
      BY <3>1
    <3>3. QED
      BY <2>2, <3>2 DEF Object, Path
  <2>6. \A r, x \in rows : r.id = x.id => r = x
    BY <2>3
  <2>7. QED
    BY <2>2, <2>3, <2>4, <2>5, <2>6 DEF Index
<1>4. Watcher
  BY EmptySeq DEF Init, Watcher
<1>5. Request
  BY DEF Init, Request
<1>6. ops \in Nat /\ changes \in Nat
  BY DEF Init
<1>7. QED
  BY <1>1, <1>2, <1>3, <1>4, <1>5, <1>6 DEF IInv

\* A request keeps what it has while the folders and the ids stay or grow.
LEMMA RequestStays ==
  ASSUME Request, UNCHANGED request, lastId \in Nat, lastId' \in Nat, lastId <= lastId',
         Index, \A q \in Paths : Exists(q)' <=> Exists(q)
  PROVE  Request'
<1>1. UNCHANGED <<pc, op, row, from, to, todo>>
  BY DEF request
<1>2. OfFile => OfFile'
  <2>1. row.id <= lastId /\ row \in Object => row.id <= lastId'
    BY DEF Object
  <2>2. QED
    BY <1>1, <2>1 DEF OfFile, Places
<1>3. OfLoop => OfLoop'
  <2>1. \A r \in todo : r \in Object /\ r.id <= lastId => r.id <= lastId'
    BY DEF Object
  <2>2. QED
    BY <1>1, <2>1 DEF OfLoop
<1>4. from \in Paths /\ OfMove => OfMove'
  <2>1. Refused(from, to)' <=> Refused(from, to)
    BY <1>1 DEF Refused
  <2>2. Movable(from, to) => Movable(from, to)'
    BY <1>1 DEF Movable
  <2>3. QED
    BY <1>1, <2>1, <2>2 DEF OfMove
<1>5. QED
  BY <1>1, <1>2, <1>3, <1>4 DEF Request, OfLoop

LEMMA SambaKeeps ==
  ASSUME IInv, NEW l \in Places, SmbWrite(l) \/ SmbRemove(l)
  PROVE  IInv'
<1> USE DEF IInv
<1>1. /\ UNCHANGED <<watch, rows, lastId, stage, inserting, request, ops>>
      /\ changes' = changes + 1
  BY DEF SmbWrite, SmbRemove, Meddles, index
<1>2. Tree'
  BY <1>1 DEF Tree, Exists
<1>3. Stock'
  <2>1. CASE SmbWrite(l)
    <3>1. files' = files \cup {l} /\ Exists(l.dir)
      BY <2>1 DEF SmbWrite
    <3>2. IsFiniteSet(files')
      BY <3>1, FS_AddElement DEF Stock
    <3>3. QED
      BY <1>1, <3>1, <3>2 DEF Stock, Exists
  <2>2. CASE SmbRemove(l)
    <3>1. files' = files \ {l}
      BY <2>2 DEF SmbRemove
    <3>2. IsFiniteSet(files')
      BY <3>1, FS_RemoveElement DEF Stock
    <3>3. QED
      BY <1>1, <3>1, <3>2 DEF Stock, Exists
  <2>3. QED
    BY <2>1, <2>2
<1>4. Watcher'
  <2>1. IsFiniteSet({l})
    BY FS_Singleton
  <2>2. QED
    BY <1>1, <2>1, Reported DEF SmbWrite, SmbRemove
<1>5. Index' /\ lastId \in Nat /\ lastId' \in Nat /\ lastId <= lastId'
  BY <1>1 DEF Index
<1>6. Request'
  BY <1>1, <1>5, RequestStays DEF Exists
<1>7. QED
  BY <1>1, <1>2, <1>3, <1>4, <1>5, <1>6

LEMMA HeadAndTail ==
  ASSUME Watcher, queue # <<>>
  PROVE  Head(queue) \in Event /\ Tail(queue) \in Seq(Event)
BY HeadTailProperties DEF Watcher

LEMMA NotifyFolders ==
  ASSUME Tree, Notify
  PROVE  Tree' /\ \A q \in Paths : Exists(q)' <=> Exists(q)
<1>1. CASE auto_add
  <2> DEFINE found(q) == /\ Head(queue).at.dir \in Paths /\ Exists(Head(queue).at.dir)
                         /\ Under(Head(queue).at.dir, q) /\ watch[q] = Unwatched
  <2>1. watch' = [q \in Paths |-> IF found(q) THEN q ELSE watch[q]]
    BY <1>1 DEF auto_add
  <2>2. \A q \in Paths : found(q) => watch[q] = Unwatched
    OBVIOUS
  <2> HIDE DEF found
  <2>3. \A q \in Paths : watch'[q] = Absent <=> watch[q] = Absent
    <3>1. Unwatched # Absent
      BY DEF Absent, Unwatched
    <3>2. \A q \in Paths : q # Absent
      BY FileAssumption
    <3>3. QED
      BY <2>1, <2>2, <3>1, <3>2
  <2>4. watch' \in [Paths -> Paths \cup {Absent, Unwatched}]
    BY <2>1 DEF Tree
  <2>5. \A q \in Paths : Exists(q)' <=> Exists(q)
    BY <2>3 DEF Exists
  <2>6. QED
    BY <2>4, <2>5 DEF Tree
<1>2. CASE watch' = [q \in Paths |-> IF Exists(q) THEN Unwatched ELSE Absent]
  BY <1>2 DEF Tree, Exists, Absent, Unwatched
<1>3. CASE UNCHANGED watch
  BY <1>3 DEF Tree, Exists
<1>4. QED
  BY <1>1, <1>2, <1>3 DEF Notify, process_IN_CLOSE_WRITE, Open, Select, Insert, process_IN_DELETE

LEMMA NotifyKeeps ==
  ASSUME IInv, Notify
  PROVE  IInv'
<1> USE DEF IInv
<1>1. UNCHANGED <<files, request, ops, changes>>
  BY DEF Notify, auto_add, process_IN_CLOSE_WRITE, Open, Select, Insert, process_IN_DELETE, Watching
<1>2. Tree' /\ \A q \in Paths : Exists(q)' <=> Exists(q)
  BY NotifyFolders
<1>3. Stock'
  BY <1>1, <1>2 DEF Stock, Places
<1>4. Watcher' /\ Index' /\ lastId' \in Nat /\ lastId <= lastId'
  <2>0. lastId \in Nat
    BY DEF Index
  <2>1. CASE auto_add
    BY <2>0, <2>1, HeadAndTail DEF auto_add, Due, Watcher, Index, index
  <2>2. CASE process_IN_CLOSE_WRITE \/ Open \/ Select
    <3>1. queue' \in Seq(Event)
      <4>1. queue' = queue \/ queue' = <<>> \/ (queue # <<>> /\ queue' = Tail(queue))
        BY <2>2 DEF process_IN_CLOSE_WRITE, Open, Select, Due, Watcher
      <4>2. queue \in Seq(Event) /\ <<>> \in Seq(Event)
        BY EmptySeq DEF Watcher
      <4>3. QED
        BY <4>1, <4>2, HeadAndTail
    <3>2. stage' = "open" => queue' # <<>> /\ Head(queue').kind = "close"
      BY <2>2 DEF process_IN_CLOSE_WRITE, Open, Select, Due
    <3>3. /\ stage' \in {"wait", "open", "select", "insert"}
          /\ inserting' \in IF stage' \in {"select", "insert"} THEN Places ELSE {NoPlace}
      BY <2>2 DEF process_IN_CLOSE_WRITE, Open, Select, Due, Watcher, Stock
    <3>4. UNCHANGED <<rows, lastId>>
      BY <2>2 DEF process_IN_CLOSE_WRITE, Open, Select, index
    <3>5. QED
      BY <2>0, <3>1, <3>2, <3>3, <3>4 DEF Watcher, Index
  <2>3. CASE Insert
    <3>1. /\ lastId' = lastId + 1 /\ queue' = queue /\ inserting' = NoPlace
          /\ rows' = rows \cup {[id |-> lastId', at |-> inserting]}
          /\ inserting \in Places /\ stage' = "wait"
      BY <2>3 DEF Insert, Watcher
    <3>2. PICK new : new = [id |-> lastId', at |-> inserting]
      OBVIOUS
    <3>3. new \in Object /\ new.id = lastId + 1 /\ rows' = rows \cup {new}
      <4>1. inserting \in [dir : Path, file : Files]
        BY <3>1, PathsArePaths DEF Places
      <4>2. QED
        BY <2>0, <3>1, <3>2, <4>1 DEF Object, Path
    <3>4. \A r \in rows : r \in Object /\ r.id \in Nat /\ r.id <= lastId
      BY DEF Index, Object
    <3>5. Index'
      BY <2>0, <3>1, <3>3, <3>4 DEF Index
    <3>6. QED
      BY <2>0, <3>1, <3>5 DEF Watcher
  <2>4. CASE process_IN_DELETE
    BY <2>0, <2>4, HeadAndTail DEF process_IN_DELETE, Due, Unlist, Watcher, Index
  <2>5. QED
    BY <2>1, <2>2, <2>3, <2>4 DEF Notify
<1>5. Request'
  BY <1>1, <1>2, <1>4, RequestStays DEF Index
<1>6. QED
  BY <1>1, <1>2, <1>3, <1>4, <1>5

LEMMA TreeStays ==
  ASSUME Tree, Stock, UNCHANGED tree
  PROVE  Tree' /\ Stock'
BY DEF Tree, Stock, tree, Exists

LEMMA BeginKeeps ==
  ASSUME IInv, NEW o \in OnFiles, NEW r \in rows, r.at \in Places, NEW target \in Places,
         o = "filerename" => target.dir = r.at.dir, o = "photom" => Exists(target.dir),
         Begin(o, r, target)
  PROVE  IInv'
<1> USE DEF IInv
<1>1. /\ UNCHANGED <<watch, files, rows, lastId, queue, stage, inserting, changes>>
      /\ ops' = ops + 1 /\ pc' = "disk"
      /\ op' = o /\ row' = r /\ from' = r.at /\ to' = target /\ todo' = {}
  BY DEF Begin, tree, index, watcher, Goto
<1>2. Tree' /\ Stock'
  BY <1>1, TreeStays DEF tree
<1>3. Index' /\ Watcher'
  BY <1>1 DEF Index, Watcher
<1>4. OfFile'
  BY <1>1 DEF OfFile, Index, Exists
<1>5. Request'
  BY <1>1, <1>4 DEF Request
<1>6. QED
  BY <1>1, <1>2, <1>3, <1>5

LEMMA ViewKeeps ==
  ASSUME IInv, View
  PROVE  IInv'
<1>1. PICK r \in rows :
        /\ r.at \in Places
        /\ \/ Begin("deletefile", r, r.at)
           \/ \E f \in Files : f.ext = r.at.file.ext /\ Begin("filerename", r, [r.at EXCEPT !.file = f])
           \/ \E p \in Paths : /\ Exists(p) /\ p # r.at.dir
                               /\ Begin("photom", r, [r.at EXCEPT !.dir = p])
  BY DEF View
<1>2. CASE Begin("deletefile", r, r.at)
  BY <1>1, <1>2, BeginKeeps DEF OnFiles
<1>3. ASSUME NEW f \in Files, Begin("filerename", r, [r.at EXCEPT !.file = f]) PROVE IInv'
  <2>1. [r.at EXCEPT !.file = f] \in Places /\ [r.at EXCEPT !.file = f].dir = r.at.dir
    BY <1>1 DEF Places
  <2>2. QED
    BY <1>1, <1>3, <2>1, BeginKeeps DEF OnFiles
<1>4. ASSUME NEW p \in Paths, Exists(p), Begin("photom", r, [r.at EXCEPT !.dir = p]) PROVE IInv'
  <2>1. [r.at EXCEPT !.dir = p] \in Places /\ [r.at EXCEPT !.dir = p].dir = p
    BY <1>1 DEF Places
  <2>2. QED
    BY <1>1, <1>4, <2>1, BeginKeeps DEF OnFiles
<1>5. QED
  BY <1>1, <1>2, <1>3, <1>4

\* os.remove, os.rename of a file within the folders there are.
LEMMA FilesStay ==
  ASSUME Tree, Stock, UNCHANGED watch,
         NEW a, NEW b \in {l \in Places : Exists(l.dir)}, files' \subseteq (files \ {a}) \cup {b}
  PROVE  Tree' /\ Stock'
<1>1. IsFiniteSet(files \cup {b})
  BY FS_AddElement DEF Stock
<1>2. IsFiniteSet(files')
  BY <1>1, FS_Subset
<1>3. QED
  BY <1>2 DEF Tree, Stock, Exists

LEMMA FileStepsKeep ==
  ASSUME IInv, deletefile \/ filerename \/ photom \/ save \/ Twins
  PROVE  IInv'
<1> USE DEF IInv
<1>0. /\ lastId \in Nat /\ UNCHANGED <<watch, stage, inserting, op, from, to, todo, ops, changes>>
      /\ todo \subseteq Object /\ OfFile
  BY DEF deletefile, filerename, photom, save, Twins, At, tree, index, watcher, Request, Index
<1>a. op \in OnFiles /\ from \in Places /\ to \in Places /\ row \in Object /\ row.id <= lastId
  BY <1>0 DEF OfFile
<1>b. row.at \in [dir : Path, file : Files] /\ to \in [dir : Path, file : Files] /\ row.id \in Nat
  BY <1>a, PathsArePaths DEF Object, Path, Places
<1>1. CASE deletefile
  <2>1. /\ files' = files \ {from} /\ queue' = queue \o Events("delete", files \cap {from})
        /\ pc' = "idle" /\ UNCHANGED <<rows, lastId, row>>
    BY <1>1 DEF deletefile, Goto, index
  <2>2. files' \subseteq files /\ IsFiniteSet(files') /\ IsFiniteSet(files \cap {from})
    BY <2>1, FS_Subset DEF Stock
  <2>3. Tree' /\ Stock'
    BY <1>0, <2>2 DEF Tree, Stock, Exists
  <2>4. Watcher'
    BY <1>0, <2>1, <2>2, Reported DEF Stock
  <2>5. Index' /\ Watcher'
    BY <1>0, <2>1, <2>4 DEF Index
  <2>6. Request'
    BY <1>0, <2>1 DEF Request
  <2>7. QED
    BY <1>0, <2>3, <2>5, <2>6
<1>2. CASE filerename
  <2>1. /\ files' = IF from \in files THEN (files \ {from}) \cup {to} ELSE files
        /\ row' = [row EXCEPT !.at = to]
        /\ pc' = IF from \in files THEN "save" ELSE "idle"
        /\ UNCHANGED <<rows, lastId, queue>>
    BY <1>2 DEF filerename, Goto, index, watcher
  <2>2. row' \in Object /\ row'.id <= lastId
    BY <1>a, <1>b, <2>1 DEF Object, Path
  <2>3. Index' /\ Watcher'
    BY <1>0, <2>1 DEF Index, Watcher
  <2>4. OfFile'
    BY <1>0, <1>a, <2>1, <2>2 DEF OfFile, Exists
  <2>5. Request'
    BY <1>0, <2>1, <2>4 DEF Request
  <2>6. Tree' /\ Stock'
    <3>1. CASE from \in files
      <4>1. Exists(to.dir)
        BY <1>0, <1>2, <3>1 DEF OfFile, Stock, filerename
      <4>2. QED
        BY <1>0, <1>a, <2>1, <3>1, <4>1, FilesStay
    <3>2. CASE from \notin files
      BY <1>0, <2>1, <3>2, TreeStays DEF tree
    <3>3. QED
      BY <3>1, <3>2
  <2>7. QED
    BY <1>0, <2>3, <2>5, <2>6
<1>3. CASE photom
  <2>1. Exists(to.dir) /\ pc' \in {"idle", "save"}
    BY <1>0, <1>3 DEF OfFile, photom, Goto
  <2>2. /\ files' \subseteq (files \ {from}) \cup {to} \/ files' = files
        /\ queue' = queue \o Events("delete", files \cap {from}) \/ queue' = queue
    BY <1>3 DEF photom
  <2>3. Tree' /\ Stock'
    <3>1. CASE files' \subseteq (files \ {from}) \cup {to}
      BY <1>0, <1>a, <2>1, <3>1, FilesStay
    <3>2. CASE files' = files
      BY <1>0, <3>2, TreeStays DEF tree
    <3>3. QED
      BY <2>2, <3>1, <3>2
  <2>4. Watcher'
    <3>1. IsFiniteSet(files \cap {from}) /\ files \cap {from} \in SUBSET Places
      BY FS_Subset DEF Stock
    <3>2. CASE queue' = queue \o Events("delete", files \cap {from})
      BY <1>0, <3>1, <3>2, Reported
    <3>3. CASE queue' = queue
      BY <1>0, <3>3 DEF Watcher
    <3>4. QED
      BY <2>2, <3>2, <3>3
  <2>5. Index' /\ row' \in Object /\ row'.id <= lastId'
    <3>1. CASE UNCHANGED <<rows, lastId>> /\ row' = [row EXCEPT !.at = to]
      <4>1. row' \in Object /\ row'.id <= lastId
        BY <1>a, <1>b, <3>1 DEF Object, Path
      <4>2. QED
        BY <3>1, <4>1 DEF Index
    <3>2. CASE /\ lastId' = lastId + 1 /\ rows' = {x \in rows : x.id # row.id}
               /\ row' = [id |-> lastId', at |-> to]
      <4>1. row' \in Object /\ row'.id <= lastId'
        BY <1>0, <1>b, <3>2 DEF Object, Path
      <4>2. \A r \in rows : r.id \in Nat /\ r.id <= lastId + 1
        BY <1>0 DEF Index, Object
      <4>3. QED
        BY <1>0, <3>2, <4>1, <4>2 DEF Index
    <3>3. QED
      BY <1>3, <3>1, <3>2 DEF photom
  <2>6. OfFile'
    BY <1>0, <1>a, <2>1, <2>5 DEF OfFile, Exists
  <2>7. Request'
    BY <1>0, <2>1, <2>6 DEF Request
  <2>8. QED
    BY <1>0, <2>3, <2>4, <2>5, <2>7
<1>4. CASE save
  <2>1. /\ rows' = {x \in rows : x.id # row.id} \cup {row} /\ pc' \in {"idle", "twins"}
        /\ UNCHANGED <<files, lastId, queue, row>>
    BY <1>4 DEF save, Save, Goto, tree, watcher
  <2>2. Tree' /\ Stock'
    BY <1>0, <2>1, TreeStays DEF tree
  <2>3. Index' /\ Watcher'
    BY <1>0, <1>a, <2>1 DEF Index, Watcher
  <2>4. OfFile'
    BY <1>0, <2>1 DEF OfFile, Exists
  <2>5. Request'
    BY <1>0, <2>1, <2>4 DEF Request
  <2>6. QED
    BY <1>0, <2>2, <2>3, <2>5
<1>5. CASE Twins
  <2>1. /\ rows' \subseteq rows /\ pc' = "idle"
        /\ UNCHANGED <<files, lastId, queue, row>>
    BY <1>5 DEF Twins, Goto, tree, watcher
  <2>2. Tree' /\ Stock'
    BY <1>0, <2>1, TreeStays DEF tree
  <2>3. Index' /\ Watcher'
    BY <1>0, <2>1 DEF Index, Watcher
  <2>4. Request'
    BY <1>0, <2>1 DEF Request
  <2>5. QED
    BY <1>0, <2>2, <2>3, <2>4
<1>6. QED
  BY <1>1, <1>2, <1>3, <1>4, <1>5

\* A loop is entered, goes on or ends with rows that it has read.
LEMMA LoopKeeps ==
  ASSUME Request, Index, Index', lastId' = lastId, UNCHANGED <<watch, op, row, from, to>>, OfLoop,
         NEW S, Loop(op, S), op = "photofo" => OfMove,
         \A r \in S : r \in Object /\ r.id <= lastId /\ (op # "photod" => Occurs(from, r.at.dir))
  PROVE  Request'
<1>1. /\ todo' = S
      /\ pc' = IF S # {} THEN "each" ELSE IF op = "photofo" THEN "move" ELSE "idle"
  BY DEF Loop, Goto
<1>2. OfLoop'
  BY <1>1 DEF OfLoop
<1>3. OfMove => OfMove'
  BY DEF OfMove, Refused, Movable, Exists
<1>4. QED
  BY <1>1, <1>2, <1>3 DEF Request

LEMMA SaveKeeps ==
  ASSUME Index, NEW r \in Object, r.id <= lastId, Save(r), lastId' = lastId
  PROVE  Index'
<1>1. rows' = {x \in rows : x.id # r.id} \cup {r}
  BY DEF Save
<1>2. QED
  BY <1>1 DEF Index

LEMMA QueryKeeps ==
  ASSUME IInv, query
  PROVE  IInv'
<1> USE DEF IInv
<1>1. /\ UNCHANGED <<watch, files, rows, lastId, queue, stage, inserting, op, row, from, to, ops, changes>>
      /\ Loop(op, Beneath(from)) /\ pc = "query"
  BY DEF query, tree, index, watcher, At
<1>2. OfLoop /\ op # "photofo"
  BY <1>1 DEF Request
<1>3. Tree' /\ Stock' /\ Index' /\ Watcher'
  BY <1>1, TreeStays DEF tree, Index, Watcher
<1>4. \A r \in Beneath(from) : r \in Object /\ r.id <= lastId /\ Occurs(from, r.at.dir)
  BY DEF Beneath, Index
<1>5. Request'
  BY <1>1, <1>2, <1>3, <1>4, LoopKeeps
<1>6. QED
  BY <1>1, <1>3, <1>5

LEMMA EachKeeps ==
  ASSUME IInv, each
  PROVE  IInv'
<1> USE DEF IInv
<1>1. PICK r \in todo :
        /\ pc = "each"
        /\ \/ op = "photod" /\ rows' = rows \ Beneath(from)
           \/ op = "photor" /\ Save([r EXCEPT !.at.dir = Renamed(from, to, @)])
           \/ op = "photofo" /\ Save([r EXCEPT !.at.dir = Rehung(from, Front(to), @)])
        /\ Loop(op, todo \ {r})
  BY DEF each, At
<1>2. UNCHANGED <<watch, files, lastId, queue, stage, inserting, op, row, from, to, ops, changes>>
  BY DEF each, tree, watcher
<1>3. /\ OfLoop /\ (op = "photofo" => OfMove)
      /\ from \in Path /\ from # <<>> /\ to \in Path /\ to # <<>>
  BY <1>1, PathsArePaths DEF Request, OfLoop
<1>4. /\ r \in Object /\ r.id <= lastId /\ r.at.dir \in Path
      /\ op # "photod" => Occurs(from, r.at.dir)
  BY <1>3 DEF OfLoop, Object, Path
<1>5. ASSUME NEW d \in Path, NEW x, x = [r EXCEPT !.at.dir = d]
      PROVE  x \in Object /\ x.id = r.id
  <2>1. r = [id |-> r.id, at |-> r.at] /\ r.at = [dir |-> r.at.dir, file |-> r.at.file]
    BY <1>4 DEF Object
  <2>2. x = [id |-> r.id, at |-> [dir |-> d, file |-> r.at.file]]
    <3>1. x = [r EXCEPT !.at = [r.at EXCEPT !.dir = d]]
      BY <1>5
    <3>2. [r.at EXCEPT !.dir = d] = [dir |-> d, file |-> r.at.file]
      BY <1>4 DEF Object
    <3>3. QED
      BY <1>4, <3>1, <3>2 DEF Object
  <2>3. QED
    BY <1>4, <2>2 DEF Object, Path
<1>6. Index'
  <2>1. CASE op = "photod" /\ rows' = rows \ Beneath(from)
    BY <1>2, <2>1 DEF Index
  <2>2. CASE op = "photor" /\ Save([r EXCEPT !.at.dir = Renamed(from, to, @)])
    <3>1. PICK d : d = Renamed(from, to, r.at.dir)
      OBVIOUS
    <3>2. d \in Path
      BY <1>3, <1>4, <2>2, <3>1, RenamedIsPath
    <3>3. PICK x : x = [r EXCEPT !.at.dir = d]
      OBVIOUS
    <3>4. x \in Object /\ x.id <= lastId
      BY <1>4, <1>5, <3>2, <3>3
    <3>5. Save(x)
      BY <2>2, <3>1, <3>3
    <3>6. QED
      BY <1>2, <3>4, <3>5, SaveKeeps
  <2>3. CASE op = "photofo" /\ Save([r EXCEPT !.at.dir = Rehung(from, Front(to), @)])
    <3>1. PICK d : d = Rehung(from, Front(to), r.at.dir)
      OBVIOUS
    <3>2. d \in Path
      BY <1>3, <1>4, <2>3, <3>1, RehungIsPath, FrontIsAbove
    <3>3. PICK x : x = [r EXCEPT !.at.dir = d]
      OBVIOUS
    <3>4. x \in Object /\ x.id <= lastId
      BY <1>4, <1>5, <3>2, <3>3
    <3>5. Save(x)
      BY <2>3, <3>1, <3>3
    <3>6. QED
      BY <1>2, <3>4, <3>5, SaveKeeps
  <2>4. QED
    BY <1>1, <2>1, <2>2, <2>3
<1>7. Request'
  <2>1. \A x \in todo \ {r} : x \in Object /\ x.id <= lastId
                              /\ (op # "photod" => Occurs(from, x.at.dir))
    BY <1>3 DEF OfLoop
  <2>2. QED
    BY <1>1, <1>2, <1>3, <1>6, <2>1, LoopKeeps
<1>8. Tree' /\ Stock' /\ Watcher'
  BY <1>2, TreeStays DEF tree, Watcher
<1>9. QED
  BY <1>2, <1>6, <1>7, <1>8

LEMMA MoveKeeps ==
  ASSUME IInv, move
  PROVE  IInv'
<1> USE DEF IInv
<1>1. /\ pc = "move" /\ pc' = "idle"
      /\ UNCHANGED <<rows, lastId, queue, stage, inserting, todo, ops, changes>>
      /\ IF Refused(from, to) THEN UNCHANGED tree ELSE MoveFolder(from, to)
  BY DEF move, At, Goto, index, watcher
<1>2. /\ op = "photofo" /\ from \in Paths /\ to \in Path /\ to # <<>> /\ OfMove
  BY <1>1 DEF Request, OfLoop
<1>3. Index' /\ Watcher' /\ Request'
  BY <1>1 DEF Index, Watcher, Request
<1>4. Tree' /\ Stock'
  <2>1. CASE Refused(from, to)
    BY <1>1, <2>1, TreeStays
  <2>2. CASE ~Refused(from, to)
    <3>1. Len(to) > 1
      <4>1. Front(to) \in Paths /\ Len(Front(to)) = Len(to) - 1 /\ Len(to) \in Nat \ {0}
        BY <1>2, FrontIsAbove DEF OfMove
      <4>2. Len(Front(to)) \in Nat \ {0}
        BY <4>1, PathsArePaths
      <4>3. QED
        BY <4>1, <4>2
    <3>2. QED
      BY <1>1, <1>2, <2>2, <3>1, FolderMoves DEF OfMove, Refused
  <2>3. QED
    BY <2>1, <2>2
<1>5. QED
  BY <1>1, <1>3, <1>4

LEMMA FolderViewKeeps ==
  ASSUME IInv, FolderView
  PROVE  IInv'
<1> USE DEF IInv
<1>1. ASSUME NEW p \in Paths, photoa(p) PROVE IInv'
  <2> DEFINE new == {q \in Paths : Under(q, p) /\ ~Exists(q)}
  <2>1. PICK top : top = (CHOOSE q \in new : \A x \in new : Len(q) <= Len(x))
    OBVIOUS
  <2>2. /\ pc = "idle" /\ ~Exists(p)
        /\ watch' = [q \in Paths |-> IF q \in new THEN Unwatched ELSE watch[q]]
        /\ queue' = IF watch[Front(top)] = Unwatched THEN queue
                    ELSE Append(queue, [kind |-> "create",
                                        at |-> [dir |-> Append(watch[Front(top)], Last(top)),
                                                file |-> NoFile]])
        /\ ops' = ops + 1
        /\ UNCHANGED <<files, rows, lastId, stage, inserting, changes, pc, todo>>
    <3>1. photoa(p)
      BY <1>1
    <3>2. /\ pc = "idle" /\ ~Exists(p) /\ ops' = ops + 1
          /\ UNCHANGED <<files, rows, lastId, stage, inserting, changes, pc, todo>>
      BY <3>1 DEF photoa, Folder, At
    <3>3. watch' = [q \in Paths |-> IF q \in new THEN Unwatched ELSE watch[q]]
      BY <3>1 DEF photoa
    <3>4. queue' = IF watch[Front(top)] = Unwatched THEN queue
                   ELSE Append(queue, [kind |-> "create",
                                       at |-> [dir |-> Append(watch[Front(top)], Last(top)),
                                               file |-> NoFile]])
      BY <2>1, <3>1 DEF photoa
    <3>5. QED
      BY <3>2, <3>3, <3>4
  <2>3. /\ top \in Paths /\ Front(top) \in Paths
    BY <2>1, <2>2, MadeInFolder
  <2>4. Tree' /\ Stock'
    <3>1. watch' = [q \in Paths |-> IF Under(q, p) /\ ~Exists(q) THEN Unwatched ELSE watch[q]]
      BY <2>2
    <3>2. QED
      BY <2>2, <3>1, FolderComes
  <2>5. Watcher'
    <3>1. CASE watch[Front(top)] # Unwatched
      <4>1. watch[Front(top)] \in Path /\ Last(top) \in STRING
        <5>1. watch[Front(top)] \in Paths \cup {Absent}
          BY <2>3, <3>1 DEF Tree
        <5>2. Absent \in Path
          BY EmptySeq DEF Absent, Path
        <5>3. QED
          BY <2>3, <5>1, <5>2, PathsArePaths, LastName
      <4>2. PICK d : d = Append(watch[Front(top)], Last(top))
        OBVIOUS
      <4>3. d \in Path
        BY <4>1, <4>2, FrontOfAppend
      <4>4. [kind |-> "create", at |-> [dir |-> d, file |-> NoFile]] \in Event
        BY <4>3 DEF Event
      <4>5. queue' = Append(queue, [kind |-> "create", at |-> [dir |-> d, file |-> NoFile]])
        BY <2>2, <3>1, <4>2
      <4>6. PICK e \in Event : queue' = Append(queue, e)
        BY <4>4, <4>5
      <4>7. <<e>> \in Seq(Event) /\ queue' = queue \o <<e>>
        BY <4>6, AppendIsConcat DEF Watcher
      <4>8. QED
        BY <2>2, <4>7, QueueLasts
    <3>2. QED
      BY <2>2, <3>1 DEF Watcher
  <2>6. Index' /\ Request'
    BY <2>2 DEF Index, Request
  <2>7. QED
    BY <2>2, <2>4, <2>5, <2>6
<1>2. ASSUME NEW p \in Paths, photod(p) PROVE IInv'
  <2> DEFINE gone == {l \in files : Under(p, l.dir)}
  <2>1. /\ Exists(p) /\ Len(p) > 1 /\ ops' = ops + 1
        /\ op' = "photod" /\ from' = p /\ to' = p /\ pc' = "query" /\ todo' = {}
        /\ files' = files \ gone
        /\ watch' = [q \in Paths |-> IF Under(p, q) THEN Absent ELSE watch[q]]
        /\ queue' = queue \o Events("delete", gone)
        /\ UNCHANGED <<rows, lastId, stage, inserting, changes>>
    BY <1>2 DEF photod, Folder
  <2>2. Tree' /\ Stock'
    BY <2>1, FolderGoes
  <2>3. Watcher'
    <3>1. IsFiniteSet(gone) /\ gone \in SUBSET Places
      BY FS_Subset DEF Stock
    <3>2. QED
      BY <2>1, <3>1, Reported
  <2>4. OfLoop'
    BY <2>1, PathsArePaths DEF OfLoop
  <2>5. Index' /\ Watcher' /\ Request'
    BY <2>1, <2>3, <2>4 DEF Index, Request
  <2>6. QED
    BY <2>1, <2>2, <2>5
<1>3. ASSUME NEW p \in Paths, NEW n \in Paths, photor(p, n) PROVE IInv'
  <2>1. /\ Exists(p) /\ Len(p) > 1 /\ ~Exists(n) /\ Front(n) = Front(p) /\ ops' = ops + 1
        /\ op' = "photor" /\ from' = p /\ to' = n /\ pc' = "query" /\ todo' = {}
        /\ Movable(p, n) /\ MoveFolder(p, n)
        /\ UNCHANGED <<rows, lastId, queue, stage, inserting, changes>>
    BY <1>3 DEF photor, Folder
  <2>2. /\ p \in Path /\ p # <<>> /\ n \in Path /\ n # <<>>
        /\ Len(p) \in Nat /\ Len(n) \in Nat
        /\ Len(Front(p)) = Len(p) - 1 /\ Len(Front(n)) = Len(n) - 1
        /\ Front(p) \in Path /\ Under(Front(p), p)
    BY PathsArePaths, FrontIsAbove
  <2>3. Len(n) = Len(p)
    BY <2>1, <2>2
  <2>4. ~Under(p, n)
    BY <2>1, <2>2, <2>3, SameLength
  <2>5. Front(n) \in Paths /\ Exists(Front(n))
    <3>1. Front(p) # <<>>
      <4>1. Len(<<>>) = 0
        BY EmptySeq
      <4>2. QED
        BY <2>1, <2>2, <4>1
    <3>2. QED
      BY <2>1, <2>2, <3>1, Above
  <2>6. Tree' /\ Stock'
    BY <2>1, <2>2, <2>3, <2>4, <2>5, FolderMoves
  <2>7. OfLoop'
    BY <2>1, <2>2 DEF OfLoop
  <2>8. Index' /\ Watcher' /\ Request'
    BY <2>1, <2>7 DEF Index, Watcher, Request
  <2>9. QED
    BY <2>1, <2>6, <2>8
<1>4. ASSUME NEW p \in Paths, NEW n \in Paths, photofo(p, n) PROVE IInv'
  <2> DEFINE t == Append(n, Last(p))
  <2>1. /\ Exists(p) /\ Exists(n) /\ Len(p) > 1 /\ ops' = ops + 1
        /\ ~Refused(p, t) => Movable(p, t)
        /\ op' = "photofo" /\ from' = p /\ to' = t
        /\ Loop("photofo", Beneath(p))
        /\ UNCHANGED <<watch, files, rows, lastId, queue, stage, inserting, changes>>
    BY <1>4 DEF photofo, Folder, tree
  <2>2. t \in Path /\ t # <<>> /\ Front(t) = n
    BY PathsArePaths, LastName, FrontOfAppend
  <2> HIDE DEF t
  <2>3. Tree' /\ Stock' /\ Index' /\ Watcher'
    BY <2>1, TreeStays DEF tree, Index, Watcher
  <2>4. OfMove'
    BY <2>1, <2>2 DEF OfMove, Refused, Movable, Exists
  <2>5. /\ todo' = Beneath(p)
        /\ pc' = IF Beneath(p) # {} THEN "each" ELSE "move"
    BY <2>1 DEF Loop, Goto
  <2>6. \A r \in Beneath(p) : r \in Object /\ r.id <= lastId /\ Occurs(p, r.at.dir)
    BY DEF Beneath, Index
  <2>7. OfLoop'
    BY <2>1, <2>2, <2>5, <2>6 DEF OfLoop
  <2>8. Request'
    BY <2>1, <2>4, <2>5, <2>6, <2>7 DEF Request
  <2>9. QED
    BY <2>1, <2>3, <2>8
<1>5. QED
  BY <1>1, <1>2, <1>3, <1>4 DEF FolderView

LEMMA StepsKeep == IInv /\ [Next]_vars => IInv'
<1> SUFFICES ASSUME IInv, [Next]_vars PROVE IInv'
  OBVIOUS
<1>1. CASE UNCHANGED vars
  <2>1. /\ UNCHANGED <<watch, files, rows, lastId, queue, stage, inserting, ops, changes>>
        /\ UNCHANGED request
    BY <1>1 DEF vars, tree, index, watcher
  <2>2. Tree' /\ Stock' /\ Index' /\ Watcher' /\ lastId \in Nat /\ lastId' \in Nat /\ lastId <= lastId'
    BY <2>1, TreeStays DEF IInv, tree, Index, Watcher
  <2>3. Request'
    BY <2>1, <2>2, RequestStays DEF IInv, Exists
  <2>4. QED
    BY <2>1, <2>2, <2>3 DEF IInv
<1>2. CASE \E l \in Places : SmbWrite(l) \/ SmbRemove(l)
  BY <1>2, SambaKeeps
<1>3. CASE Notify
  BY <1>3, NotifyKeeps
<1>4. CASE View
  BY <1>4, ViewKeeps
<1>5. CASE FolderView
  BY <1>5, FolderViewKeeps
<1>6. CASE Handle
  BY <1>6, FileStepsKeep, QueryKeeps, EachKeeps, MoveKeeps DEF Handle
<1>7. QED
  BY <1>1, <1>2, <1>3, <1>4, <1>5, <1>6 DEF Next

\* Files lie in folders that are there, rows of the index have ids of their own, paths
\* stay paths through renames and moves of what they are inside of, and a row that is
\* saved is one that was read (views.py:873-1387, watch.py:16-108).
THEOREM TypeCorrect == Spec => []TypeOK
<1>1. Init => IInv
  BY Initially
<1>2. IInv /\ [Next]_vars => IInv'
  BY StepsKeep
<1>3. IInv => TypeOK
  BY Typed
<1>4. QED
  BY <1>1, <1>2, <1>3, PTL DEF Spec

-----------------------------------------------------------------------------
(* Places under one folder and the same under another *)

Spot == [dir : Path, file : Files]

Shift(a, b, l) == [dir |-> b \o Rest(a, l.dir), file |-> l.file]

LEMMA ShiftAndBack ==
  ASSUME NEW a \in Path, NEW b \in Path, NEW l \in Spot, Under(a, l.dir)
  PROVE  /\ Shift(a, b, l) \in Spot /\ Under(b, Shift(a, b, l).dir)
         /\ Shift(b, a, Shift(a, b, l)) = l /\ Shift(a, a, l) = l
<1>1. l.dir \in Path /\ l.file \in Files /\ l = [dir |-> l.dir, file |-> l.file]
  BY DEF Spot
<1>2. Rest(a, l.dir) \in Path /\ a \o Rest(a, l.dir) = l.dir
  BY <1>1, RestIsRest
<1>3. PICK d : d = b \o Rest(a, l.dir)
  OBVIOUS
<1>4. d \in Path /\ Under(b, d) /\ Rest(b, d) = Rest(a, l.dir)
  BY <1>2, <1>3, RestOfConcat
<1>5. Shift(a, b, l) = [dir |-> d, file |-> l.file]
  BY <1>3 DEF Shift
<1>6. Shift(b, a, Shift(a, b, l)) = l
  <2>1. a \o Rest(b, d) = l.dir
    BY <1>2, <1>4
  <2>2. Shift(b, a, [dir |-> d, file |-> l.file]) = [dir |-> a \o Rest(b, d), file |-> l.file]
    BY DEF Shift
  <2>3. QED
    BY <1>1, <1>5, <2>1, <2>2
<1>7. Shift(a, a, l) = l
  BY <1>1, <1>2 DEF Shift
<1>8. QED
  BY <1>1, <1>4, <1>5, <1>6, <1>7 DEF Spot

LEMMA PlacesAreSpots == Places \subseteq Spot
BY PathsArePaths DEF Places, Spot

LEMMA UnderIsFound ==
  ASSUME NEW p \in Path, NEW q \in Path
  PROVE  Under(p, q) <=> 1 \in Found(p, q)
<1>1. Len(p) \in Nat /\ Len(q) \in Nat /\ SubSeq(p, 1, Len(p)) = p
  BY LenProperties, SubSeqFull DEF Path
<1>2. 1 + Len(p) - 1 = Len(p) /\ (1 \in 1 .. Len(q) - Len(p) + 1 <=> Len(p) <= Len(q))
  BY <1>1
<1>3. 1 \in Found(p, q) <=> 1 \in 1 .. Len(q) - Len(p) + 1 /\ SubSeq(q, 1, 1 + Len(p) - 1) = p
  BY Zenon DEF Found
<1>4. QED
  BY <1>1, <1>2, <1>3 DEF Under, IsPrefix

\* The path that occurs once, as a prefix, is replaced by the other one.
LEMMA RenamedIsShifted ==
  ASSUME NEW p \in Path, NEW n \in Path, NEW q \in Path, Found(p, q) = {1}
  PROVE  Renamed(p, n, q) = n \o Rest(p, q)
<1>1. Min(Found(p, q)) = 1
  BY DEF Min
<1>2. Len(p) \in Nat /\ Len(q) \in Nat /\ Under(p, q)
  BY UnderIsFound, LenProperties DEF Path
<1>3. SubSeq(q, 1, 1 - 1) = <<>>
  BY SubSeqEmpty
<1>4. <<>> \o n = n
  BY ConcatEmptySeq DEF Path
<1>5. 1 + Len(p) = Len(p) + 1
  BY <1>2
<1>6. QED
  BY <1>1, <1>3, <1>4, <1>5, Zenon DEF Renamed, Rest

LEMMA RehungIsShifted ==
  ASSUME NEW p \in Path, p # <<>>, NEW n \in Path, NEW q \in Path, Found(p, q) = {1}
  PROVE  Rehung(p, n, q) = Append(n, Last(p)) \o Rest(p, q)
<1>1. Max(Found(p, q)) = 1
  BY DEF Max
<1>2. Len(p) \in Nat /\ Last(p) \in STRING
  BY LastName, LenProperties DEF Path
<1>3. ASSUME NEW S, NEW s \in Seq(S), NEW x \in S PROVE s \o <<x>> = Append(s, x)
  BY AppendIsConcat
<1>4. n \o <<Last(p)>> = Append(n, Last(p))
  BY <1>2, <1>3, Zenon DEF Path
<1>5. 1 + Len(p) = Len(p) + 1
  BY <1>2
<1>6. QED
  BY <1>1, <1>4, <1>5, Zenon DEF Rehung, Rest

-----------------------------------------------------------------------------
(* What the queue tells *)

ToldIn(q, kind, l) == \E i \in 1 .. Len(q) : q[i].kind = kind /\ q[i].at = l

\* After the file was reported as gone it is reported again.
AgainIn(q, l) ==
  \A i \in 1 .. Len(q) : q[i].kind = "delete" /\ q[i].at = l =>
    \E j \in i + 1 .. Len(q) : q[j].kind = "close" /\ q[j].at = l

Tells(es, kind, S) == \A i \in 1 .. Len(es) : es[i].kind = kind /\ es[i].at \in S

\* No folder of these files has a watch with another path than its own.
Hearable(S) ==
  /\ S \subseteq Places /\ IsFiniteSet(S)
  /\ \A l \in S : watch[l.dir] \in {l.dir, Unwatched}

\* The queue more has, after q, events of that kind of files in S; h has been taken from q.
Grown(q, more, kind, S) ==
  /\ \A k, l : ToldIn(q, k, l) => ToldIn(more, k, l)
  /\ \A k, l : ToldIn(more, k, l) => ToldIn(q, k, l) \/ (k = kind /\ l \in S)
  /\ \A l : AgainIn(q, l) /\ (l \notin S \/ kind # "delete") => AgainIn(more, l)

Kept(q, more) ==
  /\ \A k, l : ToldIn(q, k, l) => ToldIn(more, k, l)
  /\ \A l : AgainIn(q, l) => AgainIn(more, l)

Shrunk(q, rest, h) ==
  /\ \A k, l : ToldIn(rest, k, l) => ToldIn(q, k, l)
  /\ \A k, l : ToldIn(q, k, l) => ToldIn(rest, k, l) \/ (h.kind = k /\ h.at = l)
  /\ \A l : AgainIn(q, l) => AgainIn(rest, l)
  /\ \A l : AgainIn(q, l) /\ h.kind = "delete" /\ h.at = l => ToldIn(rest, "close", l)
  /\ ToldIn(q, h.kind, h.at)

Retold(more, kind, l) == ToldIn(more, kind, l) /\ (kind = "close" => AgainIn(more, l))

LEMMA QueueGrows ==
  ASSUME NEW q \in Seq(Event), NEW es \in Seq(Event), NEW kind, NEW S, Tells(es, kind, S),
         NEW more, more = q \o es
  PROVE  Grown(q, more, kind, S) /\ \A i \in 1 .. Len(es) : Retold(more, kind, es[i].at)
<1> USE DEF Tells, Grown, Retold
<1>1. /\ Len(q) \in Nat /\ Len(es) \in Nat /\ Len(more) = Len(q) + Len(es)
      /\ \A i \in 1 .. Len(q) : i \in 1 .. Len(more) /\ more[i] = q[i]
      /\ \A i \in 1 .. Len(es) : Len(q) + i \in 1 .. Len(more) /\ more[Len(q) + i] = es[i]
  <2>1. Len(q) \in Nat /\ Len(es) \in Nat
    BY LenProperties
  <2>2. Len(more) = Len(q) + Len(es)
    BY ConcatProperties
  <2>3. \A i \in 1 .. Len(q) + Len(es) : more[i] = IF i <= Len(q) THEN q[i] ELSE es[i - Len(q)]
    BY ConcatProperties
  <2>4. ASSUME NEW i \in 1 .. Len(es) PROVE Len(q) + i \in 1 .. Len(more) /\ more[Len(q) + i] = es[i]
    <3>1. Len(q) + i \in 1 .. Len(q) + Len(es) /\ ~(Len(q) + i <= Len(q)) /\ Len(q) + i - Len(q) = i
      BY <2>1
    <3>2. QED
      BY <2>2, <2>3, <3>1
  <2>5. \A i \in 1 .. Len(q) : i \in 1 .. Len(more) /\ more[i] = q[i]
    BY <2>1, <2>2, <2>3
  <2>6. QED
    BY <2>1, <2>2, <2>4, <2>5
<1>2. ASSUME NEW i \in 1 .. Len(more), i \notin 1 .. Len(q)
      PROVE  \E j \in 1 .. Len(es) : i = Len(q) + j
  <2>1. i - Len(q) \in 1 .. Len(es) /\ i = Len(q) + (i - Len(q))
    BY <1>1, <1>2
  <2>2. QED
    BY <2>1
<1>3. \A k, l : ToldIn(q, k, l) => ToldIn(more, k, l)
  BY <1>1 DEF ToldIn
<1>4. ASSUME NEW k, NEW l, ToldIn(more, k, l) PROVE ToldIn(q, k, l) \/ (k = kind /\ l \in S)
  <2>1. PICK i \in 1 .. Len(more) : more[i].kind = k /\ more[i].at = l
    BY <1>4 DEF ToldIn
  <2>2. CASE i \in 1 .. Len(q)
    BY <1>1, <2>1, <2>2 DEF ToldIn
  <2>3. CASE i \notin 1 .. Len(q)
    <3>1. PICK j \in 1 .. Len(es) : i = Len(q) + j
      BY <1>2, <2>3
    <3>2. more[i] = es[j]
      BY <1>1, <3>1
    <3>3. QED
      BY <2>1, <3>2
  <2>4. QED
    BY <2>2, <2>3
<1>5. ASSUME NEW l, AgainIn(q, l), l \notin S \/ kind # "delete" PROVE AgainIn(more, l)
  <2> SUFFICES ASSUME NEW i \in 1 .. Len(more), more[i].kind = "delete", more[i].at = l
               PROVE  \E j \in i + 1 .. Len(more) : more[j].kind = "close" /\ more[j].at = l
    BY DEF AgainIn
  <2>1. i \in 1 .. Len(q)
    BY ZenonT(40), <1>1, <1>2, <1>5
  <2>2. PICK j \in i + 1 .. Len(q) : q[j].kind = "close" /\ q[j].at = l
    BY <1>1, <1>5, <2>1 DEF AgainIn
  <2>3. j \in 1 .. Len(q) /\ j \in i + 1 .. Len(more)
    BY <1>1, <2>1
  <2>4. QED
    BY <1>1, <2>2, <2>3
<1>6. ASSUME NEW l, NEW m \in 1 .. Len(es), es[m].at = l
      PROVE  ToldIn(more, kind, l) /\ (kind = "close" => AgainIn(more, l))
  <2>1. ToldIn(more, kind, l)
    BY <1>1, <1>6 DEF ToldIn
  <2>2. ASSUME kind = "close", NEW i \in 1 .. Len(more), more[i].kind = "delete", more[i].at = l
        PROVE  \E j \in i + 1 .. Len(more) : more[j].kind = "close" /\ more[j].at = l
    <3>1. i \in 1 .. Len(q)
      BY <1>1, <1>2, <2>2
    <3>2. Len(q) + m \in i + 1 .. Len(more)
      BY <1>1, <3>1
    <3>3. QED
      BY <1>1, <1>6, <2>2, <3>2
  <2>3. QED
    BY <2>1, <2>2 DEF AgainIn
<1>7. QED
  BY <1>3, <1>4, <1>5, <1>6

LEMMA QueueShrinks ==
  ASSUME NEW q \in Seq(Event), q # <<>>, NEW rest, rest = Tail(q), NEW h, h = Head(q)
  PROVE  Shrunk(q, rest, h)
<1>1. /\ Len(q) \in Nat \ {0} /\ Len(rest) = Len(q) - 1 /\ h = q[1]
      /\ \A i \in 1 .. Len(rest) : rest[i] = q[i + 1]
  BY HeadTailProperties, EmptySeq
<1>2. \A i \in 1 .. Len(rest) : i + 1 \in 1 .. Len(q)
  BY <1>1
<1>3. ASSUME NEW i \in 1 .. Len(q), i # 1 PROVE i - 1 \in 1 .. Len(rest) /\ rest[i - 1] = q[i]
  <2>1. i - 1 \in 1 .. Len(rest) /\ i - 1 + 1 = i
    BY <1>1, <1>3
  <2>2. QED
    BY <1>1, <2>1
<1>4. \A k, l : ToldIn(rest, k, l) => ToldIn(q, k, l)
  BY <1>1, <1>2 DEF ToldIn
<1>5. \A k, l : ToldIn(q, k, l) => ToldIn(rest, k, l) \/ (h.kind = k /\ h.at = l)
  BY SMTT(30), <1>1, <1>3 DEF ToldIn
<1>6. ASSUME NEW l, AgainIn(q, l) PROVE AgainIn(rest, l)
  <2> SUFFICES ASSUME NEW i \in 1 .. Len(rest), rest[i].kind = "delete", rest[i].at = l
               PROVE  \E j \in i + 1 .. Len(rest) : rest[j].kind = "close" /\ rest[j].at = l
    BY DEF AgainIn
  <2>1. PICK j \in i + 1 + 1 .. Len(q) : q[j].kind = "close" /\ q[j].at = l
    BY <1>1, <1>2, <1>6 DEF AgainIn
  <2>2. j \in 1 .. Len(q) /\ j # 1 /\ j - 1 \in i + 1 .. Len(rest)
    BY <1>1
  <2>3. QED
    BY <1>3, <2>1, <2>2
<1>7. ASSUME NEW l, AgainIn(q, l), h.kind = "delete", h.at = l PROVE ToldIn(rest, "close", l)
  <2>1. 1 \in 1 .. Len(q)
    BY <1>1
  <2>2. PICK j \in 1 + 1 .. Len(q) : q[j].kind = "close" /\ q[j].at = l
    BY <1>1, <1>7, <2>1 DEF AgainIn
  <2>3. j \in 1 .. Len(q) /\ j # 1
    BY <1>1
  <2>4. QED
    BY <1>3, <2>2, <2>3 DEF ToldIn
<1>8. ToldIn(q, h.kind, h.at)
  <2>1. 1 \in 1 .. Len(q)
    BY <1>1
  <2>2. QED
    BY <1>1, <2>1 DEF ToldIn
<1>9. QED
  BY <1>4, <1>5, <1>6, <1>7, <1>8 DEF Shrunk

\* Where nothing is deaf, what is reported is what happened, of the folders watched.
LEMMA TrueEvents ==
  ASSUME Tree, NEW kind \in {"close", "delete", "create"}, NEW S, Hearable(S), NEW es, es = Events(kind, S)
  PROVE  /\ es \in Seq(Event) /\ Tells(es, kind, S)
         /\ \A l \in S : watch[l.dir] # Unwatched => \E i \in 1 .. Len(es) : es[i].at = l
<1> USE DEF Tells, Hearable
<1> DEFINE heard == {l \in S : watch[l.dir] # Unwatched}
<1>1. IsFiniteSet(heard)
  BY FS_Subset
<1>2. PICK s : s = SetToSeq(heard)
  OBVIOUS
<1> DEFINE D == 1 .. Cardinality(heard)
<1>3. /\ Cardinality(heard) \in Nat /\ DOMAIN s = D /\ s \in [D -> heard]
      /\ \A x \in heard : \E i \in D : s[i] = x
  <2> HIDE DEF heard
  <2>1. QED
    BY <1>1, <1>2, AsSequence
<1>4. es = [i \in D |-> [kind |-> kind, at |-> [s[i] EXCEPT !.dir = watch[@]]]]
  BY <1>2, <1>3 DEF Events
<1>5. ASSUME NEW i \in D PROVE es[i].kind = kind /\ es[i].at = s[i] /\ s[i] \in heard
  <2>1. s[i] \in heard
    BY <1>3
  <2>2. PICK l \in Places : l = s[i]
    BY <2>1
  <2>3. l = [dir |-> l.dir, file |-> l.file] /\ watch[l.dir] = l.dir
    BY <2>1, <2>2 DEF Places
  <2>4. [l EXCEPT !.dir = watch[@]] = l
    <3>1. [l EXCEPT !.dir = watch[@]] = [dir |-> watch[l.dir], file |-> l.file]
      BY <2>2 DEF Places
    <3>2. QED
      BY <2>3, <3>1
  <2>5. es[i] = [kind |-> kind, at |-> l]
    BY <1>4, <2>2, <2>4
  <2>6. QED
    BY <2>1, <2>2, <2>5
<1>6. es \in Seq(Event)
  BY EventsAreEvents
<1>7. Len(es) = Cardinality(heard)
  <2>1. DOMAIN es = 1 .. Len(es) /\ DOMAIN es = D /\ Len(es) \in Nat
    BY <1>4, <1>6, LenProperties
  <2> HIDE DEF heard
  <2>2. QED
    BY <1>3, <2>1
<1>8. \A l \in S : watch[l.dir] # Unwatched => \E i \in D : es[i].at = l
  <2>1. \A l \in S : watch[l.dir] # Unwatched => l \in heard
    OBVIOUS
  <2> HIDE DEF heard
  <2>2. QED
    BY <1>3, <1>5, <2>1
<1>9. \A i \in D : es[i].kind = kind /\ es[i].at \in S
  BY <1>5
<1> HIDE DEF heard
<1>10. QED
  BY <1>6, <1>7, <1>8, <1>9

-----------------------------------------------------------------------------
(* What the watcher has still to handle *)

PendingIn(q, ins) ==
  {e.at : e \in {x \in Range(q) : x.kind # "create"}} \cup ({ins} \ {NoPlace})

\* A place is pending when an event of the queue tells of it, or it is to be inserted.
LEMMA PendingIs ==
  ASSUME NEW q \in Seq(Event), NEW ins, NEW l
  PROVE  l \in PendingIn(q, ins) <=> \/ ToldIn(q, "close", l) \/ ToldIn(q, "delete", l)
                                     \/ l = ins /\ ins # NoPlace
<1>1. Range(q) = {q[i] : i \in 1 .. Len(q)}
  BY RangeEquality
<1>2. \A i \in 1 .. Len(q) : q[i].kind \in {"close", "delete", "create"}
  <2>1. \A i \in 1 .. Len(q) : q[i] \in Event
    BY ElementOfSeq
  <2>2. QED
    BY <2>1 DEF Event
<1>3. (\E e \in Range(q) : e.kind # "create" /\ l = e.at) <=>
        ToldIn(q, "close", l) \/ ToldIn(q, "delete", l)
  <2>1. ASSUME NEW e \in Range(q), e.kind # "create", l = e.at
        PROVE  ToldIn(q, "close", l) \/ ToldIn(q, "delete", l)
    BY <1>1, <1>2, <2>1 DEF ToldIn
  <2>2. ASSUME NEW k, k # "create", ToldIn(q, k, l)
        PROVE  \E e \in Range(q) : e.kind # "create" /\ l = e.at
    BY <1>1, <2>2 DEF ToldIn
  <2>3. QED
    BY <2>1, <2>2
<1>4. l \in PendingIn(q, ins) <=> \/ \E e \in Range(q) : e.kind # "create" /\ l = e.at
                                  \/ l = ins /\ ins # NoPlace
  BY Zenon DEF PendingIn
<1>5. QED
  BY <1>3, <1>4, Zenon

LEMMA PendingNow ==
  ASSUME IInv, NEW l
  PROVE  l \in Pending <=> \/ ToldIn(queue, "close", l) \/ ToldIn(queue, "delete", l)
                           \/ l = inserting /\ inserting # NoPlace
<1>1. Pending = PendingIn(queue, inserting)
  BY DEF Pending, PendingIn
<1>2. queue \in Seq(Event)
  BY DEF IInv, Watcher
<1>3. QED
  BY <1>1, <1>2, PendingIs

LEMMA PendingNext ==
  ASSUME IInv', NEW l
  PROVE  l \in Pending' <=> \/ ToldIn(queue', "close", l) \/ ToldIn(queue', "delete", l)
                            \/ l = inserting' /\ inserting' # NoPlace
<1>1. Pending' = PendingIn(queue', inserting')
  BY DEF Pending, PendingIn
<1>2. queue' \in Seq(Event)
  BY DEF IInv, Watcher
<1>3. QED
  BY <1>1, <1>2, PendingIs

\* A step that reports changes of the files at S.
LEMMA Telling ==
  ASSUME IInv, IInv', NEW kind \in {"close", "delete"}, NEW S, Hearable(S),
         queue' = queue \o Events(kind, S), inserting' = inserting
  PROVE  /\ Pending' \subseteq Pending \cup S
         /\ Grown(queue, queue', kind, S)
         /\ \A l \in S : watch[l.dir] # Unwatched => Retold(queue', kind, l)
<1>1. PICK es : es = Events(kind, S)
  OBVIOUS
<1>2. /\ es \in Seq(Event) /\ Tells(es, kind, S)
      /\ \A l \in S : watch[l.dir] # Unwatched => \E i \in 1 .. Len(es) : es[i].at = l
  <2>1. Tree /\ kind \in {"close", "delete", "create"}
    BY DEF IInv
  <2>2. es \in Seq(Event) /\ Tells(es, kind, S)
    BY ONLY <1>1, <2>1, TrueEvents, Hearable(S)
  <2>3. \A l \in S : watch[l.dir] # Unwatched => \E i \in 1 .. Len(es) : es[i].at = l
    BY ONLY SMTT(30), <1>1, <2>1, TrueEvents, Hearable(S)
  <2>4. QED
    BY <2>2, <2>3
<1>3. queue \in Seq(Event) /\ queue' = queue \o es
  BY <1>1 DEF IInv, Watcher
<1>4. PICK q, more : q = queue /\ more = queue' /\ q \in Seq(Event) /\ more = q \o es
  BY <1>3
<1>5. Grown(q, more, kind, S) /\ \A i \in 1 .. Len(es) : Retold(more, kind, es[i].at)
  BY <1>2, <1>4, QueueGrows
<1>6. Pending' \subseteq Pending \cup S
  BY <1>4, <1>5, PendingNow, PendingNext DEF Grown
<1>7. QED
  BY <1>2, <1>4, <1>5, <1>6

\* A step that takes the first event from the queue.
LEMMA Taking ==
  ASSUME IInv, IInv', queue # <<>>, queue' = Tail(queue), NEW h, h = Head(queue),
         inserting' = NoPlace \/ (inserting' = h.at /\ h.kind = "close")
  PROVE  /\ Pending' \subseteq Pending
         /\ Shrunk(queue, queue', h)
         /\ h.kind # "create" => h.at \in Pending
<1>1. PICK q, rest : q = queue /\ rest = queue' /\ q \in Seq(Event) /\ q # <<>> /\ rest = Tail(q) /\ h = Head(q)
  BY DEF IInv, Watcher
<1>2. Shrunk(q, rest, h)
  BY <1>1, QueueShrinks
<1>3. h.kind \in {"close", "delete", "create"}
  <2>1. h \in Event
    BY <1>1, HeadTailProperties
  <2>2. QED
    BY <2>1 DEF Event
<1>4. h.kind # "create" => h.at \in Pending
  BY <1>1, <1>2, <1>3, PendingNow DEF Shrunk
<1>5. Pending' \subseteq Pending
  <2>1. ASSUME NEW l \in Pending' PROVE l \in Pending
    <3>1. \/ ToldIn(queue', "close", l) \/ ToldIn(queue', "delete", l)
          \/ l = inserting' /\ inserting' # NoPlace
      BY PendingNext
    <3>2. QED
      BY <1>1, <1>2, <1>4, <3>1, PendingNow DEF Shrunk
  <2>2. QED
    BY <2>1
<1>6. QED
  BY <1>1, <1>2, <1>4, <1>5

\* A step that leaves queue and inserting alone, or reports a new directory.
LEMMA NothingTold ==
  ASSUME IInv, IInv', inserting' = inserting,
         \/ queue' = queue
         \/ \E e \in Event : e.kind = "create" /\ queue' = Append(queue, e)
  PROVE  Pending' \subseteq Pending /\ Kept(queue, queue')
<1>1. CASE queue' = queue
  BY <1>1 DEF Pending, Kept
<1>2. CASE \E e \in Event : e.kind = "create" /\ queue' = Append(queue, e)
  <2>1. PICK e \in Event : e.kind = "create" /\ queue' = Append(queue, e)
    BY <1>2
  <2>2. PICK q, es, more, S, kind :
          /\ S = {e.at} /\ kind = "create" /\ q = queue /\ more = queue' /\ more = q \o es
          /\ q \in Seq(Event) /\ es \in Seq(Event) /\ Tells(es, kind, S)
    <3>1. queue \in Seq(Event)
      BY DEF IInv, Watcher
    <3>2. /\ queue' = queue \o <<e>>
          /\ <<e>> \in Seq(Event) /\ Len(<<e>>) = 1 /\ <<e>>[1] = e
      BY <2>1, <3>1, AppendIsConcat, AppendProperties
    <3>3. Tells(<<e>>, "create", {e.at})
      BY <2>1, <3>2 DEF Tells
    <3>4. QED
      BY <3>1, <3>2, <3>3
  <2>3. Grown(q, more, kind, S)
    BY <2>2, QueueGrows
  <2>4. QED
    BY <2>2, <2>3, PendingNow, PendingNext DEF Grown, Kept
<1>3. QED
  BY <1>1, <1>2

-----------------------------------------------------------------------------
(* While nothing bad has happened *)

\* A file that was replaced does not cost another its row.
Calm == mishaps \subseteq {"replaced"}

\* photor has moved the folder and photofo will: the rows are changed in between.
Shifts == op \in {"photor", "photofo"} /\ pc \in {"query", "each", "move"}
Doomed == Shifts /\ op = "photofo" /\ Refused(from, to) /\ from # to

\* The request counts on what it knows of this place.
Relies(l) ==
  \/ pc = "disk" /\ op # "deletefile" /\ l \in {from, to}
  \/ pc \in {"save", "twins"} /\ l = to
  \/ Shifts /\ (Under(from, l.dir) \/ Under(to, l.dir))

Quiet == \A l \in Pending : ~Relies(l)
Again == \A l \in files : AgainIn(queue, l)

OnFile ==
  /\ pc \in {"disk", "save"} => \A x \in rows : x.id = row.id => x.at = from
  /\ pc = "disk" => row.at = from
  /\ pc \in {"save", "twins"} => row.at = to
  /\ pc = "save" => from \notin files \/ from = to
  /\ pc = "disk" /\ op = "photom" => from # to

OnFolder ==
  /\ pc \in {"query", "each"} /\ op \in {"photod", "photor"} => from \in Paths /\ ~Exists(from)
  /\ pc \in {"query", "each"} /\ op = "photor" => ~Under(from, to) /\ ~Under(to, from)
  /\ pc \in {"each", "move"} /\ op = "photofo" => to = Append(Front(to), Last(from))
  /\ pc = "each" /\ op # "photod" => /\ todo \subseteq rows
                                     /\ \A r \in todo : Found(from, r.at.dir) = {1}
  /\ pc = "move" => todo = {}

Order == Quiet /\ Again /\ OnFile /\ OnFolder

\* A file has a row, or will be given one.
Listed(l) == \E r \in rows : r.at = l
Waits(l) == Listed(l) \/ l = inserting \/ ToldIn(queue, "close", l)
Served(l) ==
  IF Shifts /\ op = "photor" /\ Under(to, l.dir)
  THEN Listed(l) \/ \E r \in IF pc = "query" THEN rows ELSE todo : r.at = Shift(to, from, l)
  ELSE IF Shifts /\ op = "photofo" /\ Under(from, l.dir)
  THEN Listed(Shift(from, to, l)) \/ \E r \in todo : r.at = l
  ELSE Waits(l) \/ (pc = "save" /\ l = to)
AllServed == ~Doomed => \A l \in files : Served(l)

-----------------------------------------------------------------------------
(* Every step keeps the order, and serves every file *)

\* What a request counts on is told by its place, its paths and the folders there are.
LEMMA SameRequest ==
  ASSUME UNCHANGED <<pc, op, from, to>>, \A q \in Paths : Exists(q)' <=> Exists(q)
  PROVE  /\ Shifts' <=> Shifts
         /\ Doomed' <=> Doomed
         /\ \A l : Relies(l)' <=> Relies(l)
<1>1. Shifts' <=> Shifts
  BY DEF Shifts
<1>2. Refused(from, to)' <=> Refused(from, to)
  BY DEF Refused
<1>3. QED
  BY <1>1, <1>2 DEF Doomed, Relies

\* What Samba changes is heard of, and is none of the request's business.
LEMMA SambaTells ==
  ASSUME IInv, IInv', Calm', NEW l \in Places, SmbWrite(l) \/ SmbRemove(l)
  PROVE  /\ UNCHANGED <<watch, rows, lastId, stage, inserting, pc, op, row, from, to, todo>>
         /\ ~Relies(l) /\ (pc \in {"disk", "save", "twins"} => l \notin {from, to})
         /\ watch[l.dir] = l.dir /\ Pending' \subseteq Pending \cup {l}
         /\ \E kind \in {"close", "delete"} :
              /\ Grown(queue, queue', kind, {l}) /\ Retold(queue', kind, l)
              /\ kind = "close" => files' = files \cup {l}
              /\ kind = "delete" => files' = files \ {l}
<1>1. UNCHANGED <<watch, rows, lastId, stage, inserting, pc, op, row, from, to, todo>>
  BY DEF SmbWrite, SmbRemove, Meddles, index, request
<1>2. watch[l.dir] = l.dir /\ (pc # "idle" => ~Touches(l))
  <2>1. mishaps' = mishaps \cup {w \in {"deaf", "meddled"} :
                                   \/ w = "deaf" /\ Deaf(l)
                                   \/ w = "meddled" /\ pc # "idle" /\ Touches(l)}
    BY DEF SmbWrite, SmbRemove, Meddles
  <2>2. "deaf" \notin mishaps' /\ "meddled" \notin mishaps'
    BY DEF Calm
  <2>3. QED
    BY <2>1, <2>2 DEF Deaf
<1>3. Hearable({l})
  BY <1>2, FS_Singleton DEF Hearable
<1>4. ~Relies(l) /\ (pc \in {"disk", "save", "twins"} => l \notin {from, to})
  <2>1. pc \in {"disk", "save", "twins"} => op \in OnFiles
    BY DEF IInv, Request, OfFile
  <2>2. Shifts => op \notin OnFiles /\ pc # "idle"
    BY DEF Shifts, OnFiles
  <2>3. QED
    BY <1>2, <2>1, <2>2 DEF Relies, Touches
<1>5. PICK kind \in {"close", "delete"} :
        /\ queue' = queue \o Events(kind, {l})
        /\ kind = "close" => files' = files \cup {l}
        /\ kind = "delete" => files' = files \ {l}
  BY DEF SmbWrite, SmbRemove
<1>6. /\ Pending' \subseteq Pending \cup {l} /\ Grown(queue, queue', kind, {l})
      /\ Retold(queue', kind, l)
  <2>1. watch[l.dir] # Unwatched
    BY <1>2, FileAssumption DEF Places
  <2>2. QED
    BY <1>1, <1>3, <1>5, <2>1, Telling
<1>7. QED
  BY <1>1, <1>2, <1>4, <1>5, <1>6

LEMMA SambaServes ==
  ASSUME IInv, IInv', Order, AllServed, Calm',
         NEW l \in Places, SmbWrite(l) \/ SmbRemove(l)
  PROVE  Order' /\ AllServed'
<1>1. /\ UNCHANGED <<watch, rows, lastId, stage, inserting, pc, op, row, from, to, todo>>
      /\ Pending' \subseteq Pending \cup {l}
  BY SambaTells
<1>2. ~Relies(l) /\ (pc \in {"disk", "save", "twins"} => l \notin {from, to})
  BY SambaTells
<1>3. PICK kind \in {"close", "delete"} :
        /\ Grown(queue, queue', kind, {l}) /\ Retold(queue', kind, l)
        /\ kind = "close" => files' = files \cup {l}
        /\ kind = "delete" => files' = files \ {l}
  BY SambaTells
<1>4. /\ Shifts' <=> Shifts
      /\ Doomed' <=> Doomed
      /\ \A x : Relies(x)' <=> Relies(x)
  BY <1>1, SameRequest DEF Exists
<1>5. Quiet'
  BY <1>1, <1>2, <1>3, <1>4 DEF Quiet, Order
<1>6. Again'
  BY <1>3 DEF Grown, Retold, Again, Order
<1>7. OnFile' /\ OnFolder'
  BY <1>1, <1>2, <1>3 DEF OnFile, OnFolder, Order, Exists
<1>8. AllServed'
  <2> SUFFICES ASSUME ~Doomed, NEW x \in files' PROVE Served(x)'
    BY <1>4 DEF AllServed
  <2>1. CASE x \in files
    <3>1. Served(x)
      BY <2>1 DEF AllServed
    <3>2. Listed(x)' <=> Listed(x)
      BY <1>1 DEF Listed
    <3>3. Waits(x) => Waits(x)'
      BY <1>1, <1>3, <3>2 DEF Waits, Grown
    <3>4. Listed(Shift(from, to, x))' <=> Listed(Shift(from, to, x))
      BY <1>1 DEF Listed, Shift, Rest
    <3>5. QED
      BY <1>1, <1>4, <3>1, <3>2, <3>3, <3>4 DEF Served, Shift, Rest
  <2>2. CASE x = l /\ kind = "close"
    <3>1. Waits(l)'
      BY <1>3, <2>2 DEF Waits, Retold
    <3>2. ~(Shifts /\ (Under(to, l.dir) \/ Under(from, l.dir)))
      BY <1>2 DEF Relies
    <3>3. QED
      BY <1>1, <1>4, <2>2, <3>1, <3>2 DEF Served
  <2>3. QED
    BY <1>3, <2>1, <2>2
<1>9. QED
  BY <1>5, <1>6, <1>7, <1>8 DEF Order

\* The watcher ends in a mishap.
LEMMA EndsBadly == ASSUME Calm', Open PROVE Head(queue).at \in files
BY DEF Open, Note, Calm

\* What takes an event from the queue takes the first, and a file to read only from it.
LEMMA NotifyTakes ==
  ASSUME IInv, Calm', auto_add \/ process_IN_CLOSE_WRITE \/ Open \/ process_IN_DELETE,
         queue' # queue
  PROVE  /\ queue # <<>> /\ queue' = Tail(queue) /\ inserting = NoPlace
         /\ \/ inserting' = NoPlace
            \/ Open /\ inserting' = Head(queue).at /\ Head(queue).kind = "close"
BY EndsBadly DEF IInv, Watcher, auto_add, process_IN_CLOSE_WRITE, Open, process_IN_DELETE, Due

LEMMA NotifyKeepsQueue ==
  ASSUME IInv, auto_add \/ process_IN_CLOSE_WRITE \/ Open \/ process_IN_DELETE, queue' = queue
  PROVE  UNCHANGED <<rows, inserting>>
<1>1. queue # <<>> => Tail(queue) # queue
  <2> SUFFICES ASSUME queue # <<>> PROVE Tail(queue) # queue
    OBVIOUS
  <2>1. PICK q : q = queue /\ q \in Seq(Event) /\ q # <<>>
    BY DEF IInv, Watcher
  <2>2. Len(Tail(q)) = Len(q) - 1 /\ Len(q) \in Nat
    BY <2>1, HeadTailProperties
  <2>3. Len(Tail(q)) # Len(q)
    BY <2>2
  <2>4. QED
    BY <2>1, <2>3, Zenon
<1>2. QED
  BY <1>1 DEF IInv, Watcher, auto_add, process_IN_CLOSE_WRITE, Open, process_IN_DELETE, Due, index

LEMMA NotifyServes ==
  ASSUME IInv, IInv', Order, AllServed, Calm', Notify
  PROVE  Order' /\ AllServed'
<1>1. UNCHANGED <<files, pc, op, row, from, to, todo>>
  BY DEF Notify, auto_add, process_IN_CLOSE_WRITE, Open, Select, Insert, process_IN_DELETE, Watching, request
<1>2. \A q \in Paths : Exists(q)' <=> Exists(q)
  BY NotifyFolders DEF IInv
<1>3. /\ Shifts' <=> Shifts
      /\ Doomed' <=> Doomed
      /\ \A x : Relies(x)' <=> Relies(x)
  BY <1>1, <1>2, SameRequest
\* What a step must show of itself.
<1>4. ASSUME Pending' \subseteq Pending, \A l : AgainIn(queue, l) => AgainIn(queue', l),
             pc \in {"disk", "save"} => \A x \in rows' : x \in rows \/ x.id # row.id,
             \A x \in rows : x \in rows' \/ x.at \in Pending,
             \A l \in files : Waits(l) => Waits(l)'
      PROVE  Order' /\ AllServed'
  <2>1. Quiet' /\ Again'
    BY <1>1, <1>3, <1>4 DEF Quiet, Again, Order
  <2>2. OnFile'
    BY <1>1, <1>4 DEF OnFile, Order
  <2>3. \A x \in rows : Relies(x.at) => x \in rows'
    BY <1>4 DEF Quiet, Order
  <2>4. ASSUME pc = "each", op # "photod", NEW r \in todo PROVE r \in rows'
    <3>1. r \in rows /\ Found(from, r.at.dir) = {1}
      BY <2>4 DEF OnFolder, Order
    <3>2. from \in Path /\ r.at.dir \in Path /\ op \in {"photor", "photofo"}
      BY <2>4, <3>1, PathsArePaths DEF IInv, Index, Request, OfLoop, Object, Path
    <3>3. Under(from, r.at.dir)
      BY <3>1, <3>2, UnderIsFound
    <3>4. QED
      BY <2>3, <2>4, <3>1, <3>2, <3>3 DEF Relies, Shifts
  <2>5. OnFolder'
    BY <1>1, <1>2, <2>4 DEF OnFolder, Order
  <2>6. ASSUME ~Doomed, NEW l \in files PROVE Served(l)'
    <3>1. Served(l)
      BY <2>6 DEF AllServed
    <3>2. \A d : Listed(d) /\ Relies(d) => Listed(d)'
      BY <2>3 DEF Listed
    <3>3. CASE Shifts /\ op = "photor" /\ Under(to, l.dir)
      <4>1. PICK b : b = Shift(to, from, l)
        OBVIOUS
      <4>2. Relies(l) /\ Relies(b)
        <5>1. to \in Path /\ from \in Path /\ l \in Spot
          BY <2>6, <3>3, PathsArePaths, PlacesAreSpots DEF Shifts, IInv, Request, OfLoop, Stock
        <5>2. Under(from, b.dir)
          BY <3>3, <4>1, <5>1, ShiftAndBack
        <5>3. QED
          BY <3>3, <5>2 DEF Relies
      <4>3. Listed(l) \/ (pc = "query" /\ Listed(b)) \/ (pc # "query" /\ \E r \in todo : r.at = b)
        BY <3>1, <3>3, <4>1 DEF Served, Listed
      <4>4. Listed(l)' \/ (pc = "query" /\ Listed(b)') \/ (pc # "query" /\ \E r \in todo : r.at = b)
        BY <3>2, <4>2, <4>3
      <4>5. b = Shift(to', from', l)
        BY <1>1, <4>1
      <4>6. QED
        BY <1>1, <1>3, <3>3, <4>4, <4>5 DEF Served, Listed, Shift, Rest
    <3>4. CASE Shifts /\ op = "photofo" /\ Under(from, l.dir)
      <4>1. PICK b : b = Shift(from, to, l)
        OBVIOUS
      <4>2. Relies(b)
        <5>1. to \in Path /\ from \in Path /\ l \in Spot
          BY <2>6, <3>4, PathsArePaths, PlacesAreSpots DEF Shifts, IInv, Request, OfLoop, Stock
        <5>2. Under(to, b.dir)
          BY <3>4, <4>1, <5>1, ShiftAndBack
        <5>3. QED
          BY <3>4, <5>2 DEF Relies
      <4>3. Listed(b)' \/ \E r \in todo : r.at = l
        BY <3>1, <3>2, <3>4, <4>1, <4>2 DEF Served
      <4>4. b = Shift(from', to', l)
        BY <1>1, <4>1
      <4>5. QED
        BY <1>1, <1>3, <3>4, <4>3, <4>4 DEF Served, Listed, Shift, Rest
    <3>5. CASE ~(Shifts /\ op = "photor" /\ Under(to, l.dir)) /\ ~(Shifts /\ op = "photofo" /\ Under(from, l.dir))
      <4>1. Waits(l)' \/ (pc = "save" /\ l = to)
        BY <1>4, <2>6, <3>1, <3>5 DEF Served
      <4>2. QED
        BY <1>1, <1>3, <3>5, <4>1 DEF Served
    <3>6. QED
      BY <3>3, <3>4, <3>5
  <2>7. AllServed'
    BY <1>1, <1>3, <2>6 DEF AllServed
  <2>8. QED
    BY <2>1, <2>2, <2>5, <2>7 DEF Order
<1>5. ASSUME auto_add \/ process_IN_CLOSE_WRITE \/ Open \/ process_IN_DELETE, queue' # queue
      PROVE  Order' /\ AllServed'
  <2>1. PICK h : h = Head(queue)
    OBVIOUS
  <2>2. /\ queue # <<>> /\ queue' = Tail(queue) /\ inserting = NoPlace
        /\ inserting' = NoPlace \/ (inserting' = h.at /\ h.kind = "close")
    BY <1>5, <2>1, NotifyTakes
  <2>3. /\ Pending' \subseteq Pending /\ Shrunk(queue, queue', h)
        /\ h.kind # "create" => h.at \in Pending
    BY <2>1, <2>2, Taking
  <2>4. \A l : AgainIn(queue, l) => AgainIn(queue', l)
    BY <2>3 DEF Shrunk
  <2>5. NoPlace \notin files
    BY FileAssumption DEF IInv, Stock, Places, NoPlace
  <2>6. CASE auto_add
    <3>1. rows' = rows /\ h.kind = "create"
      BY <2>1, <2>6 DEF auto_add, Due, index
    <3>2. \A l \in files : Waits(l) => Waits(l)'
      BY <2>2, <2>3, <2>5, <3>1 DEF Waits, Listed, Shrunk
    <3>3. QED
      BY <1>4, <2>3, <2>4, <3>1, <3>2
  <2>7. CASE process_IN_CLOSE_WRITE \/ Open
    <3>1. rows' = rows /\ h.kind = "close" /\ (h.at \in files => inserting' = h.at)
      BY <1>5, <2>1, <2>2, <2>7, EndsBadly
         DEF process_IN_CLOSE_WRITE, Open, Due, index, IInv, Watcher
    <3>2. ASSUME NEW l \in files, Waits(l) PROVE Waits(l)'
      <4>1. Listed(l) \/ ToldIn(queue', "close", l) \/ h.at = l
        BY <2>2, <2>3, <2>5, <3>2 DEF Waits, Shrunk
      <4>2. QED
        BY <3>1, <4>1 DEF Waits, Listed
    <3>3. QED
      BY <1>4, <2>3, <2>4, <3>1, <3>2
  <2>8. CASE process_IN_DELETE
    <3>1. rows' = {r \in rows : r.at # h.at} /\ h.kind = "delete"
      BY <2>1, <2>8 DEF process_IN_DELETE, Due, Unlist
    <3>2. ASSUME NEW l \in files, Waits(l) PROVE Waits(l)'
      <4>1. Listed(l) \/ ToldIn(queue', "close", l)
        BY <2>2, <2>3, <2>5, <3>1, <3>2 DEF Waits, Shrunk
      <4>2. h.at = l => ToldIn(queue', "close", l)
        BY <2>3, <3>1 DEF Shrunk, Order, Again
      <4>3. h.at # l /\ Listed(l) => Listed(l)'
        BY <3>1 DEF Listed
      <4>4. QED
        BY <4>1, <4>2, <4>3 DEF Waits
    <3>3. \A x \in rows : x \in rows' \/ x.at \in Pending
      BY <2>3, <3>1
    <3>4. QED
      BY <1>4, <2>3, <2>4, <3>1, <3>2, <3>3
  <2>9. QED
    BY <1>5, <2>6, <2>7, <2>8
<1>6. CASE Insert
  <2>1. /\ queue' = queue /\ inserting' = NoPlace /\ lastId' = lastId + 1
        /\ rows' = rows \cup {[id |-> lastId', at |-> inserting]}
    BY <1>6 DEF Insert
  <2>2. Pending' \subseteq Pending
    BY <2>1 DEF Pending
  <2>3. ASSUME NEW l, Waits(l) PROVE Waits(l)'
    <3>0. PICK new : new = [id |-> lastId', at |-> inserting]
      OBVIOUS
    <3>1. new \in rows' /\ new.at = inserting
      BY <2>1, <3>0
    <3>2. Listed(l) => Listed(l)'
      BY <2>1 DEF Listed
    <3>3. l = inserting => Listed(l)'
      BY <3>1 DEF Listed
    <3>4. QED
      BY <2>1, <2>3, <3>2, <3>3 DEF Waits
  <2>4. pc \in {"disk", "save"} => lastId' # row.id
    <3>1. pc \in {"disk", "save"} => row.id <= lastId /\ row.id \in Nat /\ lastId \in Nat
      BY DEF IInv, Index, Request, OfFile, Object
    <3>2. QED
      BY <2>1, <3>1
  <2>5. QED
    BY <1>4, <2>1, <2>2, <2>3, <2>4
<1>7. CASE Select
  <2>1. /\ queue' = queue /\ rows' = rows
        /\ inserting' = inserting \/ (inserting' = NoPlace /\ Listed(inserting))
    BY <1>7 DEF Select, index, Unlisted, Listed
  <2>2. Pending' \subseteq Pending
    BY <2>1 DEF Pending
  <2>3. \A l : Waits(l) => Waits(l)'
    BY <2>1 DEF Waits, Listed
  <2>4. QED
    BY <1>4, <2>1, <2>2, <2>3
<1>8. ASSUME auto_add \/ process_IN_CLOSE_WRITE \/ Open \/ process_IN_DELETE, queue' = queue
      PROVE  Order' /\ AllServed'
  <2>1. UNCHANGED <<rows, inserting>>
    BY <1>8, NotifyKeepsQueue
  <2>2. Pending' \subseteq Pending
    BY <1>8, <2>1 DEF Pending
  <2>3. \A l : Waits(l) => Waits(l)'
    BY <1>8, <2>1 DEF Waits, Listed
  <2>4. QED
    BY <1>4, <1>8, <2>1, <2>2, <2>3
<1>9. QED
  BY <1>5, <1>6, <1>7, <1>8 DEF Notify

\* Apart from photor and photofo.
LEMMA ServedPlainly ==
  /\ ~Shifts => (AllServed <=> \A l \in files : Waits(l) \/ (pc = "save" /\ l = to))
  /\ ~Shifts' => (AllServed' <=> \A l \in files' : Waits(l)' \/ (pc' = "save" /\ l = to'))
<1>1. ~Shifts => ~Doomed /\ \A l : Served(l) <=> Waits(l) \/ (pc = "save" /\ l = to)
  BY DEF Doomed, Served
<1>2. ~Shifts' => ~Doomed' /\ \A l : Served(l)' <=> Waits(l)' \/ (pc' = "save" /\ l = to')
  BY DEF Doomed, Served
<1>3. QED
  BY <1>1, <1>2 DEF AllServed

LEMMA BeginServes ==
  ASSUME IInv, IInv', Order, AllServed, Calm', NEW o \in OnFiles, NEW r \in rows, NEW target,
         o = "photom" => target # r.at, Begin(o, r, target)
  PROVE  Order' /\ AllServed'
<1>1. /\ pc = "idle" /\ pc' = "disk" /\ op' = o /\ row' = r /\ from' = r.at /\ to' = target
      /\ UNCHANGED <<watch, files, rows, lastId, queue, stage, inserting>>
      /\ mishaps' = mishaps \cup IF o # "deletefile" /\ Pending \cap {r.at, target} # {}
                                 THEN {"overtaken"} ELSE {}
  BY DEF Begin, At, Goto, Note, tree, index, watcher
<1>2. o # "deletefile" => Pending \cap {r.at, target} = {}
  BY <1>1 DEF Calm
<1>3. ~Shifts /\ ~Shifts' /\ Pending' = Pending
  BY <1>1 DEF Shifts, Pending
<1>4. Quiet'
  BY <1>1, <1>2, <1>3 DEF Quiet, Relies
<1>5. Again'
  BY <1>1 DEF Again, Order
<1>6. OnFile' /\ OnFolder'
  BY <1>1 DEF OnFile, OnFolder, IInv, Index
<1>7. AllServed'
  BY <1>1, <1>3, ServedPlainly DEF Waits, Listed
<1>8. QED
  BY <1>4, <1>5, <1>6, <1>7 DEF Order

LEMMA ViewServes ==
  ASSUME IInv, IInv', Order, AllServed, Calm', View
  PROVE  Order' /\ AllServed'
<1>1. PICK r \in rows :
        /\ r.at \in Places
        /\ \/ Begin("deletefile", r, r.at)
           \/ \E f \in Files : f.ext = r.at.file.ext /\ Begin("filerename", r, [r.at EXCEPT !.file = f])
           \/ \E p \in Paths : /\ Exists(p) /\ p # r.at.dir
                               /\ Begin("photom", r, [r.at EXCEPT !.dir = p])
  BY DEF View
<1>2. CASE Begin("deletefile", r, r.at)
  BY <1>2, BeginServes DEF OnFiles
<1>3. ASSUME NEW f \in Files, Begin("filerename", r, [r.at EXCEPT !.file = f])
      PROVE  Order' /\ AllServed'
  BY <1>3, BeginServes DEF OnFiles
<1>4. ASSUME NEW p \in Paths, p # r.at.dir, Begin("photom", r, [r.at EXCEPT !.dir = p])
      PROVE  Order' /\ AllServed'
  <2>1. PICK t : t = [r.at EXCEPT !.dir = p]
    OBVIOUS
  <2>2. t # r.at
    <3>1. t.dir = p
      BY <1>1, <2>1 DEF Places
    <3>2. QED
      BY <1>4, <3>1
  <2>3. QED
    BY <1>4, <2>1, <2>2, BeginServes DEF OnFiles
<1>5. QED
  BY <1>1, <1>2, <1>3, <1>4

LEMMA DeleteServes ==
  ASSUME IInv, IInv', Order, AllServed, Calm', deletefile
  PROVE  Order' /\ AllServed'
<1>1. /\ pc = "disk" /\ pc' = "idle" /\ op' = op
      /\ files' = files \ {from} /\ queue' = queue \o Events("delete", files \cap {from})
      /\ mishaps' = mishaps \cup IF from \in files /\ Deaf(from) THEN {"deaf"} ELSE {}
      /\ UNCHANGED <<watch, rows, lastId, stage, inserting, from, to>>
  BY DEF deletefile, At, Goto, Note, index
<1>2. Hearable(files \cap {from})
  <2>1. from \in files => watch[from.dir] = from.dir
    BY <1>1 DEF Calm, Deaf
  <2>2. files \cap {from} \subseteq Places /\ IsFiniteSet(files \cap {from})
    BY FS_Subset DEF IInv, Stock
  <2>3. QED
    BY <2>1, <2>2 DEF Hearable
<1>3. Grown(queue, queue', "delete", files \cap {from})
  BY <1>1, <1>2, Telling
<1>4. ~Shifts /\ ~Shifts' /\ (\A l : ~Relies(l)')
  BY <1>1 DEF Shifts, Relies
<1>5. Quiet' /\ Again'
  BY <1>1, <1>3, <1>4 DEF Quiet, Again, Order, Grown
<1>6. OnFile' /\ OnFolder'
  BY <1>1 DEF OnFile, OnFolder
<1>7. AllServed'
  <2>1. \A l \in files : Waits(l)
    BY <1>1, <1>4, ServedPlainly
  <2>2. \A l : Waits(l) => Waits(l)'
    BY <1>1, <1>3 DEF Waits, Listed, Grown
  <2>3. QED
    BY <1>1, <1>4, <2>1, <2>2, ServedPlainly
<1>8. QED
  BY <1>5, <1>6, <1>7 DEF Order

LEMMA RenameServes ==
  ASSUME IInv, IInv', Order, AllServed, filerename
  PROVE  Order' /\ AllServed'
<1>1. /\ pc = "disk" /\ pc' = (IF from \in files THEN "save" ELSE "idle")
      /\ op = "filerename" /\ op' = op
      /\ files' = IF from \in files THEN (files \ {from}) \cup {to} ELSE files
      /\ row' = [row EXCEPT !.at = to]
      /\ UNCHANGED <<watch, rows, lastId, queue, stage, inserting, from, to>>
  BY DEF filerename, At, Goto, index, watcher
<1>2. row'.id = row.id /\ row'.at = to
  BY <1>1 DEF IInv, Request, OfFile, Object
<1>3. ~Shifts /\ ~Shifts' /\ Pending' = Pending
  BY <1>1 DEF Shifts, Pending
<1>4. \A l : Relies(l)' => Relies(l)
  BY <1>1, <1>3 DEF Relies
<1>5. Quiet'
  BY <1>3, <1>4 DEF Quiet, Order
<1>6. Again'
  <2>1. to \notin Pending
    BY <1>1 DEF Quiet, Order, Relies
  <2>2. AgainIn(queue, to)
    <3>1. ~ToldIn(queue, "delete", to)
      BY <2>1, PendingNow
    <3>2. QED
      BY <3>1 DEF ToldIn, AgainIn
  <2>3. QED
    BY <1>1, <2>2 DEF Again, Order
<1>7. OnFile' /\ OnFolder'
  BY <1>1, <1>2 DEF OnFile, OnFolder, Order
<1>8. AllServed'
  <2>1. \A l \in files : Waits(l)
    BY <1>1, <1>3, ServedPlainly
  <2>2. \A l : Waits(l) => Waits(l)'
    BY <1>1 DEF Waits, Listed
  <2>3. QED
    BY <1>1, <1>3, <2>1, <2>2, ServedPlainly
<1>9. QED
  BY <1>5, <1>6, <1>7, <1>8 DEF Order

LEMMA PhotomServes ==
  ASSUME IInv, IInv', Order, AllServed, Calm', photom
  PROVE  Order' /\ AllServed'
<1>1. /\ pc = "disk" /\ op = "photom" /\ op' = op /\ from # to /\ row.at = from
      /\ mishaps' = mishaps \cup IF {from, to} \subseteq files /\ Deaf(from) THEN {"deaf"} ELSE {}
      /\ UNCHANGED <<watch, stage, inserting, from, to>>
  BY DEF photom, At, Note, Order, OnFile
<1>2. pc' \in {"idle", "save"} /\ (pc' = "save" => row'.at = to)
  <2>1. row' = [row EXCEPT !.at = to] \/ row' = [id |-> lastId', at |-> to]
    BY DEF photom
  <2>2. row \in Object
    BY <1>1 DEF IInv, Request, OfFile
  <2>3. row'.at = to
    BY <2>1, <2>2 DEF Object
  <2>4. QED
    BY <2>3 DEF photom, Goto
<1>3. ~Shifts /\ ~Shifts' /\ \A l : Relies(l)' => l = to /\ Relies(to)
  BY <1>1, <1>2 DEF Shifts, Relies
<1>4. AgainIn(queue, to) /\ to \notin Pending
  <2>1. to \notin Pending
    BY <1>1 DEF Quiet, Order, Relies
  <2>2. ~ToldIn(queue, "delete", to)
    BY <2>1, PendingNow
  <2>3. QED
    BY <2>1, <2>2 DEF ToldIn, AgainIn
<1>5. OnFolder'
  BY <1>2 DEF OnFolder
<1>6. \A l \in files : Waits(l)
  BY <1>1, <1>3, ServedPlainly
<1>7. CASE to \in files
  <2>1. /\ files' = files \ {from} /\ queue' = queue \o Events("delete", files \cap {from})
        /\ UNCHANGED <<rows, lastId>> /\ row' = [row EXCEPT !.at = to]
        /\ pc' = "save" => from \in files
    BY <1>7 DEF photom, Goto
  <2>2. Hearable(files \cap {from})
    <3>1. from \in files => watch[from.dir] = from.dir
      BY <1>1, <1>7 DEF Calm, Deaf
    <3>2. files \cap {from} \subseteq Places /\ IsFiniteSet(files \cap {from})
      BY FS_Subset DEF IInv, Stock
    <3>3. QED
      BY <3>1, <3>2 DEF Hearable
  <2>3. /\ Pending' \subseteq Pending \cup (files \cap {from})
        /\ Grown(queue, queue', "delete", files \cap {from})
    BY <1>1, <2>1, <2>2, Telling
  <2>4. Quiet'
    BY <1>1, <1>3, <1>4, <2>3 DEF Quiet
  <2>4a. Again'
    BY <2>1, <2>3 DEF Again, Order, Grown
  <2>5. row'.id = row.id
    BY <1>1, <2>1 DEF IInv, Request, OfFile, Object
  <2>6. OnFile'
    BY <1>1, <1>2, <2>1, <2>5 DEF OnFile, Order
  <2>7. \A l : Waits(l) => Waits(l)'
    BY <1>1, <2>1, <2>3 DEF Waits, Listed, Grown
  <2>8. AllServed'
    BY <1>3, <1>6, <2>1, <2>7, ServedPlainly
  <2>9. QED
    BY <1>5, <2>4, <2>4a, <2>6, <2>8 DEF Order
<1>8. CASE to \notin files /\ from \in files
  <2>1. /\ files' = (files \ {from}) \cup {to} /\ queue' = queue /\ pc' = "save"
        /\ UNCHANGED <<rows, lastId>> /\ row' = [row EXCEPT !.at = to]
    BY <1>8 DEF photom, Goto
  <2>2. Pending' = Pending
    BY <1>1, <2>1 DEF Pending
  <2>3. Quiet' /\ Again'
    BY <1>3, <1>4, <2>1, <2>2 DEF Quiet, Again, Order
  <2>4. row'.id = row.id
    BY <1>1, <2>1 DEF IInv, Request, OfFile, Object
  <2>5. OnFile'
    BY <1>1, <1>2, <2>1, <2>4 DEF OnFile, Order
  <2>6. \A l : Waits(l) => Waits(l)'
    BY <1>1, <2>1 DEF Waits, Listed
  <2>7. AllServed'
    BY <1>1, <1>3, <1>6, <2>1, <2>6, ServedPlainly
  <2>8. QED
    BY <1>5, <2>3, <2>5, <2>7 DEF Order
<1>9. CASE to \notin files /\ from \notin files
  <2>1. /\ files' = files /\ queue' = queue /\ pc' = "save" /\ lastId' = lastId + 1
        /\ rows' = {x \in rows : x.id # row.id} /\ row' = [id |-> lastId', at |-> to]
    BY <1>9 DEF photom, Goto
  <2>2. Pending' = Pending
    BY <1>1, <2>1 DEF Pending
  <2>3. Quiet' /\ Again'
    BY <1>3, <1>4, <2>1, <2>2 DEF Quiet, Again, Order
  <2>4. \A x \in rows' : x.id # row'.id
    <3>1. \A x \in rows : x.id \in Nat /\ x.id <= lastId /\ lastId \in Nat
      BY DEF IInv, Index, Object
    <3>2. row'.id = lastId + 1
      BY <2>1
    <3>3. QED
      BY <2>1, <3>1, <3>2
  <2>5. OnFile'
    BY <1>1, <1>2, <1>9, <2>1, <2>4 DEF OnFile
  <2>6. ASSUME NEW l \in files PROVE Waits(l)'
    <3>1. Waits(l) /\ l # from
      BY <1>6, <1>9, <2>6
    <3>2. \A x \in rows : x.id = row.id => x.at = from
      BY <1>1 DEF Order, OnFile
    <3>3. Listed(l) => Listed(l)'
      BY <2>1, <3>1, <3>2 DEF Listed
    <3>4. QED
      BY <1>1, <2>1, <3>1, <3>3 DEF Waits
  <2>7. AllServed'
    BY <1>3, <2>1, <2>6, ServedPlainly
  <2>8. QED
    BY <1>5, <2>3, <2>5, <2>7 DEF Order
<1>10. QED
  BY <1>7, <1>8, <1>9

LEMMA SaveServes ==
  ASSUME IInv, IInv', Order, AllServed, save
  PROVE  Order' /\ AllServed'
<1>1. /\ pc = "save" /\ pc' \in {"idle", "twins"} /\ op' = op
      /\ rows' = {x \in rows : x.id # row.id} \cup {row} /\ row.at = to
      /\ UNCHANGED <<watch, files, queue, stage, inserting, row, from, to>>
  BY DEF save, Save, At, Goto, tree, watcher, Order, OnFile
<1>2. ~Shifts /\ ~Shifts' /\ Pending' = Pending /\ \A l : Relies(l)' => Relies(l)
  BY <1>1 DEF Shifts, Pending, Relies
<1>3. Quiet' /\ Again' /\ OnFile' /\ OnFolder'
  BY <1>1, <1>2 DEF Quiet, Again, OnFile, OnFolder, Order
<1>4. ASSUME NEW l \in files PROVE Waits(l)'
  <2>1. Waits(l) \/ l = to
    BY <1>2, <1>4, ServedPlainly
  <2>2. Listed(to)'
    BY <1>1 DEF Listed
  <2>3. \A x \in rows : x.id = row.id => x.at = from
    BY <1>1 DEF Order, OnFile
  <2>4. from \notin files \/ from = to
    BY <1>1 DEF Order, OnFile
  <2>5. Listed(l) => Listed(l)' \/ l = to
    BY <1>1, <1>4, <2>3, <2>4 DEF Listed
  <2>6. QED
    BY <1>1, <2>1, <2>2, <2>5 DEF Waits
<1>5. AllServed'
  BY <1>1, <1>2, <1>4, ServedPlainly
<1>6. QED
  BY <1>3, <1>5 DEF Order

LEMMA TwinsServe ==
  ASSUME IInv, IInv', Order, AllServed, Calm', Twins
  PROVE  Order' /\ AllServed'
<1> DEFINE ff == {x \in rows : x.at.dir = row.at.dir /\ x.at.file.stem = row.at.file.stem}
<1>1. /\ pc = "twins" /\ pc' = "idle" /\ row.at = to
      /\ IF Cardinality(ff) > 1 THEN \E x \in ff : rows' = rows \ {x} ELSE rows' = rows
      /\ mishaps' = mishaps \cup IF Cardinality(ff) > 1 /\ \E x \in ff : x.at.file # row.at.file
                                 THEN {"sibling"} ELSE {}
      /\ UNCHANGED <<files, queue, stage, inserting>>
  BY DEF Twins, At, Goto, Note, tree, watcher, Order, OnFile
<1>2. ~Shifts /\ ~Shifts' /\ Pending' = Pending /\ \A l : ~Relies(l)'
  BY <1>1 DEF Shifts, Pending, Relies
<1>3. Quiet' /\ Again' /\ OnFile' /\ OnFolder'
  BY <1>1, <1>2 DEF Quiet, Again, OnFile, OnFolder, Order
<1>4. \A l \in files : Waits(l)
  BY <1>1, <1>2, ServedPlainly
<1>5. CASE Cardinality(ff) > 1
  <2>1. PICK x \in ff : rows' = rows \ {x}
    BY <1>1, <1>5
  <2>2. \A y \in ff : y.at = to
    <3>1. \A y \in ff : y.at.file = row.at.file
      BY <1>1, <1>5 DEF Calm
    <3>2. \A y \in ff : y.at \in [dir : Seq(STRING), file : Files] /\ row.at \in [dir : Seq(STRING), file : Files]
      BY <1>1 DEF IInv, Index, Request, OfFile, Object
    <3>3. ASSUME NEW y \in ff PROVE y.at = row.at
      BY <3>1, <3>2
    <3>4. QED
      BY <1>1, <3>3
  <2>3. PICK y \in ff : y # x
    <3>1. \A S : Cardinality(S) > 1 => S # {x}
      <4>1. Cardinality({x}) = 1
        BY FS_Singleton
      <4>2. QED
        BY <4>1
    <3>2. ff # {x}
      BY <1>5, <3>1
    <3>3. QED
      BY <3>2
  <2>4. \A l : Listed(l) => Listed(l)'
    BY <2>1, <2>2, <2>3 DEF Listed
  <2>5. \A l : Waits(l) => Waits(l)'
    BY <1>1, <2>4 DEF Waits
  <2>6. QED
    BY <1>1, <1>2, <1>3, <1>4, <2>5, ServedPlainly DEF Order
<1>6. CASE ~(Cardinality(ff) > 1)
  <2>1. rows' = rows
    BY <1>1, <1>6
  <2>2. \A l : Waits(l) => Waits(l)'
    BY <1>1, <2>1 DEF Waits, Listed
  <2>3. QED
    BY <1>1, <1>2, <1>3, <1>4, <2>2, ServedPlainly DEF Order
<1>7. QED
  BY <1>5, <1>6

\* The files after a folder was moved, and the files before.
LEMMA FilesMove ==
  ASSUME Stock, NEW p \in Path, NEW n \in Path, MoveFolder(p, n)
  PROVE  /\ \A l \in files : IF Under(p, l.dir) THEN Shift(p, n, l) \in files' ELSE l \in files'
         /\ \A l \in files' : \/ l \in files /\ ~Under(p, l.dir)
                              \/ /\ Under(n, l.dir) /\ Shift(n, p, l) \in files
                                 /\ Under(p, Shift(n, p, l).dir)
<1> DEFINE g(l) == IF Under(p, l.dir) THEN [l EXCEPT !.dir = n \o Rest(p, @)] ELSE l
<1>1. files' = {g(l) : l \in files}
  BY DEF MoveFolder, Rest
<1>2. ASSUME NEW l \in files, Under(p, l.dir)
      PROVE  /\ g(l) = Shift(p, n, l) /\ Under(n, g(l).dir)
             /\ Shift(n, p, g(l)) = l
  <2>1. l \in Spot
    BY PlacesAreSpots DEF Stock
  <2>2. g(l) = Shift(p, n, l)
    BY <1>2, <2>1 DEF Shift, Spot
  <2> HIDE DEF g
  <2>3. QED
    BY <1>2, <2>1, <2>2, ShiftAndBack
<1>3. \A l \in files : ~Under(p, l.dir) => g(l) = l
  OBVIOUS
<1> HIDE DEF g
<1>4. ASSUME NEW l \in files PROVE IF Under(p, l.dir) THEN Shift(p, n, l) \in files' ELSE l \in files'
  BY <1>1, <1>2, <1>3
<1>5. ASSUME NEW m \in files'
      PROVE  \/ m \in files /\ ~Under(p, m.dir)
             \/ Under(n, m.dir) /\ Shift(n, p, m) \in files /\ Under(p, Shift(n, p, m).dir)
  <2>1. PICK l \in files : m = g(l)
    BY <1>1
  <2>2. CASE Under(p, l.dir)
    BY <1>2, <2>1, <2>2
  <2>3. CASE ~Under(p, l.dir)
    BY <1>3, <2>1, <2>3
  <2>4. QED
    BY <2>2, <2>3
<1>6. QED
  BY <1>4, <1>5

\* Where the watcher has nothing to handle a file that waits for its row has it.
LEMMA NothingToHandle ==
  ASSUME IInv, NEW l, l \notin Pending
  PROVE  /\ l \in files /\ Waits(l) => Listed(l)
         /\ AgainIn(queue, l)
<1>1. ~ToldIn(queue, "close", l) /\ ~ToldIn(queue, "delete", l) /\ ~(l = inserting /\ inserting # NoPlace)
  BY PendingNow
<1>2. l \in files => l # NoPlace
  BY FileAssumption DEF IInv, Stock, Places, NoPlace
<1>3. AgainIn(queue, l)
  BY <1>1 DEF AgainIn, ToldIn
<1>4. QED
  BY <1>1, <1>2, <1>3 DEF Waits

\* What photoa reports is no file.
LEMMA PhotoaTells ==
  ASSUME IInv, IInv', NEW p \in Paths, photoa(p)
  PROVE  Pending' \subseteq Pending /\ Kept(queue, queue')
<1> DEFINE new == {q \in Paths : Under(q, p) /\ ~Exists(q)}
<1>1. PICK top : top = (CHOOSE q \in new : \A x \in new : Len(q) <= Len(x))
  OBVIOUS
<1>2. PICK e : e = [kind |-> "create",
                    at |-> [dir |-> Append(watch[Front(top)], Last(top)), file |-> NoFile]]
  OBVIOUS
<1>3. photoa(p)
  OBVIOUS
<1>4. inserting' = inserting
  BY <1>3 DEF photoa, Folder
<1>5. queue' = IF watch[Front(top)] = Unwatched THEN queue ELSE Append(queue, e)
  BY <1>1, <1>2, <1>3 DEF photoa
<1>6. queue' = Append(queue, e) => e \in Event /\ e.kind = "create"
  <2>1. queue \in Seq(Event) /\ queue' \in Seq(Event)
    BY DEF IInv, Watcher
  <2>2. ASSUME NEW q \in Seq(Event), NEW x, Append(q, x) \in Seq(Event) PROVE x \in Event
    <3>1. Len(Append(q, x)) = Len(q) + 1 /\ Append(q, x)[Len(q) + 1] = x /\ Len(q) \in Nat
      OBVIOUS
    <3>2. QED
      BY <2>2, <3>1, ElementOfSeq
  <2>3. e.kind = "create"
    BY <1>2
  <2>4. QED
    BY <2>1, <2>2, <2>3
<1>7. QED
  BY <1>4, <1>5, <1>6, NothingTold

LEMMA PhotoaServes ==
  ASSUME IInv, IInv', Order, AllServed, NEW p \in Paths, photoa(p)
  PROVE  Order' /\ AllServed'
<1>1. photoa(p)
  OBVIOUS
<1>2. pc = "idle" /\ pc' = "idle" /\ UNCHANGED <<files, rows, stage, inserting>>
  BY <1>1 DEF photoa, Folder, At
<1>3. Pending' \subseteq Pending /\ Kept(queue, queue')
  BY <1>1, PhotoaTells
<1>4. ~Shifts /\ ~Shifts' /\ \A l : ~Relies(l)'
  BY <1>2 DEF Shifts, Relies
<1>5. Order'
  BY <1>2, <1>3, <1>4 DEF Order, Quiet, Again, OnFile, OnFolder, Kept
<1>6. \A l : Waits(l) => Waits(l)'
  BY <1>2, <1>3 DEF Waits, Listed, Kept
<1>7. QED
  BY <1>2, <1>4, <1>5, <1>6, ServedPlainly

LEMMA PhotodServes ==
  ASSUME IInv, IInv', Order, AllServed, Calm', NEW p \in Paths, photod(p)
  PROVE  Order' /\ AllServed'
<1> DEFINE gone == {l \in files : Under(p, l.dir)}
<1>1. /\ pc = "idle" /\ pc' = "query" /\ op' = "photod" /\ from' = p
      /\ files' = files \ gone
      /\ watch' = [q \in Paths |-> IF Under(p, q) THEN Absent ELSE watch[q]]
      /\ queue' = queue \o Events("delete", gone)
      /\ mishaps' = mishaps \cup IF \E l \in gone : watch[l.dir] # Unwatched /\ Deaf(l)
                                 THEN {"deaf"} ELSE {}
      /\ UNCHANGED <<rows, stage, inserting>>
  BY DEF photod, Folder, At, Note
<1>2. Hearable(gone)
  <2>1. IsFiniteSet(gone) /\ gone \subseteq Places
    BY FS_Subset DEF IInv, Stock
  <2>2. \A l \in gone : watch[l.dir] \in {l.dir, Unwatched}
    BY <1>1 DEF Calm, Deaf
  <2>3. QED
    BY <2>1, <2>2 DEF Hearable
<1>3. Grown(queue, queue', "delete", gone)
  BY <1>1, <1>2, Telling
<1>4. ~Shifts /\ ~Shifts' /\ \A l : ~Relies(l)'
  BY <1>1 DEF Shifts, Relies
<1>5. from' \in Paths /\ ~Exists(from)'
  BY <1>1, PathsArePaths, UnderSelf DEF Exists
<1>6. Order'
  BY <1>1, <1>3, <1>4, <1>5 DEF Order, Quiet, Again, OnFile, OnFolder, Grown
<1>7. \A l : Waits(l) => Waits(l)'
  BY <1>1, <1>3 DEF Waits, Listed, Grown
<1>8. QED
  BY <1>1, <1>4, <1>6, <1>7, ServedPlainly

LEMMA PhotorServes ==
  ASSUME IInv, IInv', Order, AllServed, Calm', NEW p \in Paths, NEW n \in Paths, photor(p, n)
  PROVE  Order' /\ AllServed'
<1>1. /\ pc = "idle" /\ pc' = "query" /\ op' = "photor" /\ from' = p /\ to' = n
      /\ Exists(p) /\ ~Exists(n) /\ Front(n) = Front(p) /\ MoveFolder(p, n)
      /\ mishaps' = mishaps \cup IF \E l \in Pending : Under(p, l.dir) \/ Under(n, l.dir)
                                 THEN {"overtaken"} ELSE {}
      /\ UNCHANGED <<rows, queue, stage, inserting>>
  BY DEF photor, Folder, At, Note
<1>2. p \in Path /\ n \in Path /\ p # <<>> /\ n # <<>> /\ Tree /\ Stock
  BY PathsArePaths DEF IInv
<1>3. ~Under(p, n) /\ ~Under(n, p)
  <2>1. /\ Len(p) \in Nat /\ Len(n) \in Nat
        /\ Len(Front(p)) = Len(p) - 1 /\ Len(Front(n)) = Len(n) - 1
    BY <1>2, FrontIsAbove
  <2>2. Len(p) = Len(n)
    BY <1>1, <2>1
  <2>3. QED
    BY <1>1, <1>2, <2>2, SameLength
<1>4. \A l \in Pending : ~Under(p, l.dir) /\ ~Under(n, l.dir)
  BY <1>1 DEF Calm
<1>5. ~Shifts /\ Shifts' /\ ~Doomed' /\ Pending' = Pending
  BY <1>1 DEF Shifts, Doomed, Pending
<1>6. Quiet'
  BY <1>1, <1>4, <1>5 DEF Quiet, Relies
<1>7. ASSUME NEW l \in files'
      PROVE  \/ l \in files /\ ~Under(p, l.dir) /\ ~Under(n, l.dir)
             \/ /\ Under(n, l.dir) /\ Shift(n, p, l) \in files
                /\ Under(p, Shift(n, p, l).dir)
  <2>1. ASSUME l \in files PROVE ~Under(n, l.dir)
    BY <1>1, <1>2, <2>1, Above DEF Stock, Places
  <2>2. QED
    BY <1>1, <1>2, <2>1, FilesMove
<1>8. Again'
  BY <1>1, <1>4, <1>7, NothingToHandle DEF Order, Again
<1>9. ~Exists(from)'
  BY <1>1, <1>2, <1>3, UnderSelf DEF Exists, MoveFolder
<1>10. OnFile' /\ OnFolder'
  BY <1>1, <1>3, <1>9 DEF OnFile, OnFolder
<1>11. ASSUME NEW l \in files' PROVE Served(l)'
  <2>1. \A x \in files : Waits(x)
    BY <1>1, <1>5, ServedPlainly
  <2>2. CASE l \in files /\ ~Under(p, l.dir) /\ ~Under(n, l.dir)
    <3>1. Waits(l)'
      BY <1>1, <2>1, <2>2 DEF Waits, Listed
    <3>2. QED
      BY <1>1, <1>5, <2>2, <3>1 DEF Served
  <2>3. CASE Under(n, l.dir) /\ Shift(n, p, l) \in files /\ Under(p, Shift(n, p, l).dir)
    <3>1. PICK b : b = Shift(n, p, l)
      OBVIOUS
    <3>2. Listed(b)
      BY <1>4, <2>1, <2>3, <3>1, NothingToHandle
    <3>3. \E r \in rows' : r.at = Shift(to', from', l)
      BY <1>1, <3>1, <3>2 DEF Listed
    <3>4. QED
      BY <1>1, <1>5, <2>3, <3>3 DEF Served, Shift, Rest
  <2>4. QED
    BY <1>7, <2>2, <2>3
<1>12. QED
  BY <1>5, <1>6, <1>8, <1>10, <1>11 DEF Order, AllServed

LEMMA PhotofoServes ==
  ASSUME IInv, IInv', Order, AllServed, Calm', NEW p \in Paths, NEW n \in Paths, photofo(p, n)
  PROVE  Order' /\ AllServed'
<1> DEFINE t == Append(n, Last(p))
<1>1. /\ pc = "idle" /\ op' = "photofo" /\ from' = p /\ to' = t
      /\ todo' = Beneath(p) /\ pc' = IF Beneath(p) # {} THEN "each" ELSE "move"
      /\ mishaps' = mishaps \cup {w \in {"overtaken", "elsewhere"} :
           \/ w = "overtaken" /\ \E l \in Pending : Under(p, l.dir) \/ Under(to', l.dir)
           \/ w = "elsewhere" /\ Elsewhere("photofo", p)}
      /\ UNCHANGED <<watch, files, rows, queue, stage, inserting>>
  BY DEF photofo, Folder, Loop, At, Goto, tree
<1>2. p \in Path /\ n \in Path /\ t \in Path /\ Front(t) = n
  BY PathsArePaths, LastName, FrontOfAppend
<1> HIDE DEF t
<1>3. "overtaken" \notin mishaps' /\ "elsewhere" \notin mishaps'
  BY DEF Calm
<1>4. \A l \in Pending : ~Under(p, l.dir) /\ ~Under(t, l.dir)
  BY <1>1, <1>3
<1>5. \A r \in Beneath(p) : Found(p, r.at.dir) = {1}
  BY <1>1, <1>3 DEF Elsewhere
<1>6. ~Shifts /\ Shifts' /\ Pending' = Pending
  BY <1>1 DEF Shifts, Pending
<1>7. Quiet' /\ Again'
  BY <1>1, <1>4, <1>6 DEF Quiet, Relies, Again, Order
<1>8. to' = Append(Front(to'), Last(from'))
  BY <1>1, <1>2 DEF t
<1>9. OnFile' /\ OnFolder'
  BY <1>1, <1>5, <1>8 DEF OnFile, OnFolder, Beneath
<1>10. ASSUME NEW l \in files PROVE Served(l)'
  <2>1. Waits(l)
    BY <1>1, <1>6, ServedPlainly
  <2>2. CASE Under(p, l.dir)
    <3>1. Listed(l)
      BY <1>4, <2>1, <2>2, NothingToHandle
    <3>2. PICK r \in rows : r.at = l
      BY <3>1 DEF Listed
    <3>3. l.dir \in Path
      BY PathsArePaths DEF IInv, Stock, Places
    <3>4. r \in Beneath(p)
      BY <1>2, <2>2, <3>2, <3>3, UnderIsFound DEF Beneath, Occurs
    <3>5. QED
      BY <1>1, <1>6, <2>2, <3>2, <3>4 DEF Served
  <2>3. CASE ~Under(p, l.dir)
    <3>1. Waits(l)'
      BY <1>1, <2>1 DEF Waits, Listed
    <3>2. QED
      BY <1>1, <1>6, <2>3, <3>1 DEF Served
  <2>4. QED
    BY <2>2, <2>3
<1>11. QED
  BY <1>1, <1>7, <1>9, <1>10 DEF Order, AllServed

LEMMA QueryServes ==
  ASSUME IInv, IInv', Order, AllServed, Calm', query
  PROVE  Order' /\ AllServed'
<1>1. /\ pc = "query" /\ op # "photofo"
      /\ todo' = Beneath(from) /\ pc' = IF Beneath(from) # {} THEN "each" ELSE "idle"
      /\ mishaps' = mishaps \cup IF Elsewhere(op, from) THEN {"elsewhere"} ELSE {}
      /\ UNCHANGED <<watch, files, rows, queue, stage, inserting, op, row, from, to>>
  BY DEF query, Loop, At, Goto, Note, tree, index, watcher, IInv, Request
<1>2. op # "photod" => \A r \in Beneath(from) : Found(from, r.at.dir) = {1}
  BY <1>1 DEF Elsewhere, Calm
<1>3. /\ ~Doomed /\ ~Doomed' /\ Pending' = Pending /\ (Shifts' => Shifts)
      /\ \A l : Relies(l)' => Relies(l)
  BY <1>1 DEF Shifts, Doomed, Pending, Relies
<1>4. Quiet' /\ Again' /\ OnFile'
  BY <1>1, <1>3 DEF Quiet, Again, OnFile, Order
<1>5. OnFolder'
  BY <1>1, <1>2 DEF OnFolder, Order, Beneath, Exists
<1>6. ASSUME NEW l \in files PROVE Served(l)'
  <2>1. Served(l)
    BY <1>3 DEF AllServed
  <2>2. CASE op = "photor" /\ Under(to, l.dir)
    <3>1. PICK b : b = Shift(to, from, l)
      OBVIOUS
    <3>2. Listed(l) \/ \E r \in rows : r.at = b
      BY <1>1, <2>1, <2>2, <3>1 DEF Served, Shifts
    <3>3. /\ from \in Path /\ b.dir \in Path /\ Under(from, b.dir)
      <4>1. to \in Path /\ from \in Path /\ l \in Spot
        BY <1>1, PathsArePaths, PlacesAreSpots DEF IInv, Request, OfLoop, Stock
      <4>2. b \in Spot /\ Under(from, b.dir)
        BY <2>2, <3>1, <4>1, ShiftAndBack
      <4>3. QED
        BY <4>1, <4>2 DEF Spot
    <3>4. \A r \in rows : r.at = b => r \in Beneath(from)
      BY <3>3, UnderIsFound DEF Beneath, Occurs
    <3>5. Listed(l)' \/ \E r \in todo' : r.at = b
      BY <1>1, <3>2, <3>4 DEF Listed
    <3>6. b = Shift(to', from', l)
      BY <1>1, <3>1
    <3>7. CASE pc' = "each"
      BY <1>1, <2>2, <3>5, <3>6, <3>7 DEF Served, Shifts, Shift, Rest
    <3>8. CASE pc' = "idle"
      <4>1. Listed(l)' /\ ~Shifts'
        BY <1>1, <3>5, <3>8 DEF Shifts
      <4>2. QED
        BY <4>1 DEF Served, Waits
    <3>9. QED
      BY <1>1, <3>7, <3>8
  <2>3. CASE ~(op = "photor" /\ Under(to, l.dir))
    <3>1. Waits(l)'
      BY <1>1, <2>1, <2>3 DEF Served, Shifts, Waits, Listed
    <3>2. QED
      BY <1>1, <2>3, <3>1 DEF Served, Shifts
  <2>4. QED
    BY <2>2, <2>3
<1>7. QED
  BY <1>1, <1>4, <1>5, <1>6 DEF Order, AllServed

\* What each saves of a row: the same file under the other folder.
LEMMA SavedRow ==
  ASSUME IInv, Order, pc = "each", op # "photod", NEW r \in todo, NEW x,
         \/ op = "photor" /\ x = [r EXCEPT !.at.dir = Renamed(from, to, @)]
         \/ op = "photofo" /\ x = [r EXCEPT !.at.dir = Rehung(from, Front(to), @)]
  PROVE  /\ r \in rows /\ r.at \in Spot /\ Under(from, r.at.dir)
         /\ x.id = r.id /\ x.at = Shift(from, to, r.at)
<1>1. /\ from \in Path /\ from # <<>> /\ to \in Path /\ to # <<>>
      /\ r \in rows /\ Found(from, r.at.dir) = {1}
  BY PathsArePaths DEF IInv, Request, OfLoop, Order, OnFolder
<1>2. r \in Object /\ r.at \in Spot /\ r.at.dir \in Path
  BY <1>1 DEF IInv, Index, Object, Spot, Path
<1>3. Under(from, r.at.dir)
  BY <1>1, <1>2, UnderIsFound
<1>4. ASSUME NEW d, x = [r EXCEPT !.at.dir = d], d = to \o Rest(from, r.at.dir)
      PROVE  x.id = r.id /\ x.at = Shift(from, to, r.at)
  <2>1. x = [r EXCEPT !.at = [r.at EXCEPT !.dir = d]]
    BY <1>4
  <2>2. [r.at EXCEPT !.dir = d] = [dir |-> d, file |-> r.at.file]
    BY <1>2 DEF Spot
  <2>3. x.at = [dir |-> d, file |-> r.at.file] /\ x.id = r.id
    BY <1>2, <2>1, <2>2 DEF Object
  <2>4. QED
    BY <1>4, <2>3 DEF Shift
<1>5. CASE op = "photor" /\ x = [r EXCEPT !.at.dir = Renamed(from, to, @)]
  <2>1. PICK d : d = Renamed(from, to, r.at.dir)
    OBVIOUS
  <2>2. d = to \o Rest(from, r.at.dir)
    BY <1>1, <1>2, <2>1, RenamedIsShifted
  <2>3. x = [r EXCEPT !.at.dir = d]
    BY <1>5, <2>1
  <2>4. QED
    BY <1>1, <1>2, <1>3, <1>4, <2>2, <2>3
<1>6. CASE op = "photofo" /\ x = [r EXCEPT !.at.dir = Rehung(from, Front(to), @)]
  <2>1. PICK d : d = Rehung(from, Front(to), r.at.dir)
    OBVIOUS
  <2>2. to = Append(Front(to), Last(from))
    BY <1>6 DEF Order, OnFolder
  <2>3. Front(to) \in Path
    BY <1>1, FrontIsAbove
  <2>4. d = Append(Front(to), Last(from)) \o Rest(from, r.at.dir)
    BY <1>1, <1>2, <2>1, <2>3, RehungIsShifted
  <2>5. x = [r EXCEPT !.at.dir = d]
    BY <1>6, <2>1
  <2>6. QED
    BY <1>1, <1>2, <1>3, <1>4, <2>2, <2>4, <2>5
<1>7. QED
  BY <1>5, <1>6

\* Where photofo will move the folder, no place is under both folders.
LEMMA ApartFolders ==
  ASSUME IInv, pc \in {"each", "move"}, op = "photofo", ~Refused(from, to), NEW q \in Path,
         Under(from, q)
  PROVE  ~Under(to, q)
<1>1. from \in Paths /\ from \in Path /\ to \in Path /\ to # <<>> /\ Exists(from) /\ Tree
  BY PathsArePaths DEF IInv, Request, OfLoop, OfMove
<1>2. ~Under(from, to)
  BY DEF Refused
<1>3. ~Under(to, from)
  BY <1>1, Above DEF Refused
<1>4. Len(from) <= Len(to) \/ Len(to) <= Len(from)
  BY <1>1, LenProperties DEF Path
<1>5. QED
  BY <1>1, <1>2, <1>3, <1>4, OneWay

LEMMA EachServes ==
  ASSUME IInv, IInv', Order, AllServed, Calm', each
  PROVE  Order' /\ AllServed'
<1>1. PICK r \in todo :
        /\ \/ op = "photod" /\ rows' = rows \ Beneath(from)
           \/ op = "photor" /\ Save([r EXCEPT !.at.dir = Renamed(from, to, @)])
           \/ op = "photofo" /\ Save([r EXCEPT !.at.dir = Rehung(from, Front(to), @)])
        /\ todo' = todo \ {r}
        /\ pc' = IF todo \ {r} # {} THEN "each" ELSE IF op = "photofo" THEN "move" ELSE "idle"
        /\ mishaps' = mishaps \cup IF op = "photod" /\ Elsewhere(op, from) THEN {"elsewhere"} ELSE {}
  BY DEF each, Loop, Goto, Note
<1>2. /\ pc = "each"
      /\ UNCHANGED <<watch, files, queue, stage, inserting, op, row, from, to>>
  BY DEF each, At, tree, watcher
<1>3. from \in Path /\ to \in Path /\ from \in Paths /\ op \in {"photod", "photor", "photofo"} /\ Stock
  BY <1>2, PathsArePaths DEF IInv, Request, OfLoop
<1>4. /\ Pending' = Pending /\ (Shifts' => Shifts) /\ (Doomed' => Doomed)
      /\ \A l : Relies(l)' => Relies(l)
  BY <1>1, <1>2 DEF Shifts, Doomed, Refused, Exists, Pending, Relies
<1>5. Quiet' /\ Again' /\ OnFile'
  BY <1>1, <1>2, <1>4 DEF Quiet, Again, OnFile, Order
<1>6. CASE op = "photod"
  <2>1. OnFolder'
    BY <1>1, <1>2, <1>6 DEF OnFolder, Order, Exists
  <2>2. ~Shifts /\ ~Shifts'
    BY <1>2, <1>6 DEF Shifts
  <2>3. ASSUME NEW l \in files PROVE Listed(l) => Listed(l)'
    <3>1. ~Under(from, l.dir)
      <4>1. ~Exists(from) /\ l.dir \in Paths /\ Exists(l.dir)
        BY <1>2, <1>3, <1>6 DEF Order, OnFolder, Stock, Places
      <4>2. QED
        BY <1>3, <4>1 DEF IInv, Tree
    <3>2. \A x \in Beneath(from) : Under(from, x.at.dir)
      BY <1>1, <1>6 DEF Elsewhere, Calm
    <3>3. rows' = rows \ Beneath(from)
      BY <1>1, <1>6
    <3>4. QED
      BY <3>1, <3>2, <3>3 DEF Listed
  <2>4. \A l \in files' : Waits(l)'
    BY <1>2, <2>2, <2>3, ServedPlainly DEF Waits
  <2>5. QED
    BY <1>5, <2>1, <2>2, <2>4, ServedPlainly DEF Order
<1>7. CASE op # "photod"
  <2>1. PICK x : /\ \/ op = "photor" /\ x = [r EXCEPT !.at.dir = Renamed(from, to, @)]
                    \/ op = "photofo" /\ x = [r EXCEPT !.at.dir = Rehung(from, Front(to), @)]
                 /\ rows' = {y \in rows : y.id # x.id} \cup {x}
    BY <1>1, <1>7 DEF Save
  <2>2. /\ r \in rows /\ r.at \in Spot /\ Under(from, r.at.dir)
        /\ x.id = r.id /\ x.at = Shift(from, to, r.at)
    BY <1>2, <1>7, <2>1, SavedRow
  <2>3. rows' = (rows \ {r}) \cup {x}
    BY <2>1, <2>2 DEF IInv, Index
  <2>4. x.at \in Spot /\ Under(to, x.at.dir)
    BY <1>3, <2>2, ShiftAndBack
  <2>5. OnFolder'
    BY <1>1, <1>2, <1>7, <2>3 DEF OnFolder, Order, Exists
  <2>6. Listed(x.at)'
    BY <2>3 DEF Listed
  <2>7. \A d : Listed(d) /\ d # r.at => Listed(d)'
    BY <2>3 DEF Listed
  <2>8. CASE op = "photor"
    <3>1. ASSUME NEW l \in files PROVE Served(l)' /\ ~Doomed'
      <4>1. Served(l) /\ ~Doomed
        BY <2>8 DEF AllServed, Doomed
      <4>2. l # r.at
        <5>1. ~Exists(from) /\ l.dir \in Paths /\ Exists(l.dir)
          BY <1>2, <1>3, <2>8 DEF Order, OnFolder, Stock, Places
        <5>2. QED
          BY <1>3, <2>2, <5>1 DEF IInv, Tree
      <4>3. CASE Under(to, l.dir)
        <5>1. PICK b : b = Shift(to, from, l)
          OBVIOUS
        <5>2. Listed(l) \/ \E y \in todo : y.at = b
          BY <1>2, <2>8, <4>1, <4>3, <5>1 DEF Served, Shifts
        <5>3. r.at = b => x.at = l
          <6>1. l \in Spot
            BY <1>3, PlacesAreSpots DEF Stock
          <6>2. QED
            BY <1>3, <2>2, <4>3, <5>1, <6>1, ShiftAndBack
        <5>4. Listed(l)' \/ \E y \in todo' : y.at = b
          BY <1>1, <2>6, <2>7, <4>2, <5>2, <5>3
        <5>5. b = Shift(to', from', l)
          BY <1>2, <5>1
        <5>6. CASE pc' = "each"
          BY <1>2, <2>8, <4>3, <5>4, <5>5, <5>6 DEF Served, Shifts, Doomed, Shift, Rest
        <5>7. CASE pc' = "idle"
          <6>1. Listed(l)' /\ ~Shifts'
            BY <1>1, <5>4, <5>7 DEF Shifts
          <6>2. QED
            BY <6>1 DEF Served, Waits, Doomed
        <5>8. QED
          BY <1>1, <2>8, <5>6, <5>7
      <4>4. CASE ~Under(to, l.dir)
        <5>1. Waits(l)
          BY <1>2, <2>8, <4>1, <4>4 DEF Served
        <5>2. Waits(l)'
          BY <1>2, <2>7, <4>2, <5>1 DEF Waits
        <5>3. QED
          BY <1>2, <2>8, <4>4, <5>2 DEF Served, Doomed
      <4>5. QED
        BY <4>3, <4>4
    <3>2. QED
      BY <1>2, <1>5, <2>5, <3>1 DEF Order, AllServed
  <2>9. CASE op = "photofo"
    <3>1. pc' \in {"each", "move"} /\ Shifts /\ Shifts' /\ (Doomed <=> Doomed')
      BY <1>1, <1>2, <2>9 DEF Shifts, Doomed, Refused, Exists
    <3>2. ASSUME ~Doomed, NEW l \in files PROVE Served(l)'
      <4>1. Served(l)
        BY <3>2 DEF AllServed
      <4>2. l \in Spot
        BY <1>3, PlacesAreSpots DEF Stock
      <4>3. CASE Under(from, l.dir)
        <5>1. PICK b : b = Shift(from, to, l)
          OBVIOUS
        <5>2. Listed(b) \/ \E y \in todo : y.at = l
          BY <2>9, <3>1, <4>1, <4>3, <5>1 DEF Served
        <5>3. r.at = l => x.at = b
          BY <2>2, <5>1
        <5>4. r.at = b => Listed(b)'
          <6>1. CASE from = to
            BY <1>3, <2>2, <2>6, <6>1, ShiftAndBack
          <6>2. CASE from # to
            <7>1. ~Refused(from, to)
              BY <2>9, <3>1, <3>2, <6>2 DEF Doomed
            <7>2. b \in Spot /\ Under(to, b.dir)
              BY <1>3, <4>2, <4>3, <5>1, ShiftAndBack
            <7>3. r.at # b
              <8>1. b.dir \in Path /\ pc \in {"each", "move"}
                BY <1>2, <7>2 DEF Spot
              <8>2. ~Under(from, b.dir)
                BY <2>9, <7>1, <7>2, <8>1, ApartFolders
              <8>3. QED
                BY <2>2, <8>2
            <7>4. QED
              BY <7>3
          <6>3. QED
            BY <6>1, <6>2
        <5>5. Listed(b)' \/ \E y \in todo' : y.at = l
          BY <1>1, <2>6, <2>7, <5>2, <5>3, <5>4
        <5>6. b = Shift(from', to', l)
          BY <1>2, <5>1
        <5>7. QED
          BY <1>2, <2>9, <3>1, <4>3, <5>5, <5>6 DEF Served, Shift, Rest, Listed
      <4>4. CASE ~Under(from, l.dir)
        <5>1. Waits(l) /\ l # r.at
          BY <1>2, <2>2, <2>9, <3>1, <4>1, <4>4 DEF Served
        <5>2. Waits(l)'
          BY <1>2, <2>7, <5>1 DEF Waits
        <5>3. QED
          BY <1>2, <2>9, <4>4, <5>2 DEF Served
      <4>5. QED
        BY <4>3, <4>4
    <3>3. QED
      BY <1>2, <1>5, <2>5, <3>1, <3>2 DEF Order, AllServed
  <2>10. QED
    BY <1>3, <1>7, <2>8, <2>9
<1>8. QED
  BY <1>6, <1>7

LEMMA MoveServes ==
  ASSUME IInv, IInv', Order, AllServed, Calm', move
  PROVE  Order' /\ AllServed'
<1>1. /\ pc = "move" /\ pc' = "idle"
      /\ IF Refused(from, to) THEN UNCHANGED tree ELSE MoveFolder(from, to)
      /\ mishaps' = mishaps \cup IF Refused(from, to) /\ from # to THEN {"failed"} ELSE {}
      /\ UNCHANGED <<rows, queue, stage, inserting, op, from, to>>
  BY DEF move, At, Goto, Note, index, watcher
<1>2. Refused(from, to) => from = to
  BY <1>1 DEF Calm
<1>3. op = "photofo" /\ from \in Path /\ to \in Path /\ Stock /\ todo = {}
  BY <1>1, PathsArePaths DEF IInv, Request, OfLoop, Order, OnFolder
<1>4. Shifts /\ ~Doomed /\ ~Shifts' /\ Pending' = Pending /\ \A l : ~Relies(l)'
  BY <1>1, <1>2, <1>3 DEF Shifts, Doomed, Pending, Relies
<1>5. Quiet' /\ OnFile' /\ OnFolder'
  BY <1>1, <1>4 DEF Quiet, OnFile, OnFolder
<1>6. \A l : Listed(l)' <=> Listed(l)
  BY <1>1 DEF Listed
<1>7. \A l : Waits(l) => Waits(l)'
  BY <1>1, <1>6 DEF Waits
<1>8. ASSUME NEW l \in files
      PROVE  IF Under(from, l.dir) THEN Listed(Shift(from, to, l)) ELSE Waits(l)
  <2>1. Served(l)
    BY <1>4 DEF AllServed
  <2>2. QED
    BY <1>1, <1>3, <1>4, <2>1 DEF Served
<1>9. CASE Refused(from, to)
  <2>1. files' = files /\ from = to
    BY <1>1, <1>2, <1>9 DEF tree
  <2>2. Again'
    BY <1>1, <2>1 DEF Order, Again
  <2>3. ASSUME NEW l \in files PROVE Waits(l)
    <3>1. l \in Spot
      BY <1>3, PlacesAreSpots DEF Stock
    <3>2. Under(from, l.dir) => Shift(from, to, l) = l
      BY <1>3, <2>1, <3>1, ShiftAndBack
    <3>3. QED
      BY <1>8, <3>2 DEF Waits
  <2>4. QED
    BY <1>1, <1>4, <1>5, <1>7, <2>1, <2>2, <2>3, ServedPlainly DEF Order
<1>10. CASE ~Refused(from, to)
  <2>1. ASSUME NEW l \in files'
        PROVE  \/ l \in files /\ ~Under(from, l.dir)
               \/ Under(to, l.dir) /\ Shift(to, from, l) \in files /\ Under(from, Shift(to, from, l).dir)
    BY <1>1, <1>3, <1>10, FilesMove
  <2>2. \A l : Under(to, l.dir) => l \notin Pending
    BY <1>4 DEF Order, Quiet, Relies
  <2>3. Again'
    BY <1>1, <2>1, <2>2, NothingToHandle DEF Order, Again
  <2>4. ASSUME NEW l \in files' PROVE Waits(l)'
    <3>1. CASE l \in files /\ ~Under(from, l.dir)
      BY <1>7, <1>8, <3>1
    <3>2. CASE Under(to, l.dir) /\ Shift(to, from, l) \in files /\ Under(from, Shift(to, from, l).dir)
      <4>1. PICK b : b = Shift(to, from, l)
        OBVIOUS
      <4>2. l \in Spot
        BY PlacesAreSpots DEF IInv, Stock
      <4>3. Shift(from, to, b) = l
        BY <1>3, <3>2, <4>1, <4>2, ShiftAndBack
      <4>4. Listed(l)
        BY <1>8, <3>2, <4>1, <4>3
      <4>5. QED
        BY <1>6, <4>4 DEF Waits
    <3>3. QED
      BY <2>1, <3>1, <3>2
  <2>5. QED
    BY <1>1, <1>4, <1>5, <2>3, <2>4, ServedPlainly DEF Order
<1>11. QED
  BY <1>9, <1>10

\* What FilesHaveRows is proved from, besides IInv.
Serves == Calm => Order /\ AllServed

LEMMA ServesInitially == Init => Serves
<1> SUFFICES ASSUME Init PROVE Order /\ AllServed
  BY DEF Serves
<1>1. IInv
  BY Initially
<1>2. pc = "idle" /\ queue = <<>> /\ ~Shifts
  BY DEF Init, Shifts
<1>3. Order
  <2>1. \A l : AgainIn(queue, l)
    BY <1>2, EmptySeq DEF AgainIn
  <2>2. QED
    BY <1>2, <2>1 DEF Order, Quiet, Again, OnFile, OnFolder, Relies
<1>4. ASSUME NEW l \in files PROVE Listed(l)
  <2>1. PICK s : s = SetToSeq(Stored)
    OBVIOUS
  <2>2. l \in Stored /\ IsFiniteSet(Stored)
    BY <1>4, FileAssumption DEF Init
  <2>3. /\ DOMAIN s = 1 .. Cardinality(Stored)
        /\ \A x \in Stored : \E i \in 1 .. Cardinality(Stored) : s[i] = x
    BY <2>1, <2>2, AsSequence
  <2>3a. PICK i \in 1 .. Cardinality(Stored) : s[i] = l
    BY <2>2, <2>3
  <2>4. [id |-> i, at |-> s[i]] \in rows
    BY <2>1, <2>3, <2>3a DEF Init
  <2>5. QED
    BY <2>3a, <2>4 DEF Listed
<1>5. QED
  BY <1>2, <1>3, <1>4, ServedPlainly DEF Waits

\* What has happened is not forgotten.
LEMMA MishapsStay ==
  ASSUME [Next]_vars
  PROVE  mishaps \subseteq mishaps'
<1>1. CASE UNCHANGED vars
  BY SMTT(30), <1>1 DEF vars
<1>2. CASE Next
  <2>1. CASE Notify
    BY <2>1 DEF Notify, auto_add, process_IN_CLOSE_WRITE, Open, Select, Insert,
       process_IN_DELETE, Note
  <2>2. CASE (\E l \in Places : SmbWrite(l) \/ SmbRemove(l)) \/ View \/ FolderView \/ Handle
    BY <2>2 DEF SmbWrite, SmbRemove, Meddles, View, Begin, FolderView, Folder, photoa, photod,
       photor, photofo, Handle, deletefile, filerename, photom, save, Twins, query, each, move,
       Note
  <2>3. QED
    BY <1>2, <2>1, <2>2 DEF Next
<1>3. QED
  BY <1>1, <1>2

\* A step to a calm state comes from a calm one, where Order and AllServed hold.
LEMMA ServesStill == IInv /\ IInv' /\ Serves /\ [Next]_vars => Serves'
<1> SUFFICES ASSUME IInv, IInv', Serves, [Next]_vars, Calm' PROVE Order' /\ AllServed'
  BY DEF Serves
<1>1. Calm
  BY MishapsStay DEF Calm
<1>2. Order /\ AllServed
  BY <1>1 DEF Serves
<1>3. CASE UNCHANGED vars
  <2>1. UNCHANGED <<watch, files, rows, queue, stage, inserting, pc, op, row, from, to, todo>>
    BY <1>3 DEF vars, tree, index, watcher, request
  <2>2. Pending' = Pending
    BY <2>1 DEF Pending
  <2>3. /\ Shifts' <=> Shifts
        /\ Doomed' <=> Doomed
        /\ \A l : Relies(l)' <=> Relies(l)
    BY <2>1, SameRequest DEF Exists
  <2>4. Order'
    BY <1>2, <2>1, <2>2, <2>3 DEF Order, Quiet, Again, OnFile, OnFolder, Exists
  <2>5. AllServed'
    BY <1>2, <2>1, <2>3 DEF AllServed, Served, Waits, Listed, Shift, Rest
  <2>6. QED
    BY <2>4, <2>5
<1>4. CASE \E l \in Places : SmbWrite(l) \/ SmbRemove(l)
  BY <1>2, <1>4, SambaServes
<1>5. CASE Notify
  BY <1>2, <1>5, NotifyServes DEF Serves
<1>6. CASE View
  BY <1>2, <1>6, ViewServes
<1>7. CASE FolderView
  BY <1>2, <1>7, PhotoaServes, PhotodServes, PhotorServes, PhotofoServes DEF FolderView
<1>8. CASE Handle
  BY <1>2, <1>8, DeleteServes, RenameServes, PhotomServes, SaveServes, TwinsServe, QueryServes,
     EachServes, MoveServes DEF Handle
<1>9. QED
  BY <1>3, <1>4, <1>5, <1>6, <1>7, <1>8 DEF Next

\* A file on the disk has a row once the requests and the watcher are done, whatever
\* their order was, unless a mishap other than a replaced file happened
\* (views.py:873-1387, watch.py:16-108).
THEOREM FilesHaveRows == Spec => []FileHasRow
<1>1. IInv /\ Serves => FileHasRow
  <2> SUFFICES ASSUME IInv, Serves, Settled, Calm, NEW l \in files PROVE ~Unlisted(l)
    BY DEF FileHasRow, Calm
  <2>1. pc = "idle" /\ queue = <<>> /\ inserting = NoPlace /\ ~Shifts
    BY DEF Settled, Shifts, IInv, Watcher
  <2>2. Waits(l)
    BY <2>1, ServedPlainly DEF Serves
  <2>3. l # inserting
    BY <2>1, FileAssumption DEF IInv, Stock, Places, NoPlace
  <2>4. ~ToldIn(queue, "close", l)
    BY <2>1, EmptySeq DEF ToldIn
  <2>5. QED
    BY <2>2, <2>3, <2>4 DEF Waits, Listed, Unlisted
<1>2. Init => IInv /\ Serves
  BY Initially, ServesInitially
<1>3. IInv /\ Serves /\ [Next]_vars => IInv' /\ Serves'
  BY StepsKeep, ServesStill
<1>4. QED
  BY <1>1, <1>2, <1>3, PTL DEF Spec

-----------------------------------------------------------------------------
(* While nothing has happened at all *)

There(l) == l \in files \/ ToldIn(queue, "delete", l)

\* Of a file that the watcher is to handle the removal will be reported.
Heard == \A l \in files : l \in Pending => watch[l.dir] = l.dir

\* A row stands for a file, or will go, or is written anew, or is changed with its folder.
Founded(x) ==
  \/ There(x.at)
  \/ pc = "save" /\ x.id = row.id
  \/ op = "photod" /\ pc \in {"query", "each"} /\ Under(from, x.at.dir)
  \/ Shifts /\ op = "photor" /\ Under(from, x.at.dir) /\ Shift(from, to, x.at) \in files
  \/ Shifts /\ op = "photofo" /\ Under(to, x.at.dir) /\ Shift(to, from, x.at) \in files

RowFiles ==
  /\ \A x \in rows : Founded(x)
  /\ inserting # NoPlace => There(inserting)

OwnFile ==
  /\ pc = "disk" /\ op # "deletefile" => from \in files
  /\ pc \in {"save", "twins"} => to \in files

\* photom may leave one row too many, until Twins.
Single ==
  /\ \A r, x \in rows : r.at = x.at =>
       r = x \/ (pc = "twins" /\ r.at = to /\ row.id \in {r.id, x.id})
  /\ stage = "insert" => ~Listed(inserting)

OwnRow ==
  /\ pc = "disk" /\ op # "deletefile" => \A x \in rows : x.at = from => x.id = row.id
  /\ pc = "save" /\ op # "photom" => \A x \in rows : x.at = to => x.id = row.id

\* No row is in the way of those that are changed with their folder.
Vacant ==
  Shifts /\ from # to =>
    /\ \A r \in rows : Under(from, r.at.dir) => ~Listed(Shift(from, to, r.at))
    /\ pc # "query" => \A x \in rows : Under(from, x.at.dir) => x \in todo

Exact == Heard /\ RowFiles /\ OwnFile /\ Single /\ OwnRow /\ Vacant

-----------------------------------------------------------------------------
(* Every step keeps the index exact *)

LEMMA RowSpots == IInv => \A x \in rows : x.at \in Spot /\ x.at.dir \in Path /\ x.id \in Nat
BY DEF IInv, Index, Object, Spot, Path

\* What is under the folder of a request is under both paths, one after the other.
LEMMA ShiftOfRow ==
  ASSUME IInv, Shifts, NEW l \in Spot
  PROVE  /\ from \in Path /\ to \in Path
         /\ Under(from, l.dir) => Under(to, Shift(from, to, l).dir) /\ Shift(to, from, Shift(from, to, l)) = l
         /\ Under(to, l.dir) => Under(from, Shift(to, from, l).dir) /\ Shift(from, to, Shift(to, from, l)) = l
<1>1. from \in Path /\ to \in Path
  BY PathsArePaths DEF Shifts, IInv, Request, OfLoop
<1>2. QED
  BY <1>1, ShiftAndBack

\* Steps of a request that is not for photor or photofo, and of none.
LEMMA ToInsert ==
  ASSUME IInv, stage = "insert"
  PROVE  inserting \in Places /\ inserting # NoPlace /\ inserting \in Pending
<1>1. inserting \in Places
  BY DEF IInv, Watcher
<1>2. inserting # NoPlace
  BY <1>1, FileAssumption DEF Places, NoPlace
<1>3. QED
  BY <1>1, <1>2 DEF Pending

LEMMA ExactPlainly ==
  /\ ~Shifts => Vacant
  /\ ~Shifts' => Vacant'
BY DEF Vacant

LEMMA SambaExact ==
  ASSUME IInv, IInv', Exact, Calm', NEW l \in Places, SmbWrite(l) \/ SmbRemove(l)
  PROVE  Exact'
<1>1. /\ UNCHANGED <<watch, rows, lastId, stage, inserting, pc, op, row, from, to, todo>>
      /\ ~Relies(l) /\ (pc \in {"disk", "save", "twins"} => l \notin {from, to})
      /\ watch[l.dir] = l.dir /\ Pending' \subseteq Pending \cup {l}
  BY SambaTells
<1>2. PICK kind \in {"close", "delete"} :
        /\ Grown(queue, queue', kind, {l}) /\ Retold(queue', kind, l)
        /\ kind = "close" => files' = files \cup {l}
        /\ kind = "delete" => files' = files \ {l}
  BY SambaTells
<1>3. Shifts' <=> Shifts
  BY <1>1 DEF Shifts
<1>4. \A m : There(m) => There(m)'
  BY <1>2 DEF There, Grown, Retold
<1>5. \A m : m \in files /\ m # l => m \in files'
  BY <1>2
<1>6. Heard'
  BY <1>1, <1>2 DEF Heard, Exact
<1>7. ASSUME NEW x \in rows PROVE Founded(x)'
  <2>1. Founded(x) /\ x.at \in Spot
    BY RowSpots DEF Exact, RowFiles
  <2>2. CASE There(x.at) \/ (pc = "save" /\ x.id = row.id)
             \/ (op = "photod" /\ pc \in {"query", "each"} /\ Under(from, x.at.dir))
    BY <1>1, <1>4, <2>2 DEF Founded
  <2>3. CASE Shifts /\ op = "photor" /\ Under(from, x.at.dir) /\ Shift(from, to, x.at) \in files
    <3>1. PICK b : b = Shift(from, to, x.at)
      OBVIOUS
    <3>2. Under(to, b.dir)
      BY <2>1, <2>3, <3>1, ShiftOfRow
    <3>3. b # l /\ b = Shift(from', to', x.at)
      BY <1>1, <2>3, <3>1, <3>2 DEF Relies
    <3>4. b \in files'
      BY <1>5, <2>3, <3>1, <3>3
    <3>5. QED
      BY <1>1, <1>3, <2>3, <3>3, <3>4 DEF Founded, Shift, Rest
  <2>4. CASE Shifts /\ op = "photofo" /\ Under(to, x.at.dir) /\ Shift(to, from, x.at) \in files
    <3>1. PICK b : b = Shift(to, from, x.at)
      OBVIOUS
    <3>2. Under(from, b.dir)
      BY <2>1, <2>4, <3>1, ShiftOfRow
    <3>3. b # l /\ b = Shift(to', from', x.at)
      BY <1>1, <2>4, <3>1, <3>2 DEF Relies
    <3>4. b \in files'
      BY <1>5, <2>4, <3>1, <3>3
    <3>5. QED
      BY <1>1, <1>3, <2>4, <3>3, <3>4 DEF Founded, Shift, Rest
  <2>5. QED
    BY <2>1, <2>2, <2>3, <2>4 DEF Founded
<1>8. RowFiles'
  BY <1>1, <1>4, <1>7 DEF RowFiles, Exact
<1>9. OwnFile'
  BY <1>1, <1>5 DEF OwnFile, Exact
<1>10. \A d : Listed(d)' <=> Listed(d)
  BY <1>1 DEF Listed
<1>11. Single' /\ OwnRow'
  BY <1>1, <1>10 DEF Single, OwnRow, Exact
<1>12. Vacant'
  BY <1>1, <1>3 DEF Vacant, Listed, Shift, Rest, Exact
<1>13. QED
  BY <1>6, <1>8, <1>9, <1>11, <1>12 DEF Exact

LEMMA NotifyWatches ==
  ASSUME Notify, Calm', NEW q \in Paths, watch[q] = q, Tree
  PROVE  watch'[q] = q
BY EndsBadly DEF Tree, Notify, auto_add, process_IN_CLOSE_WRITE, Open, Select, Insert, process_IN_DELETE

LEMMA NotifyExact ==
  ASSUME IInv, IInv', Order, Exact, Calm', Notify
  PROVE  Exact'
<1>1. UNCHANGED <<files, pc, op, row, from, to, todo>>
  BY DEF Notify, auto_add, process_IN_CLOSE_WRITE, Open, Select, Insert, process_IN_DELETE, Watching, request
<1>2. Shifts' <=> Shifts
  BY <1>1 DEF Shifts
<1>3. OwnFile'
  BY <1>1 DEF OwnFile, Exact
<1>4. \A l \in files : watch[l.dir] = l.dir => watch'[l.dir] = l.dir
  BY NotifyWatches DEF IInv, Stock, Places
\* What the steps that take an event must show.
<1>5. ASSUME Pending' \subseteq Pending, rows' \subseteq rows,
             \A x \in rows' : There(x.at) => There(x.at)',
             \/ inserting' = NoPlace \/ inserting' \in files
             \/ UNCHANGED inserting /\ (There(inserting) => There(inserting)'),
             stage' = "insert" => ~Listed(inserting')
      PROVE  Exact'
  <2>1. Heard'
    BY <1>1, <1>4, <1>5 DEF Heard, Exact
  <2>2. \A x \in rows' : Founded(x)'
    <3>1. ASSUME NEW x \in rows' PROVE Founded(x)'
      <4>1. Founded(x) /\ x \in rows /\ (There(x.at) => There(x.at)')
        BY <1>5 DEF Exact, RowFiles
      <4>2. QED
        BY <1>1, <1>2, <4>1 DEF Founded, Shift, Rest
    <3>2. QED
      BY <3>1
  <2>3. RowFiles'
    BY <1>1, <1>5, <2>2 DEF RowFiles, Exact, There
  <2>4. \A l : Listed(l)' => Listed(l)
    BY <1>5 DEF Listed
  <2>5. Single'
    BY <1>1, <1>5, <2>4 DEF Single, Exact
  <2>6. OwnRow'
    BY <1>1, <1>5 DEF OwnRow, Exact
  <2>7. Vacant'
    BY <1>1, <1>2, <1>5 DEF Vacant, Exact, Listed, Shift, Rest
  <2>8. QED
    BY <1>3, <2>1, <2>3, <2>5, <2>6, <2>7 DEF Exact
<1>6. ASSUME auto_add \/ process_IN_CLOSE_WRITE \/ Open \/ process_IN_DELETE, queue' # queue
      PROVE  Exact'
  <2>1. PICK h : h = Head(queue)
    OBVIOUS
  <2>2. /\ queue # <<>> /\ queue' = Tail(queue) /\ inserting = NoPlace
        /\ inserting' = NoPlace \/ (Open /\ inserting' = h.at /\ h.kind = "close")
        /\ stage' # "insert"
    BY <1>6, <2>1, NotifyTakes DEF auto_add, process_IN_CLOSE_WRITE, Open, process_IN_DELETE, Due
  <2>3. Pending' \subseteq Pending /\ Shrunk(queue, queue', h)
    BY <2>1, <2>2, Taking
  <2>4. \A l : There(l) => There(l)' \/ (h.kind = "delete" /\ h.at = l)
    BY <1>1, <2>3 DEF There, Shrunk
  <2>5. CASE auto_add
    BY <1>5, <2>1, <2>2, <2>3, <2>4, <2>5 DEF auto_add, Due, index
  <2>6. CASE process_IN_CLOSE_WRITE \/ Open
    <3>1. rows' = rows /\ h.kind = "close" /\ (inserting' = NoPlace \/ inserting' \in files)
      BY <1>6, <2>1, <2>2, <2>6, EndsBadly
         DEF process_IN_CLOSE_WRITE, Open, Due, index, IInv, Watcher
    <3>2. QED
      BY <1>5, <2>2, <2>3, <2>4, <3>1
  <2>7. CASE process_IN_DELETE
    <3>1. rows' = {r \in rows : r.at # h.at} /\ inserting' = NoPlace
      BY <2>1, <2>2, <2>7 DEF process_IN_DELETE, Unlist
    <3>2. QED
      BY <1>5, <2>2, <2>3, <2>4, <3>1
  <2>8. QED
    BY <1>6, <2>5, <2>6, <2>7
<1>7. CASE Insert
  <2>1. PICK new : new = [id |-> lastId', at |-> inserting]
    OBVIOUS
  <2>2. /\ stage = "insert" /\ inserting \in Places /\ inserting # NoPlace
        /\ stage' = "wait" /\ inserting' = NoPlace /\ UNCHANGED <<watch, queue>>
        /\ rows' = rows \cup {new} /\ new.at = inserting
    BY <1>7, <2>1, ToInsert DEF Insert
  <2>3. inserting \in Pending /\ inserting \in Spot
    BY <2>2, PlacesAreSpots DEF Pending, IInv, Watcher
  <2>4. ~Relies(inserting)
    BY <2>3 DEF Order, Quiet
  <2>5. Pending' \subseteq Pending
    BY <2>2 DEF Pending
  <2>6. Heard'
    BY <1>1, <1>4, <2>5 DEF Heard, Exact
  <2>7. \A l : There(l)' <=> There(l)
    BY <1>1, <2>2 DEF There
  <2>8. \A x \in rows : Founded(x)'
    <3>1. ASSUME NEW x \in rows PROVE Founded(x)'
      <4>1. Founded(x)
        BY DEF Exact, RowFiles
      <4>2. QED
        BY <1>1, <1>2, <2>7, <4>1 DEF Founded, Shift, Rest
    <3>2. QED
      BY <3>1
  <2>9. Founded(new)'
    BY <2>2, <2>7 DEF Founded, Exact, RowFiles
  <2>10. RowFiles'
    BY <2>2, <2>8, <2>9 DEF RowFiles
  <2>11. Single'
    BY <1>1, <2>2 DEF Single, Exact, Listed
  <2>12. OwnRow'
    BY <1>1, <2>2, <2>4 DEF OwnRow, Exact, Relies
  <2>13. Vacant'
    <3> SUFFICES ASSUME Shifts, from # to PROVE Vacant'
      BY <1>1, <1>2 DEF Vacant
    <3>1. ~Under(from, inserting.dir) /\ ~Under(to, inserting.dir)
      BY <2>4 DEF Relies
    <3>2. ASSUME NEW r \in rows', Under(from, r.at.dir)
          PROVE  ~Listed(Shift(from, to, r.at))' /\ (pc # "query" => r \in todo)
      <4>1. r \in rows
        BY <2>2, <3>1, <3>2
      <4>2. ~Listed(Shift(from, to, r.at)) /\ (pc # "query" => r \in todo)
        BY <3>2, <4>1 DEF Exact, Vacant
      <4>3. PICK b : b = Shift(from, to, r.at)
        OBVIOUS
      <4>4. b # inserting
        BY <3>1, <3>2, <4>1, <4>3, RowSpots, ShiftOfRow
      <4>5. QED
        BY <1>1, <2>2, <4>2, <4>3, <4>4 DEF Listed, Shift, Rest
    <3>3. QED
      BY <1>1, <3>2 DEF Vacant, Listed, Shift, Rest
  <2>14. QED
    BY <1>3, <2>6, <2>10, <2>11, <2>12, <2>13 DEF Exact
<1>8. CASE Select
  <2>1. /\ UNCHANGED <<watch, queue, rows>> /\ (inserting' = NoPlace \/ UNCHANGED inserting)
        /\ stage' = "insert" => ~Listed(inserting')
    BY <1>8 DEF Select, index, Unlisted, Listed
  <2>2. Pending' \subseteq Pending /\ \A l : There(l)' <=> There(l)
    BY <1>1, <2>1 DEF Pending, There
  <2>3. QED
    BY <1>5, <2>1, <2>2
<1>9. ASSUME auto_add \/ process_IN_CLOSE_WRITE \/ Open \/ process_IN_DELETE, queue' = queue
      PROVE  Exact'
  <2>1. UNCHANGED <<rows, inserting>>
    BY <1>9, NotifyKeepsQueue
  <2>2. stage' # "insert"
    BY <1>9 DEF auto_add, process_IN_CLOSE_WRITE, Open, process_IN_DELETE, Due
  <2>3. Pending' \subseteq Pending /\ \A l : There(l)' <=> There(l)
    BY <1>1, <1>9, <2>1 DEF Pending, There
  <2>4. QED
    BY <1>5, <2>1, <2>2, <2>3
<1>10. QED
  BY <1>6, <1>7, <1>8, <1>9 DEF Notify

LEMMA BeginExact ==
  ASSUME IInv, IInv', Exact, mishaps' = {}, NEW o \in OnFiles, NEW r \in rows, NEW target,
         Begin(o, r, target)
  PROVE  Exact'
<1>1. /\ pc = "idle" /\ pc' = "disk" /\ op' = o /\ row' = r /\ from' = r.at
      /\ UNCHANGED <<watch, files, rows, lastId, queue, stage, inserting>>
      /\ mishaps' = mishaps \cup IF o # "deletefile" /\ Pending \cap {r.at, target} # {}
                                 THEN {"overtaken"} ELSE {}
  BY DEF Begin, At, Goto, Note, tree, index, watcher
<1>2. o # "deletefile" => r.at \notin Pending
  BY <1>1
<1>3. ~Shifts /\ ~Shifts' /\ Pending' = Pending /\ \A l : There(l)' <=> There(l)
  BY <1>1 DEF Shifts, Pending, There
<1>4. Heard'
  BY <1>1, <1>3 DEF Heard, Exact
<1>5. \A x \in rows : There(x.at)
  BY <1>1, <1>3 DEF Exact, RowFiles, Founded
<1>6. RowFiles'
  BY <1>1, <1>3, <1>5 DEF RowFiles, Founded, Exact
<1>7. OwnFile'
  <2>1. o # "deletefile" => r.at \in files
    BY <1>2, <1>5, PendingNow DEF There
  <2>2. QED
    BY <1>1, <2>1 DEF OwnFile
<1>8. \A x \in rows : x.at = r.at => x = r
  BY <1>1 DEF Exact, Single
<1>9. Single' /\ OwnRow'
  BY <1>1, <1>8 DEF Single, OwnRow, Exact, Listed
<1>10. QED
  BY <1>3, <1>4, <1>6, <1>7, <1>9, ExactPlainly DEF Exact

LEMMA ViewExact ==
  ASSUME IInv, IInv', Exact, mishaps' = {}, View
  PROVE  Exact'
<1>1. PICK r, o, target : r \in rows /\ o \in OnFiles /\ Begin(o, r, target)
  BY DEF View, OnFiles
<1>2. QED
  BY <1>1, BeginExact

LEMMA DeleteExact ==
  ASSUME IInv, IInv', Exact, mishaps' = {}, deletefile
  PROVE  Exact'
<1>1. /\ pc = "disk" /\ pc' = "idle" /\ op' = op
      /\ files' = files \ {from} /\ queue' = queue \o Events("delete", files \cap {from})
      /\ mishaps' = mishaps \cup IF from \in files /\ Deaf(from) THEN {"deaf"} ELSE {}
      /\ UNCHANGED <<watch, rows, lastId, stage, inserting, from, to>>
  BY DEF deletefile, At, Goto, Note, index
<1>2. from \in files => watch[from.dir] = from.dir /\ watch[from.dir] # Unwatched
  <2>1. from \in files => watch[from.dir] = from.dir /\ from.dir \in Paths
    BY <1>1 DEF Deaf, IInv, Stock, Places
  <2>2. QED
    BY <2>1, FileAssumption
<1>3. Hearable(files \cap {from})
  <2>1. files \cap {from} \subseteq Places /\ IsFiniteSet(files \cap {from})
    BY FS_Subset DEF IInv, Stock
  <2>2. QED
    BY <1>2, <2>1 DEF Hearable
<1>4. /\ Pending' \subseteq Pending \cup (files \cap {from})
      /\ Grown(queue, queue', "delete", files \cap {from})
      /\ from \in files => Retold(queue', "delete", from)
  BY ZenonT(40), <1>1, <1>2, <1>3, Telling
<1>5. \A l : There(l) => There(l)'
  BY <1>1, <1>4 DEF There, Grown, Retold
<1>6. ~Shifts'
  BY <1>1 DEF Shifts
<1>7. Heard'
  BY <1>1, <1>4 DEF Heard, Exact
<1>8. RowFiles'
  BY <1>1, <1>5 DEF RowFiles, Founded, Exact, Shifts
<1>9. OwnFile' /\ OwnRow' /\ Single'
  BY <1>1 DEF OwnFile, OwnRow, Single, Exact, Listed
<1>10. QED
  BY <1>6, <1>7, <1>8, <1>9, ExactPlainly DEF Exact

\* The file has gone to its new place, and the row of the object will follow.
LEMMA FileGoes ==
  ASSUME IInv, IInv', Order, Exact, pc = "disk", pc' = "save", op # "deletefile",
         UNCHANGED <<watch, rows, stage, inserting, op, from, to>>, row'.id = row.id,
         op # "photom" => to \notin files \/ from = to,
         files' \subseteq (files \ {from}) \cup {to}, files \ {from} \subseteq files',
         to \in files', Pending' \subseteq Pending \cup {from},
         from = to => Pending' \subseteq Pending,
         \A l : ToldIn(queue, "delete", l) => ToldIn(queue', "delete", l)
  PROVE  Exact'
<1>1. from \notin Pending /\ to \notin Pending
  BY DEF Order, Quiet, Relies
<1>2. ~Shifts /\ ~Shifts'
  BY DEF Shifts
<1>3. \A l : There(l) /\ l # from => There(l)'
  BY DEF There
<1>4. Heard'
  BY <1>1 DEF Heard, Exact
<1>5. RowFiles'
  <2>1. ASSUME NEW x \in rows PROVE Founded(x)'
    <3>1. There(x.at)
      BY <1>2 DEF Exact, RowFiles, Founded
    <3>2. x.at = from => x.id = row.id
      BY DEF Exact, OwnRow
    <3>3. QED
      BY <1>3, <3>1, <3>2 DEF Founded
  <2>2. inserting # NoPlace => inserting # from
    BY <1>1 DEF Pending
  <2>3. QED
    BY <1>3, <2>1, <2>2 DEF RowFiles, Exact
<1>6. OwnFile' /\ Single'
  BY DEF OwnFile, Single, Exact, Listed
<1>7. OwnRow'
  <2> SUFFICES ASSUME op # "photom", NEW x \in rows, x.at = to PROVE x.id = row.id
    BY DEF OwnRow
  <2>1. CASE from = to
    BY <2>1 DEF Exact, OwnRow
  <2>2. CASE to \notin files
    <3>1. There(to)
      BY <1>2 DEF Exact, RowFiles, Founded
    <3>2. QED
      BY <1>1, <2>2, <3>1, PendingNow DEF There
  <2>3. QED
    BY <2>1, <2>2
<1>8. QED
  BY <1>2, <1>4, <1>5, <1>6, <1>7, ExactPlainly DEF Exact

LEMMA RenameExact ==
  ASSUME IInv, IInv', Order, Exact, mishaps' = {}, filerename
  PROVE  Exact'
<1>1. /\ pc = "disk" /\ op = "filerename" /\ op' = op
      /\ pc' = (IF from \in files THEN "save" ELSE "idle")
      /\ files' = IF from \in files THEN (files \ {from}) \cup {to} ELSE files
      /\ row' = [row EXCEPT !.at = to]
      /\ mishaps' = mishaps \cup IF {from, to} \subseteq files /\ from # to
                                 THEN {"replaced"} ELSE {}
      /\ UNCHANGED <<watch, rows, lastId, queue, stage, inserting, from, to>>
  BY DEF filerename, At, Goto, Note, index, watcher
<1>2. from \in files
  BY <1>1 DEF Exact, OwnFile
<1>3. to \notin files \/ from = to
  BY <1>1, <1>2
<1>4. row'.id = row.id
  BY <1>1 DEF IInv, Request, OfFile, Object
<1>5. Pending' = Pending
  BY <1>1 DEF Pending
<1>6. QED
  BY <1>1, <1>2, <1>3, <1>4, <1>5, FileGoes

LEMMA PhotomExact ==
  ASSUME IInv, IInv', Order, Exact, mishaps' = {}, photom
  PROVE  Exact'
<1>1. /\ pc = "disk" /\ op = "photom" /\ op' = op /\ from # to
      /\ mishaps' = mishaps \cup IF {from, to} \subseteq files /\ Deaf(from) THEN {"deaf"} ELSE {}
      /\ UNCHANGED <<watch, stage, inserting, from, to>>
  BY DEF photom, At, Note, Order, OnFile
<1>2. from \in files
  BY <1>1 DEF Exact, OwnFile
<1>3. UNCHANGED <<rows, lastId>> /\ row' = [row EXCEPT !.at = to] /\ pc' = "save"
  BY <1>2 DEF photom, Goto
<1>4. row'.id = row.id
  BY <1>1, <1>3 DEF IInv, Request, OfFile, Object
<1>5. CASE to \in files
  <2>1. files' = files \ {from} /\ queue' = queue \o Events("delete", files \cap {from})
    BY <1>5 DEF photom
  <2>2. Hearable(files \cap {from})
    <3>1. watch[from.dir] = from.dir
      BY <1>1, <1>2, <1>5 DEF Deaf
    <3>2. files \cap {from} \subseteq Places /\ IsFiniteSet(files \cap {from})
      BY FS_Subset DEF IInv, Stock
    <3>3. QED
      BY <3>1, <3>2 DEF Hearable
  <2>3. /\ Pending' \subseteq Pending \cup (files \cap {from})
        /\ Grown(queue, queue', "delete", files \cap {from})
    BY <1>1, <2>1, <2>2, Telling
  <2>4. \A l : ToldIn(queue, "delete", l) => ToldIn(queue', "delete", l)
    BY <2>3 DEF Grown
  <2>5. QED
    BY <1>1, <1>3, <1>4, <1>5, <2>1, <2>3, <2>4, FileGoes
<1>6. CASE to \notin files
  <2>1. files' = (files \ {from}) \cup {to} /\ queue' = queue
    BY <1>2, <1>6 DEF photom
  <2>2. Pending' = Pending
    BY <1>1, <2>1 DEF Pending
  <2>3. QED
    BY <1>1, <1>3, <1>4, <2>1, <2>2, FileGoes
<1>7. QED
  BY <1>5, <1>6

LEMMA SaveExact ==
  ASSUME IInv, IInv', Order, Exact, save
  PROVE  Exact'
<1>1. /\ pc = "save" /\ pc' = (IF op = "photom" THEN "twins" ELSE "idle") /\ op' = op
      /\ rows' = {x \in rows : x.id # row.id} \cup {row} /\ row.at = to
      /\ UNCHANGED <<watch, files, queue, stage, inserting, row, from, to>>
  BY DEF save, Save, At, Goto, tree, watcher, Order, OnFile
<1>2. to \in files /\ to \notin Pending
  BY <1>1 DEF Exact, OwnFile, Order, Quiet, Relies
<1>3. ~Shifts /\ ~Shifts' /\ Pending' = Pending /\ \A l : There(l)' <=> There(l)
  BY <1>1 DEF Shifts, Pending, There
<1>4. Heard'
  BY <1>1, <1>3 DEF Heard, Exact
<1>5. RowFiles'
  <2>1. \A x \in rows : x.id # row.id => There(x.at)
    BY <1>1, <1>3 DEF Exact, RowFiles, Founded
  <2>2. There(row.at)
    BY <1>1, <1>2 DEF There
  <2>3. QED
    BY <1>1, <1>3, <2>1, <2>2 DEF RowFiles, Founded, Exact
<1>6. OwnFile' /\ OwnRow'
  BY <1>1, <1>2 DEF OwnFile, OwnRow
<1>7. Single'
  <2>1. \A r, x \in rows : r.at = x.at => r = x
    BY <1>1 DEF Exact, Single
  <2>2. op # "photom" => \A x \in rows : x.at = to => x.id = row.id
    BY <1>1 DEF Exact, OwnRow
  <2>3. stage = "insert" => inserting # to /\ ~Listed(inserting)
    BY <1>2, ToInsert DEF Exact, Single
  <2>4. ASSUME NEW r \in rows', NEW x \in rows', r.at = x.at
        PROVE  r = x \/ (pc' = "twins" /\ r.at = to' /\ row'.id \in {r.id, x.id})
    BY <1>1, <2>1, <2>2, <2>4
  <2>5. stage' = "insert" => ~Listed(inserting)'
    BY <1>1, <2>3 DEF Listed
  <2>6. QED
    BY <2>4, <2>5 DEF Single
<1>8. QED
  BY <1>3, <1>4, <1>5, <1>6, <1>7, ExactPlainly DEF Exact

\* Where there are two rows, ff has more than one.
LEMMA TwoOrMore ==
  ASSUME NEW S, IsFiniteSet(S), NEW x \in S, NEW y \in S, x # y
  PROVE  Cardinality(S) > 1
<1>1. Cardinality(S) \in Nat
  BY FS_CardinalityType
<1>2. Cardinality(S) # 0
  BY FS_EmptySet
<1>3. Cardinality(S) # 1
  <2>1. \A z : S # {z}
    OBVIOUS
  <2>2. QED
    BY <2>1, FS_Singleton
<1>4. QED
  BY <1>1, <1>2, <1>3

LEMMA TwinsExact ==
  ASSUME IInv, IInv', Order, Exact, IsFiniteSet(rows), mishaps' = {}, Twins
  PROVE  Exact'
<1> DEFINE ff == {x \in rows : x.at.dir = row.at.dir /\ x.at.file.stem = row.at.file.stem}
<1>1. /\ pc = "twins" /\ pc' = "idle" /\ row.at = to
      /\ IF Cardinality(ff) > 1 THEN \E x \in ff : rows' = rows \ {x} ELSE rows' = rows
      /\ mishaps' = mishaps \cup IF Cardinality(ff) > 1 /\ \E x \in ff : x.at.file # row.at.file
                                 THEN {"sibling"} ELSE {}
      /\ UNCHANGED <<watch, files, queue, stage, inserting>>
  BY DEF Twins, At, Goto, Note, tree, watcher, Order, OnFile
<1>2. ~Shifts /\ ~Shifts' /\ Pending' = Pending /\ \A l : There(l)' <=> There(l)
  BY <1>1 DEF Shifts, Pending, There
<1>3. rows' \subseteq rows
  BY <1>1
<1>4. Heard'
  BY <1>1, <1>2 DEF Heard, Exact
<1>5. RowFiles'
  BY <1>1, <1>2, <1>3 DEF RowFiles, Founded, Exact
<1>6. OwnFile' /\ OwnRow'
  BY <1>1 DEF OwnFile, OwnRow
<1>7. ASSUME NEW r \in rows', NEW x \in rows', r.at = x.at, r # x PROVE FALSE
  <2>1. r \in rows /\ x \in rows /\ r.at = to /\ x.at = to /\ row.id \in {r.id, x.id}
    BY <1>3, <1>7 DEF Exact, Single
  <2>2. r \in ff /\ x \in ff
    BY <1>1, <2>1
  <2>3. Cardinality(ff) > 1
    <3>1. IsFiniteSet(ff)
      BY FS_Subset
    <3> HIDE DEF ff
    <3>2. QED
      BY <1>7, <2>2, <3>1, TwoOrMore
  <2>4. PICK z \in ff : rows' = rows \ {z}
    BY <1>1, <2>3
  <2>5. z.at = to
    <3>1. z.at.file = row.at.file /\ z.at.dir = row.at.dir
      BY <1>1, <2>3
    <3>2. z.at \in [dir : Seq(STRING), file : Files] /\ row.at \in [dir : Seq(STRING), file : Files]
      BY <1>1 DEF IInv, Index, Request, OfFile, Object
    <3>3. QED
      BY <1>1, <3>1, <3>2
  <2>6. z \in rows /\ z # r /\ z # x
    BY <1>7, <2>4
  <2>7. row.id \in {z.id, r.id} /\ row.id \in {z.id, x.id}
    BY <2>1, <2>5, <2>6 DEF Exact, Single
  <2>8. z.id # r.id /\ z.id # x.id /\ r.id # x.id
    BY <1>7, <2>1, <2>6 DEF IInv, Index
  <2>9. QED
    BY <2>1, <2>7, <2>8
<1>8. Single'
  <2>1. stage' = "insert" => ~Listed(inserting)'
    BY <1>1, <1>3 DEF Exact, Single, Listed
  <2>2. QED
    BY <1>7, <2>1 DEF Single
<1>9. QED
  BY <1>2, <1>4, <1>5, <1>6, <1>8, ExactPlainly DEF Exact

LEMMA PhotoaExact ==
  ASSUME IInv, IInv', Exact, NEW p \in Paths, photoa(p)
  PROVE  Exact'
<1> DEFINE new == {q \in Paths : Under(q, p) /\ ~Exists(q)}
<1>1. photoa(p)
  OBVIOUS
<1>2. /\ pc = "idle" /\ pc' = "idle" /\ UNCHANGED <<files, rows, stage, inserting>>
      /\ watch' = [q \in Paths |-> IF q \in new THEN Unwatched ELSE watch[q]]
  BY <1>1 DEF photoa, Folder, At
<1>3. Pending' \subseteq Pending /\ Kept(queue, queue')
  BY <1>1, PhotoaTells
<1>4. ~Shifts /\ ~Shifts'
  BY <1>2 DEF Shifts
<1>5. \A l \in files : watch'[l.dir] = watch[l.dir]
  BY <1>2 DEF IInv, Stock, Places
<1>6. Heard'
  BY <1>2, <1>3, <1>5 DEF Heard, Exact
<1>7. \A l : There(l) => There(l)'
  BY <1>2, <1>3 DEF There, Kept
<1>8. RowFiles'
  BY <1>2, <1>4, <1>7 DEF RowFiles, Founded, Exact
<1>9. OwnFile' /\ OwnRow' /\ Single'
  BY <1>2 DEF OwnFile, OwnRow, Single, Exact, Listed
<1>10. QED
  BY <1>4, <1>6, <1>8, <1>9, ExactPlainly DEF Exact

LEMMA PhotodExact ==
  ASSUME IInv, IInv', Exact, mishaps' = {}, NEW p \in Paths, photod(p)
  PROVE  Exact'
<1> DEFINE gone == {l \in files : Under(p, l.dir)}
<1>1. /\ pc = "idle" /\ pc' = "query" /\ op' = "photod" /\ from' = p
      /\ files' = files \ gone
      /\ watch' = [q \in Paths |-> IF Under(p, q) THEN Absent ELSE watch[q]]
      /\ queue' = queue \o Events("delete", gone)
      /\ mishaps' = mishaps \cup IF \E l \in gone : watch[l.dir] # Unwatched /\ Deaf(l)
                                 THEN {"deaf"} ELSE {}
      /\ UNCHANGED <<rows, stage, inserting>>
  BY DEF photod, Folder, At, Note
<1>2. Hearable(gone)
  <2>1. IsFiniteSet(gone) /\ gone \subseteq Places
    BY FS_Subset DEF IInv, Stock
  <2>2. \A l \in gone : watch[l.dir] \in {l.dir, Unwatched}
    BY <1>1 DEF Deaf
  <2>3. QED
    BY <2>1, <2>2 DEF Hearable
<1>3. /\ Pending' \subseteq Pending \cup gone
      /\ Grown(queue, queue', "delete", gone)
      /\ \A l \in gone : watch[l.dir] # Unwatched => Retold(queue', "delete", l)
  BY <1>1, <1>2, Telling
<1>4. ~Shifts /\ ~Shifts'
  BY <1>1 DEF Shifts
<1>5. Heard'
  <2>1. ASSUME NEW l \in files', l \in Pending' PROVE watch'[l.dir] = l.dir
    <3>1. l \in files /\ l \in Pending /\ ~Under(p, l.dir) /\ l.dir \in Paths
      BY <1>1, <1>3, <2>1 DEF IInv, Stock, Places
    <3>2. watch[l.dir] = l.dir
      BY <3>1 DEF Exact, Heard
    <3>3. QED
      BY <1>1, <3>1, <3>2
  <2>2. QED
    BY <2>1 DEF Heard
<1>6. \A l : There(l) => There(l)' \/ l \in gone
  BY <1>1, <1>3 DEF There, Grown
<1>7. \A x \in rows : Founded(x)'
  <2>1. ASSUME NEW x \in rows PROVE Founded(x)'
    <3>1. There(x.at)
      BY <1>1, <1>4 DEF Exact, RowFiles, Founded
    <3>2. x.at \in gone => Under(p, x.at.dir)
      OBVIOUS
    <3>3. QED
      BY <1>1, <1>6, <3>1, <3>2 DEF Founded
  <2>2. QED
    BY <2>1
<1>8. inserting # NoPlace => There(inserting)'
  <2> SUFFICES ASSUME inserting # NoPlace PROVE There(inserting)'
    BY <1>1
  <2>1. There(inserting) /\ inserting \in Pending
    BY DEF Exact, RowFiles, Pending
  <2>2. CASE inserting \in gone
    <3>1. watch[inserting.dir] = inserting.dir /\ inserting.dir \in Paths
      BY <2>1, <2>2 DEF Exact, Heard, IInv, Stock, Places
    <3>2. watch[inserting.dir] # Unwatched
      BY <3>1, FileAssumption
    <3>3. Retold(queue', "delete", inserting)
      BY <1>3, <2>2, <3>2
    <3>4. QED
      BY <1>1, <3>3 DEF There, Retold
  <2>3. QED
    BY <1>1, <1>6, <2>1, <2>2
<1>9. RowFiles'
  BY <1>1, <1>7, <1>8 DEF RowFiles
<1>10. OwnFile' /\ OwnRow' /\ Single'
  BY <1>1 DEF OwnFile, OwnRow, Single, Exact, Listed
<1>11. QED
  BY <1>4, <1>5, <1>9, <1>10, ExactPlainly DEF Exact

\* A folder that moves takes its watches with it and leaves the others alone.
LEMMA OtherWatches ==
  ASSUME NEW p, NEW n, MoveFolder(p, n), NEW q \in Paths, ~Under(p, q), ~Under(n, q)
  PROVE  watch'[q] = watch[q]
BY DEF MoveFolder

\* The index knows nothing of a folder that is not there.
LEMMA NothingThere ==
  ASSUME IInv, NEW n \in Path, n # <<>>, ~(n \in Paths /\ Exists(n)),
         \A l \in Pending : ~Under(n, l.dir), NEW l, There(l)
  PROVE  ~Under(n, l.dir)
<1>1. CASE l \in files
  BY <1>1, Above DEF IInv, Stock, Places
<1>2. CASE ToldIn(queue, "delete", l)
  BY <1>2, PendingNow
<1>3. QED
  BY <1>1, <1>2 DEF There

LEMMA PhotorExact ==
  ASSUME IInv, IInv', Exact, mishaps' = {}, NEW p \in Paths, NEW n \in Paths, photor(p, n)
  PROVE  Exact'
<1>1. /\ pc = "idle" /\ pc' = "query" /\ op' = "photor" /\ from' = p /\ to' = n
      /\ ~Exists(n) /\ MoveFolder(p, n)
      /\ mishaps' = mishaps \cup IF \E l \in Pending : Under(p, l.dir) \/ Under(n, l.dir)
                                 THEN {"overtaken"} ELSE {}
      /\ UNCHANGED <<rows, queue, stage, inserting>>
  BY DEF photor, Folder, At, Note
<1>2. p \in Path /\ n \in Path /\ p # <<>> /\ n # <<>> /\ Stock
  BY PathsArePaths DEF IInv
<1>3. \A l \in Pending : ~Under(p, l.dir) /\ ~Under(n, l.dir)
  BY <1>1
<1>4. ~Shifts /\ Shifts' /\ Pending' = Pending
  BY <1>1 DEF Shifts, Pending
<1>5. \A l : There(l) => ~Under(n, l.dir)
  BY <1>1, <1>2, <1>3, NothingThere
<1>6. \A x \in rows : There(x.at)
  BY <1>1, <1>4 DEF Exact, RowFiles, Founded
<1>7. Heard'
  <2>1. ASSUME NEW l \in files', l \in Pending PROVE watch'[l.dir] = l.dir
    <3>1. l \in files /\ ~Under(p, l.dir) /\ ~Under(n, l.dir)
      BY <1>1, <1>2, <1>3, <2>1, FilesMove
    <3>2. l.dir \in Paths /\ watch[l.dir] = l.dir
      BY <2>1, <3>1 DEF Exact, Heard, IInv, Stock, Places
    <3>3. QED
      BY <1>1, <3>1, <3>2, OtherWatches
  <2>2. QED
    BY <1>4, <2>1 DEF Heard
<1>8. \A l : There(l) => \/ There(l)'
                         \/ Under(p, l.dir) /\ Shift(p, n, l) \in files'
  <2>1. \A l \in files : IF Under(p, l.dir) THEN Shift(p, n, l) \in files' ELSE l \in files'
    BY <1>1, <1>2, FilesMove
  <2>2. QED
    BY <1>1, <2>1 DEF There
<1>9. RowFiles'
  <2>1. ASSUME NEW x \in rows PROVE Founded(x)'
    <3>1. There(x.at)' \/ (Under(p, x.at.dir) /\ Shift(p, n, x.at) \in files')
      BY <1>6, <1>8
    <3>2. Shift(p, n, x.at) = Shift(from', to', x.at)
      BY <1>1
    <3>3. QED
      BY <1>1, <1>4, <3>1, <3>2 DEF Founded, Shift, Rest
  <2>2. inserting # NoPlace => There(inserting) /\ ~Under(p, inserting.dir)
    BY <1>3 DEF Exact, RowFiles, Pending
  <2>3. QED
    BY <1>1, <1>8, <2>1, <2>2 DEF RowFiles
<1>10. OwnFile' /\ OwnRow' /\ Single'
  BY <1>1 DEF OwnFile, OwnRow, Single, Exact, Listed
<1>11. Vacant'
  <2>1. ASSUME NEW r \in rows, Under(p, r.at.dir) PROVE ~Listed(Shift(p, n, r.at))
    <3>1. PICK b : b = Shift(p, n, r.at)
      OBVIOUS
    <3>2. Under(n, b.dir)
      BY <1>2, <2>1, <3>1, RowSpots, ShiftAndBack
    <3>3. QED
      BY <1>5, <1>6, <3>1, <3>2 DEF Listed
  <2>2. QED
    BY <1>1, <2>1 DEF Vacant, Listed, Shift, Rest
<1>12. QED
  BY <1>7, <1>9, <1>10, <1>11 DEF Exact

LEMMA PhotofoExact ==
  ASSUME IInv, IInv', Exact, mishaps' = {}, ~Doomed', NEW p \in Paths, NEW n \in Paths, photofo(p, n)
  PROVE  Exact'
<1> DEFINE t == Append(n, Last(p))
<1>1. /\ pc = "idle" /\ op' = "photofo" /\ from' = p /\ to' = t
      /\ todo' = Beneath(p) /\ pc' \in {"each", "move"}
      /\ mishaps' = mishaps \cup {w \in {"overtaken", "elsewhere"} :
           \/ w = "overtaken" /\ \E l \in Pending : Under(p, l.dir) \/ Under(to', l.dir)
           \/ w = "elsewhere" /\ Elsewhere("photofo", p)}
      /\ UNCHANGED <<watch, files, rows, queue, stage, inserting>>
  BY DEF photofo, Folder, Loop, At, Goto, tree
<1>2. p \in Path /\ t \in Path /\ t # <<>>
  BY PathsArePaths, LastName, FrontOfAppend
<1> HIDE DEF t
<1>3. \A l \in Pending : ~Under(t, l.dir)
  <2>1. "overtaken" \notin mishaps'
    OBVIOUS
  <2>2. QED
    BY <1>1, <2>1
<1>4. ~Shifts /\ Shifts' /\ Pending' = Pending /\ \A l : There(l)' <=> There(l)
  BY <1>1 DEF Shifts, Pending, There
<1>5. p # t => ~(t \in Paths /\ Exists(t))
  BY <1>1, <1>4 DEF Doomed, Refused, Exists
<1>6. \A x \in rows : There(x.at)
  BY <1>1, <1>4 DEF Exact, RowFiles, Founded
<1>7. Heard'
  BY <1>1, <1>4 DEF Heard, Exact
<1>8. RowFiles'
  BY <1>1, <1>4, <1>6 DEF RowFiles, Founded, Exact
<1>9. OwnFile' /\ OwnRow' /\ Single'
  BY <1>1 DEF OwnFile, OwnRow, Single, Exact, Listed
<1>10. Vacant'
  <2> SUFFICES ASSUME p # t PROVE Vacant'
    BY <1>1 DEF Vacant
  <2>1. ASSUME NEW r \in rows, Under(p, r.at.dir) PROVE ~Listed(Shift(p, t, r.at)) /\ r \in todo'
    <3>1. PICK b : b = Shift(p, t, r.at)
      OBVIOUS
    <3>2. Under(t, b.dir)
      BY <1>2, <2>1, <3>1, RowSpots, ShiftAndBack
    <3>3. ~Listed(b)
      <4>1. There(b) => ~Under(t, b.dir)
        BY <1>2, <1>3, <1>5, NothingThere
      <4>2. QED
        BY <1>6, <3>2, <4>1 DEF Listed
    <3>4. r \in Beneath(p)
      BY <1>2, <2>1, RowSpots, UnderIsFound DEF Beneath, Occurs
    <3>5. QED
      BY <1>1, <3>1, <3>3, <3>4
  <2>2. QED
    BY <1>1, <2>1 DEF Vacant, Listed, Shift, Rest
<1>11. QED
  BY <1>7, <1>8, <1>9, <1>10 DEF Exact

LEMMA QueryExact ==
  ASSUME IInv, IInv', Exact, query
  PROVE  Exact'
<1>1. /\ pc = "query" /\ op # "photofo"
      /\ todo' = Beneath(from) /\ pc' = IF Beneath(from) # {} THEN "each" ELSE "idle"
      /\ UNCHANGED <<watch, files, rows, queue, stage, inserting, op, row, from, to>>
  BY DEF query, Loop, At, Goto, tree, index, watcher, IInv, Request
<1>2. (Shifts' => Shifts) /\ Pending' = Pending /\ \A l : There(l)' <=> There(l)
  BY <1>1 DEF Shifts, Pending, There
<1>3. \A x \in rows : Under(from, x.at.dir) => x \in Beneath(from)
  <2>1. from \in Path
    BY <1>1, PathsArePaths DEF IInv, Request, OfLoop
  <2>2. QED
    BY <2>1, RowSpots, UnderIsFound DEF Beneath, Occurs
<1>4. Heard'
  BY <1>1, <1>2 DEF Heard, Exact
<1>5. ASSUME NEW x \in rows PROVE Founded(x)'
  <2>1. Founded(x)
    BY DEF Exact, RowFiles
  <2>2. CASE There(x.at)
    BY <1>2, <2>2 DEF Founded
  <2>3. CASE ~There(x.at)
    <3>1. Under(from, x.at.dir)
      BY <1>1, <2>1, <2>3 DEF Founded
    <3>2. pc' = "each"
      BY <1>1, <1>3, <3>1
    <3>3. QED
      BY <1>1, <2>1, <2>3, <3>1, <3>2 DEF Founded, Shifts, Shift, Rest
  <2>4. QED
    BY <2>2, <2>3
<1>6. RowFiles'
  BY <1>1, <1>2, <1>5 DEF RowFiles, Exact
<1>7. OwnFile' /\ OwnRow' /\ Single'
  BY <1>1 DEF OwnFile, OwnRow, Single, Exact, Listed
<1>8. Vacant'
  BY <1>1, <1>2, <1>3 DEF Vacant, Exact, Listed, Shift, Rest
<1>9. QED
  BY <1>4, <1>6, <1>7, <1>8 DEF Exact

\* No place is under both folders of photor, nor of photofo while it can succeed.
LEMMA FoldersApart ==
  ASSUME IInv, Order, ~Doomed, from # to, Shifts, pc # "query", NEW q \in Path, Under(from, q)
  PROVE  ~Under(to, q)
<1>1. pc \in {"each", "move"} /\ (op = "photor" \/ op = "photofo")
  BY DEF Shifts
<1>2. CASE op = "photofo"
  <2>1. ~Refused(from, to)
    BY <1>2 DEF Doomed
  <2>2. QED
    BY <1>1, <1>2, <2>1, ApartFolders
<1>3. CASE op = "photor"
  <2>1. pc = "each" /\ from \in Path /\ to \in Path
    BY <1>1, <1>3, PathsArePaths DEF IInv, Request, OfLoop
  <2>2. ~Under(from, to) /\ ~Under(to, from)
    BY <1>3, <2>1 DEF Order, OnFolder
  <2>3. Len(from) <= Len(to) \/ Len(to) <= Len(from)
    BY <2>1, LenProperties DEF Path
  <2>4. QED
    BY <2>1, <2>2, <2>3, OneWay
<1>4. QED
  BY <1>1, <1>2, <1>3

\* The row that each changes is of a file that is moved, or will be.
LEMMA RowToMove ==
  ASSUME IInv, Order, Exact, ~Doomed, from # to, pc = "each", op # "photod",
         NEW r \in rows, Under(from, r.at.dir)
  PROVE  IF op = "photor" THEN Shift(from, to, r.at) \in files ELSE r.at \in files
<1>1. from \in Paths /\ from \in Path /\ Shifts /\ (op = "photor" \/ op = "photofo")
  BY PathsArePaths DEF IInv, Request, OfLoop, Shifts
<1>2. Founded(r) /\ r.at.dir \in Path
  BY RowSpots DEF Exact, RowFiles
<1>3. r.at \notin Pending
  BY <1>1 DEF Order, Quiet, Relies
<1>4. ~ToldIn(queue, "delete", r.at)
  BY <1>3, PendingNow
<1>5. ~Under(to, r.at.dir)
  BY <1>1, <1>2, FoldersApart
<1>6. op = "photor" => r.at \notin files
  <2>1. op = "photor" => ~Exists(from)
    BY DEF Order, OnFolder
  <2>2. QED
    BY <1>1, <2>1 DEF IInv, Tree, Stock, Places
<1>7. QED
  BY <1>1, <1>2, <1>4, <1>5, <1>6 DEF Founded, There

LEMMA EachExact ==
  ASSUME IInv, IInv', Order, Exact, ~Doomed, each
  PROVE  Exact'
<1>1. PICK r \in todo :
        /\ \/ op = "photod" /\ rows' = rows \ Beneath(from)
           \/ op = "photor" /\ Save([r EXCEPT !.at.dir = Renamed(from, to, @)])
           \/ op = "photofo" /\ Save([r EXCEPT !.at.dir = Rehung(from, Front(to), @)])
        /\ todo' = todo \ {r}
        /\ pc' = IF todo \ {r} # {} THEN "each" ELSE IF op = "photofo" THEN "move" ELSE "idle"
  BY DEF each, Loop, Goto
<1>2. /\ pc = "each"
      /\ UNCHANGED <<watch, files, queue, stage, inserting, op, row, from, to>>
  BY DEF each, At, tree, watcher
<1>3. from \in Path /\ to \in Path /\ op \in {"photod", "photor", "photofo"}
  BY <1>2, PathsArePaths DEF IInv, Request, OfLoop
<1>4. Pending' = Pending /\ (Shifts' => Shifts) /\ \A l : There(l)' <=> There(l)
  BY <1>1, <1>2 DEF Shifts, Pending, There
<1>5. Heard' /\ OwnFile' /\ OwnRow'
  BY <1>1, <1>2, <1>4 DEF Heard, OwnFile, OwnRow, Exact
<1>6. inserting # NoPlace => There(inserting)'
  BY <1>2, <1>4 DEF Exact, RowFiles
<1>7. \A y, z \in rows : y.at = z.at => y = z
  BY <1>2 DEF Exact, Single
<1>8. CASE op = "photod"
  <2>1. rows' = rows \ Beneath(from)
    BY <1>1, <1>8
  <2>2. \A x \in rows' : ~Under(from, x.at.dir)
    BY <1>3, <2>1, RowSpots, UnderIsFound DEF Beneath, Occurs
  <2>3. \A x \in rows' : There(x.at)
    BY <1>2, <1>8, <2>1, <2>2 DEF Exact, RowFiles, Founded, Shifts
  <2>4. RowFiles'
    BY <1>2, <1>4, <1>6, <2>3 DEF RowFiles, Founded
  <2>5. Single'
    BY <1>2, <1>7, <2>1 DEF Single, Exact, Listed
  <2>6. ~Shifts'
    BY <1>2, <1>8 DEF Shifts
  <2>7. QED
    BY <1>5, <2>4, <2>5, <2>6, ExactPlainly DEF Exact
<1>9. CASE op # "photod"
  <2>1. PICK x : /\ \/ op = "photor" /\ x = [r EXCEPT !.at.dir = Renamed(from, to, @)]
                    \/ op = "photofo" /\ x = [r EXCEPT !.at.dir = Rehung(from, Front(to), @)]
                 /\ rows' = {y \in rows : y.id # x.id} \cup {x}
    BY <1>1, <1>9 DEF Save
  <2>2. /\ r \in rows /\ r.at \in Spot /\ r.at.dir \in Path /\ Under(from, r.at.dir)
        /\ x.id = r.id /\ x.at = Shift(from, to, r.at)
    BY <1>2, <1>9, <2>1, SavedRow, RowSpots
  <2>3. rows' = (rows \ {r}) \cup {x}
    BY <2>1, <2>2 DEF IInv, Index
  <2>4. x.at \in Spot /\ x.at.dir \in Path /\ Under(to, x.at.dir) /\ Shift(to, from, x.at) = r.at
    BY <1>3, <2>2, ShiftAndBack DEF Spot
  <2>5. Shifts /\ x \in rows'
    BY <1>2, <1>3, <1>9, <2>3 DEF Shifts
  <2>6. CASE from = to
    <3>1. x.at = r.at
      BY <1>3, <2>2, <2>6, ShiftAndBack
    <3>2. x = r
      <4>1. r \in Object /\ x \in Object
        BY <2>2, <2>5 DEF IInv, Index
      <4>2. QED
        BY <2>2, <3>1, <4>1 DEF Object
    <3>3. rows' = rows
      BY <2>2, <2>3, <3>2
    <3>4. op = "photofo"
      <4>1. op = "photor" => ~Under(from, to)
        BY <1>2 DEF Order, OnFolder
      <4>2. QED
        BY <1>3, <1>9, <2>6, <4>1, UnderSelf
    <3>5. Shifts' /\ pc' \in {"each", "move"}
      BY <1>1, <1>2, <3>4 DEF Shifts
    <3>6. \A y \in rows : Founded(y)'
      BY <1>2, <1>4, <2>5, <3>4, <3>5 DEF Exact, RowFiles, Founded, Shift, Rest
    <3>7. RowFiles' /\ Single' /\ Vacant'
      BY <1>2, <1>6, <1>7, <2>6, <3>3, <3>6 DEF RowFiles, Single, Vacant, Exact, Listed
    <3>8. QED
      BY <1>5, <3>7 DEF Exact
  <2>7. CASE from # to
    <3>1. IF op = "photor" THEN x.at \in files ELSE r.at \in files
      BY <1>2, <1>9, <2>2, <2>7, RowToMove
    <3>2. /\ ~Listed(x.at)
          /\ \A y \in rows : Under(from, y.at.dir) => ~Listed(Shift(from, to, y.at)) /\ y \in todo
      BY <1>2, <2>2, <2>5, <2>7 DEF Exact, Vacant
    <3>3. ~Under(from, x.at.dir)
      BY <1>2, <2>4, <2>5, <2>7, FoldersApart
    <3>4. stage = "insert" => inserting # x.at /\ ~Listed(inserting)
      <4>1. stage = "insert" => inserting \in Pending /\ ~Listed(inserting)
        BY ToInsert DEF Exact, Single
      <4>2. x.at \notin Pending
        BY <2>4, <2>5 DEF Order, Quiet, Relies
      <4>3. QED
        BY <4>1, <4>2
    <3>5. Founded(x)'
      <4>1. CASE op = "photor"
        BY <1>4, <3>1, <4>1 DEF Founded, There
      <4>2. CASE op = "photofo"
        <5>1. Shifts'
          BY <1>1, <1>2, <4>2 DEF Shifts
        <5>2. Shift(to', from', x.at) \in files'
          BY <1>2, <2>4, <3>1, <4>2
        <5>3. QED
          BY <1>2, <2>4, <4>2, <5>1, <5>2 DEF Founded, Shift, Rest
      <4>3. QED
        BY <1>3, <1>9, <4>1, <4>2
    <3>6. ASSUME NEW y \in rows, y # r PROVE Founded(y)'
      <4>1. Founded(y)
        BY <3>6 DEF Exact, RowFiles
      <4>2. CASE There(y.at)
        BY <1>4, <4>2 DEF Founded
      <4>3. CASE ~There(y.at)
        <5>1. op = "photor" => pc' = "each"
          BY <1>1, <1>2, <3>2, <3>6, <4>1, <4>3 DEF Founded
        <5>2. Shifts'
          BY <1>1, <1>2, <1>3, <1>9, <5>1 DEF Shifts
        <5>3. QED
          BY <1>2, <1>9, <4>1, <4>3, <5>2 DEF Founded, Shift, Rest
      <4>4. QED
        BY <4>2, <4>3
    <3>7. RowFiles'
      BY <1>2, <1>6, <2>3, <3>5, <3>6 DEF RowFiles
    <3>8. Single'
      <4>1. \A y \in rows : y.at # x.at
        BY <3>2 DEF Listed
      <4>2. \A y, z \in rows' : y.at = z.at => y = z
        BY <1>7, <2>3, <4>1
      <4>3. stage' = "insert" => ~Listed(inserting)'
        BY <1>2, <2>3, <3>4 DEF Listed
      <4>4. QED
        BY <1>2, <4>2, <4>3 DEF Single
    <3>9. Vacant'
      <4>1. ASSUME NEW y \in rows', Under(from, y.at.dir)
            PROVE  (~\E z \in rows' : z.at = Shift(from, to, y.at)) /\ y \in todo'
        <5>1. y \in rows /\ y # r /\ y \in todo /\ ~Listed(Shift(from, to, y.at))
          BY <2>3, <3>2, <3>3, <4>1
        <5>2. PICK b : b = Shift(from, to, y.at)
          OBVIOUS
        <5>3. Shift(to, from, b) = y.at
          BY <1>3, <4>1, <5>1, <5>2, RowSpots, ShiftAndBack
        <5>4. b # x.at
          BY <1>7, <2>2, <2>4, <5>1, <5>3
        <5>5. QED
          BY <1>1, <2>3, <5>1, <5>2, <5>4 DEF Listed
      <4>2. QED
        BY <1>2, <4>1 DEF Vacant, Listed, Shift, Rest
    <3>10. QED
      BY <1>5, <3>7, <3>8, <3>9 DEF Exact
  <2>8. QED
    BY <2>6, <2>7
<1>10. QED
  BY <1>8, <1>9

LEMMA MoveExact ==
  ASSUME IInv, IInv', Order, Exact, ~Doomed, move
  PROVE  Exact'
<1>1. /\ pc = "move" /\ pc' = "idle"
      /\ IF Refused(from, to) THEN UNCHANGED tree ELSE MoveFolder(from, to)
      /\ UNCHANGED <<rows, queue, stage, inserting, op, from, to>>
  BY DEF move, At, Goto, index, watcher
<1>2. op = "photofo" /\ from \in Path /\ to \in Path /\ Stock /\ todo = {}
  BY <1>1, PathsArePaths DEF IInv, Request, OfLoop, Order, OnFolder
<1>3. Shifts /\ ~Shifts' /\ Pending' = Pending /\ (Refused(from, to) => from = to)
  BY <1>1, <1>2 DEF Shifts, Doomed, Pending
<1>4. OwnFile' /\ OwnRow' /\ Single'
  BY <1>1 DEF OwnFile, OwnRow, Single, Exact, Listed
<1>5. \A x \in rows : There(x.at) \/ (Under(to, x.at.dir) /\ Shift(to, from, x.at) \in files)
  BY <1>1, <1>2 DEF Exact, RowFiles, Founded
<1>6. CASE Refused(from, to)
  <2>1. watch' = watch /\ files' = files /\ from = to
    BY <1>1, <1>3, <1>6 DEF tree
  <2>2. \A l : There(l)' <=> There(l)
    BY <1>1, <2>1 DEF There
  <2>3. \A x \in rows : There(x.at)
    <3>1. \A x \in rows : Under(to, x.at.dir) => Shift(to, from, x.at) = x.at
      BY <1>2, <2>1, RowSpots, ShiftAndBack
    <3>2. QED
      BY <1>5, <3>1 DEF There
  <2>4. Heard' /\ RowFiles'
    BY <1>1, <1>3, <2>1, <2>2, <2>3 DEF Heard, RowFiles, Founded, Exact
  <2>5. QED
    BY <1>3, <1>4, <2>4, ExactPlainly DEF Exact
<1>7. CASE ~Refused(from, to)
  <2>1. from # to
    BY <1>2, <1>7, UnderSelf DEF Refused
  <2>2. \A x \in rows : ~Under(from, x.at.dir)
    BY <1>1, <1>2, <1>3, <2>1 DEF Exact, Vacant
  <2>3. \A l \in Pending : ~Under(from, l.dir) /\ ~Under(to, l.dir)
    BY <1>3 DEF Order, Quiet, Relies
  <2>4. \A l \in files : IF Under(from, l.dir) THEN Shift(from, to, l) \in files' ELSE l \in files'
    BY <1>1, <1>2, <1>7, FilesMove
  <2>5. \A l : There(l) /\ ~Under(from, l.dir) => There(l)'
    BY <1>1, <2>4 DEF There
  <2>6. ASSUME NEW x \in rows PROVE There(x.at)'
    <3>1. CASE There(x.at)
      BY <2>2, <2>5, <3>1
    <3>2. CASE Under(to, x.at.dir) /\ Shift(to, from, x.at) \in files
      <4>1. PICK b : b = Shift(to, from, x.at)
        OBVIOUS
      <4>2. Under(from, b.dir) /\ Shift(from, to, b) = x.at
        BY <1>2, <3>2, <4>1, RowSpots, ShiftAndBack
      <4>3. x.at \in files'
        BY <2>4, <3>2, <4>1, <4>2
      <4>4. QED
        BY <4>3 DEF There
    <3>3. QED
      BY <1>5, <3>1, <3>2
  <2>7. inserting # NoPlace => There(inserting)'
    BY <1>1, <2>3, <2>5 DEF Exact, RowFiles, Pending
  <2>8. RowFiles'
    BY <1>1, <2>6, <2>7 DEF RowFiles, Founded
  <2>9. Heard'
    <3>1. ASSUME NEW l \in files', l \in Pending PROVE watch'[l.dir] = l.dir
      <4>1. l \in files /\ ~Under(from, l.dir) /\ ~Under(to, l.dir)
        BY <1>1, <1>2, <1>7, <2>3, <3>1, FilesMove
      <4>2. l.dir \in Paths /\ watch[l.dir] = l.dir
        BY <3>1, <4>1 DEF Exact, Heard, IInv, Stock, Places
      <4>3. QED
        BY <1>1, <1>7, <4>1, <4>2, OtherWatches
    <3>2. QED
      BY <1>3, <3>1 DEF Heard
  <2>10. QED
    BY <1>3, <1>4, <2>8, <2>9, ExactPlainly DEF Exact
<1>8. QED
  BY <1>6, <1>7

\* A photofo that will be refused is, in the end.
LEMMA DoomedStays ==
  ASSUME IInv, Doomed, [Next]_vars, mishaps' = {}
  PROVE  Doomed'
<1>1. op = "photofo" /\ pc \in {"each", "move"} /\ Refused(from, to) /\ from # to
  BY DEF Doomed, Shifts, IInv, Request
<1>2. ASSUME UNCHANGED <<op, from, to>>, pc' \in {"each", "move"},
             \A q \in Paths : Exists(q)' <=> Exists(q)
      PROVE  Doomed'
  BY <1>1, <1>2 DEF Doomed, Shifts, Refused
<1>3. CASE UNCHANGED vars
  BY <1>1, <1>2, <1>3 DEF vars, tree, request, Exists
<1>4. CASE \E l \in Places : SmbWrite(l) \/ SmbRemove(l)
  BY <1>1, <1>2, <1>4 DEF SmbWrite, SmbRemove, Meddles, request, Exists
<1>5. CASE Notify
  <2>1. UNCHANGED <<op, from, to, pc>>
    BY <1>5 DEF Notify, auto_add, process_IN_CLOSE_WRITE, Open, Select, Insert, process_IN_DELETE, Watching, request
  <2>2. \A q \in Paths : Exists(q)' <=> Exists(q)
    BY <1>5, NotifyFolders DEF IInv
  <2>3. QED
    BY <1>1, <1>2, <2>1, <2>2
<1>6. ~View /\ ~FolderView
  BY <1>1 DEF View, Begin, FolderView, photoa, photod, photor, photofo, Folder, At
<1>7. CASE Handle
  <2>1. each \/ move
    BY <1>1, <1>7 DEF Handle, deletefile, filerename, photom, save, Twins, query, At
  <2>2. CASE each
    BY <1>1, <1>2, <2>2 DEF each, Loop, Goto, tree, Exists
  <2>3. CASE move
    BY <1>1, <2>3 DEF move, Note
  <2>4. QED
    BY <2>1, <2>2, <2>3
<1>8. QED
  BY <1>3, <1>4, <1>5, <1>6, <1>7 DEF Next

\* The index is finite: each step brings at most one row.
LEMMA FiniteStays ==
  ASSUME IsFiniteSet(rows), [Next]_vars
  PROVE  IsFiniteSet(rows')
<1>1. ASSUME NEW x, rows' \subseteq rows \cup {x} PROVE IsFiniteSet(rows')
  <2>1. IsFiniteSet(rows \cup {x})
    BY FS_AddElement
  <2>2. QED
    BY <1>1, <2>1, FS_Subset
<1>2. \E x : rows' \subseteq rows \cup {x}
  <2>1. CASE rows' \subseteq rows
    BY <2>1
  <2>2. CASE UNCHANGED vars
    BY <2>2 DEF vars, index
  <2>3. CASE \E l \in Places : SmbWrite(l) \/ SmbRemove(l)
    BY <2>3 DEF SmbWrite, SmbRemove, Meddles, index
  <2>4. CASE Notify
    BY <2>4 DEF Notify, auto_add, process_IN_CLOSE_WRITE, Open, Select, Insert, process_IN_DELETE, Unlist, index
  <2>5. CASE View \/ FolderView
    BY <2>5 DEF View, Begin, FolderView, photoa, photod, photor, photofo, Folder, index
  <2>6. CASE Handle
    <3>1. CASE deletefile \/ filerename \/ photom \/ Twins \/ query \/ move
      BY <3>1 DEF deletefile, filerename, photom, Twins, query, move, index
    <3>2. CASE save \/ each
      BY <3>2 DEF save, each, Save
    <3>3. QED
      BY <2>6, <3>1, <3>2 DEF Handle
  <2>7. QED
    BY <2>2, <2>3, <2>4, <2>5, <2>6 DEF Next
<1>3. QED
  BY <1>1, <1>2

\* What is proved of the index while nothing has happened.
Accords == mishaps = {} /\ ~Doomed => Exact

LEMMA AccordsInitially == Init => IsFiniteSet(rows) /\ Accords
<1> SUFFICES ASSUME Init PROVE IsFiniteSet(rows) /\ Exact
  BY DEF Accords
<1>1. /\ pc = "idle" /\ queue = <<>> /\ stage = "wait" /\ inserting = NoPlace
      /\ ~Shifts /\ files = Stored
  BY DEF Init, Shifts
<1>2. PICK s : s = SetToSeq(Stored)
  OBVIOUS
<1>3. /\ Cardinality(Stored) \in Nat
      /\ DOMAIN s = 1 .. Cardinality(Stored) /\ s \in [1 .. Cardinality(Stored) -> Stored]
      /\ \A i, j \in 1 .. Cardinality(Stored) : s[i] = s[j] => i = j
  BY <1>2, FileAssumption, AsSequence
<1>4. rows = {[id |-> i, at |-> s[i]] : i \in 1 .. Cardinality(Stored)}
  BY <1>2, <1>3 DEF Init
<1>5. IsFiniteSet(rows)
  <2> DEFINE f == [i \in 1 .. Cardinality(Stored) |-> [id |-> i, at |-> s[i]]]
  <2>1. f \in Surjection(1 .. Cardinality(Stored), rows)
    BY <1>4 DEF Surjection
  <2>2. IsFiniteSet(1 .. Cardinality(Stored))
    BY <1>3, FS_Interval
  <2>3. QED
    BY <2>1, <2>2, FS_Surjection
<1>6. \A r \in rows : r.at \in files
  BY <1>1, <1>3, <1>4
<1>7. \A r, x \in rows : r.at = x.at => r = x
  BY <1>3, <1>4
<1>8. Pending = {}
  <2>1. \A l : l \notin Pending
    <3>1. IInv
      BY Initially
    <3>2. QED
      BY <1>1, <3>1, PendingNow, EmptySeq DEF ToldIn
  <2>2. QED
    BY <2>1
<1>9. Exact
  BY <1>1, <1>6, <1>7, <1>8 DEF Exact, Heard, RowFiles, Founded, There, OwnFile, Single, OwnRow, Vacant
<1>10. QED
  BY <1>5, <1>9

\* A step to a state without mishap, and not doomed, comes from one.
LEMMA AccordsStill ==
  IInv /\ IInv' /\ Serves /\ IsFiniteSet(rows) /\ Accords /\ [Next]_vars => Accords'
<1> SUFFICES ASSUME IInv, IInv', Serves, IsFiniteSet(rows), Accords, [Next]_vars,
                    mishaps' = {}, ~Doomed'
             PROVE  Exact'
  BY DEF Accords
<1>1. mishaps = {} /\ Calm /\ Calm'
  BY MishapsStay DEF Calm
<1>2. ~Doomed
  BY DoomedStays
<1>3. Order /\ Exact
  BY <1>1, <1>2 DEF Serves, Accords
<1>4. CASE UNCHANGED vars
  <2>1. UNCHANGED <<watch, files, rows, queue, stage, inserting, pc, op, row, from, to, todo>>
    BY <1>4 DEF vars, tree, index, watcher, request
  <2>2. Pending' = Pending /\ (Shifts' <=> Shifts) /\ \A l : There(l)' <=> There(l)
    BY <2>1 DEF Pending, Shifts, There
  <2>3. Heard' /\ OwnFile' /\ OwnRow' /\ Single'
    BY <1>3, <2>1, <2>2 DEF Exact, Heard, OwnFile, OwnRow, Single, Listed
  <2>4. RowFiles'
    BY <1>3, <2>1, <2>2 DEF Exact, RowFiles, Founded, There, Shift, Rest
  <2>5. Vacant'
    BY <1>3, <2>1, <2>2 DEF Exact, Vacant, Listed, Shift, Rest
  <2>6. QED
    BY <2>3, <2>4, <2>5 DEF Exact
<1>5. CASE \E l \in Places : SmbWrite(l) \/ SmbRemove(l)
  BY <1>1, <1>3, <1>5, SambaExact
<1>6. CASE Notify
  BY <1>1, <1>3, <1>6, NotifyExact
<1>7. CASE View
  BY <1>3, <1>7, ViewExact
<1>8. CASE FolderView
  BY <1>3, <1>8, PhotoaExact, PhotodExact, PhotorExact, PhotofoExact DEF FolderView
<1>9. CASE Handle
  BY <1>2, <1>3, <1>9, DeleteExact, RenameExact, PhotomExact, SaveExact, TwinsExact, QueryExact,
     EachExact, MoveExact DEF Handle
<1>10. QED
  BY <1>4, <1>5, <1>6, <1>7, <1>8, <1>9 DEF Next

\* The inductive invariant of both theorems below.
LEMMA AccordsAlways == Spec => [](IInv /\ Accords)
<1>1. Init => IInv /\ Serves /\ IsFiniteSet(rows) /\ Accords
  BY Initially, ServesInitially, AccordsInitially
<1>2. IInv /\ Serves /\ IsFiniteSet(rows) /\ Accords /\ [Next]_vars
        => IInv' /\ Serves' /\ IsFiniteSet(rows)' /\ Accords'
  BY StepsKeep, ServesStill, FiniteStays, AccordsStill
<1>3. QED
  BY <1>1, <1>2, PTL DEF Spec

\* A row of the index stands for a file that is on the disk, once the requests and the
\* watcher are done and no mishap happened (views.py:873-1387, watch.py:16-108).
THEOREM RowsHaveFiles == Spec => []RowHasFile
<1>1. IInv /\ Accords => RowHasFile
  <2> SUFFICES ASSUME Accords, Settled, mishaps = {}, NEW r \in rows PROVE r.at \in files
    BY DEF RowHasFile
  <2>1. pc = "idle" /\ queue = <<>> /\ ~Shifts /\ ~Doomed
    BY DEF Settled, Shifts, Doomed
  <2>2. ~ToldIn(queue, "delete", r.at)
    BY <2>1, EmptySeq DEF ToldIn
  <2>3. QED
    BY <2>1, <2>2 DEF Accords, Exact, RowFiles, Founded, There
<1>2. QED
  BY <1>1, AccordsAlways, PTL

\* And no file has two, although watch.py inserts a row of its own accord and photom
\* saves one that may be there already (views.py:1038-1110, watch.py:16-88).
THEOREM FilesHaveOneRow == Spec => []OneRowEach
<1>1. IInv /\ Accords => OneRowEach
  <2> SUFFICES ASSUME Accords, Settled, mishaps = {} PROVE \A r, x \in rows : r.at = x.at => r = x
    BY DEF OneRowEach
  <2>1. pc = "idle" /\ ~Doomed
    BY DEF Settled, Shifts, Doomed
  <2>2. QED
    BY <2>1 DEF Accords, Exact, Single
<1>2. QED
  BY <1>1, AccordsAlways, PTL

=============================================================================
