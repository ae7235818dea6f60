-------------------------- MODULE DriveTreeLemmas --------------------------
(***************************************************************************)
(* Lemmas about the operators of DriveTree, for every set of items: paths  *)
(* and subtrees of a drive, the dictionaries of the client and what its    *)
(* look-ups do to them.                                                    *)
(***************************************************************************)
EXTENDS DriveTree, FiniteSetTheorems, SequenceTheorems, WellFoundedInduction, TLAPS

(* A set of numbers has a least one. *)
LEMMA LeastNumber ==
  ASSUME NEW T \in SUBSET Nat, T # {} PROVE \E n \in T : \A m \in T : n <= m
<1> DEFINE R == OpToRel(<, Nat)
<1>1. R = { s \in Nat \X Nat : s[1] < s[2] }
  BY DEF OpToRel
<1>2. IsWellFoundedOn(R, Nat)
  BY NatLessThanWellFounded
<1> HIDE DEF R
<1>3. PICK n \in T : \A m \in T : <<m, n>> \notin R
  BY <1>2, WFMin
<1>4. \A m \in T : ~(m < n)
  BY <1>1, <1>3
<1> QED BY <1>4

(* A finite set of numbers has a greatest one. *)
LEMMA GreatestNumber ==
  ASSUME NEW S \in SUBSET Nat, IsFiniteSet(S), S # {} PROVE \E n \in S : \A m \in S : m <= n
<1> DEFINE Bad(A) == IsFiniteSet(A) /\ A # {} /\ ~\E n \in A : \A m \in A : m <= n
           T == { k \in Nat : \E A \in SUBSET Nat : Bad(A) /\ Cardinality(A) = k }
<1>1. SUFFICES ASSUME Bad(S) PROVE FALSE
  OBVIOUS
<1>2. Cardinality(S) \in T
  BY <1>1, FS_CardinalityType
<1>3. PICK k \in T : \A m \in T : k <= m
  BY <1>2, LeastNumber
<1>4. PICK A \in SUBSET Nat : Bad(A) /\ Cardinality(A) = k
  BY <1>3
<1>5. PICK x \in A : TRUE
  BY <1>4
<1>6. IsFiniteSet(A \ {x}) /\ Cardinality(A \ {x}) = k - 1 /\ k \in Nat /\ k - 1 \in Nat
  <2>1. k \in Nat /\ k # 0
    BY <1>4, FS_EmptySet, FS_CardinalityType
  <2>2. IsFiniteSet(A \ {x}) /\ Cardinality(A \ {x}) = k - 1
    BY <1>4, <1>5, FS_RemoveElement
  <2> QED BY <2>1, <2>2
<1>7. ~Bad(A \ {x})
  <2>1. ~(k - 1 \in T)
    BY <1>3, <1>6
  <2> QED BY <1>6, <2>1
<1>8. CASE A \ {x} = {}
  BY <1>4, <1>5, <1>8
<1>9. CASE A \ {x} # {}
  <2>1. PICK y \in A \ {x} : \A m \in A \ {x} : m <= y
    BY <1>6, <1>7, <1>9
  <2>2. x \in Nat /\ y \in Nat /\ \A m \in A : m \in Nat /\ (m = x \/ m <= y)
    BY <1>5, <2>1
  <2>3. \/ \A m \in A : m <= x
        \/ \A m \in A : m <= y
    BY <2>2
  <2> QED BY <1>4, <1>5, <2>1, <2>3
<1> QED BY <1>8, <1>9

(* Max is the greatest element. *)
LEMMA MaxIs ==
  ASSUME NEW S \in SUBSET Nat, IsFiniteSet(S), S # {}
  PROVE  Max(S) \in S /\ \A m \in S : m <= Max(S)
<1>1. \E n \in S : \A m \in S : n >= m
  BY GreatestNumber
<1>2. Max(S) \in S /\ \A m \in S : Max(S) >= m
  BY <1>1 DEF Max
<1> QED BY <1>2

(* Sets of items are finite sets of numbers. *)
LEMMA SomeIds ==
  ASSUME NEW S \in SUBSET Ids
  PROVE  S \in SUBSET Nat /\ IsFiniteSet(S) /\ Cardinality(S) \in Nat
BY ItemsAssumption, FS_Subset, FS_CardinalityType

(* Items in the order of their numbers: each of them, and nothing else. *)
LEMMA InOrderIs ==
  ASSUME NEW S \in SUBSET Ids
  PROVE  InOrder(S) \in Seq(S) /\ \A x \in S : \E k \in DOMAIN InOrder(S) : InOrder(S)[k] = x
<1> DEFINE Sorted(s, A) == /\ s \in [1..Cardinality(A) -> A]
                           /\ \A j, k \in DOMAIN s : j < k => s[j] < s[k]
                           /\ Range(s) = A
           T == { n \in Nat : \E A \in SUBSET Ids : Cardinality(A) = n /\ ~\E s : Sorted(s, A) }
<1>1. T = {}
  <2>1. SUFFICES ASSUME T # {} PROVE FALSE
    OBVIOUS
  <2>2. PICK n \in T : \A m \in T : n <= m
    BY <2>1, LeastNumber
  <2>3. PICK A \in SUBSET Ids : Cardinality(A) = n /\ ~\E s : Sorted(s, A)
    BY <2>2
  <2>4. A # {}
    <3>1. SUFFICES ASSUME A = {} PROVE FALSE
      OBVIOUS
    <3>2. Cardinality(A) = 0
      BY <3>1, FS_EmptySet
    <3>3. 1..Cardinality(A) = {}
      BY <3>2
    <3> DEFINE none == [k \in 1..Cardinality(A) |-> k]
    <3>4. none \in [1..Cardinality(A) -> A] /\ DOMAIN none = {}
      BY <3>1, <3>3
    <3>5. Range(none) = A
      BY <3>1, <3>4 DEF Range
    <3>6. Sorted(none, A)
      BY <3>4, <3>5
    <3> QED BY <2>3, <3>6
  <2> DEFINE x == Max(A)
  <2>5. x \in A /\ \A m \in A : m <= x /\ m \in Nat
    BY <2>4, SomeIds, MaxIs
  <2> HIDE DEF x
  <2>6. Cardinality(A \ {x}) = n - 1 /\ n - 1 \in Nat /\ n \in Nat
    <3>1. n \in Nat /\ n # 0
      BY <2>3, <2>4, SomeIds, FS_EmptySet
    <3>2. Cardinality(A \ {x}) = n - 1
      BY <2>3, <2>5, SomeIds, FS_RemoveElement
    <3> QED BY <3>1, <3>2
  <2>7. n - 1 \notin T
    BY <2>2, <2>6
  <2>8. PICK s : Sorted(s, A \ {x})
    BY <2>6, <2>7
  <2> DEFINE t == [k \in 1..n |-> IF k = n THEN x ELSE s[k]]
  <2>9. Sorted(t, A)
    <3>1. s \in [1..(n - 1) -> A \ {x}]
      BY <2>6, <2>8
    <3>2. \A k \in 1..n : k # n => k \in 1..(n - 1)
      BY <2>6
    <3>3. t \in [1..Cardinality(A) -> A]
      BY <2>3, <2>5, <3>1, <3>2
    <3>4. ASSUME NEW j \in 1..n, NEW k \in 1..n, j < k PROVE t[j] < t[k]
      <4>1. j # n /\ j \in 1..(n - 1) /\ t[j] = s[j] /\ s[j] \in A /\ s[j] # x
        BY <2>6, <3>1, <3>2, <3>4
      <4>2. CASE k = n
        BY <2>5, <4>1, <4>2
      <4>3. CASE k # n
        BY <2>8, <3>1, <3>2, <3>4, <4>1, <4>3
      <4> QED BY <4>2, <4>3
    <3>5. ASSUME NEW y \in A PROVE \E k \in 1..n : t[k] = y
      <4>1. CASE y = x
        <5>1. n \in 1..n
          BY <2>4, <2>3, <2>6, SomeIds, FS_EmptySet
        <5> QED BY <4>1, <5>1
      <4>2. CASE y # x
        <5>1. PICK k \in 1..(n - 1) : s[k] = y
          <6>1. y \in Range(s)
            BY <2>8, <4>2
          <6> QED BY <3>1, <6>1 DEF Range
        <5>2. k \in 1..n /\ k # n
          BY <2>6
        <5> QED BY <5>1, <5>2
      <4> QED BY <4>1, <4>2
    <3>6. Range(t) = A
      BY <2>3, <3>3, <3>5 DEF Range
    <3> QED BY <2>3, <3>3, <3>4, <3>6
  <2> QED BY <2>3, <2>9
<1>2. PICK s : Sorted(s, S)
  BY <1>1, SomeIds
<1>3. /\ s \in [1..Cardinality(S) -> S]
      /\ Range(s) = S /\ \A j, k \in DOMAIN s : j < k => s[j] < s[k]
  BY <1>2
<1> DEFINE o == InOrder(S)
<1>4. o \in [1..Cardinality(S) -> S] /\ Range(o) = S
  BY <1>3 DEF InOrder
<1>5. o \in Seq(S)
  BY <1>4, SomeIds
<1> QED BY <1>4, <1>5 DEF Range

-----------------------------------------------------------------------------
(***************************************************************************)
(* Paths on a drive.                                                       *)
(***************************************************************************)
(* What a drive is made of. *)
LEMMA DriveIs ==
  ASSUME NEW d, DriveOK(d)
  PROVE  /\ DOMAIN d \subseteq Ids /\ Root \notin DOMAIN d
         /\ \A j \in DOMAIN d : /\ d[j] \in [parent : (DOMAIN d \cap Folders) \cup {Root}, name : Names]
                                /\ d[j].parent \in (DOMAIN d \cap Folders) \cup {Root}
                                /\ d[j].name \in Names
         /\ \A S \in SUBSET DOMAIN d : S # {} => \E j \in S : d[j].parent \notin S
<1>1. DOMAIN d \subseteq Ids /\ Root \notin DOMAIN d
  BY ItemsAssumption DEF DriveOK
<1>2. \A j \in DOMAIN d : d[j] \in [parent : (DOMAIN d \cap Folders) \cup {Root}, name : Names]
  BY DEF DriveOK
<1>3. \A S \in SUBSET DOMAIN d : S # {} => \E j \in S : d[j].parent \notin S
  BY DEF DriveOK
<1> QED BY <1>1, <1>2, <1>3

(* The function PathIn is defined by. *)
IsPath(h, d) ==
  h = [j \in DOMAIN d \cup {Root} |->
         IF j = Root THEN << >> ELSE Append(h[d[j].parent], d[j].name)]

(* A path for some items: those of their folders are known. *)
SomePaths(g, d) ==
  /\ Root \in DOMAIN g /\ DOMAIN g \subseteq DOMAIN d \cup {Root}
  /\ g = [j \in DOMAIN g |->
            IF j = Root THEN << >> ELSE Append(g[d[j].parent], d[j].name)]
  /\ \A j \in DOMAIN g : j # Root => d[j].parent \in DOMAIN g

(* One more item gets a path, as long as one has none. *)
LEMMA OneMorePath ==
  ASSUME NEW d, DriveOK(d), NEW g, SomePaths(g, d), DOMAIN d \ DOMAIN g # {}
  PROVE  \E j \in DOMAIN d \ DOMAIN g : \E h : SomePaths(h, d) /\ DOMAIN h = DOMAIN g \cup {j}
<1> DEFINE U == DOMAIN d \ DOMAIN g
<1>1. PICK j \in U : d[j].parent \notin U
  <2>1. U \in SUBSET DOMAIN d /\ U # {}
    OBVIOUS
  <2> QED BY <2>1, DriveIs
<1>2. d[j].parent \in DOMAIN g /\ j # Root /\ j \in DOMAIN d /\ j \notin DOMAIN g
  BY <1>1, DriveIs DEF SomePaths
<1> DEFINE h == [k \in DOMAIN g \cup {j} |-> IF k = j THEN Append(g[d[j].parent], d[j].name) ELSE g[k]]
<1>3. DOMAIN h = DOMAIN g \cup {j}
  OBVIOUS
<1>4. Root \in DOMAIN h /\ DOMAIN h \subseteq DOMAIN d \cup {Root}
  BY <1>2, <1>3 DEF SomePaths
<1>5. \A k \in DOMAIN h : k # Root => d[k].parent \in DOMAIN g
  BY <1>2, <1>3 DEF SomePaths
<1>6. \A k \in DOMAIN g : h[k] = g[k]
  BY <1>2
<1>7. \A k \in DOMAIN g : g[k] = IF k = Root THEN << >> ELSE Append(g[d[k].parent], d[k].name)
  BY DEF SomePaths
<1>8. ASSUME NEW k \in DOMAIN h
      PROVE h[k] = IF k = Root THEN << >> ELSE Append(h[d[k].parent], d[k].name)
  <2>1. CASE k = j
    BY <2>1, <1>2, <1>6
  <2>2. CASE k # j
    <3>1. k \in DOMAIN g
      BY <2>2, <1>3
    <3>2. k = Root \/ h[d[k].parent] = g[d[k].parent]
      BY <1>5, <1>6, <1>8
    <3> QED BY <3>1, <3>2, <1>6, <1>7
  <2> QED BY <2>1, <2>2
<1>9. h = [k \in DOMAIN h |-> h[k]]
  OBVIOUS
<1> HIDE DEF h
<1>10. h = [k \in DOMAIN h |-> IF k = Root THEN << >> ELSE Append(h[d[k].parent], d[k].name)]
  BY <1>8, <1>9
<1>11. SomePaths(h, d)
  BY <1>3, <1>4, <1>5, <1>10 DEF SomePaths
<1> QED BY <1>2, <1>3, <1>11

(* Every item has a path. *)
LEMMA PathExists ==
  ASSUME NEW d, DriveOK(d) PROVE \E h : IsPath(h, d)
<1> DEFINE T == { n \in Nat : \E g : SomePaths(g, d) /\ Cardinality(DOMAIN d \ DOMAIN g) = n }
<1>1. T # {}
  <2> DEFINE g == [j \in {Root} |-> << >>]
  <2>1. DOMAIN g = {Root} /\ g[Root] = << >>
    OBVIOUS
  <2>2. g = [j \in DOMAIN g |-> IF j = Root THEN << >> ELSE Append(g[d[j].parent], d[j].name)]
    OBVIOUS
  <2> HIDE DEF g
  <2>3. SomePaths(g, d)
    BY <2>1, <2>2 DEF SomePaths
  <2>4. Cardinality(DOMAIN d \ DOMAIN g) \in Nat
    BY DriveIs, SomeIds
  <2> QED BY <2>3, <2>4
<1>2. PICK n \in T : \A m \in T : n <= m
  BY <1>1, LeastNumber
<1>3. PICK g : SomePaths(g, d) /\ Cardinality(DOMAIN d \ DOMAIN g) = n
  BY <1>2
<1>4. DOMAIN d \ DOMAIN g = {}
  <2>1. SUFFICES ASSUME DOMAIN d \ DOMAIN g # {} PROVE FALSE
    OBVIOUS
  <2>2. PICK j \in DOMAIN d \ DOMAIN g : \E h : SomePaths(h, d) /\ DOMAIN h = DOMAIN g \cup {j}
    BY <1>3, <2>1, OneMorePath
  <2>3. PICK h : SomePaths(h, d) /\ DOMAIN h = DOMAIN g \cup {j}
    BY <2>2
  <2>4. DOMAIN d \ DOMAIN h = (DOMAIN d \ DOMAIN g) \ {j}
    BY <2>3
  <2>5. (DOMAIN d \ DOMAIN g) \in SUBSET Ids /\ n \in Nat
    BY DriveIs
  <2>6. Cardinality(DOMAIN d \ DOMAIN h) = n - 1
    BY <1>3, <2>3, <2>4, <2>5, SomeIds, FS_RemoveElement
  <2>7. n - 1 \in Nat
    BY <2>4, <2>5, <2>6, SomeIds
  <2>8. n - 1 \in T
    BY <2>3, <2>6, <2>7
  <2> QED BY <1>2, <2>5, <2>8
<1>5. DOMAIN g = DOMAIN d \cup {Root}
  BY <1>3, <1>4 DEF SomePaths
<1>6. IsPath(g, d)
  BY <1>3, <1>5 DEF SomePaths, IsPath
<1> QED BY <1>6

(* The path of an item is the path of its folder, and its name. *)
LEMMA PathIs ==
  ASSUME NEW d, DriveOK(d)
  PROVE  /\ PathIn(d, Root) = << >>
         /\ \A j \in DOMAIN d :
              /\ PathIn(d, d[j].parent) \in Seq(Names)
              /\ PathIn(d, j) = Append(PathIn(d, d[j].parent), d[j].name)
              /\ PathIn(d, j) \in Seq(Names) /\ PathIn(d, j) # << >>
<1> DEFINE h == CHOOSE f : IsPath(f, d)
<1>1. IsPath(h, d)
  BY PathExists
<1>2. \A j \in DOMAIN d \cup {Root} : PathIn(d, j) = h[j]
  BY DEF PathIn, IsPath
<1> HIDE DEF h
<1>3. h[Root] = << >>
  BY <1>1 DEF IsPath
<1>4. \A j \in DOMAIN d : h[j] = Append(h[d[j].parent], d[j].name)
  BY <1>1, DriveIs DEF IsPath
<1>5. \A j \in DOMAIN d : h[j] \in Seq(Names)
  <2> DEFINE S == { j \in DOMAIN d : h[j] \notin Seq(Names) }
  <2>1. SUFFICES ASSUME S # {} PROVE FALSE
    OBVIOUS
  <2>2. PICK j \in S : d[j].parent \notin S
    BY <2>1, DriveIs
  <2>3. h[d[j].parent] \in Seq(Names) /\ d[j].name \in Names
    <3>1. d[j].parent \in DOMAIN d \cup {Root} /\ d[j].name \in Names
      BY <2>2, DriveIs
    <3> QED BY <1>3, <2>2, <3>1, EmptySeq
  <2>4. Append(h[d[j].parent], d[j].name) \in Seq(Names)
    BY <2>3
  <2> QED BY <1>4, <2>2, <2>4
<1>6. \A j \in DOMAIN d : d[j].parent \in DOMAIN d \cup {Root} /\ h[d[j].parent] \in Seq(Names) /\ d[j].name \in Names
  <2>1. \A j \in DOMAIN d : d[j].parent \in DOMAIN d \cup {Root} /\ d[j].name \in Names
    BY DriveIs
  <2> QED BY <1>3, <1>5, <2>1, EmptySeq
<1>7. \A q \in Seq(Names), n \in Names : Append(q, n) # << >>
  BY AppendProperties
<1>8. ASSUME NEW j \in DOMAIN d
      PROVE /\ PathIn(d, d[j].parent) \in Seq(Names)
            /\ PathIn(d, j) = Append(PathIn(d, d[j].parent), d[j].name)
            /\ PathIn(d, j) \in Seq(Names) /\ PathIn(d, j) # << >>
  <2>1. PathIn(d, j) = h[j] /\ PathIn(d, d[j].parent) = h[d[j].parent]
    BY <1>2, <1>6
  <2>2. h[j] # << >>
    BY <1>4, <1>6, <1>7
  <2> QED BY <1>4, <1>5, <1>6, <2>1, <2>2
<1> QED BY <1>2, <1>3, <1>8

(* What two drives have the same, the folders included, has one path on both. *)
LEMMA SamePaths ==
  ASSUME NEW d, DriveOK(d), NEW e, DriveOK(e), NEW A \in SUBSET (DOMAIN d \cap DOMAIN e),
         \A j \in A : d[j] = e[j] /\ d[j].parent \in A \cup {Root}
  PROVE  \A j \in A : PathIn(d, j) = PathIn(e, j)
<1> DEFINE S == { j \in A : PathIn(d, j) # PathIn(e, j) }
<1>1. SUFFICES ASSUME S # {} PROVE FALSE
  OBVIOUS
<1>2. PICK j \in S : d[j].parent \notin S
  BY <1>1, DriveIs
<1>3. PathIn(d, d[j].parent) = PathIn(e, e[j].parent)
  BY <1>2, PathIs
<1>4. PathIn(d, j) = Append(PathIn(d, d[j].parent), d[j].name)
  BY <1>2, PathIs
<1>5. PathIn(e, j) = Append(PathIn(e, e[j].parent), e[j].name)
  BY <1>2, PathIs
<1> QED BY <1>2, <1>3, <1>4, <1>5

-----------------------------------------------------------------------------
(***************************************************************************)
(* What is below an item, and what changes leave a drive.                  *)
(***************************************************************************)
(* The least set with the item and the children of its members. *)
LEMMA SubtreeIs ==
  ASSUME NEW d, NEW i
  PROVE  /\ Subtree(d, i) \subseteq DOMAIN d
         /\ i \in DOMAIN d => i \in Subtree(d, i)
         /\ \A k \in DOMAIN d : d[k].parent \in Subtree(d, i) => k \in Subtree(d, i)
BY DEF Subtree

(* To give what a drive is. *)
LEMMA DriveFrom ==
  ASSUME NEW e, DOMAIN e \subseteq Ids, e = [j \in DOMAIN e |-> e[j]],
         \A j \in DOMAIN e : e[j] \in [parent : (DOMAIN e \cap Folders) \cup {Root}, name : Names],
         \A S \in SUBSET DOMAIN e : S # {} => \E j \in S : e[j].parent \notin S
  PROVE  DriveOK(e)
BY DEF DriveOK

(* Without an item and all below it, it is a drive. *)
LEMMA DriveRemoved ==
  ASSUME NEW d, DriveOK(d), NEW i
  PROVE  /\ DriveOK(Without(d, Subtree(d, i)))
         /\ DOMAIN Without(d, Subtree(d, i)) = DOMAIN d \ Subtree(d, i)
         /\ \A j \in DOMAIN d \ Subtree(d, i) : Without(d, Subtree(d, i))[j] = d[j]
<1> DEFINE e == Without(d, Subtree(d, i))
<1>1. /\ DOMAIN e = DOMAIN d \ Subtree(d, i) /\ e = [j \in DOMAIN e |-> e[j]]
      /\ \A j \in DOMAIN e : e[j] = d[j]
  BY DEF Without, Restrict
<1> HIDE DEF e
<1>2. ASSUME NEW j \in DOMAIN e
      PROVE e[j] \in [parent : (DOMAIN e \cap Folders) \cup {Root}, name : Names]
  <2>1. /\ d[j] \in [parent : (DOMAIN d \cap Folders) \cup {Root}, name : Names]
        /\ d[j].parent \in (DOMAIN d \cap Folders) \cup {Root} /\ d[j].name \in Names
    BY <1>1, DriveIs
  <2>2. d[j].parent \notin Subtree(d, i)
    BY <1>1, SubtreeIs
  <2>3. d[j].parent \in (DOMAIN e \cap Folders) \cup {Root}
    BY <1>1, <2>1, <2>2
  <2> QED BY <1>1, <2>1, <2>3
<1>3. ASSUME NEW S \in SUBSET DOMAIN e, S # {}
      PROVE \E j \in S : e[j].parent \notin S
  <2>1. S \in SUBSET DOMAIN d
    BY <1>1
  <2>2. PICK j \in S : d[j].parent \notin S
    BY <1>3, <2>1, DriveIs
  <2> QED BY <1>1, <2>2
<1>4. DOMAIN e \subseteq Ids
  BY <1>1, DriveIs
<1>5. DriveOK(e)
  BY <1>1, <1>2, <1>3, <1>4, DriveFrom
<1> QED BY <1>1, <1>5 DEF e

(* What an item is that was added, and that the others stay. *)
LEMMA AddedIs ==
  ASSUME NEW d, NEW i, i \notin DOMAIN d, NEW e
  PROVE  /\ DOMAIN Over(Only(i, e), d) = DOMAIN d \cup {i}
         /\ Over(Only(i, e), d)[i] = e /\ \A j \in DOMAIN d : Over(Only(i, e), d)[j] = d[j]
BY DEF Over, Only

(* With one more item it is. *)
LEMMA DriveAdded ==
  ASSUME NEW d, DriveOK(d), NEW i \in Ids \ DOMAIN d, NEW p \in (DOMAIN d \cap Folders) \cup {Root},
         NEW n \in Names
  PROVE  DriveOK(Over(Only(i, [parent |-> p, name |-> n]), d))
<1> DEFINE e == Over(Only(i, [parent |-> p, name |-> n]), d)
<1>1. /\ DOMAIN e = DOMAIN d \cup {i} /\ e = [j \in DOMAIN e |-> e[j]]
      /\ e[i] = [parent |-> p, name |-> n] /\ \A j \in DOMAIN d : e[j] = d[j]
  BY DEF Over, Only
<1> HIDE DEF e
<1>2. ASSUME NEW j \in DOMAIN e
      PROVE e[j] \in [parent : (DOMAIN e \cap Folders) \cup {Root}, name : Names]
  <2>1. CASE j = i
    BY <1>1, <2>1
  <2>2. CASE j # i
    <3>1. d[j] \in [parent : (DOMAIN d \cap Folders) \cup {Root}, name : Names] /\ e[j] = d[j]
      BY <1>1, <2>2, DriveIs
    <3> QED BY <1>1, <3>1
  <2> QED BY <2>1, <2>2
<1>3. ASSUME NEW S \in SUBSET DOMAIN e, S # {}
      PROVE \E j \in S : e[j].parent \notin S
  <2>1. CASE S \ {i} = {}
    <3>1. S = {i} /\ p # i
      BY <1>3, <2>1, ItemsAssumption
    <3> QED BY <1>1, <3>1
  <2>2. CASE S \ {i} # {}
    <3>1. S \ {i} \in SUBSET DOMAIN d
      BY <1>1
    <3>2. PICK j \in S \ {i} : d[j].parent \notin S \ {i}
      BY <2>2, <3>1, DriveIs
    <3>3. d[j].parent # i /\ e[j] = d[j]
      BY <1>1, <3>1, <3>2, DriveIs, ItemsAssumption
    <3> QED BY <3>2, <3>3
  <2> QED BY <2>1, <2>2
<1>4. DOMAIN e \subseteq Ids
  BY <1>1, DriveIs
<1>5. DriveOK(e)
  BY <1>1, <1>2, <1>3, <1>4, DriveFrom
<1> QED BY <1>1, <1>5 DEF e

(* What an item is after it was moved or renamed, and that the others stay. *)
LEMMA MovedIs ==
  ASSUME NEW d, DriveOK(d), NEW i \in DOMAIN d, NEW p, NEW n
  PROVE  LET e == [d EXCEPT ![i] = [parent |-> p, name |-> n]]
         IN /\ DOMAIN e = DOMAIN d /\ e = [j \in DOMAIN e |-> e[j]]
            /\ e[i] = [parent |-> p, name |-> n] /\ \A j \in DOMAIN d : j # i => e[j] = d[j]
<1>1. d = [j \in DOMAIN d |-> d[j]]
  BY DEF DriveOK
<1> QED BY <1>1

(* With an item in another folder that is not below it, it is. *)
LEMMA DriveMoved ==
  ASSUME NEW d, DriveOK(d), NEW i \in DOMAIN d, NEW n \in Names,
         NEW p \in ((DOMAIN d \cap Folders) \cup {Root}) \ Subtree(d, i)
  PROVE  DriveOK([d EXCEPT ![i] = [parent |-> p, name |-> n]])
<1> DEFINE e == [d EXCEPT ![i] = [parent |-> p, name |-> n]]
<1>1. /\ DOMAIN e = DOMAIN d /\ e = [j \in DOMAIN e |-> e[j]]
      /\ e[i] = [parent |-> p, name |-> n] /\ \A j \in DOMAIN d : j # i => e[j] = d[j]
  BY MovedIs
<1> HIDE DEF e
<1>2. ASSUME NEW j \in DOMAIN e
      PROVE e[j] \in [parent : (DOMAIN e \cap Folders) \cup {Root}, name : Names]
  <2>1. CASE j = i
    BY <1>1, <2>1
  <2>2. CASE j # i
    BY <1>1, <2>2, DriveIs
  <2> QED BY <2>1, <2>2
<1>3. ASSUME NEW S \in SUBSET DOMAIN e, S # {}
      PROVE \E j \in S : e[j].parent \notin S
  <2>1. CASE i \notin S
    <3>1. PICK j \in S : d[j].parent \notin S
      BY <1>1, <1>3, DriveIs
    <3> QED BY <1>1, <2>1, <3>1
  <2>2. CASE i \in S /\ p \notin S
    BY <1>1, <2>2
  <2>3. CASE i \in S /\ p \in S
    <3> DEFINE S2 == S \ Subtree(d, i)
    <3>1. S2 \in SUBSET DOMAIN d /\ S2 # {}
      BY <1>1, <2>3
    <3>2. PICK j \in S2 : d[j].parent \notin S2
      BY <3>1, DriveIs
    <3>3. j # i /\ d[j].parent \notin Subtree(d, i)
      BY <3>1, <3>2, SubtreeIs
    <3> QED BY <1>1, <3>1, <3>2, <3>3
  <2> QED BY <2>1, <2>2, <2>3
<1>4. DOMAIN e \subseteq Ids
  BY <1>1, DriveIs
<1>5. DriveOK(e)
  BY <1>1, <1>2, <1>3, <1>4, DriveFrom
<1> QED BY <1>5 DEF e

(* With another name for an item, it is. *)
LEMMA DriveNamed ==
  ASSUME NEW d, DriveOK(d), NEW i \in DOMAIN d, NEW n \in Names
  PROVE  /\ DriveOK([d EXCEPT ![i] = [parent |-> d[i].parent, name |-> n]])
         /\ [d EXCEPT ![i].name = n] = [d EXCEPT ![i] = [parent |-> d[i].parent, name |-> n]]
<1> DEFINE e == [d EXCEPT ![i] = [parent |-> d[i].parent, name |-> n]]
<1>1. /\ DOMAIN e = DOMAIN d /\ e = [j \in DOMAIN e |-> e[j]]
      /\ e[i] = [parent |-> d[i].parent, name |-> n] /\ \A j \in DOMAIN d : j # i => e[j] = d[j]
  BY MovedIs
<1>0. d[i] \in [parent : (DOMAIN d \cap Folders) \cup {Root}, name : Names]
      /\ d = [j \in DOMAIN d |-> d[j]]
  BY DriveIs DEF DriveOK
<1>2. [d EXCEPT ![i].name = n] = e
  <2>1. [d[i] EXCEPT !.name = n] = [parent |-> d[i].parent, name |-> n]
    BY <1>0
  <2> QED BY <2>1
<1> HIDE DEF e
<1>3. ASSUME NEW j \in DOMAIN e
      PROVE e[j] \in [parent : (DOMAIN e \cap Folders) \cup {Root}, name : Names]
  <2>1. CASE j = i
    BY <1>1, <2>1, DriveIs
  <2>2. CASE j # i
    BY <1>1, <2>2, DriveIs
  <2> QED BY <2>1, <2>2
<1>4. ASSUME NEW S \in SUBSET DOMAIN e, S # {}
      PROVE \E j \in S : e[j].parent \notin S
  <2>1. PICK j \in S : d[j].parent \notin S
    BY <1>1, <1>4, DriveIs
  <2>2. e[j].parent = d[j].parent
    BY <1>1
  <2> QED BY <2>1, <2>2
<1>5. DOMAIN e \subseteq Ids
  BY <1>1, DriveIs
<1>6. DriveOK(e)
  BY <1>1, <1>3, <1>4, <1>5, DriveFrom
<1> QED BY <1>2, <1>6 DEF e

-----------------------------------------------------------------------------
(***************************************************************************)
(* Elements, and dictionaries of them.                                     *)
(***************************************************************************)
(* An element with the properties of another, at some place. *)
Like(e, f) == \E place \in Nat : e = [f EXCEPT !.place = place]

(* The parts of an element. *)
LEMMA ElementIs ==
  ASSUME NEW e, ElementOK(e)
  PROVE  /\ e = [parent |-> e.parent, name |-> e.name, path |-> e.path, kind |-> e.kind, place |-> e.place]
         /\ e.parent \in Folders \cup {Root, NoItem} /\ e.name \in Names \cup {NoName}
         /\ e.path \in Seq(Names) /\ e.kind \in {"folder", "file", "unset", "empty"} /\ e.place \in Nat
         /\ e.kind # "empty" => e.name \in Names /\ e.path # << >>
BY DEF ElementOK

(* What is like an element is an element of the same properties. *)
LEMMA LikeIs ==
  ASSUME NEW f, ElementOK(f), NEW e, Like(e, f)
  PROVE  /\ ElementOK(e) /\ [e EXCEPT !.place = 0] = [f EXCEPT !.place = 0]
         /\ e.parent = f.parent /\ e.name = f.name /\ e.path = f.path /\ e.kind = f.kind
<1>1. PICK place \in Nat : e = [f EXCEPT !.place = place]
  BY DEF Like
<1>2. /\ f = [parent |-> f.parent, name |-> f.name, path |-> f.path, kind |-> f.kind, place |-> f.place]
      /\ f.parent \in Folders \cup {Root, NoItem} /\ f.name \in Names \cup {NoName}
      /\ f.path \in Seq(Names) /\ f.kind \in {"folder", "file", "unset", "empty"}
      /\ f.kind # "empty" => f.name # NoName /\ f.path # << >>
  BY ElementIs DEF ElementOK
<1>3. e = [parent |-> f.parent, name |-> f.name, path |-> f.path, kind |-> f.kind, place |-> place]
  BY <1>1, <1>2
<1>4. [e EXCEPT !.place = 0] = [f EXCEPT !.place = 0]
  <2>1. [e EXCEPT !.place = 0]
          = [parent |-> f.parent, name |-> f.name, path |-> f.path, kind |-> f.kind, place |-> 0]
    BY <1>3
  <2>2. [f EXCEPT !.place = 0]
          = [parent |-> f.parent, name |-> f.name, path |-> f.path, kind |-> f.kind, place |-> 0]
    BY <1>2
  <2> QED BY <2>1, <2>2
<1>5. ElementOK(e)
  BY <1>2, <1>3 DEF ElementOK
<1> QED BY <1>3, <1>4, <1>5

(* What the service tells of an item. *)
LEMMA ElementOf ==
  ASSUME NEW d, DriveOK(d), NEW i \in DOMAIN d
  PROVE  /\ ElementOK(Element(d, i)) /\ Element(d, i).kind \in {"folder", "file"}
         /\ Element(d, i).parent = d[i].parent /\ Element(d, i).name = d[i].name
         /\ Element(d, i).path = PathIn(d, i) /\ Element(d, i).place = 0
<1>1. /\ d[i].parent \in Folders \cup {Root, NoItem} /\ d[i].name \in Names /\ d[i].name # NoName
      /\ PathIn(d, i) \in Seq(Names) /\ PathIn(d, i) # << >>
  BY DriveIs, PathIs, ItemsAssumption
<1> QED BY <1>1 DEF ElementOK, Element

(* What an overlay of an item tells: its element but for the kind, or that there is none. *)
LEMMA OverlayOf ==
  ASSUME NEW d, DriveOK(d), NEW i
  PROVE  /\ ElementOK(Overlay(d, i))
         /\ i \in DOMAIN d => Overlay(d, i) = [Element(d, i) EXCEPT !.kind = "unset"]
         /\ i \notin DOMAIN d => Overlay(d, i).kind = "empty"
<1>1. CASE i \in DOMAIN d
  <2>1. /\ d[i].parent \in Folders \cup {Root, NoItem} /\ d[i].name \in Names /\ d[i].name # NoName
        /\ PathIn(d, i) \in Seq(Names) /\ PathIn(d, i) # << >>
    BY <1>1, DriveIs, PathIs, ItemsAssumption
  <2>2. Overlay(d, i) = [parent |-> d[i].parent, name |-> d[i].name, path |-> PathIn(d, i),
                         kind |-> "unset", place |-> 0]
    BY <1>1 DEF Overlay, Element
  <2>3. ElementOK(Overlay(d, i))
    BY <2>1, <2>2 DEF ElementOK
  <2> QED BY <1>1, <2>3 DEF Overlay
<1>2. CASE i \notin DOMAIN d
  <2>1. Overlay(d, i) = [parent |-> NoItem, name |-> NoName, path |-> << >>, kind |-> "empty", place |-> 0]
    BY <1>2 DEF Overlay
  <2>2. << >> \in Seq(Names)
    BY EmptySeq
  <2> QED BY <1>2, <2>1, <2>2 DEF ElementOK
<1> QED BY <1>1, <1>2

(* A listing has the children, and what the service tells of them. *)
LEMMA ListingOf ==
  ASSUME NEW d, DriveOK(d), NEW f
  PROVE  /\ TreeOK(Listing(d, f)) /\ DOMAIN Listing(d, f) = KidsOf(d, f) /\ KidsOf(d, f) \subseteq DOMAIN d
         /\ \A j \in KidsOf(d, f) : Listing(d, f)[j] = Element(d, j)
<1>1. KidsOf(d, f) \subseteq DOMAIN d /\ DOMAIN d \subseteq Ids
  BY DriveIs DEF KidsOf
<1>2. DOMAIN Listing(d, f) = KidsOf(d, f) /\ \A j \in KidsOf(d, f) : Listing(d, f)[j] = Element(d, j)
  BY DEF Listing
<1>3. \A j \in KidsOf(d, f) : ElementOK(Element(d, j))
  BY <1>1, ElementOf
<1> QED BY <1>1, <1>2, <1>3 DEF TreeOK

(* The elements of a dictionary have places in it. *)
LEMMA PlacesAre ==
  ASSUME NEW t, TreeOK(t), NEW S \in SUBSET DOMAIN t
  PROVE  { t[i].place : i \in S } \in SUBSET Nat /\ IsFiniteSet({ t[i].place : i \in S })
<1>1. \A i \in DOMAIN t : t[i].place \in Nat
  BY ElementIs DEF TreeOK
<1>2. IsFiniteSet(S)
  BY SomeIds DEF TreeOK
<1> DEFINE P == { t[i].place : i \in S }
<1>3. IsFiniteSet(P)
  <2>1. [i \in S |-> t[i].place] \in Surjection(S, P)
    BY DEF Surjection
  <2> HIDE DEF P
  <2> QED BY <1>2, <2>1, FS_Surjection
<1> QED BY <1>1, <1>3

(* A set of elements, or of the root, has one that comes first. *)
LEMMA FirstOfIs ==
  ASSUME NEW t, TreeOK(t), NEW S, S # {}, S \subseteq DOMAIN t \/ S = {Root}
  PROVE  FirstOf(t, S) \in S
<1>1. CASE S = {Root}
  <2>1. \E i \in S : i = Root \/ \A j \in S : t[i].place <= t[j].place
    BY <1>1
  <2> QED BY <2>1 DEF FirstOf
<1>2. CASE S \subseteq DOMAIN t
  <2> DEFINE P == { t[i].place : i \in S }
  <2>1. P \in SUBSET Nat /\ P # {}
    BY <1>2, PlacesAre
  <2>2. PICK n \in P : \A m \in P : n <= m
    BY <2>1, LeastNumber
  <2>3. \E i \in S : i = Root \/ \A j \in S : t[i].place <= t[j].place
    BY <2>2
  <2> QED BY <2>3 DEF FirstOf
<1> QED BY <1>1, <1>2

(* And one that comes last. *)
LEMMA LastOfIs ==
  ASSUME NEW t, TreeOK(t), NEW S, S # {}, S \subseteq DOMAIN t \/ S = {Root}
  PROVE  LastOf(t, S) \in S
<1>1. CASE S = {Root}
  <2>1. \E i \in S : i = Root \/ \A j \in S : t[j].place <= t[i].place
    BY <1>1
  <2> QED BY <2>1 DEF LastOf
<1>2. CASE S \subseteq DOMAIN t
  <2> DEFINE P == { t[i].place : i \in S }
  <2>1. P \in SUBSET Nat /\ P # {} /\ IsFiniteSet(P)
    BY <1>2, PlacesAre
  <2>2. PICK n \in P : \A m \in P : m <= n
    BY <2>1, GreatestNumber
  <2>3. \E i \in S : i = Root \/ \A j \in S : t[j].place <= t[i].place
    BY <2>2
  <2> QED BY <2>3 DEF LastOf
<1> QED BY <1>1, <1>2

(* What has a path, and the first of it. *)
LEMMA AtPathIs ==
  ASSUME NEW t, TreeOK(t), NEW p
  PROVE  /\ p = << >> => AtPath(t, p) = {Root} /\ First(t, p) = Root
         /\ p # << >> => /\ AtPath(t, p) \subseteq DOMAIN t /\ \A i \in AtPath(t, p) : t[i].path = p
                         /\ \A i \in DOMAIN t : t[i].path = p => i \in AtPath(t, p)
         /\ AtPath(t, p) = {} => First(t, p) = NoItem
         /\ AtPath(t, p) # {} => First(t, p) \in AtPath(t, p) /\ LastOf(t, AtPath(t, p)) \in AtPath(t, p)
<1>1. p = << >> => AtPath(t, p) = {Root}
  BY DEF AtPath
<1>2. p # << >> => /\ AtPath(t, p) \subseteq DOMAIN t /\ \A i \in AtPath(t, p) : t[i].path = p
                   /\ \A i \in DOMAIN t : t[i].path = p => i \in AtPath(t, p)
  BY DEF AtPath
<1>3. AtPath(t, p) = {} => First(t, p) = NoItem
  BY DEF First
<1>4. AtPath(t, p) # {} => First(t, p) \in AtPath(t, p) /\ LastOf(t, AtPath(t, p)) \in AtPath(t, p)
  BY <1>1, <1>2, FirstOfIs, LastOfIs DEF First
<1>5. p = << >> => First(t, p) = Root
  BY <1>1, <1>4
<1> QED BY <1>1, <1>2, <1>3, <1>4, <1>5

(* The dictionary t with the elements `news` in it, at some places. *)
IsPut(u, t, news) ==
  /\ DOMAIN u = DOMAIN t \cup DOMAIN news /\ TreeOK(u)
  /\ \A i \in DOMAIN news : Like(u[i], news[i])
  /\ \A i \in DOMAIN t \ DOMAIN news : u[i] = t[i]

(* Some place for each element that is put into a dictionary. *)
LEMMA PutIs ==
  ASSUME NEW t, TreeOK(t), NEW news, TreeOK(news)
  PROVE  IsPut(Put(t, news), t, news)
<1> DEFINE last == IF DOMAIN t = {} THEN 0 ELSE Max({ t[i].place : i \in DOMAIN t })
           place(i) == IF i \in DOMAIN t THEN t[i].place
                       ELSE last + Cardinality({ j \in DOMAIN news \ DOMAIN t : j <= i })
           u == Over([i \in DOMAIN news |-> [news[i] EXCEPT !.place = place(i)]], t)
<1>1. Put(t, news) = u
  BY DEF Put
<1>2. last \in Nat
  <2>1. CASE DOMAIN t = {}
    BY <2>1
  <2>2. CASE DOMAIN t # {}
    <3>1. { t[i].place : i \in DOMAIN t } # {}
      BY <2>2
    <3> QED BY <2>2, <3>1, PlacesAre, MaxIs
  <2> QED BY <2>1, <2>2
<1>3. ASSUME NEW i \in DOMAIN news PROVE place(i) \in Nat
  <2>1. i \in DOMAIN t => t[i].place \in Nat
    BY ElementIs DEF TreeOK
  <2>2. { j \in DOMAIN news \ DOMAIN t : j <= i } \in SUBSET Ids
    BY DEF TreeOK
  <2>3. Cardinality({ j \in DOMAIN news \ DOMAIN t : j <= i }) \in Nat
    BY <2>2, SomeIds
  <2> HIDE DEF last
  <2> QED BY <1>2, <2>1, <2>3
<1> HIDE DEF place
<1>4. /\ DOMAIN u = DOMAIN t \cup DOMAIN news
      /\ \A i \in DOMAIN news : u[i] = [news[i] EXCEPT !.place = place(i)]
      /\ \A i \in DOMAIN t \ DOMAIN news : u[i] = t[i]
  BY DEF Over
<1>5. \A i \in DOMAIN news : Like(u[i], news[i])
  BY <1>3, <1>4 DEF Like
<1> HIDE DEF u
<1>6. ASSUME NEW i \in DOMAIN u PROVE ElementOK(u[i])
  <2>1. CASE i \in DOMAIN news
    <3>1. ElementOK(news[i])
      BY <2>1 DEF TreeOK
    <3> QED BY <1>5, <2>1, <3>1, LikeIs
  <2>2. CASE i \notin DOMAIN news
    BY <1>4, <2>2 DEF TreeOK
  <2> QED BY <2>1, <2>2
<1>7. DOMAIN u \subseteq Ids
  BY <1>4 DEF TreeOK
<1>8. TreeOK(u)
  BY <1>6, <1>7 DEF TreeOK
<1> QED BY <1>1, <1>4, <1>5, <1>8 DEF IsPut

-----------------------------------------------------------------------------
(***************************************************************************)
(* What the look-ups of the client leave in its two dictionaries.          *)
(***************************************************************************)
(* Two dictionaries of elements, all of them of items in K. *)
ClientIn(c, K) ==
  /\ c = [items |-> c.items, contents |-> c.contents]
  /\ TreeOK(c.items) /\ DOMAIN c.items \subseteq K
  /\ \A f \in DOMAIN c.contents : TreeOK(c.contents[f]) /\ DOMAIN c.contents[f] \subseteq K

(* The client has asked the drive for more: what it had has stayed.  What is *)
(* new is as the service tells it in listings, or of one of the odd kinds     *)
(* that an overlay has.                                                       *)
Grown(c, c2, d, odd) ==
  /\ DOMAIN c.items \subseteq DOMAIN c2.items
  /\ \A i \in DOMAIN c2.items :
       \/ i \in DOMAIN c.items /\ c2.items[i] = c.items[i]
       \/ i \in DOMAIN d /\ Like(c2.items[i], Element(d, i))
       \/ c2.items[i].kind \in odd /\ (c2.items[i].kind = "unset" => i \in DOMAIN d)
  /\ DOMAIN c.contents \subseteq DOMAIN c2.contents
  /\ \A f \in DOMAIN c2.contents :
       \/ f \in DOMAIN c.contents /\ c2.contents[f] = c.contents[f]
       \/ c2.contents[f] = Listing(d, f) /\ KidsOf(d, f) \subseteq DOMAIN c2.items

(* What the client has listed and the drive still has, it has as an item. *)
HeldIn(c, d) ==
  \A f \in DOMAIN c.contents : DOMAIN c.contents[f] \cap DOMAIN d \subseteq DOMAIN c.items

(* A client that learns nothing has grown. *)
LEMMA GrownSame ==
  ASSUME NEW c, NEW d, NEW odd PROVE Grown(c, c, d, odd)
BY DEF Grown

(* To learn twice is to learn. *)
LEMMA GrownTwice ==
  ASSUME NEW c, NEW c2, NEW c3, NEW d, NEW odd, Grown(c, c2, d, odd), Grown(c2, c3, d, odd)
  PROVE  Grown(c, c3, d, odd)
BY DEF Grown

(* The more kinds may be odd, the easier it is to have grown. *)
LEMMA GrownOdder ==
  ASSUME NEW c, NEW c2, NEW d, NEW odd, NEW odder, odd \subseteq odder, Grown(c, c2, d, odd)
  PROVE  Grown(c, c2, d, odder)
BY DEF Grown

(* Growing keeps what is listed in the dictionary of items. *)
LEMMA GrownHolds ==
  ASSUME NEW c, NEW c2, NEW d, NEW odd, DriveOK(d), Grown(c, c2, d, odd), HeldIn(c, d)
  PROVE  HeldIn(c2, d)
<1>1. SUFFICES ASSUME NEW f \in DOMAIN c2.contents
               PROVE DOMAIN c2.contents[f] \cap DOMAIN d \subseteq DOMAIN c2.items
  BY DEF HeldIn
<1>2. CASE f \in DOMAIN c.contents /\ c2.contents[f] = c.contents[f]
  BY <1>2 DEF HeldIn, Grown
<1>3. CASE c2.contents[f] = Listing(d, f) /\ KidsOf(d, f) \subseteq DOMAIN c2.items
  BY <1>3, ListingOf
<1> QED BY <1>2, <1>3 DEF Grown

(* The client c with a listing stored. *)
IsStored(c2, c, f, kids) ==
  /\ IsPut(c2.items, c.items, kids)
  /\ DOMAIN c2.contents = DOMAIN c.contents \cup {f} /\ c2.contents[f] = kids
  /\ \A g \in DOMAIN c.contents : g # f => c2.contents[g] = c.contents[g]

(* A listing is stored: what the dictionaries are then. *)
LEMMA StoredIs ==
  ASSUME NEW K \in SUBSET Ids, NEW c, ClientIn(c, K), NEW f, NEW kids, TreeOK(kids), DOMAIN kids \subseteq K
  PROVE  ClientIn(Stored(c, f, kids), K) /\ IsStored(Stored(c, f, kids), c, f, kids)
<1> DEFINE c2 == Stored(c, f, kids)
<1>1. /\ c2 = [items |-> c2.items, contents |-> c2.contents]
      /\ c2.items = Put(c.items, kids) /\ c2.contents = Over(Only(f, kids), c.contents)
  BY DEF Stored
<1>2. IsPut(c2.items, c.items, kids)
  <2>1. TreeOK(c.items)
    BY DEF ClientIn
  <2>2. IsPut(Put(c.items, kids), c.items, kids)
    BY <2>1, PutIs
  <2> QED BY <1>1, <2>2
<1>3. /\ DOMAIN c2.contents = DOMAIN c.contents \cup {f} /\ c2.contents[f] = kids
      /\ \A g \in DOMAIN c.contents : g # f => c2.contents[g] = c.contents[g]
  BY <1>1 DEF Over, Only
<1> HIDE DEF c2
<1>4. \A g \in DOMAIN c2.contents : TreeOK(c2.contents[g]) /\ DOMAIN c2.contents[g] \subseteq K
  BY <1>3 DEF ClientIn
<1>5. TreeOK(c2.items) /\ DOMAIN c2.items \subseteq K
  BY <1>2 DEF ClientIn, IsPut
<1>6. ClientIn(c2, K)
  BY <1>1, <1>4, <1>5 DEF ClientIn
<1> QED BY <1>2, <1>3, <1>6 DEF c2, IsStored

(* A folder is listed and stored, that was not cached or was cached so. *)
LEMMA ListedIs ==
  ASSUME NEW K \in SUBSET Ids, NEW c, ClientIn(c, K), NEW d, DriveOK(d), DOMAIN d \subseteq K, NEW f
  PROVE  LET c2 == Stored(c, f, Listing(d, f))
         IN /\ ClientIn(c2, K) /\ f \in DOMAIN c2.contents
            /\ \A g \in DOMAIN c.contents : g # f => c2.contents[g] = c.contents[g]
            /\ f \notin DOMAIN c.contents \/ c.contents[f] = Listing(d, f) => Grown(c, c2, d, {})
<1> DEFINE c2 == Stored(c, f, Listing(d, f))
<1>1. /\ TreeOK(Listing(d, f)) /\ DOMAIN Listing(d, f) = KidsOf(d, f) /\ KidsOf(d, f) \subseteq DOMAIN d
      /\ \A j \in KidsOf(d, f) : Listing(d, f)[j] = Element(d, j)
  BY ListingOf
<1>2. DOMAIN Listing(d, f) \subseteq K
  BY <1>1
<1>3. ClientIn(c2, K) /\ IsStored(c2, c, f, Listing(d, f))
  BY <1>1, <1>2, StoredIs
<1> HIDE DEF c2
<1>4. /\ DOMAIN c2.contents = DOMAIN c.contents \cup {f} /\ c2.contents[f] = Listing(d, f)
      /\ \A g \in DOMAIN c.contents : g # f => c2.contents[g] = c.contents[g]
  BY <1>3 DEF IsStored
<1>5. /\ DOMAIN c2.items = DOMAIN c.items \cup KidsOf(d, f)
      /\ \A i \in KidsOf(d, f) : Like(c2.items[i], Element(d, i))
      /\ \A i \in DOMAIN c.items \ KidsOf(d, f) : c2.items[i] = c.items[i]
  <2>1. IsPut(c2.items, c.items, Listing(d, f))
    BY <1>3 DEF IsStored
  <2> QED BY <1>1, <2>1 DEF IsPut
<1>6. f \notin DOMAIN c.contents \/ c.contents[f] = Listing(d, f) => Grown(c, c2, d, {})
  BY <1>1, <1>4, <1>5 DEF Grown
<1> QED BY <1>3, <1>4, <1>6 DEF c2

(* get_devices lists the root. *)
LEMMA WithDevicesIs ==
  ASSUME NEW K \in SUBSET Ids, NEW c, ClientIn(c, K), NEW d, DriveOK(d), DOMAIN d \subseteq K
  PROVE  /\ ClientIn(WithDevices(c, d), K) /\ Grown(c, WithDevices(c, d), d, {})
         /\ Root \in DOMAIN WithDevices(c, d).contents
<1>1. CASE Root \in DOMAIN c.contents
  BY <1>1, GrownSame DEF WithDevices
<1>2. CASE Root \notin DOMAIN c.contents
  BY <1>2, ListedIs DEF WithDevices
<1> QED BY <1>1, <1>2

(* get_children lists the folder. *)
LEMMA WithChildrenIs ==
  ASSUME NEW K \in SUBSET Ids, NEW c, ClientIn(c, K), NEW d, DriveOK(d), DOMAIN d \subseteq K, NEW f
  PROVE  /\ ClientIn(WithChildren(c, f, d), K) /\ Grown(c, WithChildren(c, f, d), d, {})
         /\ f \in DOMAIN WithChildren(c, f, d).contents
<1>1. CASE f \in DOMAIN c.contents
  BY <1>1, GrownSame DEF WithChildren
<1>2. CASE f \notin DOMAIN c.contents
  <2> DEFINE c1 == IF KidsOf(d, f) = {} THEN c ELSE WithDevices(c, d)
             c2 == Stored(c1, f, Listing(d, f))
  <2>1. ClientIn(c1, K) /\ Grown(c, c1, d, {})
    BY WithDevicesIs, GrownSame
  <2>2. WithChildren(c, f, d) = c2
    BY <1>2 DEF WithChildren
  <2> HIDE DEF c1
  <2>3. f \notin DOMAIN c1.contents \/ c1.contents[f] = Listing(d, f)
    BY <1>2, <2>1 DEF Grown
  <2>4. ClientIn(c2, K) /\ Grown(c1, c2, d, {}) /\ f \in DOMAIN c2.contents
    BY <2>1, <2>3, ListedIs
  <2> HIDE DEF c2
  <2>5. Grown(c, c2, d, {})
    BY <2>1, <2>4, GrownTwice
  <2> QED BY <2>2, <2>4, <2>5
<1> QED BY <1>1, <1>2

(* The client c with one more element, or another one for an item. *)
HasOne(c2, c, i, e) ==
  /\ c2.contents = c.contents /\ DOMAIN c2.items = DOMAIN c.items \cup {i}
  /\ Like(c2.items[i], e) /\ \A j \in DOMAIN c.items : j # i => c2.items[j] = c.items[j]

(* One element is put into the dictionary of items. *)
LEMMA PutOne ==
  ASSUME NEW K \in SUBSET Ids, NEW c, ClientIn(c, K), NEW i \in K, NEW e, ElementOK(e)
  PROVE  LET c2 == [c EXCEPT !.items = Put(@, Only(i, e))]
         IN ClientIn(c2, K) /\ HasOne(c2, c, i, e)
<1> DEFINE c2 == [c EXCEPT !.items = Put(@, Only(i, e))]
           u == Put(c.items, Only(i, e))
<1>1. DOMAIN Only(i, e) = {i} /\ Only(i, e)[i] = e
  BY DEF Only
<1>2. TreeOK(Only(i, e)) /\ TreeOK(c.items)
  BY <1>1 DEF TreeOK, ClientIn
<1>3. IsPut(u, c.items, Only(i, e))
  BY <1>2, PutIs
<1>4. c2 = [items |-> u, contents |-> c.contents]
  <2>1. c = [items |-> c.items, contents |-> c.contents]
    BY DEF ClientIn
  <2> QED BY <2>1
<1> HIDE DEF c2, u
<1>5. /\ DOMAIN u = DOMAIN c.items \cup {i} /\ TreeOK(u) /\ Like(u[i], e)
      /\ \A j \in DOMAIN c.items : j # i => u[j] = c.items[j]
  BY <1>1, <1>3 DEF IsPut
<1>6. ClientIn(c2, K)
  BY <1>4, <1>5 DEF ClientIn
<1> QED BY <1>4, <1>5, <1>6 DEF c2, HasOne

(* One element is taken out of it. *)
IsTaken(c2, c, i) ==
  /\ c2.contents = c.contents /\ DOMAIN c2.items = DOMAIN c.items \ {i}
  /\ \A j \in DOMAIN c2.items : c2.items[j] = c.items[j]

(* An item is taken from the dictionary. *)
LEMMA TakeOne ==
  ASSUME NEW K \in SUBSET Ids, NEW c, ClientIn(c, K), NEW i
  PROVE  LET c2 == [c EXCEPT !.items = Without(@, {i})]
         IN ClientIn(c2, K) /\ IsTaken(c2, c, i)
<1> DEFINE c2 == [c EXCEPT !.items = Without(@, {i})]
<1>1. c2 = [items |-> Without(c.items, {i}), contents |-> c.contents]
  <2>1. c = [items |-> c.items, contents |-> c.contents]
    BY DEF ClientIn
  <2> QED BY <2>1
<1>2. /\ DOMAIN Without(c.items, {i}) = DOMAIN c.items \ {i}
      /\ \A j \in DOMAIN c.items \ {i} : Without(c.items, {i})[j] = c.items[j]
  BY DEF Without, Restrict
<1> HIDE DEF c2
<1>3. ClientIn(c2, K)
  BY <1>1, <1>2 DEF ClientIn, TreeOK
<1>4. IsTaken(c2, c, i)
  BY <1>1, <1>2 DEF IsTaken
<1> QED BY <1>3, <1>4 DEF c2

(* What get_item adds: an overlay, without a kind or empty. *)
LEMMA WithItemIs ==
  ASSUME NEW K \in SUBSET Ids, NEW c, ClientIn(c, K), NEW d, DriveOK(d), DOMAIN d \subseteq K,
         NEW i \in K \cup {Root}
  PROVE  /\ ClientIn(WithItem(c, i, d), K)
         /\ i \in DOMAIN c.items => WithItem(c, i, d) = c
         /\ i \in DOMAIN d => Grown(c, WithItem(c, i, d), d, {"unset"})
         /\ Grown(c, WithItem(c, i, d), d, {"unset", "empty"})
<1>1. CASE i \in DOMAIN c.items \cup {Root}
  BY <1>1, GrownSame DEF WithItem
<1>2. CASE i \notin DOMAIN c.items \cup {Root}
  <2> DEFINE c1 == WithDevices(c, d)
             c2 == [c1 EXCEPT !.items = Put(@, Only(i, Overlay(d, i)))]
  <2>1. ClientIn(c1, K) /\ Grown(c, c1, d, {})
    BY WithDevicesIs
  <2>2. WithItem(c, i, d) = c2
    BY <1>2 DEF WithItem
  <2>3. i \in K /\ ElementOK(Overlay(d, i))
    BY <1>2, OverlayOf
  <2> HIDE DEF c1
  <2>4. ClientIn(c2, K) /\ HasOne(c2, c1, i, Overlay(d, i))
    BY <2>1, <2>3, PutOne
  <2> HIDE DEF c2
  <2>5. /\ ClientIn(c2, K) /\ c2.contents = c1.contents
        /\ DOMAIN c2.items = DOMAIN c1.items \cup {i}
        /\ Like(c2.items[i], Overlay(d, i)) /\ \A j \in DOMAIN c1.items : j # i => c2.items[j] = c1.items[j]
    BY <2>4 DEF HasOne
  <2>6. c2.items[i].kind = Overlay(d, i).kind
    BY <2>3, <2>5, LikeIs
  <2>7. /\ i \in DOMAIN d => c2.items[i].kind = "unset"
        /\ i \notin DOMAIN d => c2.items[i].kind = "empty"
    BY <2>6, OverlayOf, ElementOf DEF Overlay, Element
  <2>8. i \in DOMAIN d => Grown(c, c2, d, {"unset"})
    BY <1>2, <2>1, <2>5, <2>7 DEF Grown
  <2>9. Grown(c, c2, d, {"unset", "empty"})
    BY <1>2, <2>1, <2>5, <2>7 DEF Grown
  <2> QED BY <1>2, <2>2, <2>5, <2>8, <2>9
<1> QED BY <1>1, <1>2

(* What a forced overlay adds: the element itself. *)
LEMMA UpdatedIs ==
  ASSUME NEW K \in SUBSET Ids, NEW c, ClientIn(c, K), NEW d, DriveOK(d), DOMAIN d \subseteq K,
         NEW i \in DOMAIN d
  PROVE  /\ ClientIn(Updated(c, i, d), K) /\ Grown(c, Updated(c, i, d), d, {})
         /\ i \in DOMAIN Updated(c, i, d).items /\ Like(Updated(c, i, d).items[i], Element(d, i))
<1> DEFINE c1 == WithDevices(c, d)
           c2 == [c1 EXCEPT !.items = Put(@, Only(i, Element(d, i)))]
<1>1. ClientIn(c1, K) /\ Grown(c, c1, d, {})
  BY WithDevicesIs
<1>2. Updated(c, i, d) = c2
  BY DEF Updated
<1>3. i \in K /\ ElementOK(Element(d, i))
  BY ElementOf
<1> HIDE DEF c1
<1>4. ClientIn(c2, K) /\ HasOne(c2, c1, i, Element(d, i))
  BY <1>1, <1>3, PutOne
<1> HIDE DEF c2
<1>5. /\ ClientIn(c2, K) /\ c2.contents = c1.contents
      /\ DOMAIN c2.items = DOMAIN c1.items \cup {i}
      /\ Like(c2.items[i], Element(d, i)) /\ \A j \in DOMAIN c1.items : j # i => c2.items[j] = c1.items[j]
  BY <1>4 DEF HasOne
<1>6. Grown(c, c2, d, {})
  BY <1>1, <1>5 DEF Grown
<1> QED BY <1>2, <1>5, <1>6

-----------------------------------------------------------------------------
(***************************************************************************)
(* What get_item finds of a path.                                          *)
(***************************************************************************)
(* What a look-up has come to: an item the client has listed, the root or   *)
(* nothing, and a client that has learned of it what the drive has.          *)
CameTo(s, c, d, K) ==
  /\ s = [id |-> s.id, client |-> s.client]
  /\ ClientIn(s.client, K) /\ Grown(c, s.client, d, {})
  /\ \/ s.id \in {Root, NoItem}
     \/ \E f \in DOMAIN s.client.contents : s.id \in DOMAIN s.client.contents[f]

(* One name of a path is followed. *)
LEMMA DownIs ==
  ASSUME NEW K \in SUBSET Ids, NEW d, DriveOK(d), DOMAIN d \subseteq K, NEW c, NEW s, CameTo(s, c, d, K), NEW n
  PROVE  CameTo(Down(s, n, d), c, d, K)
<1>1. CASE s.id = NoItem
  BY <1>1 DEF Down
<1>2. CASE s.id # NoItem
  <2> DEFINE c2   == WithChildren(s.client, s.id, d)
             hits == Named(c2.contents[s.id], n)
             e    == Down(s, n, d)
  <2>1. e = [id |-> IF hits = {} THEN NoItem ELSE Max(hits), client |-> c2]
    BY <1>2 DEF Down
  <2>2. ClientIn(s.client, K) /\ Grown(c, s.client, d, {})
    BY DEF CameTo
  <2>3. ClientIn(c2, K) /\ Grown(s.client, c2, d, {}) /\ s.id \in DOMAIN c2.contents
    BY <2>2, WithChildrenIs
  <2> HIDE DEF c2, e
  <2>4. Grown(c, c2, d, {})
    BY <2>2, <2>3, GrownTwice
  <2>5. hits \in SUBSET DOMAIN c2.contents[s.id] /\ hits \in SUBSET Ids
    BY <2>3 DEF ClientIn, Named
  <2>6. hits # {} => Max(hits) \in DOMAIN c2.contents[s.id]
    BY <2>5, SomeIds, MaxIs
  <2>7. e.id = NoItem \/ e.id \in DOMAIN c2.contents[s.id]
    BY <2>1, <2>6
  <2>8. e = [id |-> e.id, client |-> e.client] /\ e.client = c2
    BY <2>1
  <2>9. CameTo(e, c, d, K)
    BY <2>3, <2>4, <2>7, <2>8 DEF CameTo
  <2> QED BY <2>9 DEF e
<1> QED BY <1>1, <1>2

(* The function Walk is defined by, up to a part of the path. *)
IsWalk(w, m, c, p, d) ==
  w = [k \in 0..m |-> IF k = 0 THEN [id |-> Root, client |-> c] ELSE Down(w[k - 1], p[k], d)]

(* There is one. *)
LEMMA WalkExists ==
  ASSUME NEW m \in Nat, NEW c, NEW p, NEW d PROVE \E w : IsWalk(w, m, c, p, d)
<1> DEFINE T == { n \in Nat : ~\E w : IsWalk(w, n, c, p, d) }
<1>1. SUFFICES ASSUME T # {} PROVE FALSE
  OBVIOUS
<1>2. PICK n \in T : \A k \in T : n <= k
  BY <1>1, LeastNumber
<1>3. n \in Nat /\ ~\E w : IsWalk(w, n, c, p, d)
  BY <1>2
<1>4. CASE n = 0
  <2> DEFINE w == [k \in 0..0 |-> [id |-> Root, client |-> c]]
  <2>1. w = [k \in 0..0 |-> IF k = 0 THEN [id |-> Root, client |-> c] ELSE Down(w[k - 1], p[k], d)]
    OBVIOUS
  <2> HIDE DEF w
  <2>2. IsWalk(w, 0, c, p, d)
    BY <2>1 DEF IsWalk
  <2> QED BY <1>3, <1>4, <2>2
<1>5. CASE n # 0
  <2>1. n - 1 \in Nat /\ n - 1 \notin T
    BY <1>2, <1>3, <1>5
  <2>2. PICK v : IsWalk(v, n - 1, c, p, d)
    BY <2>1
  <2>3. \A k \in 0..(n - 1) : v[k] = IF k = 0 THEN [id |-> Root, client |-> c] ELSE Down(v[k - 1], p[k], d)
    BY <2>2 DEF IsWalk
  <2> DEFINE w == [k \in 0..n |-> IF k = n THEN Down(v[n - 1], p[n], d) ELSE v[k]]
  <2>4. \A k \in 0..n : k # 0 => k - 1 \in 0..(n - 1) /\ k - 1 \in 0..n /\ k - 1 # n
    BY <1>3
  <2>5. \A k \in 0..(n - 1) : w[k] = v[k]
    BY <1>3
  <2>6. ASSUME NEW k \in 0..n
        PROVE w[k] = IF k = 0 THEN [id |-> Root, client |-> c] ELSE Down(w[k - 1], p[k], d)
    <3>1. CASE k = n
      BY <1>5, <2>4, <2>5, <3>1
    <3>2. CASE k # n
      <4>1. k \in 0..(n - 1) /\ w[k] = v[k]
        BY <1>3, <3>2, <2>5
      <4>2. k # 0 => w[k - 1] = v[k - 1]
        BY <2>4, <2>5
      <4> QED BY <2>3, <4>1, <4>2
    <3> QED BY <3>1, <3>2
  <2>7. w = [k \in 0..n |-> w[k]]
    OBVIOUS
  <2> HIDE DEF w
  <2>8. w = [k \in 0..n |-> IF k = 0 THEN [id |-> Root, client |-> c] ELSE Down(w[k - 1], p[k], d)]
    BY <2>6, <2>7
  <2>9. IsWalk(w, n, c, p, d)
    BY <2>8 DEF IsWalk
  <2> QED BY <1>3, <2>9
<1> QED BY <1>4, <1>5

(* A whole path is followed. *)
LEMMA WalkIs ==
  ASSUME NEW K \in SUBSET Ids, NEW c, ClientIn(c, K), NEW d, DriveOK(d), DOMAIN d \subseteq K,
         NEW p \in Seq(Names)
  PROVE  CameTo(Walk(c, p, d), c, d, K)
<1> DEFINE w == CHOOSE v : IsWalk(v, Len(p), c, p, d)
<1>1. Len(p) \in Nat
  OBVIOUS
<1>2. IsWalk(w, Len(p), c, p, d)
  BY <1>1, WalkExists
<1>3. Walk(c, p, d) = w[Len(p)]
  BY DEF Walk, IsWalk
<1> HIDE DEF w
<1>4. \A k \in 0..Len(p) : w[k] = IF k = 0 THEN [id |-> Root, client |-> c] ELSE Down(w[k - 1], p[k], d)
  BY <1>2 DEF IsWalk
<1> DEFINE T == { k \in 0..Len(p) : ~CameTo(w[k], c, d, K) }
<1>5. T = {}
  <2>1. SUFFICES ASSUME T # {} PROVE FALSE
    OBVIOUS
  <2>2. T \in SUBSET Nat
    BY <1>1
  <2>3. PICK k \in T : \A j \in T : k <= j
    BY <2>1, <2>2, LeastNumber
  <2>4. k \in 0..Len(p) /\ k \in Nat /\ ~CameTo(w[k], c, d, K)
    BY <2>2, <2>3
  <2>5. CASE k = 0
    <3>1. w[k] = [id |-> Root, client |-> c] /\ Grown(c, c, d, {})
      BY <1>4, <2>4, <2>5, GrownSame
    <3> QED BY <2>4, <3>1 DEF CameTo
  <2>6. CASE k # 0
    <3>1. k - 1 \in 0..Len(p) /\ ~(k <= k - 1)
      BY <1>1, <2>4, <2>6
    <3>2. k - 1 \notin T
      BY <2>3, <3>1
    <3>3. CameTo(w[k - 1], c, d, K)
      BY <3>1, <3>2
    <3>4. CameTo(Down(w[k - 1], p[k], d), c, d, K)
      BY <3>3, DownIs
    <3>5. w[k] = Down(w[k - 1], p[k], d)
      BY <1>4, <2>4, <2>6
    <3> QED BY <2>4, <3>4, <3>5
  <2> QED BY <2>5, <2>6
<1>6. Len(p) \in 0..Len(p)
  BY <1>1
<1> QED BY <1>3, <1>5, <1>6

(* get_item of a path: where it has found an item that the drive has, the   *)
(* client has learned no more than that, but for the overlay of the item;   *)
(* and not this either if it holds as items what it has listed.              *)
LEMMA ItemAtIs ==
  ASSUME NEW K \in SUBSET Ids, NEW c, ClientIn(c, K), NEW d, DriveOK(d), DOMAIN d \subseteq K,
         NEW p \in Seq(Names)
  PROVE  LET r == ItemAt(c, p, d)
         IN /\ r = [id |-> r.id, client |-> r.client]
            /\ r.id \in K \cup {Root, NoItem} /\ ClientIn(r.client, K)
            /\ r.id \in DOMAIN d => Grown(c, r.client, d, {"unset"})
            /\ r.id \in DOMAIN d /\ HeldIn(c, d) => Grown(c, r.client, d, {})
<1> DEFINE r == ItemAt(c, p, d)
           found == AtPath(c.items, p)
           walk == Walk(c, p, d)
<1>1. CASE found # {}
  <2>1. r = [id |-> LastOf(c.items, found), client |-> c]
    BY <1>1 DEF ItemAt
  <2>2. LastOf(c.items, found) \in found /\ found \subseteq DOMAIN c.items \cup {Root}
    BY <1>1, AtPathIs DEF ClientIn
  <2>3. DOMAIN c.items \subseteq K
    BY DEF ClientIn
  <2>4. r.id \in K \cup {Root, NoItem} /\ r.client = c
    BY <2>1, <2>2, <2>3
  <2> QED BY <2>1, <2>4, GrownSame
<1>2. CASE found = {} /\ walk.id = NoItem
  <2>1. r = walk
    BY <1>2 DEF ItemAt
  <2>2. CameTo(walk, c, d, K)
    BY WalkIs
  <2>3. NoItem \notin DOMAIN d
    BY DriveIs, ItemsAssumption
  <2> HIDE DEF walk, r
  <2>4. r = [id |-> r.id, client |-> r.client] /\ ClientIn(r.client, K) /\ r.id = NoItem
    BY <1>2, <2>1, <2>2 DEF CameTo
  <2> QED BY <2>3, <2>4 DEF r
<1>3. CASE found = {} /\ walk.id # NoItem
  <2> DEFINE c2 == WithItem(walk.client, walk.id, d)
  <2>1. r = [walk EXCEPT !.client = WithItem(@, walk.id, d)]
    BY <1>3 DEF ItemAt
  <2>2. CameTo(walk, c, d, K)
    BY WalkIs
  <2> HIDE DEF walk
  <2>3. r = [id |-> walk.id, client |-> c2]
    BY <2>1, <2>2 DEF CameTo
  <2>4. ClientIn(walk.client, K) /\ Grown(c, walk.client, d, {}) /\ walk.id \in K \cup {Root}
    BY <1>3, <2>2 DEF CameTo, ClientIn
  <2>5. /\ ClientIn(c2, K)
        /\ walk.id \in DOMAIN walk.client.items => c2 = walk.client
        /\ walk.id \in DOMAIN d => Grown(walk.client, c2, d, {"unset"})
    BY <2>4, WithItemIs
  <2>6. Grown(c, walk.client, d, {"unset"})
    BY <2>4, GrownOdder
  <2>7. walk.id \in DOMAIN d => Grown(c, c2, d, {"unset"})
    BY <2>5, <2>6, GrownTwice
  <2>8. ASSUME walk.id \in DOMAIN d, HeldIn(c, d) PROVE Grown(c, c2, d, {})
    <3>1. HeldIn(walk.client, d)
      BY <2>4, <2>8, GrownHolds
    <3>2. walk.id # Root
      BY <2>8, DriveIs
    <3>3. walk.id \in DOMAIN walk.client.items
      BY <1>3, <2>2, <2>8, <3>1, <3>2 DEF CameTo, HeldIn
    <3> QED BY <2>4, <2>5, <3>3
  <2> HIDE DEF c2, r
  <2>9. r.id = walk.id /\ r.client = c2 /\ r = [id |-> r.id, client |-> r.client]
    BY <2>3
  <2> QED BY <2>4, <2>5, <2>7, <2>8, <2>9 DEF r
<1> QED BY <1>1, <1>2, <1>3
=============================================================================
