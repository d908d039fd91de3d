---------------------------- MODULE ListingProofs ----------------------------
(* Proofs about Listing, for any links, page size and clock. *)
EXTENDS Listing, TLAPS, FiniteSetTheorems

USE ListingAssumption

-----------------------------------------------------------------------------
(* Rows by age.  A row's place in the listing is the number of younger rows.       *)

Younger(R, s, l) == {m \in R : s[m] > s[l]}
Rank(R, s, l) == Cardinality(Younger(R, s, l))

\* Those of S among the rows R that stand before, or from, place n.
Before(S, R, s, n) == {l \in S \cap R : Rank(R, s, l) < n}
From(S, R, s, n) == {l \in S \cap R : Rank(R, s, l) >= n}

Ordered(R, s) == \A l, m \in R : l # m => s[l] # s[m]

\* A finite set has a number of elements.
LEMMA SizeType == ASSUME NEW S, IsFiniteSet(S) PROVE Cardinality(S) \in Nat
BY FS_CardinalityType

\* A part of a finite set is finite and no larger.
LEMMA PartSize ==
    ASSUME NEW S, IsFiniteSet(S), NEW T, T \subseteq S
    PROVE  /\ IsFiniteSet(T) /\ Cardinality(T) <= Cardinality(S)
           /\ Cardinality(T) \in Nat /\ Cardinality(S) \in Nat
BY FS_Subset, SizeType

\* A set with one element at most that another has not is larger by one at most.
LEMMA OneMore ==
    ASSUME NEW S, IsFiniteSet(S), NEW T, \A x, y \in T \ S : x = y
    PROVE  Cardinality(T) <= Cardinality(S) + 1
<1>1. CASE T \subseteq S
  BY <1>1, PartSize
<1>2. ASSUME NEW x \in T \ S PROVE Cardinality(T) <= Cardinality(S) + 1
  <2>1. T \subseteq S \cup {x} /\ x \notin S
    BY <1>2
  <2>2. IsFiniteSet(S \cup {x}) /\ Cardinality(S \cup {x}) = Cardinality(S) + 1
    BY <2>1, FS_AddElement
  <2> QED
    BY <2>1, <2>2, PartSize
<1> QED
  BY <1>1, <1>2

\* A rank is a number.
LEMMA RankType ==
    ASSUME NEW R, IsFiniteSet(R), NEW s, NEW l
    PROVE  IsFiniteSet(Younger(R, s, l)) /\ Rank(R, s, l) \in Nat
BY PartSize DEF Younger, Rank

\* The rows before and from a place are finitely many.
LEMMA PlacesFinite ==
    ASSUME NEW R, IsFiniteSet(R), NEW s, NEW S, NEW n
    PROVE  IsFiniteSet(Before(S, R, s, n)) /\ IsFiniteSet(From(S, R, s, n))
BY PartSize DEF Before, From

\* A younger row has fewer rows before it.
LEMMA YoungerFirst ==
    ASSUME NEW R, IsFiniteSet(R), NEW s \in [Links -> Nat], R \subseteq Links,
           NEW l \in R, NEW m \in R, s[l] > s[m]
    PROVE  Rank(R, s, l) < Rank(R, s, m)
<1>1. /\ Younger(R, s, l) \subseteq Younger(R, s, m)
      /\ l \in Younger(R, s, m) /\ l \notin Younger(R, s, l)
  BY DEF Younger
<1>2. Younger(R, s, l) # Younger(R, s, m)
  BY <1>1
<1>3. /\ Rank(R, s, l) <= Rank(R, s, m) /\ Rank(R, s, l) # Rank(R, s, m)
  BY <1>1, <1>2, RankType, FS_Subset DEF Rank
<1> QED
  BY <1>3, RankType

\* Without ties no two rows have the same rank.
LEMMA OnePerPlace ==
    ASSUME NEW R, IsFiniteSet(R), NEW s \in [Links -> Nat], R \subseteq Links, Ordered(R, s),
           NEW l \in R, NEW m \in R, Rank(R, s, l) = Rank(R, s, m)
    PROVE  l = m
<1> SUFFICES ASSUME l # m PROVE FALSE
  OBVIOUS
<1>1. s[l] > s[m] \/ s[m] > s[l]
  BY DEF Ordered
<1> QED
  BY <1>1, YoungerFirst, RankType

\* A new row pushes one row at most over any border, and pulls none back.
LEMMA RowComes ==
    ASSUME NEW R, IsFiniteSet(R), NEW s \in [Links -> Nat], R \subseteq Links,
           NEW x \in Links \ R, Ordered(R \cup {x}, s), NEW S, x \notin S, NEW n \in Nat
    PROVE  /\ Cardinality(From(S, R \cup {x}, s, n)) <= Cardinality(From(S, R, s, n)) + 1
           /\ Before(S, R \cup {x}, s, n) \subseteq Before(S, R, s, n)
<1>0. IsFiniteSet(R \cup {x}) /\ R \cup {x} \subseteq Links
  BY FS_AddElement
<1>1. ASSUME NEW l \in R
      PROVE  /\ Rank(R, s, l) <= Rank(R \cup {x}, s, l)
             /\ Rank(R \cup {x}, s, l) <= Rank(R, s, l) + 1
  <2>1. /\ Younger(R, s, l) \subseteq Younger(R \cup {x}, s, l)
        /\ \A y, z \in Younger(R \cup {x}, s, l) \ Younger(R, s, l) : y = z
    BY DEF Younger
  <2> QED
    BY <1>0, <2>1, RankType, PartSize, OneMore DEF Rank
<1>2. \A y, z \in From(S, R \cup {x}, s, n) \ From(S, R, s, n) : y = z
  <2> SUFFICES ASSUME NEW y \in From(S, R \cup {x}, s, n) \ From(S, R, s, n),
                      NEW z \in From(S, R \cup {x}, s, n) \ From(S, R, s, n)
               PROVE  y = z
    OBVIOUS
  <2>1. y \in R /\ z \in R
    BY DEF From
  <2>2. /\ Rank(R \cup {x}, s, y) >= n /\ ~(Rank(R, s, y) >= n)
        /\ Rank(R \cup {x}, s, z) >= n /\ ~(Rank(R, s, z) >= n)
    BY <2>1 DEF From
  <2>3. /\ Rank(R, s, y) \in Nat /\ Rank(R \cup {x}, s, y) \in Nat
        /\ Rank(R, s, z) \in Nat /\ Rank(R \cup {x}, s, z) \in Nat
    BY <1>0, RankType
  <2>4. Rank(R \cup {x}, s, y) = n /\ Rank(R \cup {x}, s, z) = n
    BY <1>1, <2>1, <2>2, <2>3
  <2> QED
    BY <1>0, <2>1, <2>4, OnePerPlace
<1>3. Before(S, R \cup {x}, s, n) \subseteq Before(S, R, s, n)
  <2> SUFFICES ASSUME NEW y \in Before(S, R \cup {x}, s, n) PROVE y \in Before(S, R, s, n)
    OBVIOUS
  <2>1. y \in R /\ y \in S /\ Rank(R \cup {x}, s, y) < n
    BY DEF Before
  <2>2. Rank(R, s, y) \in Nat /\ Rank(R \cup {x}, s, y) \in Nat
    BY <1>0, RankType
  <2>3. Rank(R, s, y) < n
    BY <1>1, <2>1, <2>2
  <2> QED
    BY <2>1, <2>3 DEF Before
<1> QED
  BY <1>2, <1>3, PlacesFinite, OneMore

\* A row that goes pulls one row at most over any border, and pushes none back.
LEMMA RowGoes ==
    ASSUME NEW R, IsFiniteSet(R), NEW s \in [Links -> Nat], R \subseteq Links, Ordered(R, s),
           NEW x \in R, NEW S, NEW n \in Nat
    PROVE  /\ Cardinality(Before(S, R \ {x}, s, n)) <= Cardinality(Before(S, R, s, n)) + 1
           /\ From(S, R \ {x}, s, n) \subseteq From(S, R, s, n)
<1>0. IsFiniteSet(R \ {x}) /\ R \ {x} \subseteq Links
  BY FS_RemoveElement
<1>1. ASSUME NEW l \in R \ {x}
      PROVE  /\ Rank(R \ {x}, s, l) <= Rank(R, s, l)
             /\ Rank(R, s, l) <= Rank(R \ {x}, s, l) + 1
  <2>1. /\ Younger(R \ {x}, s, l) \subseteq Younger(R, s, l)
        /\ \A y, z \in Younger(R, s, l) \ Younger(R \ {x}, s, l) : y = z
    BY DEF Younger
  <2> QED
    BY <1>0, <2>1, RankType, PartSize, OneMore DEF Rank
<1>2. \A y, z \in Before(S, R \ {x}, s, n) \ Before(S, R, s, n) : y = z
  <2> SUFFICES ASSUME NEW y \in Before(S, R \ {x}, s, n) \ Before(S, R, s, n),
                      NEW z \in Before(S, R \ {x}, s, n) \ Before(S, R, s, n)
               PROVE  y = z
    OBVIOUS
  <2>1. y \in R \ {x} /\ z \in R \ {x}
    BY DEF Before
  <2>2. /\ Rank(R \ {x}, s, y) < n /\ ~(Rank(R, s, y) < n)
        /\ Rank(R \ {x}, s, z) < n /\ ~(Rank(R, s, z) < n)
    BY <2>1 DEF Before
  <2>3. /\ Rank(R, s, y) \in Nat /\ Rank(R \ {x}, s, y) \in Nat
        /\ Rank(R, s, z) \in Nat /\ Rank(R \ {x}, s, z) \in Nat
    BY <1>0, RankType
  <2>4. Rank(R, s, y) = n /\ Rank(R, s, z) = n
    BY <1>1, <2>1, <2>2, <2>3
  <2> QED
    BY <2>1, <2>4, OnePerPlace
<1>3. From(S, R \ {x}, s, n) \subseteq From(S, R, s, n)
  <2> SUFFICES ASSUME NEW y \in From(S, R \ {x}, s, n) PROVE y \in From(S, R, s, n)
    OBVIOUS
  <2>1. y \in R \ {x} /\ y \in S /\ Rank(R \ {x}, s, y) >= n
    BY DEF From
  <2>2. Rank(R, s, y) \in Nat /\ Rank(R \ {x}, s, y) \in Nat
    BY <1>0, RankType
  <2>3. Rank(R, s, y) >= n
    BY <1>1, <2>1, <2>2
  <2> QED
    BY <2>1, <2>3 DEF From
<1> QED
  BY <1>2, <1>3, PlacesFinite, OneMore

\* The rows that a query without ties puts first are those with the lowest ranks.
LEMMA FirstRows ==
    ASSUME NEW R, IsFiniteSet(R), NEW s \in [Links -> Nat], R \subseteq Links, Ordered(R, s),
           NEW S \in SUBSET R, NEW n \in Nat, Cardinality(S) = Least(n, Cardinality(R)),
           \A l \in S, m \in R \ S : s[l] >= s[m]
    PROVE  \A l \in R : l \in S <=> Rank(R, s, l) < n
<1>0. Cardinality(S) \in Nat /\ Cardinality(R) \in Nat /\ IsFiniteSet(S)
  BY PartSize
<1>1. ASSUME NEW l \in R PROVE Rank(R, s, l) \in Nat /\ Rank(R, s, l) < Cardinality(R)
  <2>1. Younger(R, s, l) \subseteq R /\ Younger(R, s, l) # R
    BY DEF Younger
  <2>2. Rank(R, s, l) <= Cardinality(R) /\ Rank(R, s, l) # Cardinality(R)
    BY <2>1, FS_Subset DEF Rank
  <2> QED
    BY <1>0, <2>2, RankType
<1>2. ASSUME NEW l \in S PROVE Rank(R, s, l) < Cardinality(S)
  <2>1. Younger(R, s, l) \subseteq S
    BY DEF Younger, Ordered
  <2>2. Younger(R, s, l) # S
    BY DEF Younger
  <2>3. Rank(R, s, l) <= Cardinality(S) /\ Rank(R, s, l) # Cardinality(S)
    BY <1>0, <2>1, <2>2, FS_Subset DEF Rank
  <2> QED
    BY <1>0, <1>1, <2>3
<1>3. ASSUME NEW l \in R \ S PROVE Rank(R, s, l) >= Cardinality(S)
  <2>1. S \subseteq Younger(R, s, l)
    BY DEF Younger, Ordered
  <2> QED
    BY <1>0, <2>1, RankType, PartSize DEF Rank
<1> QED
  BY <1>0, <1>1, <1>2, <1>3 DEF Least

\* A page of a query without ties shows the rows whose ranks are in its range, and when
\* it is not full no other row stands from its first place on.
LEMMA PageRows ==
    ASSUME NEW R, IsFiniteSet(R), stamp \in [Links -> Nat], R \subseteq Links,
           Ordered(R, stamp), NEW skip \in Nat, NEW P \in Pages(R, skip)
    PROVE  /\ P \subseteq R
           /\ \A l \in R : l \in P <=> Rank(R, stamp, l) >= skip /\ Rank(R, stamp, l) < skip + Limit
           /\ Cardinality(P) < Limit =>
                \A l \in R \ P : Rank(R, stamp, l) < skip
<1>1. PICK B \in SUBSET (R \ P) :
        /\ Cardinality(B) = Least(skip, Cardinality(R))
        /\ Cardinality(P) = Least(Limit, Cardinality(R) - Cardinality(B))
        /\ \A l \in B, m \in R \ B : NoYounger(l, m)
        /\ \A l \in P, m \in R \ (B \cup P) : NoYounger(l, m)
  BY DEF Pages
<1>2. P \in SUBSET R
  BY DEF Pages
<1>3. /\ Cardinality(R) \in Nat /\ Cardinality(B) \in Nat /\ Cardinality(P) \in Nat
      /\ IsFiniteSet(B) /\ IsFiniteSet(P) /\ B \subseteq R
  BY <1>1, <1>2, PartSize
<1>4. Cardinality(B \cup P) = Cardinality(B) + Cardinality(P)
  <2>1. B \cap P = {}
    BY <1>1
  <2>2. Cardinality(B \cup P) = Cardinality(B) + Cardinality(P) - Cardinality(B \cap P)
    BY <1>3, FS_Union
  <2> QED
    BY <1>3, <2>1, <2>2, FS_EmptySet
<1>5. \A l \in R : l \in B <=> Rank(R, stamp, l) < skip
  BY <1>1, <1>3, FirstRows DEF NoYounger
<1>6. \A l \in R : l \in B \cup P <=> Rank(R, stamp, l) < skip + Limit
  <2>1. Cardinality(B \cup P) = Least(skip + Limit, Cardinality(R))
    BY <1>1, <1>3, <1>4 DEF Least
  <2>2. \A l \in B \cup P, m \in R \ (B \cup P) : stamp[l] >= stamp[m]
    BY <1>1 DEF NoYounger
  <2>3. B \cup P \in SUBSET R /\ skip + Limit \in Nat
    BY <1>2, <1>3
  <2> QED
    BY <2>1, <2>2, <2>3, FirstRows
<1>7. \A l \in R : Rank(R, stamp, l) \in Nat
  BY RankType
<1>8. ASSUME Cardinality(P) < Limit PROVE B \cup P = R
  <2>1. Cardinality(B \cup P) = Cardinality(R)
    BY <1>1, <1>3, <1>4, <1>8 DEF Least
  <2> QED
    BY <1>2, <1>3, <2>1, FS_Subset
<1>9. ASSUME NEW l \in R
      PROVE  l \in P <=> Rank(R, stamp, l) >= skip /\ Rank(R, stamp, l) < skip + Limit
  BY <1>1, <1>5, <1>6, <1>7
<1> QED
  BY <1>2, <1>5, <1>8, <1>9

\* The offset of a page, and of the next one.
LEMMA SkipType ==
    ASSUME NEW k \in Nat \ {0}
    PROVE  Skip(k) \in Nat /\ Skip(1) = 0 /\ Skip(k + 1) = Skip(k) + Limit
<1>1. k - 1 \in Nat /\ \A i, j \in Nat : i * j \in Nat /\ 0 * i = 0
  OBVIOUS
<1>2. ((k + 1) - 1) * Limit = (k - 1) * Limit + Limit
  OBVIOUS
<1> QED
  BY <1>1, <1>2 DEF Skip

\* The last page reaches as far as there are rows.
LEMMA LastPage ==
    ASSUME NEW k \in Nat \ {0}, NEW n \in Nat, ~(k < TotalPages(n))
    PROVE  n <= Skip(k) + Limit
<1> DEFINE q == (n + Limit - 1) \div Limit
           r == (n + Limit - 1) % Limit
<1>1. /\ q \in Int /\ r \in 0..(Limit - 1) /\ n + Limit - 1 = Limit * q + r /\ q <= k
  BY DEF TotalPages
<1>2. Limit * q <= Limit * k
  BY <1>1
<1>3. Limit * k = Skip(k) + Limit
  BY DEF Skip
<1>4. Limit * q \in Int /\ Limit * k \in Int /\ Skip(k) + Limit \in Int
  BY <1>1 DEF Skip
<1> QED
  BY <1>1, <1>2, <1>3, <1>4

-----------------------------------------------------------------------------
(* The invariants.                                                         *)

\* Every link is created and deleted once at most.
Coming == {l \in Links : state[l] \in {"unborn", "stamped"}}
Staying == {l \in Links : state[l] # "gone"}
Counted ==
    /\ added + Cardinality(Coming) <= Cardinality(Links)
    /\ deleted + Cardinality(Staying) <= Cardinality(Links)

\* What the client has seen was stored, and its requests belong to a walk.
Seen ==
    /\ \A l \in known \cup shown \cup rows : state[l] \in {"stored", "gone"}
    /\ stage # "idle" => Walking
    /\ done => page > 0
    /\ stage # "count" => rows = {}

\* Behind the pages read so far stand no more of the links shown than inserts have
\* pushed there and no later page has shown again.
Repeating ==
    /\ repeats <= added
    /\ Walking =>
         repeats + Cardinality(From(shown, Stored, stamp, Skip(page))) <= added
    /\ stage = "count" =>
         repeats + Cardinality(shown \cap rows)
           + Cardinality(From(shown \cup rows, Stored, stamp, Skip(page) + Limit)) <= added

\* Before them stand no more of the known links not shown than deletions have pulled there.
Missing ==
    /\ Walking => Cardinality(Before(known \ shown, Stored, stamp, Skip(page))) <= deleted
    /\ stage = "count" =>
         /\ Cardinality(Before(known \ (shown \cup rows), Stored, stamp, Skip(page) + Limit))
              <= deleted
         /\ Cardinality(rows) < Limit =>
              Cardinality((known \cap Stored) \ (shown \cup rows)) <= deleted
    /\ done => Cardinality(Missed) <= deleted

Drift == Untied => Repeating /\ Missing

-----------------------------------------------------------------------------
(* Types.                                                                  *)

\* What the type invariant says of the sets and counters of the proofs below.
LEMMA StoredType ==
    ASSUME TypeOK
    PROVE  /\ IsFiniteSet(Links) /\ Cardinality(Links) \in Nat
           /\ IsFiniteSet(Stored) /\ Stored \subseteq Links /\ Cardinality(Stored) \in Nat
           /\ stamp \in [Links -> Nat]
           /\ added \in Nat /\ deleted \in Nat /\ repeats \in Nat
           /\ IsFiniteSet(shown) /\ IsFiniteSet(rows) /\ IsFiniteSet(known)
<1>1. Cardinality(Links) \in Nat
  BY SizeType
<1>2. Stored \subseteq Links /\ shown \subseteq Links /\ rows \subseteq Links /\ known \subseteq Links
  BY DEF Stored, TypeOK
<1>3. IsFiniteSet(Stored) /\ Cardinality(Stored) \in Nat
  BY <1>2, PartSize
<1>4. IsFiniteSet(shown) /\ IsFiniteSet(rows) /\ IsFiniteSet(known)
  BY <1>2, PartSize
<1>5. stamp \in [Links -> Nat]
  <2>1. 0..MaxTime \subseteq Nat
    OBVIOUS
  <2> QED
    BY <2>1 DEF TypeOK
<1>6. added \in Nat /\ deleted \in Nat /\ repeats \in Nat
  BY <1>1 DEF TypeOK
<1> QED
  BY <1>1, <1>2, <1>3, <1>4, <1>5, <1>6

\* Every step keeps the counters within what is left to create and to delete.
LEMMA CountedStep == TypeOK /\ Counted /\ [Next]_vars =>
                        Counted' /\ added' \in Nat /\ deleted' \in Nat
<1> SUFFICES ASSUME TypeOK, Counted, [Next]_vars
             PROVE  Counted' /\ added' \in Nat /\ deleted' \in Nat
  OBVIOUS
<1>0. /\ state \in [Links -> {"unborn", "stamped", "stored", "gone"}]
      /\ added \in Nat /\ deleted \in Nat
      /\ Cardinality(Links) \in Nat
  BY StoredType DEF TypeOK
<1>1. /\ IsFiniteSet(Coming) /\ Cardinality(Coming) \in Nat
      /\ Cardinality(Coming) <= Cardinality(Links)
  BY PartSize DEF Coming
<1>2. /\ IsFiniteSet(Staying) /\ Cardinality(Staying) \in Nat
      /\ Cardinality(Staying) <= Cardinality(Links)
  BY PartSize DEF Staying
<1>3. ASSUME NEW l \in Links, Insert(l) PROVE Counted' /\ added' \in Nat /\ deleted' \in Nat
  <2>1. Coming' = Coming \ {l} /\ l \in Coming /\ Staying' = Staying
    BY <1>0, <1>3 DEF Insert, Coming, Staying
  <2>2. Cardinality(Coming \ {l}) = Cardinality(Coming) - 1
    BY <1>1, <2>1, FS_RemoveElement
  <2>3. added' \in {added, added + 1} /\ deleted' = deleted
    BY <1>3 DEF Insert
  <2> QED
    BY <1>0, <1>1, <1>2, <2>1, <2>2, <2>3 DEF Counted
<1>4. ASSUME NEW l \in Links, InsertFails(l) PROVE Counted' /\ added' \in Nat /\ deleted' \in Nat
  <2>1. Coming' \subseteq Coming /\ Staying' \subseteq Staying
    BY <1>0, <1>4 DEF InsertFails, Coming, Staying
  <2>2. /\ Cardinality(Coming') \in Nat /\ Cardinality(Coming') <= Cardinality(Coming)
        /\ Cardinality(Staying') \in Nat /\ Cardinality(Staying') <= Cardinality(Staying)
    BY <1>1, <1>2, <2>1, PartSize
  <2>3. added' = added /\ deleted' = deleted
    BY <1>4 DEF InsertFails
  <2> QED
    BY <1>0, <1>1, <1>2, <2>2, <2>3 DEF Counted
<1>5. ASSUME NEW l \in Links, Delete(l) PROVE Counted' /\ added' \in Nat /\ deleted' \in Nat
  <2>1. Staying' = Staying \ {l} /\ l \in Staying /\ Coming' = Coming
    BY <1>0, <1>5 DEF Delete, Coming, Staying
  <2>2. Cardinality(Staying \ {l}) = Cardinality(Staying) - 1
    BY <1>2, <2>1, FS_RemoveElement
  <2>3. deleted' \in {deleted, deleted + 1} /\ added' = added
    BY <1>5 DEF Delete
  <2> QED
    BY <1>0, <1>1, <1>2, <2>1, <2>2, <2>3 DEF Counted
<1>6. ASSUME NEW l \in Links, Stamp(l) PROVE Counted' /\ added' \in Nat /\ deleted' \in Nat
  <2>1. Coming' = Coming /\ Staying' = Staying
    BY <1>0, <1>6 DEF Stamp, Coming, Staying
  <2> QED
    BY <1>0, <1>6, <2>1 DEF Stamp, Counted
<1>7. CASE StartWalk
  <2>1. Coming' = Coming /\ Staying' = Staying /\ added' = 0 /\ deleted' = 0
    BY <1>7 DEF StartWalk, table, Coming, Staying
  <2> QED
    BY <1>0, <1>1, <1>2, <2>1 DEF Counted
<1>8. CASE Tick \/ AskPage \/ ReadRows \/ CountRows \/ SkipCount \/ QueryFails \/ UNCHANGED vars
  <2>1. UNCHANGED <<state, added, deleted>>
    BY <1>8 DEF Tick, AskPage, ReadRows, CountRows, SkipCount, Respond, QueryFails, vars, table
  <2> QED
    BY <1>0, <2>1 DEF Counted, Coming, Staying
<1> QED
  BY <1>3, <1>4, <1>5, <1>6, <1>7, <1>8 DEF Next, Write, Read

\* Every step keeps the type invariant.
LEMMA TypeStep == TypeOK /\ Counted /\ [Next]_vars => TypeOK'
<1> SUFFICES ASSUME TypeOK, Counted, [Next]_vars PROVE TypeOK'
  OBVIOUS
<1>1. added' \in 0..Cardinality(Links) /\ deleted' \in 0..Cardinality(Links)
  <2>1. added' \in Nat /\ deleted' \in Nat /\ Counted'
    BY CountedStep
  <2>2. Coming' \subseteq Links /\ Staying' \subseteq Links
    BY DEF Coming, Staying
  <2>3. Cardinality(Coming') \in Nat /\ Cardinality(Staying') \in Nat
        /\ Cardinality(Links) \in Nat
    BY <2>2, PartSize
  <2> QED
    BY <2>1, <2>3 DEF Counted
<1>2. /\ now' \in 0..MaxTime /\ stamp' \in [Links -> 0..MaxTime]
      /\ state' \in [Links -> {"unborn", "stamped", "stored", "gone"}]
  BY DEF TypeOK, Next, Write, Read, vars, table, Tick, Stamp, Insert, InsertFails, Delete,
         StartWalk, AskPage, ReadRows, CountRows, SkipCount, Respond, QueryFails
<1>3. /\ stage' \in {"idle", "rows", "count"} /\ page' \in Nat /\ done' \in BOOLEAN
      /\ rows' \subseteq Links /\ shown' \subseteq Links /\ known' \subseteq Links
      /\ repeats' \in Nat
  <2>1. CASE Write \/ UNCHANGED vars
    BY <2>1 DEF TypeOK, Write, vars, client, Tick, Stamp, Insert, InsertFails, Delete
  <2>2. CASE StartWalk
    BY <2>2 DEF TypeOK, StartWalk, Stored
  <2>3. CASE AskPage \/ QueryFails
    BY <2>3 DEF TypeOK, AskPage, QueryFails
  <2>4. CASE ReadRows
    BY <2>4 DEF TypeOK, ReadRows, Pages, Stored
  <2>5. ASSUME NEW n, Respond(n)
        PROVE  /\ stage' \in {"idle", "rows", "count"} /\ page' \in Nat /\ done' \in BOOLEAN
               /\ rows' \subseteq Links /\ shown' \subseteq Links /\ known' \subseteq Links
               /\ repeats' \in Nat
    <3>1. Cardinality(shown \cap rows) \in Nat
      BY StoredType, PartSize
    <3>2. repeats' = repeats + Cardinality(shown \cap rows) /\ repeats \in Nat
      BY <2>5, StoredType DEF Respond
    <3> QED
      BY <2>5, <3>1, <3>2 DEF Respond, TypeOK
  <2> QED
    BY <2>1, <2>2, <2>3, <2>4, <2>5 DEF Next, Read, CountRows, SkipCount
<1> QED
  BY <1>1, <1>2, <1>3 DEF TypeOK

\* Both hold in the beginning.
LEMMA TypeStart == Init => TypeOK /\ Counted
<1> SUFFICES ASSUME Init PROVE TypeOK /\ Counted
  OBVIOUS
<1>1. Coming = Links /\ Staying = Links
  BY DEF Init, Coming, Staying
<1>2. Cardinality(Links) \in Nat
  BY SizeType
<1>3. 0 \in 0..MaxTime /\ 0 \in 0..Cardinality(Links)
  BY <1>2
<1>4. TypeOK
  BY <1>3 DEF Init, TypeOK
<1> QED
  BY <1>1, <1>2, <1>4 DEF Init, Counted

\* TypeOK: in particular the counters of a walk never exceed the number of links.
THEOREM TypesHold == Spec => []TypeOK
<1>1. TypeOK /\ Counted /\ [Next]_vars => (TypeOK /\ Counted)'
  BY TypeStep, CountedStep
<1> QED
  BY <1>1, TypeStart, PTL DEF Spec

\* Nothing is seen in the beginning.
LEMMA SeenStart == Init => Seen
BY DEF Init, Seen

\* Every step keeps what is known of the links seen.
LEMMA SeenStep == TypeOK /\ Seen /\ [Next]_vars => Seen'
<1> SUFFICES ASSUME TypeOK, Seen, [Next]_vars PROVE Seen'
  OBVIOUS
<1>0. state \in [Links -> {"unborn", "stamped", "stored", "gone"}] /\ page \in Nat
  BY DEF TypeOK
<1>1. CASE Write \/ UNCHANGED vars
  <2>1. UNCHANGED client
    BY <1>1 DEF Write, vars, client, Tick, Stamp, Insert, InsertFails, Delete
  <2>2. \A l \in Links : state[l] \in {"stored", "gone"} => state'[l] \in {"stored", "gone"}
    BY <1>0, <1>1 DEF Write, vars, Tick, Stamp, Insert, InsertFails, Delete
  <2> QED
    BY <2>1, <2>2 DEF TypeOK, Seen, client, Walking
<1>2. CASE StartWalk
  BY <1>0, <1>2 DEF StartWalk, table, Stored, Seen, Walking
<1>3. CASE AskPage \/ QueryFails
  BY <1>3 DEF AskPage, QueryFails, table, Seen, Walking
<1>4. CASE ReadRows
  BY <1>4 DEF ReadRows, table, Pages, Stored, Seen, Walking
<1>5. ASSUME NEW n, stage = "count", Respond(n) PROVE Seen'
  <2>1. /\ stage' = "idle" /\ rows' = {} /\ UNCHANGED <<state, known>>
        /\ shown' = shown \cup rows /\ page' \in {page, page + 1}
    BY <1>5 DEF Respond, table
  <2> QED
    BY <1>0, <1>5, <2>1 DEF Seen, Walking
<1> QED
  BY <1>1, <1>2, <1>3, <1>4, <1>5 DEF Next, Read, CountRows, SkipCount

-----------------------------------------------------------------------------
(* Drift.                                                                  *)

\* A time is given once, so an untied listing was never tied.
LEMMA UntiedBefore == TypeOK /\ [Next]_vars /\ Untied' => Untied
<1> SUFFICES ASSUME TypeOK, [Next]_vars, Untied' PROVE Untied
  OBVIOUS
<1>1. /\ state \in [Links -> {"unborn", "stamped", "stored", "gone"}]
      /\ stamp \in [Links -> 0..MaxTime]
  BY DEF TypeOK
<1>2. \A l \in Links : state[l] # "unborn" => state'[l] # "unborn" /\ stamp'[l] = stamp[l]
  BY <1>1 DEF Next, Write, Read, vars, table, Tick, Stamp, Insert, InsertFails, Delete,
              StartWalk, AskPage, ReadRows, CountRows, SkipCount, Respond, QueryFails
<1> QED
  BY <1>2 DEF Untied

\* Untied links are ordered, with the one that is about to be stored.
LEMMA UntiedOrdered ==
    ASSUME Untied
    PROVE  /\ Ordered(Stored, stamp)
           /\ \A x \in Links : state[x] = "stamped" => Ordered(Stored \cup {x}, stamp)
BY DEF Untied, Ordered, Stored

\* Places depend on the times of the rows there are, and of no other link.
LEMMA SamePlaces ==
    ASSUME NEW R, NEW s, NEW t, \A l \in R : s[l] = t[l], NEW S, NEW n
    PROVE  Before(S, R, s, n) = Before(S, R, t, n) /\ From(S, R, s, n) = From(S, R, t, n)
<1>1. \A l \in R : Younger(R, s, l) = Younger(R, t, l)
  BY DEF Younger
<1> QED
  BY <1>1 DEF Before, From, Rank

\* The page of a walk has an offset.
LEMMA PageType == TypeOK /\ Seen /\ Walking =>
                     /\ page \in Nat \ {0} /\ Skip(page) \in Nat /\ Skip(page) + Limit \in Nat
                     /\ Skip(page + 1) = Skip(page) + Limit
BY SkipType DEF TypeOK, Walking

Safe == TypeOK /\ Seen /\ Untied /\ Repeating /\ Missing

\* An insert pushes one shown link at most over a border, and is counted.
LEMMA DriftOfInsert ==
    ASSUME Safe, NEW x \in Links, Insert(x)
    PROVE  Repeating' /\ Missing'
<1>0. /\ IsFiniteSet(Stored) /\ Stored \subseteq Links /\ stamp \in [Links -> Nat]
      /\ added \in Nat /\ deleted \in Nat /\ repeats \in Nat
  BY StoredType DEF Safe
<1>1. /\ state[x] = "stamped" /\ UNCHANGED <<stamp, client, deleted>>
      /\ added' = IF Walking THEN added + 1 ELSE added
  BY DEF Insert
<1>2. /\ x \notin Stored /\ x \notin known /\ x \notin shown /\ x \notin rows
  BY <1>1 DEF Safe, Seen, Stored
<1>3. Stored' = Stored \cup {x}
  BY DEF Safe, TypeOK, Insert, Stored
<1>4. Ordered(Stored \cup {x}, stamp)
  BY <1>1, UntiedOrdered DEF Safe
<1>5. ASSUME NEW S, x \notin S, NEW n \in Nat
      PROVE  /\ Cardinality(From(S, Stored', stamp, n))
                  <= Cardinality(From(S, Stored, stamp, n)) + 1
             /\ Cardinality(Before(S, Stored', stamp, n))
                  <= Cardinality(Before(S, Stored, stamp, n))
             /\ Cardinality(From(S, Stored, stamp, n)) \in Nat
             /\ Cardinality(From(S, Stored', stamp, n)) \in Nat
             /\ Cardinality(Before(S, Stored, stamp, n)) \in Nat
             /\ Cardinality(Before(S, Stored', stamp, n)) \in Nat
  <2>1. IsFiniteSet(Stored \cup {x})
    BY <1>0, FS_AddElement
  <2>2. /\ IsFiniteSet(From(S, Stored, stamp, n)) /\ IsFiniteSet(From(S, Stored', stamp, n))
        /\ IsFiniteSet(Before(S, Stored, stamp, n)) /\ IsFiniteSet(Before(S, Stored', stamp, n))
    BY <1>0, <1>3, <2>1, PlacesFinite
  <2>3. /\ Cardinality(From(S, Stored', stamp, n)) <= Cardinality(From(S, Stored, stamp, n)) + 1
        /\ Before(S, Stored', stamp, n) \subseteq Before(S, Stored, stamp, n)
    BY <1>0, <1>2, <1>3, <1>4, <1>5, RowComes
  <2> QED
    BY <2>2, <2>3, PartSize, SizeType
<1>6. stage = "count" => Walking
  BY DEF Safe, Seen
<1>7. Repeating'
  <2>1. CASE Walking
    <3>1. Skip(page) \in Nat /\ Skip(page) + Limit \in Nat
      BY <2>1, PageType DEF Safe
    <3>2. repeats' <= added'
      BY <1>0, <1>1, <2>1 DEF Safe, Repeating, client
    <3>3. repeats + Cardinality(From(shown, Stored', stamp, Skip(page))) <= added + 1
      BY <1>0, <1>2, <1>5, <2>1, <3>1 DEF Safe, Repeating
    <3>4. ASSUME stage = "count"
          PROVE  repeats + Cardinality(shown \cap rows)
                   + Cardinality(From(shown \cup rows, Stored', stamp, Skip(page) + Limit))
                   <= added + 1
      <4> DEFINE n == Skip(page) + Limit
      <4> HIDE DEF n
      <4>1. Cardinality(shown \cap rows) \in Nat
        BY StoredType, PartSize DEF Safe
      <4>2. n \in Nat /\ x \notin shown \cup rows
        BY <1>2, <3>1 DEF n
      <4>3. /\ Cardinality(From(shown \cup rows, Stored', stamp, n))
                 <= Cardinality(From(shown \cup rows, Stored, stamp, n)) + 1
            /\ Cardinality(From(shown \cup rows, Stored, stamp, n)) \in Nat
            /\ Cardinality(From(shown \cup rows, Stored', stamp, n)) \in Nat
        BY <1>5, <4>2
      <4>4. repeats + Cardinality(shown \cap rows)
              + Cardinality(From(shown \cup rows, Stored, stamp, n)) <= added
        BY <3>4 DEF Safe, Repeating, n
      <4>5. repeats + Cardinality(shown \cap rows)
              + Cardinality(From(shown \cup rows, Stored', stamp, n)) <= added + 1
        BY <1>0, <4>1, <4>3, <4>4
      <4> QED
        BY <4>5 DEF n
    <3> QED
      BY <1>1, <2>1, <3>2, <3>3, <3>4 DEF Repeating, client
  <2>2. CASE ~Walking
    BY <1>1, <1>6, <2>2 DEF Safe, Repeating, Walking, client
  <2> QED
    BY <2>1, <2>2
<1>8. Missing'
  <2>0. known \cap Stored' = known \cap Stored
    BY <1>2, <1>3
  <2>1. ASSUME Walking
        PROVE  Cardinality(Before(known \ shown, Stored', stamp, Skip(page))) <= deleted
    <3> DEFINE A(R) == Cardinality(Before(known \ shown, R, stamp, Skip(page)))
    <3>1. Skip(page) \in Nat /\ x \notin known \ shown
      BY <1>2, <2>1, PageType DEF Safe
    <3>2. A(Stored') <= A(Stored) /\ A(Stored) \in Nat /\ A(Stored') \in Nat
      BY <1>5, <3>1
    <3>3. A(Stored) <= deleted
      BY <2>1 DEF Safe, Missing
    <3> HIDE DEF A
    <3>4. A(Stored') <= deleted
      BY <1>0, <3>2, <3>3
    <3> QED
      BY <3>4 DEF A
  <2>2. ASSUME stage = "count"
        PROVE  Cardinality(Before(known \ (shown \cup rows), Stored', stamp,
                                  Skip(page) + Limit)) <= deleted
    <3> DEFINE n == Skip(page) + Limit
               A(R) == Cardinality(Before(known \ (shown \cup rows), R, stamp, n))
    <3>1. n \in Nat /\ x \notin known \ (shown \cup rows)
      BY <1>2, <1>6, <2>2, PageType DEF Safe
    <3>2. A(Stored') <= A(Stored) /\ A(Stored) \in Nat /\ A(Stored') \in Nat
      BY <1>5, <3>1
    <3>3. A(Stored) <= deleted
      BY <2>2 DEF Safe, Missing
    <3> HIDE DEF A
    <3>4. A(Stored') <= deleted
      BY <1>0, <3>2, <3>3
    <3> QED
      BY <3>4 DEF A
  <2>3. Missed' = Missed
    BY <1>1, <2>0 DEF Missed, client
  <2>4. /\ (Walking' <=> Walking)
        /\ UNCHANGED <<stage, page, rows, shown, done, known, deleted, stamp>>
    BY <1>1 DEF client, Walking
  <2> QED
    BY <2>0, <2>1, <2>2, <2>3, <2>4 DEF Safe, Missing
<1> QED
  BY <1>7, <1>8

\* A deletion pulls one missing link at most over a border, and is counted.
LEMMA DriftOfDelete ==
    ASSUME Safe, NEW x \in Links, Delete(x)
    PROVE  Repeating' /\ Missing'
<1>0. /\ IsFiniteSet(Stored) /\ Stored \subseteq Links /\ stamp \in [Links -> Nat]
      /\ added \in Nat /\ deleted \in Nat /\ repeats \in Nat
      /\ IsFiniteSet(known) /\ IsFiniteSet(shown)
  BY StoredType DEF Safe
<1>1. /\ x \in Stored /\ UNCHANGED <<stamp, client, added>>
      /\ deleted' = IF Walking THEN deleted + 1 ELSE deleted
  BY DEF Delete, Stored
<1>2. Stored' = Stored \ {x}
  BY DEF Safe, TypeOK, Delete, Stored
<1>3. ASSUME NEW S, NEW n \in Nat
      PROVE  /\ Cardinality(Before(S, Stored', stamp, n))
                  <= Cardinality(Before(S, Stored, stamp, n)) + 1
             /\ Cardinality(From(S, Stored', stamp, n))
                  <= Cardinality(From(S, Stored, stamp, n))
             /\ Cardinality(From(S, Stored, stamp, n)) \in Nat
             /\ Cardinality(From(S, Stored', stamp, n)) \in Nat
             /\ Cardinality(Before(S, Stored, stamp, n)) \in Nat
             /\ Cardinality(Before(S, Stored', stamp, n)) \in Nat
  <2>1. IsFiniteSet(Stored \ {x})
    BY <1>0, FS_RemoveElement
  <2>2. /\ IsFiniteSet(From(S, Stored, stamp, n)) /\ IsFiniteSet(From(S, Stored', stamp, n))
        /\ IsFiniteSet(Before(S, Stored, stamp, n)) /\ IsFiniteSet(Before(S, Stored', stamp, n))
    BY <1>0, <1>2, <2>1, PlacesFinite
  <2>3. Ordered(Stored, stamp)
    BY UntiedOrdered DEF Safe
  <2>4. /\ Cardinality(Before(S, Stored', stamp, n))
             <= Cardinality(Before(S, Stored, stamp, n)) + 1
        /\ From(S, Stored', stamp, n) \subseteq From(S, Stored, stamp, n)
    BY <1>0, <1>1, <1>2, <2>3, RowGoes
  <2> QED
    BY <2>2, <2>4, PartSize, SizeType
<1>4. ASSUME NEW S
      PROVE  /\ Cardinality((known \cap Stored') \ S) <= Cardinality((known \cap Stored) \ S)
             /\ Cardinality((known \cap Stored') \ S) \in Nat
             /\ Cardinality((known \cap Stored) \ S) \in Nat
  <2>1. /\ (known \cap Stored') \ S \subseteq (known \cap Stored) \ S
        /\ (known \cap Stored) \ S \subseteq known
    BY <1>2
  <2>2. IsFiniteSet((known \cap Stored) \ S)
    BY <1>0, <2>1, PartSize
  <2> QED
    BY <2>1, <2>2, PartSize
<1>5. stage = "count" => Walking
  BY DEF Safe, Seen
<1>6. /\ (Walking' <=> Walking)
      /\ UNCHANGED <<stage, page, rows, shown, done, known, added, repeats, stamp>>
  BY <1>1 DEF client, Walking
<1>7. Repeating'
  <2>1. Walking => repeats + Cardinality(From(shown, Stored', stamp, Skip(page))) <= added
    BY <1>0, <1>3, PageType DEF Safe, Repeating
  <2>2. ASSUME stage = "count"
        PROVE  repeats + Cardinality(shown \cap rows)
                 + Cardinality(From(shown \cup rows, Stored', stamp, Skip(page) + Limit)) <= added
    <3>1. Cardinality(shown \cap rows) \in Nat
      BY <1>0, PartSize
    <3>2. Skip(page) + Limit \in Nat
      BY <1>5, <2>2, PageType DEF Safe
    <3> QED
      BY <1>0, <1>3, <2>2, <3>1, <3>2 DEF Safe, Repeating
  <2> QED
    BY <1>6, <2>1, <2>2 DEF Safe, Repeating
<1>8. Missing'
  <2>1. Walking =>
          Cardinality(Before(known \ shown, Stored', stamp, Skip(page))) <= deleted + 1
    BY <1>0, <1>3, PageType DEF Safe, Missing
  <2>2. ASSUME stage = "count"
        PROVE  /\ Cardinality(Before(known \ (shown \cup rows), Stored', stamp,
                                     Skip(page) + Limit)) <= deleted + 1
               /\ Cardinality(rows) < Limit =>
                    Cardinality((known \cap Stored') \ (shown \cup rows)) <= deleted + 1
    <3> DEFINE n == Skip(page) + Limit
               A(R) == Cardinality(Before(known \ (shown \cup rows), R, stamp, n))
               C(R) == Cardinality((known \cap R) \ (shown \cup rows))
    <3>1. n \in Nat
      BY <1>5, <2>2, PageType DEF Safe
    <3>2. A(Stored') <= A(Stored) + 1 /\ A(Stored) \in Nat /\ A(Stored') \in Nat
      BY <1>3, <3>1
    <3>3. C(Stored') <= C(Stored) /\ C(Stored) \in Nat /\ C(Stored') \in Nat
      BY <1>4
    <3>4. A(Stored) <= deleted /\ (Cardinality(rows) < Limit => C(Stored) <= deleted)
      BY <2>2 DEF Safe, Missing
    <3> HIDE DEF A, C
    <3>5. A(Stored') <= deleted + 1 /\ (Cardinality(rows) < Limit => C(Stored') <= deleted + 1)
      BY <1>0, <3>2, <3>3, <3>4
    <3> QED
      BY <3>5 DEF A, C
  <2>3. done => Cardinality((known \cap Stored') \ shown) <= deleted
               /\ Cardinality((known \cap Stored') \ shown) \in Nat
    <3> DEFINE C(R) == Cardinality((known \cap R) \ shown)
    <3>1. C(Stored') <= C(Stored) /\ C(Stored) \in Nat /\ C(Stored') \in Nat
      BY <1>4
    <3>2. done => C(Stored) <= deleted
      BY DEF Safe, Missing, Missed
    <3> HIDE DEF C
    <3>3. done => C(Stored') <= deleted /\ C(Stored') \in Nat
      BY <1>0, <3>1, <3>2
    <3> QED
      BY <3>3 DEF C
  <2>4. deleted' \in Nat /\ deleted <= deleted' /\ (Walking => deleted' = deleted + 1)
    BY <1>0, <1>1
  <2>5. done' => Cardinality(Missed') <= deleted'
    <3>1. Missed' = (known \cap Stored') \ shown /\ done' = done
      BY <1>6 DEF Missed
    <3> QED
      BY <1>0, <2>3, <2>4, <3>1
  <2> QED
    BY <1>5, <1>6, <2>1, <2>2, <2>4, <2>5 DEF Missing
<1> QED
  BY <1>7, <1>8

\* The page that is read shows what stands in its places, so the places up to the next
\* page hold no other link than those that were missing, or left over, before.
LEMMA DriftOfRead ==
    ASSUME Safe, ReadRows
    PROVE  Repeating' /\ Missing'
<1>0. /\ IsFiniteSet(Stored) /\ Stored \subseteq Links /\ stamp \in [Links -> Nat]
      /\ added \in Nat /\ deleted \in Nat /\ repeats \in Nat
      /\ IsFiniteSet(known) /\ IsFiniteSet(shown) /\ Ordered(Stored, stamp)
  BY StoredType, UntiedOrdered DEF Safe
<1>1. /\ Walking /\ page \in Nat \ {0} /\ Skip(page) \in Nat /\ Skip(page) + Limit \in Nat
      /\ done = FALSE
  BY PageType DEF Safe, Seen, ReadRows, Walking, TypeOK
<1>2. PICK P \in Pages(Stored, Skip(page)) : rows' = P
  BY DEF ReadRows
<1>3. /\ stage' = "count" /\ Stored' = Stored /\ (Walking' <=> Walking)
      /\ UNCHANGED <<stamp, page, shown, done, known, added, deleted, repeats>>
  BY DEF ReadRows, table, Stored, Walking
<1>4. PICK k \in Nat : k = Skip(page)
  BY <1>1
<1>5. /\ P \subseteq Stored
      /\ \A l \in Stored : l \in P <=> Rank(Stored, stamp, l) >= k
                                         /\ Rank(Stored, stamp, l) < k + Limit
      /\ Cardinality(P) < Limit => \A l \in Stored \ P : Rank(Stored, stamp, l) < k
  BY <1>0, <1>2, <1>4, PageRows
<1>6. \A l \in Stored : Rank(Stored, stamp, l) \in Nat
  BY <1>0, RankType
<1>7. Repeating'
  <2> DEFINE A == From(shown, Stored, stamp, k)
             B == shown \cap P
             C == From(shown \cup P, Stored, stamp, k + Limit)
  <2>1. B \subseteq A /\ C \subseteq A /\ B \cap C = {}
    BY <1>5, <1>6 DEF From
  <2>2. IsFiniteSet(A)
    BY <1>0, PlacesFinite
  <2>3. /\ IsFiniteSet(B) /\ IsFiniteSet(C) /\ B \cup C \subseteq A
    BY <2>1, <2>2, PartSize
  <2>4. Cardinality(B \cup C) = Cardinality(B) + Cardinality(C)
    <3>1. Cardinality(B \cup C) = Cardinality(B) + Cardinality(C) - Cardinality(B \cap C)
      BY <2>3, FS_Union
    <3>2. Cardinality(B \cap C) = 0
      BY <2>1, FS_EmptySet
    <3>3. Cardinality(B) \in Nat /\ Cardinality(C) \in Nat
      BY <2>3, SizeType
    <3> QED
      BY <3>1, <3>2, <3>3
  <2>5. Cardinality(B \cup C) <= Cardinality(A)
    BY <2>2, <2>3, PartSize
  <2>6. repeats + Cardinality(A) <= added
    BY <1>1, <1>4 DEF Safe, Repeating
  <2>7. Cardinality(A) \in Nat /\ Cardinality(B) \in Nat /\ Cardinality(C) \in Nat
    BY <2>2, <2>3, SizeType
  <2>8. repeats + Cardinality(B) + Cardinality(C) <= added
    BY <1>0, <2>4, <2>5, <2>6, <2>7
  <2> QED
    BY <1>1, <1>2, <1>3, <1>4, <2>6, <2>8 DEF Safe, Repeating
<1>8. Missing'
  <2> DEFINE A == Before(known \ shown, Stored, stamp, k)
             B == Before(known \ (shown \cup P), Stored, stamp, k + Limit)
             C == (known \cap Stored) \ (shown \cup P)
  <2>1. B \subseteq A
    BY <1>5, <1>6 DEF Before
  <2>2. Cardinality(P) < Limit => C \subseteq A
    BY <1>5 DEF Before
  <2>3. IsFiniteSet(A) /\ Cardinality(A) \in Nat
    BY <1>0, PlacesFinite, SizeType
  <2>4. Cardinality(A) <= deleted
    BY <1>1, <1>4 DEF Safe, Missing
  <2>5. Cardinality(B) <= Cardinality(A) /\ Cardinality(B) \in Nat
    BY <2>1, <2>3, PartSize
  <2>6. Cardinality(P) < Limit => Cardinality(C) <= Cardinality(A) /\ Cardinality(C) \in Nat
    BY <2>2, <2>3, PartSize
  <2> HIDE DEF A, B, C
  <2>7. Cardinality(B) <= deleted /\ (Cardinality(P) < Limit => Cardinality(C) <= deleted)
    BY <1>0, <2>3, <2>4, <2>5, <2>6
  <2> QED
    BY <1>1, <1>2, <1>3, <1>4, <2>4, <2>7 DEF Missing, A, B, C
<1> QED
  BY <1>7, <1>8

\* A response moves the walk on by a page, or ends it with nothing behind the page.
LEMMA DriftOfResponse ==
    ASSUME Safe, CountRows \/ SkipCount
    PROVE  Repeating' /\ Missing'
<1>0. /\ IsFiniteSet(Stored) /\ Stored \subseteq Links /\ stamp \in [Links -> Nat]
      /\ added \in Nat /\ deleted \in Nat /\ repeats \in Nat /\ Cardinality(Stored) \in Nat
      /\ IsFiniteSet(known) /\ IsFiniteSet(shown) /\ IsFiniteSet(rows)
  BY StoredType DEF Safe
<1>1. /\ stage = "count" /\ Walking /\ page \in Nat \ {0} /\ page > 0
      /\ Skip(page) \in Nat /\ Skip(page) + Limit \in Nat
      /\ Skip(page + 1) = Skip(page) + Limit
  BY PageType DEF Safe, Seen, CountRows, SkipCount, Walking, TypeOK
<1>2. PICK n \in Nat :
        /\ Respond(n)
        /\ n = Cardinality(Stored) \/ Cardinality(rows) < Limit
  <2>1. Cardinality(rows) \in Nat
    BY <1>0, SizeType
  <2> QED
    BY <1>0, <1>1, <2>1 DEF CountRows, SkipCount
<1>3. /\ stage' = "idle" /\ rows' = {} /\ shown' = shown \cup rows
      /\ repeats' = repeats + Cardinality(shown \cap rows)
      /\ \/ done' = FALSE /\ page' = page + 1
         \/ done' = TRUE /\ page' = page /\ ~(page < TotalPages(n))
      /\ Stored' = Stored /\ UNCHANGED <<stamp, known, added, deleted>>
  BY <1>2 DEF Respond, HasNextPage, Transformed, IsPaginated, Body, table, Stored
<1>4. Repeating'
  <2> DEFINE C == From(shown \cup rows, Stored, stamp, Skip(page) + Limit)
  <2>1. Cardinality(C) \in Nat /\ Cardinality(shown \cap rows) \in Nat
    BY <1>0, PlacesFinite, PartSize, SizeType
  <2>2. repeats + Cardinality(shown \cap rows) + Cardinality(C) <= added
    BY <1>1 DEF Safe, Repeating
  <2> HIDE DEF C
  <2>3. repeats + Cardinality(shown \cap rows) <= added
    BY <1>0, <2>1, <2>2
  <2> QED
    BY <1>1, <1>3, <2>2, <2>3 DEF Repeating, Walking, C
<1>5. Missing'
  <2> DEFINE B == Before(known \ (shown \cup rows), Stored, stamp, Skip(page) + Limit)
             C == (known \cap Stored) \ (shown \cup rows)
  <2>1. Cardinality(B) <= deleted /\ (Cardinality(rows) < Limit => Cardinality(C) <= deleted)
    BY <1>1 DEF Safe, Missing
  <2>2. ASSUME done' = TRUE PROVE Cardinality(C) <= deleted
    <3>1. CASE Cardinality(rows) < Limit
      BY <2>1, <3>1
    <3>2. CASE n = Cardinality(Stored)
      <4>1. Cardinality(Stored) <= Skip(page) + Limit
        BY <1>0, <1>1, <1>3, <2>2, <3>2, LastPage
      <4>2. ASSUME NEW l \in Stored PROVE Rank(Stored, stamp, l) < Skip(page) + Limit
        <5>1. Younger(Stored, stamp, l) \subseteq Stored /\ Younger(Stored, stamp, l) # Stored
          BY <1>0 DEF Younger
        <5>2. /\ Rank(Stored, stamp, l) <= Cardinality(Stored)
              /\ Rank(Stored, stamp, l) # Cardinality(Stored)
          BY <1>0, <5>1, FS_Subset DEF Rank
        <5>3. Rank(Stored, stamp, l) \in Nat
          BY <1>0, RankType
        <5> QED
          BY <1>0, <1>1, <4>1, <5>2, <5>3
      <4>3. C \subseteq B
        BY <4>2 DEF Before
      <4>4. IsFiniteSet(B)
        BY <1>0, PlacesFinite
      <4>5. Cardinality(C) <= Cardinality(B) /\ Cardinality(C) \in Nat /\ Cardinality(B) \in Nat
        BY <4>3, <4>4, PartSize
      <4> HIDE DEF B, C
      <4> QED
        BY <1>0, <2>1, <4>5
    <3> QED
      BY <1>2, <3>1, <3>2
  <2>3. CASE done' = FALSE
    <3>1. page' = page + 1 /\ Skip(page') = Skip(page) + Limit
      BY <1>1, <1>3, <2>3
    <3> QED
      BY <1>3, <2>1, <2>3, <3>1 DEF Missing
  <2>4. CASE done' = TRUE
    <3>1. ~Walking' /\ Missed' = C
      BY <1>3, <2>4 DEF Walking, Missed
    <3> QED
      BY <1>3, <2>2, <2>4, <3>1 DEF Missing
  <2> QED
    BY <1>3, <2>3, <2>4
<1> QED
  BY <1>4, <1>5

\* The other steps move no row, or begin a walk with nothing shown.
LEMMA DriftOfRest ==
    ASSUME Safe,
           \/ Tick \/ StartWalk \/ AskPage \/ QueryFails \/ UNCHANGED vars
           \/ \E x \in Links : Stamp(x) \/ InsertFails(x)
    PROVE  Repeating' /\ Missing'
<1>0. /\ IsFiniteSet(Stored) /\ Stored \subseteq Links /\ stamp \in [Links -> Nat]
      /\ repeats \in Nat
      /\ state \in [Links -> {"unborn", "stamped", "stored", "gone"}]
  BY StoredType DEF Safe, TypeOK
<1>1. ASSUME NEW x \in Links, Stamp(x) \/ InsertFails(x) PROVE Repeating' /\ Missing'
  <2>1. Stored' = Stored /\ \A l \in Stored : stamp'[l] = stamp[l]
    BY <1>0, <1>1 DEF Stamp, InsertFails, Stored
  <2>2. UNCHANGED <<client, added, deleted>>
    BY <1>1 DEF Stamp, InsertFails
  <2>3. ASSUME NEW S, NEW n
        PROVE  /\ Before(S, Stored, stamp', n) = Before(S, Stored, stamp, n)
               /\ From(S, Stored, stamp', n) = From(S, Stored, stamp, n)
    BY <2>1, SamePlaces
  <2>4. Repeating'
    BY <2>1, <2>2, <2>3 DEF Safe, Repeating, client, Walking
  <2>5. Missing'
    BY <2>1, <2>2, <2>3 DEF Safe, Missing, Missed, client, Walking
  <2> QED
    BY <2>4, <2>5
<1>2. CASE StartWalk
  <2>1. /\ Stored' = Stored /\ stage' = "rows" /\ page' = 1 /\ rows' = {} /\ shown' = {}
        /\ done' = FALSE /\ added' = 0 /\ deleted' = 0 /\ repeats' = 0 /\ UNCHANGED stamp
    BY <1>2 DEF StartWalk, table, Stored
  <2>2. Skip(1) = 0
    BY SkipType
  <2>3. From({}, Stored, stamp, 0) = {}
    BY DEF From
  <2>4. Before(known' \ {}, Stored, stamp, 0) = {}
    BY <1>0, RankType DEF Before
  <2> QED
    BY <2>1, <2>2, <2>3, <2>4, FS_EmptySet DEF Repeating, Missing
<1>3. CASE Tick \/ UNCHANGED vars
  <2>1. UNCHANGED <<state, stamp, client, added, deleted>>
    BY <1>3 DEF Tick, vars, client
  <2>2. Stored' = Stored
    BY <2>1 DEF Stored
  <2>3. Repeating'
    BY <2>1, <2>2 DEF client, Safe, Repeating, Walking
  <2>4. Missing'
    BY <2>1, <2>2 DEF client, Safe, Missing, Missed, Walking
  <2> QED
    BY <2>3, <2>4
<1>4. CASE AskPage \/ QueryFails
  <2>1. /\ stage' # "count"
        /\ UNCHANGED <<state, stamp, page, shown, done, known, added, deleted, repeats>>
    BY <1>4 DEF AskPage, QueryFails, table
  <2> QED
    BY <2>1 DEF Safe, Repeating, Missing, Missed, Walking, Stored
<1> QED
  BY <1>1, <1>2, <1>3, <1>4

\* Nothing has drifted in the beginning.
LEMMA DriftStart == Init => Drift
<1> SUFFICES ASSUME Init PROVE Repeating /\ Missing
  BY DEF Drift
<1> QED
  BY DEF Init, Repeating, Missing, Walking

\* Every step of an untied listing keeps the bounds.
LEMMA DriftStep == TypeOK /\ Seen /\ Drift /\ [Next]_vars => Drift'
<1> SUFFICES ASSUME TypeOK, Seen, Drift, [Next]_vars, Untied' PROVE Repeating' /\ Missing'
  BY DEF Drift
<1>1. Safe
  BY UntiedBefore DEF Safe, Drift
<1> QED
  BY <1>1, DriftOfInsert, DriftOfDelete, DriftOfRead, DriftOfResponse, DriftOfRest
     DEF Next, Write, Read

Inv == TypeOK /\ Counted /\ Seen /\ Drift

\* The inductive invariant.
LEMMA InvHolds == Spec => []Inv
<1>1. Init => Inv
  BY TypeStart, SeenStart, DriftStart DEF Inv
<1>2. Inv /\ [Next]_vars => Inv'
  BY TypeStep, CountedStep, SeenStep, DriftStep DEF Inv
<1> QED
  BY <1>1, <1>2, PTL DEF Spec

\* MissesAtMostDeleted: if no two links were created in one millisecond, a finished walk
\* has missed no more of the links that were there all along than links were deleted
\* meanwhile, for any page size and any number of links, writes and failing requests.
THEOREM WalksMissAtMostDeleted == Spec => []MissesAtMostDeleted
<1>1. Inv => MissesAtMostDeleted
  BY DEF Inv, Drift, Missing, MissesAtMostDeleted
<1> QED
  BY <1>1, InvHolds, PTL

\* RepeatsAtMostInserted: and it has shown links again no more often than links were
\* inserted meanwhile.
THEOREM WalksRepeatAtMostInserted == Spec => []RepeatsAtMostInserted
<1>1. Inv => RepeatsAtMostInserted
  BY DEF Inv, Drift, Repeating, RepeatsAtMostInserted
<1> QED
  BY <1>1, InvHolds, PTL

\* QuietWalkShowsAll fails, by ties only: while no two links share a creation time, a walk
\* during which nothing is written shows all links ("Get all links", link.controller.ts:18).
THEOREM UntiedQuietWalkShowsAll == Spec => [](Untied => QuietWalkShowsAll)
<1>1. Inv => (Untied => QuietWalkShowsAll)
  <2> SUFFICES ASSUME Inv, Untied, done, deleted = 0 PROVE Missed = {}
    BY DEF QuietWalkShowsAll
  <2>1. Cardinality(Missed) <= 0
    BY DEF Inv, Drift, Missing
  <2>2. IsFiniteSet(Missed)
    BY StoredType, PartSize DEF Inv, Missed
  <2> QED
    BY <2>1, <2>2, SizeType, FS_EmptySet
<1> QED
  BY <1>1, InvHolds, PTL
=============================================================================
