------------------------ MODULE AutoRunProviderProofs ------------------------
(***************************************************************************)
(* Proofs about the auto-run provider: the queue (AutoRunQueue) and the    *)
(* switch (AutoRunSwitch).                                                 *)
(*                                                                         *)
(* The queue first.  Its lists are read through ranks: the r-th item is    *)
(* the one with r-1 places before it, so what sorting, filtering and       *)
(* removing duplicates yield follows from counting, without induction.     *)
(* The effects are then followed over three renders, and the invariant     *)
(* says that what was written is what they make of the last render.        *)
(***************************************************************************)
EXTENDS AutoRunQueue, AutoRunSwitch, FiniteSetTheorems, SequenceTheorems, TLAPS

-----------------------------------------------------------------------------
(* Places, ranks and lists.                                                *)

\* Finitely many places whose keys can be compared.
Keyed(key, P) == IsFiniteSet(P) /\ P \subseteq Nat /\ \A n \in P : key[n] \in Nat

LEMMA PlacesAreOrdered ==
  ASSUME NEW key, NEW P, Keyed(key, P)
  PROVE  /\ \A n \in P : ~Precedes(key, n, n)
         /\ \A k, m, n \in P : Precedes(key, k, m) /\ Precedes(key, m, n) => Precedes(key, k, n)
         /\ \A m, n \in P : m # n => Precedes(key, m, n) \/ Precedes(key, n, m)
BY DEF Keyed, Precedes

\* The rank of a place counts those before it.
LEMMA RankGrows ==
  ASSUME NEW key, NEW P, Keyed(key, P)
  PROVE  /\ \A n \in P : Rank(key, P, n) \in Nat /\ Rank(key, P, n) < Cardinality(P)
         /\ \A m, n \in P : Precedes(key, m, n) => Rank(key, P, m) < Rank(key, P, n)
<1> DEFINE Below(n) == {m \in P : Precedes(key, m, n)}
<1>1. ASSUME NEW S \in SUBSET P
      PROVE  /\ IsFiniteSet(S) /\ Cardinality(S) \in Nat
             /\ Cardinality(S) <= Cardinality(P)
             /\ \A x \in P : x \notin S => Cardinality(S \cup {x}) = Cardinality(S) + 1
  <2>1. IsFiniteSet(S) /\ Cardinality(S) <= Cardinality(P)
    BY FS_Subset DEF Keyed
  <2>2. Cardinality(S) \in Nat
    BY <2>1, FS_CardinalityType
  <2>3. \A x \in P : x \notin S => Cardinality(S \cup {x}) = Cardinality(S) + 1
    BY <2>1, FS_AddElement
  <2> QED BY <2>1, <2>2, <2>3
<1>2. \A n \in P : Rank(key, P, n) = Cardinality(Below(n)) /\ Below(n) \in SUBSET P
  BY DEF Rank
<1>3. ASSUME NEW n \in P PROVE Rank(key, P, n) \in Nat /\ Rank(key, P, n) < Cardinality(P)
  <2>1. n \notin Below(n)
    BY PlacesAreOrdered
  <2>2. Below(n) \cup {n} \in SUBSET P
    OBVIOUS
  <2> HIDE DEF Below
  <2>3. Cardinality(Below(n) \cup {n}) = Cardinality(Below(n)) + 1
    BY <1>1, <1>2, <2>1
  <2>4. Cardinality(Below(n) \cup {n}) <= Cardinality(P) /\ Cardinality(P) \in Nat
    BY <1>1, <2>2
  <2>5. Cardinality(Below(n)) \in Nat
    BY <1>1, <1>2
  <2> QED BY <1>2, <2>3, <2>4, <2>5
<1>4. ASSUME NEW m \in P, NEW n \in P, Precedes(key, m, n)
      PROVE  Rank(key, P, m) < Rank(key, P, n)
  <2>1. m \notin Below(m) /\ Below(m) \cup {m} \subseteq Below(n)
    BY <1>4, PlacesAreOrdered
  <2> HIDE DEF Below
  <2>2. IsFiniteSet(Below(n)) /\ Cardinality(Below(n)) \in Nat /\ Cardinality(Below(m)) \in Nat
    BY <1>1, <1>2
  <2>3. Cardinality(Below(m) \cup {m}) = Cardinality(Below(m)) + 1
    BY <1>1, <1>2, <2>1
  <2>4. Cardinality(Below(m) \cup {m}) <= Cardinality(Below(n))
    BY <2>1, <2>2, FS_Subset
  <2> QED BY <1>2, <2>2, <2>3, <2>4
<1> QED BY <1>3, <1>4

\* So every rank is taken, by one place: Nth inverts Rank.
LEMMA NthInvertsRank ==
  ASSUME NEW key, NEW P, Keyed(key, P)
  PROVE  /\ Cardinality(P) \in Nat
         /\ \A r \in 1 .. Cardinality(P) : Nth(key, P, r) \in P /\ Rank(key, P, Nth(key, P, r)) = r - 1
         /\ \A n \in P : /\ Rank(key, P, n) + 1 \in 1 .. Cardinality(P)
                         /\ Nth(key, P, Rank(key, P, n) + 1) = n
         /\ \A m, n \in P : Precedes(key, m, n) <=> Rank(key, P, m) < Rank(key, P, n)
<1> DEFINE c == Cardinality(P)
           f == [n \in P |-> Rank(key, P, n)]
<1>1. c \in Nat /\ IsFiniteSet(P)
  BY FS_CardinalityType DEF Keyed
<1>2. IsFiniteSet(0 .. c - 1) /\ Cardinality(0 .. c - 1) = c
  BY <1>1, FS_Interval
<1>3. \A m, n \in P : Precedes(key, m, n) <=> Rank(key, P, m) < Rank(key, P, n)
  BY RankGrows, PlacesAreOrdered
<1>4. \A m, n \in P : Rank(key, P, m) = Rank(key, P, n) => m = n
  BY RankGrows, PlacesAreOrdered
<1>5. f \in Injection(P, 0 .. c - 1)
  <2>1. \A n \in P : Rank(key, P, n) \in 0 .. c - 1
    BY <1>1, RankGrows
  <2> QED BY <2>1, <1>4 DEF Injection, IsInjective
<1>6. f \in Surjection(P, 0 .. c - 1)
  <2> HIDE DEF f, c
  <2> QED BY <1>1, <1>2, <1>5, FS_Injection DEF c
<1>7. \A r \in 1 .. c : \E n \in P : Rank(key, P, n) = r - 1
  <2> TAKE r \in 1 .. c
  <2>1. r - 1 \in 0 .. c - 1
    BY <1>1
  <2> QED BY <1>6, <2>1 DEF Surjection
<1>8. \A r \in 1 .. c : Nth(key, P, r) \in P /\ Rank(key, P, Nth(key, P, r)) = r - 1
  BY <1>7 DEF Nth
<1>9. ASSUME NEW n \in P
      PROVE Rank(key, P, n) + 1 \in 1 .. c /\ Nth(key, P, Rank(key, P, n) + 1) = n
  <2>1. Rank(key, P, n) + 1 \in 1 .. c /\ Rank(key, P, n) \in Nat
    BY <1>1, RankGrows
  <2>2. Rank(key, P, Nth(key, P, Rank(key, P, n) + 1)) = Rank(key, P, n)
    BY <1>8, <2>1
  <2> QED BY <1>4, <1>8, <2>1, <2>2
<1> QED BY <1>1, <1>3, <1>8, <1>9

LEMMA ListedHasThePlaces ==
  ASSUME NEW S, NEW q \in Seq(S), NEW P \in SUBSET DOMAIN q, NEW key,
         \A n \in P : key[n] \in Nat
  PROVE  /\ Keyed(key, P)
         /\ Listed(q, key, P) \in Seq(S) /\ Len(Listed(q, key, P)) = Cardinality(P)
         /\ DOMAIN Listed(q, key, P) = 1 .. Cardinality(P)
         /\ \A r \in 1 .. Cardinality(P) : Listed(q, key, P)[r] = q[Nth(key, P, r)]
<1>1. Keyed(key, P)
  <2>1. DOMAIN q = 1 .. Len(q) /\ Len(q) \in Nat
    BY LenProperties
  <2>2. IsFiniteSet(DOMAIN q)
    BY <2>1, FS_Interval
  <2>3. IsFiniteSet(P)
    BY <2>2, FS_Subset
  <2> QED BY <2>1, <2>3 DEF Keyed
<1>2. /\ Cardinality(P) \in Nat
      /\ \A r \in 1 .. Cardinality(P) : q[Nth(key, P, r)] \in S
  <2>1. \A n \in P : q[n] \in S
    BY LenProperties, ElementOfSeq
  <2> QED BY <1>1, <2>1, NthInvertsRank
<1>3. Listed(q, key, P) \in [1 .. Cardinality(P) -> S]
  BY <1>2 DEF Listed
<1> HIDE DEF Keyed
<1>4. Listed(q, key, P) \in Seq(S) /\ Len(Listed(q, key, P)) = Cardinality(P)
  BY <1>2, <1>3
<1> QED BY <1>1, <1>3, <1>4 DEF Listed

LEMMA FirstPlaces ==
  \A n \in Nat : IsFiniteSet(1 .. n) /\ Cardinality(1 .. n) = n
<1> TAKE n \in Nat
<1>1. /\ IsFiniteSet(1 .. n)
      /\ Cardinality(1 .. n) = IF 1 > n THEN 0 ELSE n - 1 + 1
  BY FS_Interval
<1> QED BY <1>1

\* An order that is the order of the places leaves a list as it is.
LEMMA ListedInPlace ==
  ASSUME NEW S, NEW q \in Seq(S), NEW key,
         \A n \in DOMAIN q : key[n] \in Nat,
         \A m, n \in DOMAIN q : Precedes(key, m, n) <=> m < n
  PROVE  Listed(q, key, DOMAIN q) = q
<1> DEFINE P == DOMAIN q
           L == Listed(q, key, DOMAIN q)
<1>1. P = 1 .. Len(q) /\ Len(q) \in Nat /\ Cardinality(P) = Len(q)
  <2>1. P = 1 .. Len(q) /\ Len(q) \in Nat
    BY LenProperties
  <2> QED BY <2>1, FirstPlaces
<1>2. Keyed(key, P) /\ L \in Seq(S) /\ Len(L) = Len(q)
      /\ \A r \in 1 .. Len(q) : L[r] = q[Nth(key, P, r)]
  BY <1>1, ListedHasThePlaces
<1>3. \A n \in P : Rank(key, P, n) = n - 1
  <2> TAKE n \in P
  <2>1. {m \in P : Precedes(key, m, n)} = 1 .. n - 1
    BY <1>1
  <2>2. Cardinality(1 .. n - 1) = n - 1
    BY <1>1, FirstPlaces
  <2> QED BY <2>1, <2>2 DEF Rank
<1>4. \A r \in P : Nth(key, P, r) = r
  BY <1>1, <1>2, <1>3, NthInvertsRank
<1>5. Len(L) = Len(q) /\ \A r \in 1 .. Len(L) : L[r] = q[r]
  BY <1>1, <1>2, <1>4
<1> HIDE DEF L
<1>6. L = q
  BY <1>2, <1>5, SeqEqual
<1> QED BY <1>6 DEF L

-----------------------------------------------------------------------------
(* The list helpers.                                                       *)

\* A list names each instance once; its orders count from 0.
Unique(q) == \A m, n \in DOMAIN q : q[m].id = q[n].id => m = n
Canonical(q) == \A n \in DOMAIN q : q[n].order = n - 1

\* i comes before j in q, read by orders and places.
Earlier(q, i, j) ==
  \E m, n \in DOMAIN q : q[m].id = i /\ q[n].id = j /\ Precedes(Orders(q), m, n)

LEMMA ItemsOfQueue ==
  ASSUME NEW q \in Seq(Items)
  PROVE  /\ DOMAIN q = 1 .. Len(q) /\ Len(q) \in Nat
         /\ \A n \in DOMAIN q : /\ q[n] \in Items /\ q[n].id \in Instances
                                /\ q[n].order \in Nat
                                /\ Orders(q)[n] = q[n].order /\ Places(q)[n] = n
                                /\ Orders(q)[n] \in Nat /\ Places(q)[n] \in Nat
         /\ Ids(q) \subseteq Instances
<1>1. DOMAIN q = 1 .. Len(q) /\ Len(q) \in Nat
  BY LenProperties
<1>2. \A n \in DOMAIN q : q[n] \in Items
  BY <1>1, ElementOfSeq
<1>3. \A n \in DOMAIN q : q[n].id \in Instances /\ q[n].order \in Nat
  BY <1>2 DEF Items
<1> QED BY <1>1, <1>2, <1>3 DEF Orders, Places, Ids

LEMMA ListedQueue ==
  ASSUME NEW q \in Seq(Items), NEW P \in SUBSET DOMAIN q, NEW key,
         \A n \in P : key[n] \in Nat
  PROVE  /\ Listed(q, key, P) \in Seq(Items)
         /\ Ids(Listed(q, key, P)) = {q[n].id : n \in P}
         /\ (\A m, n \in P : q[m].id = q[n].id => m = n) => Unique(Listed(q, key, P))
<1> DEFINE L == Listed(q, key, P)
           c == Cardinality(P)
<1>1. /\ Keyed(key, P) /\ L \in Seq(Items) /\ DOMAIN L = 1 .. c
      /\ \A r \in 1 .. c : L[r] = q[Nth(key, P, r)]
  BY ListedHasThePlaces
<1> HIDE DEF L
<1>2. /\ \A r \in 1 .. c : Nth(key, P, r) \in P /\ Rank(key, P, Nth(key, P, r)) = r - 1
      /\ \A n \in P : /\ Rank(key, P, n) + 1 \in 1 .. c
                      /\ Nth(key, P, Rank(key, P, n) + 1) = n
      /\ c \in Nat
  BY <1>1, NthInvertsRank
<1> HIDE DEF c
<1>3. \A n \in P : \E r \in DOMAIN L : L[r] = q[n]
  BY <1>1, <1>2
<1>4. \A r \in DOMAIN L : \E n \in P : L[r] = q[n]
  BY <1>1, <1>2
<1>5. Ids(L) = {q[n].id : n \in P}
  BY <1>3, <1>4 DEF Ids
<1>6. ASSUME \A m, n \in P : q[m].id = q[n].id => m = n
      PROVE  Unique(L)
  <2> SUFFICES ASSUME NEW r \in DOMAIN L, NEW s \in DOMAIN L, L[r].id = L[s].id
               PROVE  r = s
    BY DEF Unique
  <2>1. Nth(key, P, r) = Nth(key, P, s)
    BY <1>1, <1>2, <1>6
  <2>2. r - 1 = s - 1
    BY <1>1, <1>2, <2>1
  <2> QED BY <1>1, <1>2, <2>2
<1> QED BY <1>1, <1>5, <1>6 DEF L

\* A stable filter keeps what it keeps in order.
LEMMA FilteredQueue ==
  ASSUME NEW q \in Seq(Items), NEW S
  PROVE  /\ Filtered(q, S) \in Seq(Items)
         /\ Ids(Filtered(q, S)) = Ids(q) \cap S
         /\ Unique(q) => Unique(Filtered(q, S))
         /\ Ids(q) \subseteq S => Filtered(q, S) = q
         /\ \A i, j \in S : Earlier(q, i, j) => Earlier(Filtered(q, S), i, j)
<1> DEFINE P == {n \in DOMAIN q : q[n].id \in S}
           F == Listed(q, Places(q), P)
           c == Cardinality(P)
<1>0. Filtered(q, S) = F
  BY DEF Filtered
<1>1. P \in SUBSET DOMAIN q /\ \A n \in P : Places(q)[n] \in Nat
  BY ItemsOfQueue
<1> HIDE DEF P
<1>2. F \in Seq(Items) /\ Ids(F) = {q[n].id : n \in P}
  BY <1>1, ListedQueue
<1>3. Ids(F) = Ids(q) \cap S
  BY <1>2 DEF Ids, P
<1>4. Unique(q) => Unique(F)
  BY <1>1, ListedQueue DEF Unique
<1>5. ASSUME Ids(q) \subseteq S PROVE F = q
  <2>1. P = DOMAIN q
    BY <1>5 DEF Ids, P
  <2>2. \A m, n \in DOMAIN q : Precedes(Places(q), m, n) <=> m < n
    BY ItemsOfQueue DEF Precedes
  <2>3. \A n \in DOMAIN q : Places(q)[n] \in Nat
    BY ItemsOfQueue
  <2> QED BY <2>1, <2>2, <2>3, ListedInPlace
<1>6. ASSUME NEW i \in S, NEW j \in S, Earlier(q, i, j)
      PROVE  Earlier(F, i, j)
  <2>1. PICK m \in DOMAIN q, n \in DOMAIN q :
          q[m].id = i /\ q[n].id = j /\ Precedes(Orders(q), m, n)
    BY <1>6 DEF Earlier
  <2>2. m \in P /\ n \in P /\ m \in Nat /\ n \in Nat
    BY <2>1, ItemsOfQueue DEF P
  <2> DEFINE a == Rank(Places(q), P, m) + 1
             b == Rank(Places(q), P, n) + 1
  <2>3. /\ Keyed(Places(q), P) /\ DOMAIN F = 1 .. c
        /\ \A r \in 1 .. c : F[r] = q[Nth(Places(q), P, r)]
    BY <1>1, ListedHasThePlaces
  <2>4. /\ a \in 1 .. c /\ b \in 1 .. c /\ Nth(Places(q), P, a) = m /\ Nth(Places(q), P, b) = n
        /\ Precedes(Places(q), m, n) <=> a < b
        /\ c \in Nat
    <3>1. Rank(Places(q), P, m) \in Nat /\ Rank(Places(q), P, n) \in Nat
      BY <2>2, <2>3, RankGrows
    <3> QED BY <2>2, <2>3, <3>1, NthInvertsRank
  <2> HIDE DEF a, b, c
  <2>5. F[a] = q[m] /\ F[b] = q[n] /\ a \in DOMAIN F /\ b \in DOMAIN F
    BY <2>3, <2>4
  <2>6. m < n => a < b
    BY <2>2, <2>4, ItemsOfQueue DEF Precedes
  <2>7. Precedes(Orders(F), a, b)
    <3>1. q[m].order < q[n].order \/ (q[m].order = q[n].order /\ m < n)
      BY <2>1, ItemsOfQueue DEF Precedes
    <3>2. Orders(F)[a] = q[m].order /\ Orders(F)[b] = q[n].order
      BY <2>5 DEF Orders
    <3> QED BY <2>6, <3>1, <3>2 DEF Precedes
  <2> QED BY <2>1, <2>5, <2>7 DEF Earlier
<1> HIDE DEF F
<1> QED BY <1>0, <1>2, <1>3, <1>4, <1>5, <1>6

\* Of the places of one instance, one is the first.
LEMMA FirstOfInstance ==
  ASSUME NEW q \in Seq(Items), NEW i \in Ids(q)
  PROVE  \E n \in DOMAIN q : /\ q[n].id = i
                             /\ \A m \in DOMAIN q :
                                  q[m].id = i => ~Precedes(Orders(q), m, n)
<1> DEFINE P == {n \in DOMAIN q : q[n].id = i}
           n == Nth(Orders(q), P, 1)
<1>1. P \in SUBSET DOMAIN q /\ \A m \in P : Orders(q)[m] \in Nat
  BY ItemsOfQueue
<1>2. Keyed(Orders(q), P)
  BY <1>1, ListedHasThePlaces
<1>3. PICK k \in P : TRUE
  BY DEF Ids
<1>4. Cardinality(P) \in Nat /\ Rank(Orders(q), P, k) \in Nat
      /\ Rank(Orders(q), P, k) < Cardinality(P)
  BY <1>2, <1>3, NthInvertsRank, RankGrows
<1> HIDE DEF P
<1>5. 1 \in 1 .. Cardinality(P)
  BY <1>4
<1>6. n \in P /\ Rank(Orders(q), P, n) = 0
  BY <1>2, <1>5, NthInvertsRank
<1> HIDE DEF n
<1>7. ASSUME NEW m \in P PROVE ~Precedes(Orders(q), m, n)
  <2>1. Rank(Orders(q), P, m) \in Nat
    BY <1>2, RankGrows
  <2> QED BY <1>2, <1>6, <2>1, NthInvertsRank
<1> QED BY <1>6, <1>7 DEF P

LEMMA NormalizedQueue ==
  ASSUME NEW q \in Seq(Items)
  PROVE  /\ Normalized(q) \in Seq(Items)
         /\ Canonical(Normalized(q)) /\ Unique(Normalized(q))
         /\ Ids(Normalized(q)) = Ids(q)
         /\ Unique(q) => \A i, j \in Instances : Earlier(q, i, j) => Earlier(Normalized(q), i, j)
         /\ Unique(q) /\ Canonical(q) => Normalized(q) = q
<1> DEFINE P == {n \in DOMAIN q : \A m \in DOMAIN q :
                   q[m].id = q[n].id => ~Precedes(Orders(q), m, n)}
           key == Orders(q)
           U == Listed(q, key, P)
           N == Normalized(q)
           c == Cardinality(P)
<1>0. N = [n \in DOMAIN U |-> [id |-> U[n].id, order |-> n - 1]]
  BY DEF Normalized
<1>1. P \in SUBSET DOMAIN q /\ \A n \in DOMAIN q : key[n] \in Nat
  BY ItemsOfQueue
<1>2. \A n \in DOMAIN q : n \in Nat /\ q[n].id \in Instances
  BY ItemsOfQueue
<1>3. Keyed(key, DOMAIN q)
  BY <1>1, ListedHasThePlaces
<1>4. \A m, n \in P : q[m].id = q[n].id => m = n
  BY <1>3, PlacesAreOrdered
<1>5. Ids(q) = {q[n].id : n \in P}
  <2>1. \A i \in Ids(q) : \E n \in P : q[n].id = i
    BY FirstOfInstance
  <2> QED BY <2>1 DEF Ids
<1>6. Unique(q) => P = DOMAIN q
  BY <1>3, PlacesAreOrdered DEF Unique
<1> HIDE DEF P, key
<1>7. /\ Keyed(key, P) /\ U \in Seq(Items) /\ Len(U) = c /\ DOMAIN U = 1 .. c
      /\ \A r \in 1 .. c : U[r] = q[Nth(key, P, r)]
  BY <1>1, ListedHasThePlaces
<1>8. Ids(U) = Ids(q) /\ Unique(U)
  BY <1>1, <1>4, <1>5, ListedQueue
<1>9. c \in Nat
  BY <1>7, NthInvertsRank
<1>10. \A n \in DOMAIN U : U[n].id \in Instances
  BY <1>7, ItemsOfQueue
<1> HIDE DEF U, c
<1>11. /\ DOMAIN N = DOMAIN U
       /\ \A n \in DOMAIN N : N[n].id = U[n].id /\ N[n].order = n - 1
       /\ \A n \in DOMAIN N : N[n] \in Items
  BY <1>0, <1>7, <1>9, <1>10 DEF Items
<1>12. N \in Seq(Items)
  <2>1. N \in [1 .. c -> Items]
    BY <1>0, <1>7, <1>11
  <2> QED BY <1>9, <2>1
<1>13. Canonical(N) /\ Unique(N) /\ Ids(N) = Ids(q)
  <2> HIDE DEF N
  <2>1. Canonical(N)
    BY <1>11 DEF Canonical
  <2>2. Unique(N)
    BY <1>8, <1>11 DEF Unique
  <2>3. Ids(N) = Ids(U)
    BY <1>11 DEF Ids
  <2> QED BY <1>8, <2>1, <2>2, <2>3
<1>14. ASSUME Unique(q), NEW i \in Instances, NEW j \in Instances, Earlier(q, i, j)
       PROVE  Earlier(N, i, j)
  <2>1. PICK m \in DOMAIN q, n \in DOMAIN q :
          q[m].id = i /\ q[n].id = j /\ Precedes(key, m, n)
    BY <1>14 DEF Earlier, key
  <2>2. m \in P /\ n \in P
    BY <1>6, <1>14, <2>1
  <2> DEFINE a == Rank(key, P, m) + 1
             b == Rank(key, P, n) + 1
  <2>3. /\ a \in 1 .. c /\ b \in 1 .. c /\ Nth(key, P, a) = m /\ Nth(key, P, b) = n
        /\ a < b
    <3>1. Rank(key, P, m) \in Nat /\ Rank(key, P, n) \in Nat
      BY <1>7, <2>2, RankGrows
    <3> QED BY <1>7, <2>1, <2>2, <3>1, NthInvertsRank DEF c
  <2> HIDE DEF a, b
  <2>4. a \in DOMAIN N /\ b \in DOMAIN N /\ N[a].id = i /\ N[b].id = j
    BY <1>7, <1>11, <2>1, <2>3
  <2>5. Orders(N)[a] = a - 1 /\ Orders(N)[b] = b - 1
    BY <1>11, <2>4 DEF Orders
  <2>6. Precedes(Orders(N), a, b)
    BY <1>9, <2>3, <2>5 DEF Precedes
  <2> QED BY <2>4, <2>6 DEF Earlier
<1>15. ASSUME Unique(q), Canonical(q) PROVE N = q
  <2>1. \A m, n \in DOMAIN q : Precedes(key, m, n) <=> m < n
    BY <1>2, <1>15 DEF Precedes, Canonical, key, Orders
  <2>2. U = q
    BY <1>1, <1>6, <1>15, <2>1, ListedInPlace DEF U
  <2>3. \A n \in DOMAIN q : N[n] = q[n]
    <3> TAKE n \in DOMAIN q
    <3>1. q[n] \in Items
      BY ItemsOfQueue
    <3>2. q[n] = [id |-> q[n].id, order |-> q[n].order]
      BY <3>1 DEF Items
    <3>3. N[n] = [id |-> q[n].id, order |-> n - 1]
      BY <1>0, <2>2
    <3> QED BY <1>15, <3>2, <3>3 DEF Canonical
  <2>4. Len(N) = Len(q) /\ DOMAIN N = DOMAIN q
    BY <1>11, <1>12, <2>2, LenProperties
  <2>5. \A n \in 1 .. Len(N) : N[n] = q[n]
    BY <2>3, <2>4, ItemsOfQueue
  <2> HIDE DEF N
  <2> QED BY <1>12, <2>4, <2>5, SeqEqual
<1> HIDE DEF N
<1>16. Unique(q) => \A i, j \in Instances : Earlier(q, i, j) => Earlier(N, i, j)
  BY <1>14
<1> QED BY <1>12, <1>13, <1>15, <1>16 DEF N

\* What sortBy(order) shows of a list, and of the order of two instances in it.
LEMMA SortedQueue ==
  ASSUME NEW q \in Seq(Items)
  PROVE  /\ SortByOrder(q) \in Seq(Items) /\ Ids(SortByOrder(q)) = Ids(q)
         /\ Unique(q) => Unique(SortByOrder(q))
         /\ Unique(q) => \A i, j \in Ids(q) : Before(q, i, j) <=> Earlier(q, i, j)
<1> DEFINE key == Orders(q)
           P == DOMAIN q
           L == SortByOrder(q)
           c == Cardinality(P)
<1>0. L = Listed(q, key, P)
  BY DEF SortByOrder
<1>1. \A n \in P : key[n] \in Nat
  BY ItemsOfQueue
<1>2. /\ Keyed(key, P) /\ L \in Seq(Items) /\ DOMAIN L = 1 .. c
      /\ \A r \in 1 .. c : L[r] = q[Nth(key, P, r)]
  BY <1>0, <1>1, ListedHasThePlaces
<1>3. Ids(L) = Ids(q) /\ (Unique(q) => Unique(L))
  <2>1. P \in SUBSET DOMAIN q
    OBVIOUS
  <2>2. /\ Ids(Listed(q, key, P)) = {q[n].id : n \in P}
        /\ (\A m, n \in P : q[m].id = q[n].id => m = n) => Unique(Listed(q, key, P))
    BY <1>1, <2>1, ListedQueue
  <2>3. Ids(q) = {q[n].id : n \in P}
    BY DEF Ids
  <2>4. Unique(q) => \A m, n \in P : q[m].id = q[n].id => m = n
    BY DEF Unique
  <2> HIDE DEF L, P, key
  <2> QED BY <1>0, <2>2, <2>3, <2>4
<1> HIDE DEF L, key
<1>4. ASSUME Unique(q), NEW n \in P PROVE Place(L, q[n].id) = Rank(key, P, n) + 1
  <2>1. /\ Rank(key, P, n) + 1 \in DOMAIN L /\ L[Rank(key, P, n) + 1] = q[n]
    BY <1>2, NthInvertsRank
  <2> QED BY <1>3, <1>4, <2>1 DEF Place, Unique
<1>5. ASSUME Unique(q), NEW i \in Ids(q), NEW j \in Ids(q)
      PROVE  Before(q, i, j) <=> Earlier(q, i, j)
  <2>1. PICK m \in P, n \in P : q[m].id = i /\ q[n].id = j
    BY DEF Ids
  <2>2. Before(q, i, j) <=> Rank(key, P, m) + 1 < Rank(key, P, n) + 1
    BY <1>4, <1>5, <2>1 DEF Before, L
  <2>3. Before(q, i, j) <=> Precedes(key, m, n)
    <3>1. Rank(key, P, m) \in Nat /\ Rank(key, P, n) \in Nat
      BY <1>2, RankGrows
    <3> QED BY <1>2, <2>2, <3>1, NthInvertsRank
  <2>4. Earlier(q, i, j) <=> Precedes(key, m, n)
    BY <1>5, <2>1 DEF Earlier, Unique, key
  <2> QED BY <2>3, <2>4
<1> QED BY <1>2, <1>3, <1>5 DEF L

LEMMA MaxOfOrders ==
  ASSUME NEW q \in Seq(Items), q # <<>>
  PROVE  /\ Max({q[n].order : n \in DOMAIN q}) \in Nat
         /\ \A n \in DOMAIN q : q[n].order <= Max({q[k].order : k \in DOMAIN q})
         /\ Canonical(q) => Max({q[n].order : n \in DOMAIN q}) = Len(q) - 1
<1> DEFINE O == {q[n].order : n \in DOMAIN q}
           P == DOMAIN q
           key == Orders(q)
           c == Cardinality(P)
           top == Nth(key, P, c)
<1>1. P = 1 .. Len(q) /\ Len(q) \in Nat /\ Len(q) # 0
  BY ItemsOfQueue, EmptySeq
<1>2. c = Len(q)
  BY <1>1, FirstPlaces
<1>3. P \in SUBSET DOMAIN q /\ \A n \in P : key[n] \in Nat /\ key[n] = q[n].order
  BY ItemsOfQueue
<1>4. Keyed(key, P)
  BY <1>3, ListedHasThePlaces
<1> HIDE DEF key, P, c
<1>5. c \in 1 .. c
  BY <1>1, <1>2
<1>6. top \in P /\ Rank(key, P, top) = c - 1
  BY <1>4, <1>5, NthInvertsRank DEF c
<1> HIDE DEF top
<1>7. ASSUME NEW n \in P PROVE key[n] <= key[top]
  <2>1. Rank(key, P, n) \in Nat /\ Rank(key, P, n) < c
    BY <1>4, RankGrows DEF c
  <2>2. ~Precedes(key, top, n)
    BY <1>1, <1>2, <1>4, <1>6, <2>1, NthInvertsRank
  <2> QED BY <1>3, <1>6, <2>2 DEF Precedes
<1>8. key[top] \in O /\ \A x \in O : key[top] >= x
  BY <1>3, <1>6, <1>7 DEF P
<1>9. Max(O) \in O /\ \A x \in O : Max(O) >= x
  BY <1>8 DEF Max
<1>10. \A x \in O : x \in Nat
  BY <1>3 DEF P
<1>11. ASSUME Canonical(q) PROVE Max(O) = Len(q) - 1
  <2>1. Len(q) - 1 \in O
    BY <1>1, <1>11 DEF Canonical, P
  <2>2. \A x \in O : x <= Len(q) - 1
    BY <1>1, <1>11 DEF Canonical, P
  <2> HIDE DEF O
  <2> QED BY <1>1, <1>9, <1>10, <2>1, <2>2
<1>12. \A n \in DOMAIN q : q[n].order <= Max(O)
  BY <1>3, <1>9, <1>10 DEF P
<1> QED BY <1>9, <1>10, <1>11, <1>12

LEMMA AppendedQueue ==
  ASSUME NEW q \in Seq(Items), NEW new \in Seq(Instances), IsInjective(new),
         ToSet(new) \cap Ids(q) = {}
  PROVE  /\ Appended(q, new) \in Seq(Items)
         /\ Len(Appended(q, new)) = Len(q) + Len(new)
         /\ Ids(Appended(q, new)) = Ids(q) \cup ToSet(new)
         /\ Unique(q) => Unique(Appended(q, new))
         /\ Canonical(q) => Canonical(Appended(q, new))
         /\ \A i, j \in Instances : Earlier(q, i, j) => Earlier(Appended(q, new), i, j)
<1> DEFINE next == IF q = <<>> THEN 0 ELSE 1 + Max({q[n].order : n \in DOMAIN q})
           tail == [n \in DOMAIN new |-> [id |-> new[n], order |-> next + n - 1]]
           A == Appended(q, new)
<1>0. A = q \o tail
  BY DEF Appended
<1>1. next \in Nat /\ (Canonical(q) => next = Len(q))
  BY MaxOfOrders, EmptySeq, ItemsOfQueue
<1>2. DOMAIN new = 1 .. Len(new) /\ Len(new) \in Nat /\ \A n \in DOMAIN new : new[n] \in Instances
  BY LenProperties, ElementOfSeq
<1>3. DOMAIN q = 1 .. Len(q) /\ Len(q) \in Nat
  BY ItemsOfQueue
<1> HIDE DEF next
<1>4. tail \in Seq(Items) /\ Len(tail) = Len(new)
  <2>1. \A n \in DOMAIN new : [id |-> new[n], order |-> next + n - 1] \in Items
    BY <1>1, <1>2 DEF Items
  <2>2. tail \in [1 .. Len(new) -> Items]
    BY <1>2, <2>1
  <2> QED BY <1>2, <2>2
<1>5. \A n \in DOMAIN new : tail[n].id = new[n] /\ tail[n].order = next + n - 1
  OBVIOUS
<1> HIDE DEF tail
<1> HIDE DEF A
<1>6. /\ A \in Seq(Items) /\ Len(A) = Len(q) + Len(new) /\ DOMAIN A = 1 .. Len(q) + Len(new)
      /\ \A n \in 1 .. Len(q) + Len(new) :
           A[n] = IF n <= Len(q) THEN q[n] ELSE tail[n - Len(q)]
  <2>1. /\ A \in Seq(Items) /\ Len(A) = Len(q) + Len(tail)
        /\ \A n \in 1 .. Len(q) + Len(tail) :
             A[n] = IF n <= Len(q) THEN q[n] ELSE tail[n - Len(q)]
    BY <1>0, <1>4, ConcatProperties
  <2>2. DOMAIN A = 1 .. Len(A)
    BY <2>1, LenProperties
  <2> QED BY <1>4, <2>1, <2>2
<1>7. \A n \in DOMAIN q : n \in DOMAIN A /\ A[n] = q[n]
  BY <1>2, <1>3, <1>6
<1>8. \A n \in DOMAIN new : n + Len(q) \in DOMAIN A /\ A[n + Len(q)] = tail[n]
  BY <1>2, <1>3, <1>6
<1>9. \A n \in DOMAIN A : \/ n \in DOMAIN q
                          \/ \E m \in DOMAIN new : n = m + Len(q)
  <2> TAKE n \in DOMAIN A
  <2>1. n \in DOMAIN q \/ n - Len(q) \in DOMAIN new
    BY <1>2, <1>3, <1>6
  <2> QED BY <1>3, <1>6, <2>1
<1>10. Ids(A) = Ids(q) \cup ToSet(new)
  <2>1. \A n \in DOMAIN q : A[n].id \in Ids(q)
    BY <1>7 DEF Ids
  <2>2. \A n \in DOMAIN new : A[n + Len(q)].id = new[n]
    BY <1>5, <1>8
  <2>3. ASSUME NEW i \in Ids(A) PROVE i \in Ids(q) \cup ToSet(new)
    <3>1. PICK n \in DOMAIN A : i = A[n].id
      BY DEF Ids
    <3> QED BY <1>9, <2>1, <2>2, <3>1 DEF ToSet
  <2>4. Ids(q) \subseteq Ids(A)
    BY <1>7 DEF Ids
  <2>5. ASSUME NEW n \in DOMAIN new PROVE new[n] \in Ids(A)
    BY <1>8, <2>2 DEF Ids
  <2> QED BY <2>3, <2>4, <2>5 DEF ToSet
<1>11. ASSUME Unique(q) PROVE Unique(A)
  <2> SUFFICES ASSUME NEW m \in DOMAIN A, NEW n \in DOMAIN A, A[m].id = A[n].id
               PROVE  m = n
    BY DEF Unique
  <2>1. CASE m \in DOMAIN q /\ n \in DOMAIN q
    BY <1>7, <1>11, <2>1 DEF Unique
  <2>2. \A k \in DOMAIN q, l \in DOMAIN new : A[k].id # A[l + Len(q)].id
    <3> TAKE k \in DOMAIN q, l \in DOMAIN new
    <3>1. A[k].id \in Ids(q)
      BY <1>7 DEF Ids
    <3>2. A[l + Len(q)].id = new[l] /\ new[l] \in ToSet(new)
      BY <1>5, <1>8 DEF ToSet
    <3> QED BY <3>1, <3>2
  <2>3. \A k, l \in DOMAIN new : A[k + Len(q)].id = A[l + Len(q)].id => k = l
    BY <1>5, <1>8 DEF IsInjective
  <2> QED BY <1>9, <2>1, <2>2, <2>3
<1>12. ASSUME Canonical(q) PROVE Canonical(A)
  <2> SUFFICES ASSUME NEW n \in DOMAIN A PROVE A[n].order = n - 1
    BY DEF Canonical
  <2>1. CASE n \in DOMAIN q
    BY <1>7, <1>12, <2>1 DEF Canonical
  <2>2. ASSUME NEW m \in DOMAIN new, n = m + Len(q) PROVE A[n].order = n - 1
    BY <1>1, <1>2, <1>3, <1>5, <1>8, <1>12, <2>2
  <2> QED BY <1>9, <2>1, <2>2
<1>13. ASSUME NEW i \in Instances, NEW j \in Instances, Earlier(q, i, j)
       PROVE  Earlier(A, i, j)
  <2>1. PICK m \in DOMAIN q, n \in DOMAIN q :
          q[m].id = i /\ q[n].id = j /\ Precedes(Orders(q), m, n)
    BY <1>13 DEF Earlier
  <2>2. /\ Orders(A)[m] = Orders(q)[m] /\ Orders(A)[n] = Orders(q)[n]
        /\ m \in DOMAIN A /\ n \in DOMAIN A /\ A[m].id = i /\ A[n].id = j
    BY <1>7, <2>1 DEF Orders
  <2> QED BY <2>1, <2>2 DEF Earlier, Precedes
<1> QED BY <1>6, <1>10, <1>11, <1>12, <1>13 DEF A

LEMMA EligibleList ==
  ASSUME NEW B
  PROVE  /\ Eligible(B) \in Seq(Instances) /\ IsInjective(Eligible(B))
         /\ ToSet(Eligible(B)) = B \cap Instances
         /\ Eligible(B) = <<>> <=> B \cap Instances = {}
         /\ Len(Eligible(B)) \in Nat
         /\ Eligible(B) # <<>> => Len(Eligible(B)) > 0
<1> DEFINE P == {n \in DOMAIN Configured : Configured[n] \in B}
           key == Places(Configured)
           E == Eligible(B)
           c == Cardinality(P)
<1>0. E = Listed(Configured, key, P)
  BY DEF Eligible
<1>1. Configured \in Seq(Instances)
  BY ConfiguredIsAList DEF Instances, ToSet
<1>2. P \in SUBSET DOMAIN Configured /\ \A n \in P : key[n] \in Nat
  BY <1>1, LenProperties DEF Places
<1> HIDE DEF P, key, E
<1>3. /\ Keyed(key, P) /\ E \in Seq(Instances) /\ Len(E) = c /\ DOMAIN E = 1 .. c
      /\ \A r \in 1 .. c : E[r] = Configured[Nth(key, P, r)]
  BY <1>0, <1>1, <1>2, ListedHasThePlaces
<1>4. /\ \A r \in 1 .. c : Nth(key, P, r) \in P /\ Rank(key, P, Nth(key, P, r)) = r - 1
      /\ \A n \in P : /\ Rank(key, P, n) + 1 \in 1 .. c
                      /\ Nth(key, P, Rank(key, P, n) + 1) = n
      /\ c \in Nat
  BY <1>3, NthInvertsRank
<1> HIDE DEF c
<1>5. ToSet(E) = B \cap Instances
  <2>1. \A n \in P : \E r \in DOMAIN E : E[r] = Configured[n]
    BY <1>3, <1>4
  <2>2. \A r \in DOMAIN E : \E n \in P : E[r] = Configured[n]
    BY <1>3, <1>4
  <2>3. B \cap Instances = {Configured[n] : n \in P}
    BY DEF Instances, ToSet, P
  <2> QED BY <2>1, <2>2, <2>3 DEF ToSet
<1>6. IsInjective(E)
  <2> SUFFICES ASSUME NEW r \in DOMAIN E, NEW s \in DOMAIN E, E[r] = E[s]
               PROVE  r = s
    BY DEF IsInjective
  <2>1. Nth(key, P, r) = Nth(key, P, s)
    BY <1>3, <1>4, <1>2, ConfiguredOnce DEF IsInjective
  <2>2. r - 1 = s - 1
    BY <1>3, <1>4, <2>1
  <2> QED BY <1>3, <1>4, <2>2
<1>7. E = <<>> <=> ToSet(E) = {}
  <2>1. E = <<>> => ToSet(E) = {}
    BY DEF ToSet
  <2>2. E # <<>> => Len(E) \in Nat \ {0}
    BY <1>3, EmptySeq
  <2>3. E # <<>> => 1 \in DOMAIN E
    BY <1>3, <1>4, <2>2
  <2> QED BY <2>1, <2>3 DEF ToSet
<1>8. E # <<>> => Len(E) > 0
  BY <1>3, EmptySeq
<1> QED BY <1>3, <1>4, <1>5, <1>6, <1>7, <1>8 DEF E

-----------------------------------------------------------------------------
(* The effects.                                                            *)

\* What a render hands on: each instance queued once, none that is excluded, and
\* nothing at all before the queue was seeded.
WellFormed(w) ==
  /\ w \in Stores
  /\ Unique(w.included)
  /\ Ids(w.included) \cap w.excluded = {}
  /\ ~w.initialized => w.included = <<>> /\ w.excluded = {}

Selected(w, A) == Filtered(Normalized(w.included), A \ w.excluded)
Unlisted(w, A) == A \ (Ids(w.included) \cup w.excluded)

LEMMA StoreFields ==
  \A w \in Stores : /\ w.initialized \in BOOLEAN /\ w.included \in Seq(Items)
                    /\ w.excluded \in SUBSET Instances
                    /\ w = [initialized |-> w.initialized, included |-> w.included,
                            excluded |-> w.excluded]
BY DEF Stores

LEMMA SelectedQueue ==
  ASSUME NEW w \in Stores, NEW A
  PROVE  /\ Selected(w, A) \in Seq(Items) /\ Unique(Selected(w, A))
         /\ Ids(Selected(w, A)) = Ids(w.included) \cap (A \ w.excluded)
         /\ Ids(w.included) \subseteq A \ w.excluded => Selected(w, A) = Normalized(w.included)
         /\ Unique(w.included) =>
              \A i, j \in Ids(w.included) \cap (A \ w.excluded) :
                 Earlier(w.included, i, j) => Earlier(Selected(w, A), i, j)
<1>1. w.included \in Seq(Items)
  BY StoreFields
<1> DEFINE N == Normalized(w.included)
<1>2. /\ N \in Seq(Items) /\ Unique(N) /\ Ids(N) = Ids(w.included)
      /\ Unique(w.included) =>
           \A i, j \in Instances : Earlier(w.included, i, j) => Earlier(N, i, j)
  BY <1>1, NormalizedQueue
<1>3. Ids(w.included) \subseteq Instances
  BY <1>1, ItemsOfQueue
<1> HIDE DEF N
<1>4. /\ Filtered(N, A \ w.excluded) \in Seq(Items)
      /\ Ids(Filtered(N, A \ w.excluded)) = Ids(N) \cap (A \ w.excluded)
      /\ Unique(N) => Unique(Filtered(N, A \ w.excluded))
      /\ Ids(N) \subseteq A \ w.excluded => Filtered(N, A \ w.excluded) = N
      /\ \A i, j \in A \ w.excluded :
           Earlier(N, i, j) => Earlier(Filtered(N, A \ w.excluded), i, j)
  BY <1>2, FilteredQueue
<1>5. Selected(w, A) = Filtered(N, A \ w.excluded)
  BY DEF Selected, N
<1> QED BY <1>2, <1>3, <1>4, <1>5 DEF N

\* The three effects, the last write winning.
LEMMA EffectsCases ==
  ASSUME NEW w, WellFormed(w), NEW A \in SUBSET Instances
  PROVE  /\ A = {} => Effects(w, A) = w
         /\ A # {} => Effects(w, A) =
              [initialized |-> TRUE, excluded |-> w.excluded, included |->
                IF ~w.initialized THEN Appended(<<>>, Eligible(A))
                ELSE IF w.included # <<>> /\ Selected(w, A) # w.included
                     THEN Selected(w, A)
                     ELSE IF Unlisted(w, A) # {}
                          THEN Appended(w.included, Eligible(Unlisted(w, A)))
                          ELSE w.included]
<1> DEFINE S == Seed(w, A, w)
           N == AppendNew(w, A, S)
<1>0. /\ w \in Stores
      /\ w = [initialized |-> w.initialized, included |-> w.included, excluded |-> w.excluded]
      /\ w.initialized \in BOOLEAN
      /\ ~w.initialized => w.included = <<>>
  BY StoreFields DEF WellFormed
<1>1. Effects(w, A) = Normalize(w, A, N)
  BY DEF Effects
<1>2. Normalize(w, A, N) =
        IF w.included # <<>> /\ A # {} /\ Selected(w, A) # w.included
        THEN [N EXCEPT !.included = Selected(w, A)] ELSE N
  BY DEF Normalize, Selected
<1>3. Unlisted(w, A) \in SUBSET Instances
  BY DEF Unlisted
<1>4. Eligible(Unlisted(w, A)) # <<>> <=> Unlisted(w, A) # {}
  BY <1>3, EligibleList
<1>5. N = IF w.initialized /\ Unlisted(w, A) # {}
          THEN [S EXCEPT !.included = Appended(w.included, Eligible(Unlisted(w, A)))] ELSE S
  BY <1>4 DEF AppendNew, Unlisted
<1>6. CASE A = {}
  <2>1. Unlisted(w, A) = {}
    BY <1>6 DEF Unlisted
  <2>2. S = w
    BY <1>6 DEF Seed
  <2> QED BY <1>1, <1>2, <1>5, <1>6, <2>1, <2>2
<1>7. CASE A # {} /\ ~w.initialized
  <2>1. S = [w EXCEPT !.initialized = TRUE, !.included = Appended(<<>>, Eligible(A))]
    BY <1>7 DEF Seed
  <2>2. S = [initialized |-> TRUE, included |-> Appended(<<>>, Eligible(A)),
             excluded |-> w.excluded]
    BY <1>0, <2>1
  <2> HIDE DEF S
  <2>3. Effects(w, A) = S
    BY <1>0, <1>1, <1>2, <1>5, <1>7
  <2> QED BY <1>7, <2>2, <2>3
<1>8. CASE A # {} /\ w.initialized
  <2>1. S = w
    BY <1>8 DEF Seed
  <2> DEFINE more == Appended(w.included, Eligible(Unlisted(w, A)))
             some == Selected(w, A)
  <2> HIDE DEF S, more, some
  <2>2. N = [initialized |-> TRUE, excluded |-> w.excluded,
             included |-> IF Unlisted(w, A) # {} THEN more ELSE w.included]
    <3>1. CASE Unlisted(w, A) # {}
      <4>1. N = [w EXCEPT !.included = more]
        BY <1>5, <1>8, <2>1, <3>1 DEF more
      <4> QED BY <1>0, <1>8, <3>1, <4>1
    <3>2. CASE Unlisted(w, A) = {}
      <4>1. N = w
        BY <1>5, <2>1, <3>2
      <4> QED BY <1>0, <1>8, <3>2, <4>1
    <3> QED BY <3>1, <3>2
  <2> HIDE DEF N
  <2>3. Effects(w, A) =
          [initialized |-> TRUE, excluded |-> w.excluded, included |->
             IF w.included # <<>> /\ some # w.included THEN some
             ELSE IF Unlisted(w, A) # {} THEN more ELSE w.included]
    <3>1. CASE w.included # <<>> /\ some # w.included
      <4>1. Effects(w, A) = [N EXCEPT !.included = some]
        BY <1>1, <1>2, <1>8, <3>1 DEF some
      <4> QED BY <2>2, <3>1, <4>1
    <3>2. CASE ~(w.included # <<>> /\ some # w.included)
      <4>1. Effects(w, A) = N
        BY <1>1, <1>2, <3>2 DEF some
      <4> QED BY <2>2, <3>2, <4>1
    <3> QED BY <3>1, <3>2
  <2> QED BY <1>8, <2>3 DEF some, more
<1> QED BY <1>6, <1>7, <1>8

LEMMA EmptyQueue ==
  /\ <<>> \in Seq(Items) /\ Ids(<<>>) = {} /\ Unique(<<>>) /\ Canonical(<<>>)
  /\ \A i, j : ~Earlier(<<>>, i, j)
BY DEF Ids, Unique, Canonical, Earlier

\* The list of the instances in B, appended to one that has none of them.
LEMMA AppendedEligible ==
  ASSUME NEW q \in Seq(Items), NEW B \in SUBSET Instances, B \cap Ids(q) = {}
  PROVE  /\ Appended(q, Eligible(B)) \in Seq(Items)
         /\ Ids(Appended(q, Eligible(B))) = Ids(q) \cup B
         /\ Unique(q) => Unique(Appended(q, Eligible(B)))
         /\ Canonical(q) => Canonical(Appended(q, Eligible(B)))
         /\ B # {} => Appended(q, Eligible(B)) # q
         /\ \A i, j \in Instances :
              Earlier(q, i, j) => Earlier(Appended(q, Eligible(B)), i, j)
<1> DEFINE E == Eligible(B)
<1>1. /\ E \in Seq(Instances) /\ IsInjective(E) /\ ToSet(E) = B
      /\ B # {} => Len(E) > 0
      /\ Len(E) \in Nat
  <2>1. B \cap Instances = B
    OBVIOUS
  <2> QED BY <2>1, EligibleList
<1> HIDE DEF E
<1>2. /\ Appended(q, E) \in Seq(Items) /\ Len(Appended(q, E)) = Len(q) + Len(E)
      /\ Ids(Appended(q, E)) = Ids(q) \cup B
      /\ Unique(q) => Unique(Appended(q, E))
      /\ Canonical(q) => Canonical(Appended(q, E))
      /\ \A i, j \in Instances : Earlier(q, i, j) => Earlier(Appended(q, E), i, j)
  BY <1>1, AppendedQueue
<1>3. B # {} => Appended(q, E) # q
  <2>1. Len(q) \in Nat
    BY LenProperties
  <2> QED BY <1>1, <1>2, <2>1
<1> QED BY <1>2, <1>3 DEF E

\* A render leaves a queue that is well formed for the next one, and the instances
\* that stay queued keep their order.
LEMMA EffectsKeepWellFormed ==
  ASSUME NEW w, WellFormed(w), NEW A \in SUBSET Instances
  PROVE  /\ WellFormed(Effects(w, A))
         /\ Effects(w, A).excluded = w.excluded
         /\ w.initialized => Effects(w, A).initialized
         /\ A # {} => Effects(w, A).initialized
         /\ A # {} => Ids(Effects(w, A).included) \subseteq A \ w.excluded
         /\ \A i, j \in Ids(w.included) \cap Ids(Effects(w, A).included) :
              Earlier(w.included, i, j) => Earlier(Effects(w, A).included, i, j)
<1> DEFINE E == Effects(w, A)
           q == w.included
<1>0. /\ w \in Stores /\ Unique(q) /\ Ids(q) \cap w.excluded = {}
      /\ ~w.initialized => q = <<>> /\ w.excluded = {}
      /\ q \in Seq(Items) /\ w.excluded \in SUBSET Instances /\ Ids(q) \subseteq Instances
  BY StoreFields, ItemsOfQueue DEF WellFormed
<1> HIDE DEF q
<1>1. CASE A = {}
  BY <1>1, EffectsCases
<1>2. CASE A # {}
  <2> DEFINE r == IF ~w.initialized THEN Appended(<<>>, Eligible(A))
                  ELSE IF q # <<>> /\ Selected(w, A) # q
                       THEN Selected(w, A)
                       ELSE IF Unlisted(w, A) # {}
                            THEN Appended(q, Eligible(Unlisted(w, A)))
                            ELSE q
  <2>1. E = [initialized |-> TRUE, excluded |-> w.excluded, included |-> r]
    BY <1>2, EffectsCases DEF q
  <2> HIDE DEF E
  <2> SUFFICES /\ r \in Seq(Items) /\ Unique(r) /\ Ids(r) \cap w.excluded = {}
               /\ Ids(r) \subseteq A \ w.excluded
               /\ \A i, j \in Ids(q) \cap Ids(r) : Earlier(q, i, j) => Earlier(r, i, j)
    <3> HIDE DEF r
    <3>1. E.initialized = TRUE /\ E.excluded = w.excluded /\ E.included = r
      BY <2>1
    <3>2. E \in Stores
      BY <1>0, <2>1 DEF Stores
    <3> QED BY <1>0, <1>2, <3>1, <3>2 DEF WellFormed, E, q
  <2>2. CASE ~w.initialized
    <3>1. /\ Appended(<<>>, Eligible(A)) \in Seq(Items)
          /\ Ids(Appended(<<>>, Eligible(A))) = A
          /\ Unique(Appended(<<>>, Eligible(A)))
      BY EmptyQueue, AppendedEligible
    <3>2. w.excluded = {} /\ Ids(q) = {}
      BY <1>0, <2>2, EmptyQueue
    <3> QED BY <2>2, <3>1, <3>2
  <2>3. CASE w.initialized /\ q # <<>> /\ Selected(w, A) # q
    <3>1. /\ Selected(w, A) \in Seq(Items) /\ Unique(Selected(w, A))
          /\ Ids(Selected(w, A)) = Ids(q) \cap (A \ w.excluded)
          /\ \A i, j \in Ids(q) \cap (A \ w.excluded) :
               Earlier(q, i, j) => Earlier(Selected(w, A), i, j)
      BY <1>0, SelectedQueue DEF q
    <3> QED BY <2>3, <3>1
  <2>4. CASE w.initialized /\ ~(q # <<>> /\ Selected(w, A) # q)
    <3>1. Ids(q) \subseteq A \ w.excluded
      <4>1. CASE q = <<>>
        BY <4>1, EmptyQueue
      <4>2. CASE Selected(w, A) = q
        BY <1>0, <4>2, SelectedQueue DEF q
      <4> QED BY <2>4, <4>1, <4>2
    <3>2. CASE Unlisted(w, A) = {}
      BY <1>0, <2>4, <3>1, <3>2
    <3>3. CASE Unlisted(w, A) # {}
      <4> DEFINE B == Unlisted(w, A)
                 p == Appended(q, Eligible(B))
      <4>1. B \in SUBSET Instances /\ B \cap Ids(q) = {} /\ B \subseteq A \ w.excluded
        BY DEF Unlisted, q
      <4> HIDE DEF B
      <4>2. /\ p \in Seq(Items) /\ Ids(p) = Ids(q) \cup B /\ Unique(p)
            /\ \A i, j \in Instances : Earlier(q, i, j) => Earlier(p, i, j)
        BY <1>0, <4>1, AppendedEligible
      <4>3. r = p
        BY <2>4, <3>3 DEF B
      <4> HIDE DEF r, p
      <4> QED BY <1>0, <3>1, <4>1, <4>2, <4>3
    <3> QED BY <3>2, <3>3
  <2> QED BY <2>2, <2>3, <2>4
<1> QED BY <1>1, <1>2

\* A list that the clean-up effect leaves alone counts from 0.
LEMMA SelectedInPlace ==
  ASSUME NEW w, WellFormed(w), NEW A
  PROVE  /\ Selected(w, A) = w.included =>
              Canonical(w.included) /\ Ids(w.included) \subseteq A \ w.excluded
         /\ Canonical(w.included) /\ Ids(w.included) \subseteq A \ w.excluded =>
              Selected(w, A) = w.included
<1>1. w \in Stores /\ w.included \in Seq(Items) /\ Unique(w.included)
  BY StoreFields DEF WellFormed
<1>2. /\ Ids(Selected(w, A)) = Ids(w.included) \cap (A \ w.excluded)
      /\ Ids(w.included) \subseteq A \ w.excluded => Selected(w, A) = Normalized(w.included)
  BY <1>1, SelectedQueue
<1>3. /\ Canonical(Normalized(w.included))
      /\ Canonical(w.included) => Normalized(w.included) = w.included
  BY <1>1, NormalizedQueue
<1> QED BY <1>2, <1>3

\* How far the effects of a render have come: dropped instances are out; places
\* count from 0; every instance is in.
Dropped(w, A) == WellFormed(w) /\ w.initialized /\ Ids(w.included) \subseteq A \ w.excluded
Tidied(w, A) == Dropped(w, A) /\ Canonical(w.included)
Done(w, A) == Tidied(w, A) /\ A \ w.excluded \subseteq Ids(w.included)

LEMMA DropsFirst ==
  ASSUME NEW w, WellFormed(w), NEW A \in SUBSET Instances, A # {}
  PROVE  Dropped(Effects(w, A), A)
BY EffectsKeepWellFormed DEF Dropped

LEMMA ThenTidies ==
  ASSUME NEW w, NEW A \in SUBSET Instances, A # {}, Dropped(w, A)
  PROVE  Tidied(Effects(w, A), A)
<1> DEFINE q == w.included
<1>0. WellFormed(w) /\ w.initialized /\ Ids(q) \subseteq A \ w.excluded
  BY DEF Dropped
<1>1. w \in Stores /\ q \in Seq(Items) /\ Unique(q) /\ Ids(q) \subseteq Instances
  BY <1>0, StoreFields, ItemsOfQueue DEF WellFormed
<1>2. Dropped(Effects(w, A), A)
  BY <1>0, DropsFirst
<1>3. Effects(w, A).included =
        IF q # <<>> /\ Selected(w, A) # q THEN Selected(w, A)
        ELSE IF Unlisted(w, A) # {} THEN Appended(q, Eligible(Unlisted(w, A))) ELSE q
  BY <1>0, EffectsCases
<1>4. CASE q # <<>> /\ Selected(w, A) # q
  <2>1. Selected(w, A) = Normalized(q)
    BY <1>0, <1>1, SelectedQueue
  <2>2. Canonical(Normalized(q))
    BY <1>1, NormalizedQueue
  <2> QED BY <1>2, <1>3, <1>4, <2>1, <2>2 DEF Tidied
<1>5. CASE ~(q # <<>> /\ Selected(w, A) # q)
  <2>1. Canonical(q)
    BY <1>0, <1>5, EmptyQueue, SelectedInPlace
  <2>2. Unlisted(w, A) \in SUBSET Instances /\ Unlisted(w, A) \cap Ids(q) = {}
    BY DEF Unlisted
  <2>3. Canonical(Appended(q, Eligible(Unlisted(w, A))))
    BY <1>1, <2>1, <2>2, AppendedEligible
  <2> QED BY <1>2, <1>3, <1>5, <2>1, <2>3 DEF Tidied
<1> QED BY <1>4, <1>5

LEMMA ThenAddsTheRest ==
  ASSUME NEW w, NEW A \in SUBSET Instances, A # {}, Tidied(w, A)
  PROVE  Done(Effects(w, A), A)
<1> DEFINE q == w.included
           B == Unlisted(w, A)
<1>0. Dropped(w, A) /\ WellFormed(w) /\ w.initialized /\ Ids(q) \subseteq A \ w.excluded
  BY DEF Dropped, Tidied
<1>1. q \in Seq(Items)
  BY <1>0, StoreFields DEF WellFormed
<1>2. Tidied(Effects(w, A), A) /\ Effects(w, A).excluded = w.excluded
  BY <1>0, ThenTidies, EffectsKeepWellFormed
<1>3. Effects(w, A).included = IF B # {} THEN Appended(q, Eligible(B)) ELSE q
  <2>1. Selected(w, A) = q
    BY <1>0, SelectedInPlace DEF Tidied
  <2> QED BY <1>0, <2>1, EffectsCases
<1>4. B \in SUBSET Instances /\ B \cap Ids(q) = {} /\ A \ w.excluded \subseteq Ids(q) \cup B
  BY DEF Unlisted
<1> HIDE DEF B
<1>5. Ids(Appended(q, Eligible(B))) = Ids(q) \cup B
  BY <1>1, <1>4, AppendedEligible
<1> QED BY <1>2, <1>3, <1>4, <1>5 DEF Done

LEMMA ThenRests ==
  ASSUME NEW w, NEW A \in SUBSET Instances, Done(w, A)
  PROVE  Effects(w, A) = w
<1>0. /\ WellFormed(w) /\ w.initialized /\ Ids(w.included) \subseteq A \ w.excluded
      /\ Canonical(w.included) /\ A \ w.excluded \subseteq Ids(w.included)
  BY DEF Done, Tidied, Dropped
<1>1. w = [initialized |-> w.initialized, included |-> w.included, excluded |-> w.excluded]
      /\ w.initialized \in BOOLEAN
  BY <1>0, StoreFields DEF WellFormed
<1>2. Selected(w, A) = w.included /\ Unlisted(w, A) = {}
  BY <1>0, SelectedInPlace DEF Unlisted
<1>3. CASE A = {}
  BY <1>0, <1>3, EffectsCases
<1>4. CASE A # {}
  <2>1. Effects(w, A) =
          [initialized |-> TRUE, excluded |-> w.excluded, included |-> w.included]
    BY <1>0, <1>2, <1>4, EffectsCases
  <2> QED BY <1>0, <1>1, <2>1
<1> QED BY <1>3, <1>4

\* Conversely, a queue its effects rest on is done.
LEMMA RestsOnlyWhenDone ==
  ASSUME NEW w, WellFormed(w), NEW A \in SUBSET Instances, A # {}, Effects(w, A) = w
  PROVE  Done(w, A)
<1>1. Dropped(w, A)
  BY DropsFirst
<1>2. Tidied(w, A)
  BY <1>1, ThenTidies
<1> QED BY <1>2, ThenAddsTheRest

\* What auto-run rotates through, and what the UI lists.
LEMMA SortedShows ==
  ASSUME NEW q \in Seq(Items), NEW A
  PROVE  /\ Sorted(q, A) \in Seq(Items) /\ Unique(Sorted(q, A))
         /\ Ids(Sorted(q, A)) = Ids(q) \cap A
<1>1. Normalized(q) \in Seq(Items) /\ Unique(Normalized(q)) /\ Ids(Normalized(q)) = Ids(q)
  BY NormalizedQueue
<1>2. /\ Filtered(Normalized(q), A) \in Seq(Items) /\ Unique(Filtered(Normalized(q), A))
      /\ Ids(Filtered(Normalized(q), A)) = Ids(q) \cap A
  BY <1>1, FilteredQueue
<1> QED BY <1>2, SortedQueue DEF Sorted

-----------------------------------------------------------------------------
(* The queue as a whole.                                                   *)

\* The inductive invariant: what was written is what the effects of the last
\* render make of it.
QueueInv ==
  /\ available \in SUBSET Instances
  /\ WellFormed(rendered)
  /\ store = Effects(rendered, available)

LEMMA WrittenIsWellFormed ==
  ASSUME QueueInv
  PROVE  /\ WellFormed(store) /\ store \in Stores /\ store.included \in Seq(Items)
         /\ store.excluded = rendered.excluded
         /\ available # {} => store.initialized
         /\ rendered \in Stores /\ rendered.included \in Seq(Items)
         /\ Unique(rendered.included) /\ Unique(store.included)
         /\ Ids(rendered.included) \cap rendered.excluded = {}
         /\ rendered.excluded \in SUBSET Instances
         /\ \A i, j \in Ids(rendered.included) \cap Ids(store.included) :
              Earlier(rendered.included, i, j) => Earlier(store.included, i, j)
<1>1. /\ WellFormed(store) /\ store.excluded = rendered.excluded
      /\ available # {} => store.initialized
      /\ \A i, j \in Ids(rendered.included) \cap Ids(store.included) :
           Earlier(rendered.included, i, j) => Earlier(store.included, i, j)
  BY EffectsKeepWellFormed DEF QueueInv
<1> QED BY <1>1, StoreFields DEF QueueInv, WellFormed

LEMMA RenderInv ==
  ASSUME NEW w, WellFormed(w), NEW A \in SUBSET Instances, Render(w, A)
  PROVE  QueueInv'
BY DEF Render, QueueInv

LEMMA MigratedQueue ==
  ASSUME NEW T \in SUBSET Types, NEW types \in SetToAllKPermutations(T), ToSet(types) = T
  PROVE  /\ Migrated(types) \in Seq(Items) /\ Unique(Migrated(types))
         /\ Ids(Migrated(types)) = {i \in Instances : TypeOf[i] \in T}
<1> DEFINE B == {i \in Instances : TypeOf[i] \in T}
           E == Eligible(B)
           place(i) == CHOOSE k \in DOMAIN types : types[k] = TypeOf[i]
           q == [n \in DOMAIN E |-> [id |-> E[n], order |-> place(E[n]) - 1]]
<1>1. E \in Seq(Instances) /\ IsInjective(E) /\ ToSet(E) = B
  <2>1. B \cap Instances = B
    OBVIOUS
  <2> HIDE DEF B
  <2> QED BY <2>1, EligibleList
<1>2. DOMAIN E = 1 .. Len(E) /\ Len(E) \in Nat /\ \A n \in DOMAIN E : E[n] \in B
  BY <1>1, LenProperties DEF ToSet
<1>3. PICK S \in SUBSET T : types \in [1 .. Cardinality(S) -> S]
  BY DEF SetToAllKPermutations, SetToSeqs
<1>4. ASSUME NEW i \in B PROVE place(i) - 1 \in Nat
  <2>1. \E k \in DOMAIN types : types[k] = TypeOf[i]
    BY DEF ToSet
  <2>2. place(i) \in DOMAIN types
    BY <2>1
  <2>3. DOMAIN types = 1 .. Cardinality(S)
    BY <1>3
  <2> QED BY <2>2, <2>3
<1>5. \A n \in DOMAIN E : [id |-> E[n], order |-> place(E[n]) - 1] \in Items
  BY <1>2, <1>4 DEF Items
<1> HIDE DEF E, place, B
<1>6. q \in Seq(Items) /\ DOMAIN q = DOMAIN E /\ \A n \in DOMAIN q : q[n].id = E[n]
  <2>1. q \in [1 .. Len(E) -> Items]
    BY <1>2, <1>5
  <2> QED BY <1>2, <2>1
<1> HIDE DEF q
<1>7. Unique(q) /\ Ids(q) = B
  BY <1>1, <1>6 DEF Unique, Ids, ToSet, IsInjective
<1>8. Migrated(types) = SortByOrder(q)
  BY DEF Migrated, q, E, B, place
<1> QED BY <1>6, <1>7, <1>8, SortedQueue DEF B

LEMMA QueueInitInv == QueueInit => QueueInv
<1> SUFFICES ASSUME QueueInit PROVE QueueInv
  OBVIOUS
<1>1. available = {} /\ rendered = store
  BY DEF QueueInit
<1>2. WellFormed(store)
  <2>1. CASE store = [initialized |-> FALSE, included |-> <<>>, excluded |-> {}]
    <3>1. store \in Stores
      BY <2>1, EmptyQueue DEF Stores
    <3> QED BY <2>1, <3>1, EmptyQueue DEF WellFormed
  <2>2. ASSUME NEW T \in SUBSET Types, NEW types \in SetToAllKPermutations(T),
               ToSet(types) = T,
               store = [initialized |-> TRUE, included |-> Migrated(types),
                        excluded |-> {i \in Instances : TypeOf[i] \notin T}]
        PROVE  WellFormed(store)
    <3>1. /\ Migrated(types) \in Seq(Items) /\ Unique(Migrated(types))
          /\ Ids(Migrated(types)) = {i \in Instances : TypeOf[i] \in T}
      BY <2>2, MigratedQueue
    <3>2. /\ store.initialized = TRUE /\ store.included = Migrated(types)
          /\ store.excluded = {i \in Instances : TypeOf[i] \notin T}
      BY <2>2
    <3>3. store \in Stores
      BY <2>2, <3>1 DEF Stores
    <3> QED BY <3>1, <3>2, <3>3 DEF WellFormed
  <2> QED BY <2>1, <2>2 DEF QueueInit
<1>3. Effects(rendered, available) = store
  BY <1>1, <1>2, EffectsCases
<1> QED BY <1>1, <1>2, <1>3 DEF QueueInv

\* What a click writes.
LEMMA IncludeRenders ==
  ASSUME QueueInv, NEW i \in Instances, IncludeInstance(i)
  PROVE  \E w : /\ WellFormed(w) /\ Render(w, available)
                /\ w.included = Appended(rendered.included, <<i>>)
                /\ \A k, l \in Ids(rendered.included) :
                     Earlier(rendered.included, k, l) => Earlier(w.included, k, l)
<1> DEFINE q == Appended(rendered.included, <<i>>)
           x == rendered.excluded \ {i}
           w == [store EXCEPT !.excluded = x, !.included = q]
<1>1. i \in available /\ i \notin Ids(rendered.included) /\ Render(w, available)
  BY WrittenIsWellFormed DEF IncludeInstance
<1>2. <<i>> \in Seq(Instances) /\ IsInjective(<<i>>) /\ ToSet(<<i>>) = {i}
  BY DEF IsInjective, ToSet
<1>3. /\ q \in Seq(Items) /\ Ids(q) = Ids(rendered.included) \cup {i} /\ Unique(q)
      /\ \A k, l \in Instances : Earlier(rendered.included, k, l) => Earlier(q, k, l)
  BY <1>1, <1>2, WrittenIsWellFormed, AppendedQueue
<1>4. /\ store = [initialized |-> TRUE, included |-> store.included,
                  excluded |-> store.excluded]
      /\ store.initialized = TRUE
  BY <1>1, WrittenIsWellFormed, StoreFields
<1> HIDE DEF q, x
<1>5. w = [initialized |-> TRUE, included |-> q, excluded |-> x]
  <2>1. PICK v : v = w
    OBVIOUS
  <2>2. v = [initialized |-> TRUE, included |-> q, excluded |-> x]
    BY <1>4, <2>1
  <2> QED BY <2>1, <2>2
<1>6. /\ w.initialized = TRUE /\ w.included = q /\ w.excluded = x
  BY <1>5
<1> HIDE DEF w
<1>7. w \in Stores
  BY <1>3, <1>5, WrittenIsWellFormed DEF Stores, x
<1>8. WellFormed(w)
  BY <1>3, <1>6, <1>7, WrittenIsWellFormed DEF WellFormed, x
<1>9. Ids(rendered.included) \subseteq Instances
  BY WrittenIsWellFormed, ItemsOfQueue
<1>10. \A k, l \in Ids(rendered.included) :
         Earlier(rendered.included, k, l) => Earlier(w.included, k, l)
  BY <1>3, <1>6, <1>9
<1>11. Render(w, available)
  BY <1>1 DEF w, q, x
<1>12. w.included = Appended(rendered.included, <<i>>)
  BY <1>6 DEF q
<1> QED BY <1>8, <1>10, <1>11, <1>12

LEMMA ExcludeRenders ==
  ASSUME QueueInv, NEW i \in Instances, ExcludeInstance(i)
  PROVE  \E w : /\ WellFormed(w) /\ Render(w, available)
                /\ w.included = Filtered(rendered.included, Instances \ {i})
<1> DEFINE q == Filtered(rendered.included, Instances \ {i})
           x == rendered.excluded \cup {i}
           w == [store EXCEPT !.included = q, !.excluded = x]
<1>1. Render(w, available) /\ i \in Ids(Sorted(rendered.included, available))
  BY DEF ExcludeInstance
<1>2. q \in Seq(Items) /\ Ids(q) = Ids(rendered.included) \ {i} /\ Unique(q)
  <2>1. Ids(q) = Ids(rendered.included) \cap (Instances \ {i})
    BY WrittenIsWellFormed, FilteredQueue
  <2>2. Ids(rendered.included) \subseteq Instances
    BY WrittenIsWellFormed, ItemsOfQueue
  <2> QED BY <2>1, <2>2, WrittenIsWellFormed, FilteredQueue
<1>3. i \in Ids(rendered.included) /\ i \in available
  BY <1>1, WrittenIsWellFormed, SortedShows
<1>4. /\ store = [initialized |-> TRUE, included |-> store.included,
                  excluded |-> store.excluded]
      /\ store.initialized = TRUE
  BY <1>3, WrittenIsWellFormed, StoreFields
<1> HIDE DEF q, x
<1>5. w = [initialized |-> TRUE, included |-> q, excluded |-> x]
  <2>1. PICK v : v = w
    OBVIOUS
  <2>2. v = [initialized |-> TRUE, included |-> q, excluded |-> x]
    BY <1>4, <2>1
  <2> QED BY <2>1, <2>2
<1>6. /\ w.initialized = TRUE /\ w.included = q /\ w.excluded = x
  BY <1>5
<1> HIDE DEF w
<1>7. w \in Stores
  BY <1>2, <1>5, WrittenIsWellFormed DEF Stores, x
<1>8. WellFormed(w)
  BY <1>2, <1>6, <1>7, WrittenIsWellFormed DEF WellFormed, x
<1>9. Render(w, available)
  BY <1>1 DEF w, q, x
<1>10. w.included = Filtered(rendered.included, Instances \ {i})
  BY <1>6 DEF q
<1> QED BY <1>8, <1>9, <1>10

LEMMA QueueNextInv == QueueInv /\ [QueueNext]_queueVars => QueueInv'
<1> SUFFICES ASSUME QueueInv, [QueueNext]_queueVars PROVE QueueInv'
  OBVIOUS
<1>1. ASSUME NEW A \in SUBSET Instances, ServicesRender(A) PROVE QueueInv'
  BY <1>1, WrittenIsWellFormed, RenderInv DEF ServicesRender
<1>2. CASE Rerender
  BY <1>2, WrittenIsWellFormed, RenderInv DEF Rerender, QueueInv
<1>3. ASSUME NEW i \in Instances, IncludeInstance(i) PROVE QueueInv'
  BY <1>3, IncludeRenders, RenderInv DEF QueueInv
<1>4. ASSUME NEW i \in Instances, ExcludeInstance(i) PROVE QueueInv'
  BY <1>4, ExcludeRenders, RenderInv DEF QueueInv
<1>5. CASE UNCHANGED queueVars
  BY <1>5 DEF queueVars, QueueInv
<1> QED BY <1>1, <1>2, <1>3, <1>4, <1>5 DEF QueueNext

LEMMA QueueInvariance == QueueSpec => []QueueInv
BY QueueInitInv, QueueNextInv, PTL DEF QueueSpec

\* The autoRun object keeps its type, and never lists an excluded instance as queued.
THEOREM QueueTypeCorrect == QueueSpec => []QueueTypeOK
<1>1. QueueInv => QueueTypeOK
  <2> SUFFICES ASSUME QueueInv PROVE QueueTypeOK
    OBVIOUS
  <2> QED BY WrittenIsWellFormed DEF QueueTypeOK, QueueInv, WellFormed
<1> QED BY <1>1, QueueInvariance, PTL

\* Three renders after any write the three effects of AutoRunProvider write nothing
\* new, for any number of instances: one render drops what may not be queued, the
\* next compacts the orders, the third appends what is missing.
THEOREM EffectsAlwaysConverge == QueueSpec => []EffectsConverge
<1>1. QueueInv => EffectsConverge
  <2> SUFFICES ASSUME QueueInv PROVE EffectsConverge
    OBVIOUS
  <2> DEFINE once == Effects(store, available)
             twice == Effects(once, available)
             thrice == Effects(twice, available)
  <2>1. WellFormed(store) /\ available \in SUBSET Instances
    BY WrittenIsWellFormed DEF QueueInv
  <2>2. CASE available = {}
    BY <2>1, <2>2, EffectsCases DEF EffectsConverge
  <2>3. CASE available # {}
    <3>1. Dropped(once, available)
      BY <2>1, <2>3, DropsFirst
    <3> HIDE DEF once
    <3>2. Tidied(twice, available)
      BY <2>1, <2>3, <3>1, ThenTidies
    <3> HIDE DEF twice
    <3>3. Done(thrice, available)
      BY <2>1, <2>3, <3>2, ThenAddsTheRest
    <3> HIDE DEF thrice
    <3>4. Effects(thrice, available) = thrice
      BY <2>1, <3>3, ThenRests
    <3> QED BY <3>4 DEF EffectsConverge, once, twice, thrice
  <2> QED BY <2>2, <2>3
<1> QED BY <1>1, QueueInvariance, PTL

\* A list without repetitions is as long as the set of its instances.
LEMMA LengthOfUnique ==
  ASSUME NEW q \in Seq(Items), Unique(q)
  PROVE  Len(q) = Cardinality(Ids(q))
<1> DEFINE f == [n \in 1 .. Len(q) |-> q[n].id]
<1>1. DOMAIN q = 1 .. Len(q) /\ Len(q) \in Nat
  BY ItemsOfQueue
<1>2. f \in Injection(1 .. Len(q), Ids(q)) /\ f \in Surjection(1 .. Len(q), Ids(q))
  BY <1>1 DEF Injection, IsInjective, Surjection, Ids, Unique
<1>3. ExistsBijection(1 .. Len(q), Ids(q))
  BY <1>2 DEF ExistsBijection, Bijection
<1> QED BY <1>1, <1>3, FS_CountingElements

LEMMA SettledIsDone ==
  ASSUME QueueInv, Settled, available # {}
  PROVE  /\ Done(store, available)
         /\ Ids(store.included) = available \ store.excluded
         /\ Canonical(store.included)
<1>1. Effects(store, available) = store
  BY DEF QueueInv, Settled
<1>2. Done(store, available)
  BY <1>1, WrittenIsWellFormed, RestsOnlyWhenDone DEF QueueInv
<1> QED BY <1>2 DEF Done, Tidied, Dropped

\* A queue that was rendered as written is the user's choice: every available
\* instance that is not excluded, once, in places numbered from 0.
THEOREM SettledQueueCorrect == QueueSpec => []SettledQueueIsTheUsersChoice
<1>1. QueueInv => SettledQueueIsTheUsersChoice
  <2> SUFFICES ASSUME QueueInv, Settled, available # {}
               PROVE  /\ Ids(store.included) = available \ store.excluded
                      /\ Len(store.included) = Cardinality(Ids(store.included))
                      /\ \A n \in DOMAIN store.included : store.included[n].order = n - 1
    BY DEF SettledQueueIsTheUsersChoice
  <2>1. Len(store.included) = Cardinality(Ids(store.included))
    BY WrittenIsWellFormed, LengthOfUnique
  <2> QED BY <2>1, SettledIsDone DEF Canonical
<1> QED BY <1>1, QueueInvariance, PTL

\* The rotation: the queued instances that are available, or all that are.
LEMMA OrderedQueue ==
  ASSUME NEW q \in Seq(Items), NEW A \in SUBSET Instances
  PROVE  /\ Ordered(q, A) \in Seq(Instances) /\ IsInjective(Ordered(q, A))
         /\ ToSet(Ordered(q, A)) = IF Ids(q) \cap A # {} THEN Ids(q) \cap A ELSE A
<1> DEFINE s == Sorted(q, A)
           ids == [n \in DOMAIN s |-> s[n].id]
<1>1. /\ s \in Seq(Items) /\ Unique(s) /\ Ids(s) = Ids(q) \cap A
  BY SortedShows
<1>2. Ordered(q, A) = IF s # <<>> THEN ids ELSE Eligible(A)
  BY DEF Ordered
<1> HIDE DEF s
<1>3. DOMAIN s = 1 .. Len(s) /\ Len(s) \in Nat /\ \A n \in DOMAIN s : s[n].id \in Instances
  BY <1>1, ItemsOfQueue
<1>4. ids \in Seq(Instances)
  <2>1. ids \in [1 .. Len(s) -> Instances]
    BY <1>3
  <2> QED BY <1>3, <2>1
<1>5. IsInjective(ids) /\ ToSet(ids) = Ids(s)
  BY <1>1 DEF IsInjective, ToSet, Unique, Ids
<1>6. s = <<>> <=> Ids(s) = {}
  <2>1. s # <<>> => Len(s) # 0
    BY <1>1, EmptySeq
  <2>2. s # <<>> => 1 \in DOMAIN s
    BY <1>3, <2>1
  <2> QED BY <2>2, EmptyQueue DEF Ids
<1>7. /\ Eligible(A) \in Seq(Instances) /\ IsInjective(Eligible(A))
      /\ ToSet(Eligible(A)) = A
  <2>1. A \cap Instances = A
    OBVIOUS
  <2> QED BY <2>1, EligibleList
<1> HIDE DEF ids
<1> QED BY <1>1, <1>2, <1>4, <1>5, <1>6, <1>7

\* getOrderedIncludedInstances falls back to excluded instances only if there are no
\* others.
THEOREM ExcludedOnlyAsFallback == QueueSpec => []ExcludedRunsOnlyAsFallback
<1>1. QueueInv => ExcludedRunsOnlyAsFallback
  <2> SUFFICES ASSUME QueueInv, Settled, ~(available \subseteq store.excluded)
               PROVE  ToSet(Ordered(store.included, available)) \cap store.excluded = {}
    BY DEF ExcludedRunsOnlyAsFallback
  <2>1. available # {} /\ available \in SUBSET Instances
    BY DEF QueueInv
  <2>2. Ids(store.included) = available \ store.excluded
    BY <2>1, SettledIsDone
  <2>3. Ids(store.included) \cap available # {}
    BY <2>2
  <2>4. ToSet(Ordered(store.included, available)) = Ids(store.included) \cap available
    BY <2>1, <2>3, WrittenIsWellFormed, OrderedQueue
  <2> QED BY <2>2, <2>4
<1> QED BY <1>1, QueueInvariance, PTL

\* What useAutoRunScanner is given to rotate through: each instance once, and only
\* available ones, at any time, also between a write and its render.
RotationIsAvailable ==
  /\ Ordered(rendered.included, available) \in Seq(Instances)
  /\ IsInjective(Ordered(rendered.included, available))
  /\ ToSet(Ordered(rendered.included, available)) \subseteq available

\* So the queue is what AutoRunScanner assumes of it: a sequence of instances without
\* repetitions (QueueIsSequence, QueueHasNoDuplicates).
THEOREM RotationAlwaysAvailable == QueueSpec => []RotationIsAvailable
<1>1. QueueInv => RotationIsAvailable
  BY WrittenIsWellFormed, OrderedQueue DEF RotationIsAvailable, QueueInv
<1> QED BY <1>1, QueueInvariance, PTL

\* A step renders what was written or a click's list; either keeps the order.
LEMMA OrderKeptByStep ==
  ASSUME QueueInv, [QueueNext]_queueVars,
         NEW i \in Ids(rendered.included) \cap Ids(rendered'.included),
         NEW j \in Ids(rendered.included) \cap Ids(rendered'.included),
         Before(rendered.included, i, j)
  PROVE  Before(rendered'.included, i, j)
<1>1. Earlier(rendered.included, i, j)
  BY WrittenIsWellFormed, SortedQueue
<1>2. rendered'.included \in Seq(Items) /\ Unique(rendered'.included)
  <2>1. QueueInv'
    BY QueueNextInv
  <2>2. WellFormed(rendered')
    BY <2>1 DEF QueueInv
  <2> QED BY <2>2, StoreFields DEF WellFormed
<1>3. i \in Instances /\ j \in Instances
  BY WrittenIsWellFormed, ItemsOfQueue
<1> SUFFICES Earlier(rendered'.included, i, j)
  BY <1>2, SortedQueue
<1>4. ASSUME rendered' = store PROVE Earlier(rendered'.included, i, j)
  BY <1>1, <1>4, WrittenIsWellFormed
<1>5. ASSUME NEW A \in SUBSET Instances, ServicesRender(A)
      PROVE  Earlier(rendered'.included, i, j)
  BY <1>4, <1>5 DEF ServicesRender, Render
<1>6. CASE Rerender
  BY <1>4, <1>6 DEF Rerender, Render
<1>7. ASSUME NEW k \in Instances, IncludeInstance(k)
      PROVE  Earlier(rendered'.included, i, j)
  BY <1>1, <1>7, IncludeRenders DEF Render
<1>8. ASSUME NEW k \in Instances, ExcludeInstance(k)
      PROVE  Earlier(rendered'.included, i, j)
  <2> DEFINE others == Instances \ {k}
             kept == Filtered(rendered.included, others)
  <2>1. rendered'.included = kept
    BY <1>8, ExcludeRenders DEF Render
  <2> HIDE DEF others
  <2>2. /\ Ids(kept) = Ids(rendered.included) \cap others
        /\ \A m, n \in others : Earlier(rendered.included, m, n) => Earlier(kept, m, n)
    BY WrittenIsWellFormed, FilteredQueue
  <2> QED BY <1>1, <2>1, <2>2
<1>9. CASE UNCHANGED queueVars
  BY <1>1, <1>9 DEF queueVars
<1> QED BY <1>5, <1>6, <1>7, <1>8, <1>9 DEF QueueNext

\* From one render of the queue to the next the instances that stay queued keep their
\* order, whichever of the effects' writes wins.
THEOREM QueueOrderKept == QueueSpec => OrderKept
<1>1. QueueInv /\ [QueueNext]_queueVars =>
        [\A i, j \in Ids(rendered.included) \cap Ids(rendered'.included) :
           Before(rendered.included, i, j) => Before(rendered'.included, i, j)]_queueVars
  BY OrderKeptByStep
<1> QED BY <1>1, QueueInvariance, PTL DEF QueueSpec, OrderKept

-----------------------------------------------------------------------------
(* The switch.                                                             *)

\* A start is to be shown only between an attempt's look at the switch and its end.
StartsShown == starting => start.at \notin {"idle", "balances"}

\* A stop of the switch or of its guard is shown from its first step on, so that there
\* is never one of each.
StopsShown ==
  /\ Stopping => isStopping
  /\ stop["switch"] = IdleOp \/ stop["guard"] = IdleOp

\* A guard with checks left faces a switch that is off.
GuardFacesOff == checksLeft > 0 => ~enabled

\* The one late call is that of an attempt past its probe.
CallsCounted ==
  /\ lateCalls \in {0, 1}
  /\ enabled \/ start.at = "probe" => lateCalls = 0

\* A stop that pauses has attempts left.
RetriesRemain ==
  \A c \in Callers : stop[c].at = "retry" => stop[c].attempt # MaxStops

\* The inductive invariant of the switch.
SwitchInv ==
  TypeOK /\ StartsShown /\ StopsShown /\ GuardFacesOff /\ CallsCounted /\ RetriesRemain

LEMMA OpsOfType ==
  /\ IdleOp \in StartOps /\ IdleOp \in StopOps /\ IdleOp.at = "idle"
  /\ \A o \in StartOps : o # IdleOp => o.inst \in Inst /\ o.attempt \in 1..MaxAttempts
  /\ \A o \in StopOps : o # IdleOp =>
       /\ o.inst \in Inst /\ o.attempt \in 1..MaxStops
       /\ o = [at |-> o.at, inst |-> o.inst, attempt |-> o.attempt]
       /\ o.at \in {"request", "confirm", "retry"}
BY DEF IdleOp, StartOps, StopOps

LEMMA SwitchInitInv == Init => SwitchInv
<1> SUFFICES ASSUME Init PROVE SwitchInv
  OBVIOUS
<1>1. /\ stop \in [Callers -> StopOps] /\ \A c \in Callers : stop[c] = IdleOp
      /\ start \in StartOps /\ start.at = "idle"
  BY OpsOfType DEF Init, Callers
<1>2. checksLeft \in 0..MaxChecks /\ lateCalls = 0 /\ checksLeft = 0
  BY BoundsArePositive DEF Init
<1>3. deployment \in [Inst -> {"off", "up", "stopping"}]
  BY DEF Init
<1>4. RetriesRemain /\ StopsShown
  BY <1>1, OpsOfType DEF RetriesRemain, StopsShown, Stopping, Callers
<1>5. StartsShown /\ GuardFacesOff /\ CallsCounted
  BY <1>2 DEF Init, StartsShown, GuardFacesOff, CallsCounted
<1>6. /\ enabled \in BOOLEAN /\ isStarting \in BOOLEAN /\ isStopping \in BOOLEAN
      /\ starting \in BOOLEAN /\ transitioning \in BOOLEAN /\ locked \in BOOLEAN
  BY DEF Init
<1>7. /\ left \subseteq Inst /\ stopPending \subseteq Inst /\ seen \in Inst \cup {None}
      /\ lateCalls \in Nat
  BY <1>2 DEF Init
<1> QED BY <1>1, <1>2, <1>3, <1>4, <1>5, <1>6, <1>7 DEF SwitchInv, TypeOK

\* What the steps that change a start, and not the switch, must keep.
LEMMA StartSideInv ==
  ASSUME SwitchInv,
         UNCHANGED <<locked, enabled, isStarting, isStopping, checksLeft, stop,
                     stopPending, seen, transitioning>>,
         start' \in StartOps, starting' \in BOOLEAN, left' \subseteq Inst,
         deployment' \in [Inst -> {"off", "up", "stopping"}],
         StartsShown', CallsCounted'
  PROVE  SwitchInv'
<1>1. lateCalls' \in Nat
  BY DEF CallsCounted
<1>2. RetriesRemain' /\ StopsShown' /\ GuardFacesOff'
  BY DEF SwitchInv, RetriesRemain, StopsShown, Stopping, GuardFacesOff
<1> QED BY <1>1, <1>2 DEF SwitchInv, TypeOK

\* Where a start may go.
LEMMA StartMoves ==
  ASSUME SwitchInv, start # IdleOp, NEW n \in 1..MaxAttempts,
         NEW to \in {"probe", "prepare", "request", "answered", "confirm", "retry"}
  PROVE  /\ [start EXCEPT !.at = to] \in StartOps
         /\ [start EXCEPT !.at = to].at = to
         /\ [start EXCEPT !.at = to, !.attempt = n] \in StartOps
         /\ [start EXCEPT !.at = to, !.attempt = n].at = to
BY DEF SwitchInv, TypeOK, StartOps

LEMMA StartStepInv ==
  ASSUME SwitchInv, StartStep
  PROVE  SwitchInv'
<1>0. start # IdleOp /\ start.inst \in Inst /\ start.attempt \in 1..MaxAttempts
  BY OpsOfType DEF StartStep, BalancesAwaited, Probed, StartPosted, StartProcessed,
     StartAnswered, StartCallFails, RetryAwaited, StartConfirmed, StartUnconfirmed,
     StartAt, SwitchInv, TypeOK
<1>1. UNCHANGED <<locked, enabled, isStarting, isStopping, checksLeft, stop,
                  stopPending, seen, transitioning>>
  BY DEF StartStep, BalancesAwaited, Probed, StartPosted, StartProcessed, StartAnswered,
     StartCallFails, RetryAwaited, StartConfirmed, StartUnconfirmed, Elsewhere, switch,
     mirrors
<1>2. /\ left' \subseteq Inst
      /\ deployment' \in [Inst -> {"off", "up", "stopping"}]
  BY <1>0 DEF StartStep, BalancesAwaited, Probed, StartPosted, StartProcessed,
     StartAnswered, StartCallFails, RetryAwaited, StartConfirmed, StartUnconfirmed,
     SwitchInv, TypeOK
<1>3. ASSUME NEW failed, StartEnds(failed), UNCHANGED lateCalls PROVE SwitchInv'
  <2>1. start' \in StartOps /\ start'.at = "idle" /\ starting' = FALSE
    BY <1>3, OpsOfType DEF StartEnds
  <2>2. StartsShown' /\ CallsCounted'
    BY <1>1, <1>3, <2>1 DEF StartsShown, CallsCounted, SwitchInv
  <2> QED BY <1>1, <1>2, <2>1, <2>2, StartSideInv
<1>4. ASSUME NEW to \in {"prepare", "request", "answered", "confirm", "retry"},
             StartGoesTo(to), start.at # "balances", UNCHANGED lateCalls
      PROVE  SwitchInv'
  <2>1. to \in {"probe", "prepare", "request", "answered", "confirm", "retry"}
    BY <1>4
  <2>3. start' = [start EXCEPT !.at = to] /\ starting' = starting
    BY <1>4 DEF StartGoesTo
  <2>4. start' \in StartOps /\ start'.at = to
    BY <1>0, <2>1, <2>3, StartMoves
  <2>2. StartsShown' /\ CallsCounted'
    BY <1>1, <1>4, <2>3, <2>4 DEF StartsShown, CallsCounted, SwitchInv
  <2> QED BY <1>1, <1>2, <2>2, <2>3, <2>4, StartSideInv DEF SwitchInv, TypeOK
<1>5. ASSUME NEW n \in 1..MaxAttempts, NextAttempt(n), UNCHANGED lateCalls
      PROVE  SwitchInv'
  <2>1. CASE ~enabled
    BY <1>3, <1>5, <2>1 DEF NextAttempt
  <2>2. CASE enabled
    <3>1. /\ start' = [start EXCEPT !.at = "probe", !.attempt = n]
          /\ starting' = (starting \/ start.at = "balances")
      BY <1>5, <2>2 DEF NextAttempt
    <3>2. start' \in StartOps /\ start'.at = "probe"
      BY <1>0, <3>1, StartMoves
    <3>3. starting' \in BOOLEAN
      BY <3>1 DEF SwitchInv, TypeOK
    <3>4. lateCalls = 0
      BY <2>2 DEF SwitchInv, CallsCounted
    <3>5. StartsShown' /\ CallsCounted'
      BY <1>5, <3>2, <3>4 DEF StartsShown, CallsCounted
    <3> QED BY <1>1, <1>2, <3>2, <3>3, <3>5, StartSideInv
  <2> QED BY <2>1, <2>2
<1>6. ASSUME NEW b \in BOOLEAN, BalancesAwaited(b) PROVE SwitchInv'
  <2>1. 1 \in 1..MaxAttempts
    BY BoundsArePositive
  <2> QED BY <1>3, <1>5, <1>6, <2>1 DEF BalancesAwaited
<1>7. ASSUME NEW b \in BOOLEAN, Probed(b) PROVE SwitchInv'
  <2>1. CASE StartEnds(FALSE) /\ UNCHANGED lateCalls
    BY <1>3, <2>1
  <2>2. CASE /\ StartGoesTo("prepare")
             /\ lateCalls' = IF enabled THEN lateCalls ELSE lateCalls + 1
    <3>1. start' \in StartOps /\ start'.at = "prepare" /\ starting' = starting
      BY <1>0, <2>2, StartMoves DEF StartGoesTo
    <3>2. lateCalls = 0 /\ start.at = "probe"
      BY <1>7 DEF Probed, StartAt, SwitchInv, CallsCounted
    <3>3. lateCalls' \in {0, 1} /\ (enabled => lateCalls' = 0)
      BY <2>2, <3>2
    <3>4. StartsShown' /\ CallsCounted'
      BY <1>1, <3>1, <3>2, <3>3 DEF StartsShown, CallsCounted, SwitchInv
    <3> QED BY <1>1, <1>2, <3>1, <3>4, StartSideInv DEF SwitchInv, TypeOK
  <2> QED BY <1>7, <2>1, <2>2 DEF Probed
<1>8. CASE StartPosted \/ StartProcessed \/ StartAnswered \/ StartUnconfirmed
  BY <1>4, <1>8 DEF StartPosted, StartProcessed, StartAnswered, StartUnconfirmed, StartAt
<1>9. ASSUME NEW timedOut \in BOOLEAN, StartCallFails(timedOut) PROVE SwitchInv'
  BY <1>4, <1>9 DEF StartCallFails, StartAt
<1>10. ASSUME NEW b \in BOOLEAN, RetryAwaited(b) PROVE SwitchInv'
  <2>1. start.attempt < MaxAttempts => start.attempt + 1 \in 1..MaxAttempts
    BY <1>0, BoundsArePositive
  <2> QED BY <1>3, <1>5, <1>10, <2>1 DEF RetryAwaited
<1>11. CASE StartConfirmed
  BY <1>3, <1>11 DEF StartConfirmed
<1> QED BY <1>6, <1>7, <1>8, <1>9, <1>10, <1>11 DEF StartStep

\* What the steps of a stop must keep.
LEMMA StopSideInv ==
  ASSUME SwitchInv,
         UNCHANGED <<locked, enabled, isStarting, starting, start, lateCalls, left,
                     deployment, seen, transitioning>>,
         isStopping' \in BOOLEAN, checksLeft' \in {checksLeft, 0},
         stop' \in [Callers -> StopOps], stopPending' \subseteq Inst,
         StopsShown', RetriesRemain'
  PROVE  SwitchInv'
<1>1. checksLeft' \in 0..MaxChecks /\ (checksLeft' > 0 => checksLeft > 0)
  BY BoundsArePositive DEF SwitchInv, TypeOK
<1>2. StartsShown' /\ GuardFacesOff' /\ CallsCounted'
  BY <1>1 DEF SwitchInv, StartsShown, GuardFacesOff, CallsCounted
<1> QED BY <1>1, <1>2 DEF SwitchInv, TypeOK

LEMMA StopBegun ==
  ASSUME SwitchInv, NEW c \in Callers, NEW i \in Inst, StopBegins(c, i)
  PROVE  /\ stop' \in [Callers -> StopOps]
         /\ \A d \in Callers : d # c => stop'[d] = stop[d]
         /\ stopPending' \subseteq Inst /\ RetriesRemain'
<1>1. [at |-> "request", inst |-> i, attempt |-> 1] \in StopOps
  BY BoundsArePositive DEF StopOps
<1>2. RetriesRemain'
  BY DEF StopBegins, SwitchInv, TypeOK, RetriesRemain
<1> QED BY <1>1, <1>2 DEF StopBegins, SwitchInv, TypeOK

LEMMA StopStepInv ==
  ASSUME SwitchInv, NEW c \in Callers, StopStep(c)
  PROVE  SwitchInv'
<1>0. TypeOK /\ StopsShown /\ RetriesRemain
  BY DEF SwitchInv
<1>1. stop[c] # IdleOp /\ stop[c] \in StopOps
  BY <1>0, OpsOfType DEF StopStep, StopRequestEnds, StopConfirmed, StopUnconfirmed,
                         StopRetried, TypeOK
<1>2. /\ stop[c].inst \in Inst /\ stop[c].attempt \in 1..MaxStops
      /\ stop[c].at \in {"request", "confirm", "retry"}
  BY <1>1, OpsOfType
<1>3. /\ UNCHANGED <<locked, enabled, isStarting, isStopping, starting, start, lateCalls,
                     left, deployment, seen, transitioning>>
      /\ stopPending' \subseteq Inst
  BY <1>0, <1>2 DEF StopStep, StopRequestEnds, StopConfirmed, StopUnconfirmed, StopRetried,
                    Beside, operation, mirrors, TypeOK
<1>4. ASSUME NEW o \in StopOps, stop' = [stop EXCEPT ![c] = o],
             o.at = "retry" => o.attempt # MaxStops, checksLeft' \in {checksLeft, 0}
      PROVE  SwitchInv'
  <2>1. stop' \in [Callers -> StopOps]
    BY <1>0, <1>4 DEF TypeOK
  <2>2. \A d \in Callers : stop[d] = IdleOp => stop'[d] = IdleOp
    BY <1>0, <1>1, <1>4 DEF TypeOK
  <2>3. StopsShown'
    BY <1>0, <1>3, <2>2 DEF StopsShown, Stopping, Callers
  <2>4. RetriesRemain'
    BY <1>0, <1>4 DEF TypeOK, RetriesRemain
  <2> QED BY <1>0, <1>3, <1>4, <2>1, <2>3, <2>4, StopSideInv DEF TypeOK
<1>5. CASE StopEnds(c)
  BY <1>4, <1>5, OpsOfType DEF StopEnds
<1>6. CASE StopRequestEnds(c)
  <2> DEFINE o == [stop[c] EXCEPT !.at = "confirm"]
  <2>1. o \in StopOps /\ o.at = "confirm"
    BY <1>1, <1>2, OpsOfType DEF StopOps, IdleOp
  <2>2. stop' = [stop EXCEPT ![c] = o] /\ UNCHANGED checksLeft
    BY <1>6 DEF StopRequestEnds
  <2> HIDE DEF o
  <2> QED BY <1>4, <2>1, <2>2
<1>7. CASE StopConfirmed(c)
  BY <1>5, <1>7 DEF StopConfirmed
<1>8. CASE StopUnconfirmed(c)
  <2> DEFINE o == [stop[c] EXCEPT !.at = "retry"]
  <2>1. o \in StopOps /\ o.attempt = stop[c].attempt
    BY <1>1, <1>2, OpsOfType DEF StopOps, IdleOp
  <2>2. \/ StopEnds(c)
        \/ /\ stop[c].attempt # MaxStops
           /\ stop' = [stop EXCEPT ![c] = o] /\ UNCHANGED checksLeft
    BY <1>8 DEF StopUnconfirmed
  <2> HIDE DEF o
  <2> QED BY <1>4, <1>5, <2>1, <2>2
<1>9. ASSUME NEW onTime \in BOOLEAN, StopRetried(c, onTime) PROVE SwitchInv'
  <2>1. CASE ~onTime
    BY <1>5, <1>9, <2>1 DEF StopRetried
  <2>2. CASE onTime
    <3> DEFINE o == [at |-> "request", inst |-> stop[c].inst, attempt |-> stop[c].attempt + 1]
    <3>1. stop[c].attempt # MaxStops
      BY <1>9 DEF StopRetried, SwitchInv, RetriesRemain
    <3>2. stop[c].attempt + 1 \in 1..MaxStops
      BY <1>2, <3>1, BoundsArePositive
    <3>3. o \in StopOps /\ o.at = "request"
      BY <1>2, <3>2 DEF StopOps
    <3>4. stop' = [stop EXCEPT ![c] = o] /\ UNCHANGED checksLeft
      BY <1>9, <2>2 DEF StopRetried
    <3> HIDE DEF o
    <3> QED BY <1>4, <3>3, <3>4
  <2> QED BY <2>1, <2>2
<1> QED BY <1>6, <1>7, <1>8, <1>9 DEF StopStep

\* The clicks, the commit and the race guard.
LEMMA SwitchStepInv ==
  ASSUME SwitchInv, SwitchOn \/ SwitchOff \/ Commit \/ GuardStep
  PROVE  SwitchInv'
<1>0. TypeOK /\ StartsShown /\ StopsShown /\ GuardFacesOff /\ CallsCounted /\ RetriesRemain
  BY DEF SwitchInv
<1>1. CASE SwitchOn
  <2>1. /\ enabled' = TRUE /\ checksLeft' = 0 /\ lateCalls' = 0
        /\ UNCHANGED <<locked, isStarting, isStopping, start, starting, stop, left,
                       stopPending, deployment, seen, transitioning>>
    BY <1>1 DEF SwitchOn, backend, mirrors
  <2>2. StartsShown' /\ StopsShown' /\ GuardFacesOff' /\ CallsCounted' /\ RetriesRemain'
    BY <1>0, <2>1 DEF StartsShown, StopsShown, Stopping, GuardFacesOff, CallsCounted,
                      RetriesRemain
  <2> QED BY <1>0, <2>1, <2>2, BoundsArePositive DEF SwitchInv, TypeOK
<1>2. CASE SwitchOff
  <2>1. /\ enabled' = FALSE /\ isStarting' = FALSE /\ starting' = (starting /\ ~isStarting)
        /\ checksLeft' \in 0..MaxChecks /\ enabled
        /\ UNCHANGED <<locked, start, lateCalls, left, deployment, seen, transitioning>>
    BY <1>2, BoundsArePositive DEF SwitchOff, mirrors
  <2>2. starting' \in BOOLEAN /\ StartsShown' /\ GuardFacesOff' /\ CallsCounted'
    BY <1>0, <2>1 DEF StartsShown, GuardFacesOff, CallsCounted, TypeOK
  <2>3. CASE UNCHANGED <<isStopping, stop, stopPending>>
    <3>1. StopsShown' /\ RetriesRemain'
      BY <1>0, <2>3 DEF StopsShown, Stopping, RetriesRemain
    <3> QED BY <1>0, <2>1, <2>2, <2>3, <3>1 DEF SwitchInv, TypeOK
  <2>4. CASE ~(isStopping \/ seen = None)
    <3>1. seen \in Inst /\ isStopping' = TRUE /\ StopBegins("switch", seen)
      BY <1>0, <1>2, <2>4 DEF SwitchOff, TypeOK
    <3>2. /\ stop' \in [Callers -> StopOps] /\ stop'["guard"] = stop["guard"]
          /\ stopPending' \subseteq Inst /\ RetriesRemain'
      BY <3>1, StopBegun DEF Callers
    <3>3. StopsShown'
      BY <1>0, <2>4, <3>1, <3>2 DEF StopsShown, Stopping
    <3> QED BY <1>0, <2>1, <2>2, <3>1, <3>2, <3>3 DEF SwitchInv, TypeOK
  <2> QED BY <1>2, <2>3, <2>4 DEF SwitchOff
<1>3. CASE Commit
  <2>1. /\ starting' = (starting /\ enabled) /\ isStarting' = starting'
        /\ isStopping' = Stopping
        /\ UNCHANGED <<locked, enabled, checksLeft, start, lateCalls, stop, left,
                       stopPending, deployment, seen, transitioning>>
    BY <1>3 DEF Commit, backend, mirrors
  <2>2. StartsShown' /\ StopsShown' /\ GuardFacesOff' /\ CallsCounted' /\ RetriesRemain'
    BY <1>0, <2>1 DEF StartsShown, StopsShown, Stopping, GuardFacesOff, CallsCounted,
                      RetriesRemain
  <2>3. isStopping' \in BOOLEAN /\ starting' \in BOOLEAN /\ isStarting' \in BOOLEAN
    BY <1>0, <2>1 DEF Stopping, TypeOK
  <2> QED BY <1>0, <2>1, <2>2, <2>3 DEF SwitchInv, TypeOK
<1>4. CASE RaceGuardStops
  <2>1. /\ seen \in Inst /\ isStopping' = TRUE /\ ~isStopping /\ StopBegins("guard", seen)
        /\ UNCHANGED <<locked, enabled, isStarting, starting, checksLeft, start, lateCalls,
                       left, deployment, seen, transitioning>>
    BY <1>0, <1>4 DEF RaceGuardStops, GuardArmed, operation, mirrors, TypeOK
  <2>2. /\ stop' \in [Callers -> StopOps] /\ stop'["switch"] = stop["switch"]
        /\ stopPending' \subseteq Inst /\ RetriesRemain'
    BY <2>1, StopBegun DEF Callers
  <2>3. StopsShown'
    BY <1>0, <2>1, <2>2 DEF StopsShown, Stopping
  <2> QED BY <2>1, <2>2, <2>3, StopSideInv
<1>5. CASE RaceGuardTicks
  <2>1. /\ checksLeft > 0 /\ checksLeft' = checksLeft - 1 /\ ~enabled
        /\ UNCHANGED <<locked, enabled, isStarting, isStopping, starting, start, lateCalls,
                       stop, left, stopPending, deployment, seen, transitioning>>
    BY <1>5 DEF RaceGuardTicks, GuardArmed, operation, backend, mirrors
  <2>2. checksLeft' \in 0..MaxChecks
    BY <1>0, <2>1, BoundsArePositive DEF TypeOK
  <2>3. StartsShown' /\ StopsShown' /\ GuardFacesOff' /\ CallsCounted' /\ RetriesRemain'
    BY <1>0, <2>1 DEF StartsShown, StopsShown, Stopping, GuardFacesOff, CallsCounted,
                      RetriesRemain
  <2> QED BY <1>0, <2>1, <2>2, <2>3 DEF SwitchInv, TypeOK
<1> QED BY <1>1, <1>2, <1>3, <1>4, <1>5 DEF GuardStep

LEMMA SwitchNextInv == SwitchInv /\ [Next]_vars => SwitchInv'
<1> SUFFICES ASSUME SwitchInv, [Next]_vars PROVE SwitchInv'
  OBVIOUS
<1>0. TypeOK /\ StartsShown /\ StopsShown /\ GuardFacesOff /\ CallsCounted /\ RetriesRemain
  BY DEF SwitchInv
<1>1. ASSUME NEW i \in Inst, StartCalled(i) PROVE SwitchInv'
  <2>1. [at |-> "balances", inst |-> i, attempt |-> 1] \in StartOps
    BY BoundsArePositive DEF StartOps
  <2>2. /\ start' = [at |-> "balances", inst |-> i, attempt |-> 1] /\ start = IdleOp
        /\ UNCHANGED <<locked, enabled, isStarting, isStopping, checksLeft, starting,
                       lateCalls, stop, left, stopPending, deployment, seen, transitioning>>
    BY <1>1 DEF StartCalled, Elsewhere, switch, mirrors
  <2>3. ~starting
    BY <1>0, <2>2, OpsOfType DEF StartsShown
  <2>4. StartsShown' /\ CallsCounted'
    BY <1>0, <2>2, <2>3 DEF StartsShown, CallsCounted
  <2> QED BY <1>0, <2>1, <2>2, <2>4, StartSideInv DEF TypeOK
<1>2. CASE RotationStops
  <2>1. /\ seen \in Inst /\ StopBegins("rotation", seen)
        /\ UNCHANGED <<locked, enabled, isStarting, isStopping, starting, checksLeft, start,
                       lateCalls, left, deployment, seen, transitioning>>
    BY <1>0, <1>2 DEF RotationStops, switch, operation, mirrors, TypeOK
  <2>2. /\ stop' \in [Callers -> StopOps] /\ stop'["switch"] = stop["switch"]
        /\ stop'["guard"] = stop["guard"] /\ stopPending' \subseteq Inst /\ RetriesRemain'
    BY <2>1, StopBegun DEF Callers
  <2>3. StopsShown'
    BY <1>0, <2>1, <2>2 DEF StopsShown, Stopping
  <2> QED BY <1>0, <2>1, <2>2, <2>3, StopSideInv DEF TypeOK
<1>3. ASSUME UNCHANGED <<locked, switch, operation, stop>>, left' \subseteq Inst,
             stopPending' \subseteq Inst,
             deployment' \in [Inst -> {"off", "up", "stopping"}],
             seen' \in Inst \cup {None}, transitioning' \in BOOLEAN
      PROVE  SwitchInv'
  <2>1. UNCHANGED <<locked, enabled, isStarting, isStopping, checksLeft, start, starting,
                    lateCalls, stop>>
    BY <1>3 DEF switch, operation
  <2>2. StartsShown' /\ StopsShown' /\ GuardFacesOff' /\ CallsCounted' /\ RetriesRemain'
    BY <1>0, <2>1 DEF StartsShown, StopsShown, Stopping, GuardFacesOff, CallsCounted,
                      RetriesRemain
  <2> QED BY <1>0, <1>3, <2>1, <2>2 DEF SwitchInv, TypeOK
<1>4. CASE Poll \/ SelectedPolled
  <2>1. FirstActive \in Inst \cup {None}
    BY DEF FirstActive, Active
  <2>2. SelectedPolled => transitioning' \in BOOLEAN
    BY <1>0 DEF SelectedPolled, TypeOK
  <2> QED BY <1>0, <1>3, <1>4, <2>1, <2>2 DEF Poll, SelectedPolled, backend, TypeOK
<1>5. CASE BackendStep
  <2>1. ASSUME NEW i \in Inst, NEW ok \in BOOLEAN, LeftCallEnds(i, ok) PROVE SwitchInv'
    BY <1>0, <1>3, <2>1 DEF LeftCallEnds, Elsewhere, mirrors, TypeOK
  <2>2. ASSUME NEW i \in Inst, NEW ok \in BOOLEAN, StopProcessed(i, ok) PROVE SwitchInv'
    BY <1>0, <1>3, <2>2 DEF StopProcessed, mirrors, TypeOK
  <2>3. ASSUME NEW i \in Inst, DeploymentEnds(i) PROVE SwitchInv'
    BY <1>0, <1>3, <2>3 DEF DeploymentEnds, mirrors, TypeOK
  <2> QED BY <1>5, <2>1, <2>2, <2>3 DEF BackendStep
<1>6. CASE UNCHANGED vars
  BY <1>0, <1>3, <1>6 DEF vars, backend, mirrors, TypeOK
<1> QED BY <1>1, <1>2, <1>4, <1>5, <1>6, StartStepInv, StopStepInv, SwitchStepInv DEF Next

LEMMA SwitchInvariance == Spec => []SwitchInv
BY SwitchInitInv, SwitchNextInv, PTL DEF Spec

\* Every variable keeps its type (setEnabled, startAgentWithRetries and
\* stopAgentWithRecovery, and the effects on enabled).
THEOREM SwitchTypeCorrect == Spec => []TypeOK
<1>1. SwitchInv => TypeOK
  BY DEF SwitchInv
<1> QED BY <1>1, SwitchInvariance, PTL

\* Once auto-run is off, startAgentWithRetries has startService called at most once
\* more, for any number of instances and attempts, however often the switch is turned
\* and whoever turns it: the attempt that was past its look at the switch goes on, and
\* no other begins.
THEOREM RetriesAlwaysStop == Spec => []RetriesStop
<1>1. SwitchInv => RetriesStop
  BY DEF SwitchInv, CallsCounted, RetriesStop
<1> QED BY <1>1, SwitchInvariance, PTL

\* What keeps the sidebar's switch from being clicked: an attempt or a stop of the
\* switch that is under way, a commit that is due, or the service that is selected.
CommitDue == isStarting # starting \/ isStopping # Stopping
HeldByWork ==
  /\ ~Clickable =>
       \/ start.at \notin {"idle", "balances"} \/ Stopping
       \/ CommitDue \/ transitioning
  /\ Stopping => isStopping
  /\ stop["switch"] = IdleOp \/ stop["guard"] = IdleOp
  /\ checksLeft > 0 => ~enabled

\* The sidebar's switch (AutoRunControl.tsx:115) is never locked by what is already
\* over: isStarting is set only between an attempt's look at the switch and the end of
\* startAgentWithRetries, also when that fails or auto-run went off meanwhile, and
\* isStopping only while a stop of the switch or its guard runs; either is still
\* rendered only until the next commit; the rest of its lock is the service that is
\* selected.  The stops of setEnabled and of the race guard never overlap, and checks
\* are left only while auto-run is off.  It is the safety half of SwitchUnlocks and
\* GuardSeesItThrough.
THEOREM LockIsHeldByWork == Spec => []HeldByWork
<1>1. SwitchInv => HeldByWork
  <2> SUFFICES ASSUME SwitchInv PROVE HeldByWork
    OBVIOUS
  <2>1. ~Clickable => isStarting \/ isStopping \/ transitioning
    BY DEF Clickable
  <2>2. isStarting => CommitDue \/ start.at \notin {"idle", "balances"}
    <3>1. CASE starting
      BY <3>1 DEF SwitchInv, StartsShown
    <3>2. CASE isStarting = starting
      BY <3>1, <3>2
    <3>3. CASE isStarting # starting
      BY <3>3 DEF CommitDue
    <3> QED BY <3>2, <3>3
  <2>3. isStopping => CommitDue \/ Stopping
    BY DEF CommitDue, SwitchInv, TypeOK, Stopping
  <2> QED BY <2>1, <2>2, <2>3 DEF HeldByWork, SwitchInv, StopsShown, GuardFacesOff
<1> QED BY <1>1, SwitchInvariance, PTL
=============================================================================
