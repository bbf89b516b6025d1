---------------------------- MODULE PearlStoreProofs ----------------------------
(***************************************************************************)
(* What the store promises, proved for any finite set of keys, any content *)
(* of the Electron store, any number of writes and of launches.            *)
(***************************************************************************)
EXTENDS PearlStore, FiniteSetTheorems, SequenceTheorems, TLAPS

-----------------------------------------------------------------------------
(* Sequences of requests.                                                  *)

\* Removing the n-th element leaves exactly the others.
LEMMA Removing ==
  ASSUME NEW T, NEW s \in Seq(T), NEW n \in DOMAIN s
  PROVE  /\ RemoveAt(s, n) \in Seq(T)
         /\ \A m \in DOMAIN RemoveAt(s, n) :
              \E j \in DOMAIN s \ {n} : RemoveAt(s, n)[m] = s[j]
         /\ \A j \in DOMAIN s \ {n} :
              \E m \in DOMAIN RemoveAt(s, n) : RemoveAt(s, n)[m] = s[j]
<1> DEFINE r == RemoveAt(s, n)
<1> DEFINE u == SubSeq(s, 1, n - 1)
           v == SubSeq(s, n + 1, Len(s))
<1>1. n \in 1 .. Len(s) /\ Len(s) \in Nat /\ DOMAIN s = 1 .. Len(s)
  OBVIOUS
<1>2. \A i \in 1 .. Len(s) : s[i] \in T
  OBVIOUS
<1>3. /\ u \in Seq(T) /\ Len(u) = n - 1
      /\ \A m \in 1 .. n - 1 : u[m] = s[m]
  <2>1. \A i \in 1 .. n - 1 : s[i] \in T
    BY <1>1, <1>2
  <2> QED BY <1>1, <2>1, SubSeqProperties
<1>4. /\ v \in Seq(T) /\ Len(v) = Len(s) - n
      /\ \A m \in 1 .. Len(s) - n : v[m] = s[n + m]
  <2>1. \A i \in n + 1 .. Len(s) : s[i] \in T
    BY <1>1, <1>2
  <2>2. /\ v \in Seq(T)
        /\ Len(v) = IF n + 1 <= Len(s) THEN Len(s) - (n + 1) + 1 ELSE 0
        /\ \A i \in 1 .. Len(s) - (n + 1) + 1 : v[i] = s[n + 1 + i - 1]
    BY <1>1, <2>1, SubSeqProperties
  <2> HIDE DEF v
  <2> QED BY <1>1, <2>2
<1> HIDE DEF u, v
<1>5. /\ r \in Seq(T) /\ Len(r) = Len(s) - 1
      /\ \A m \in 1 .. Len(s) - 1 : r[m] = IF m < n THEN s[m] ELSE s[m + 1]
  <2>1. r = u \o v
    BY DEF RemoveAt, u, v
  <2>2. /\ u \o v \in Seq(T) /\ Len(u \o v) = Len(u) + Len(v)
        /\ \A i \in 1 .. Len(u) + Len(v) :
             (u \o v)[i] = IF i <= Len(u) THEN u[i] ELSE v[i - Len(u)]
    BY <1>3, <1>4, ConcatProperties
  <2>3. Len(u) + Len(v) = Len(s) - 1
    BY <1>1, <1>3, <1>4
  <2> HIDE DEF r
  <2>4. ASSUME NEW m \in 1 .. Len(s) - 1
        PROVE  r[m] = IF m < n THEN s[m] ELSE s[m + 1]
    <3>1. r[m] = IF m <= Len(u) THEN u[m] ELSE v[m - Len(u)]
      BY <2>1, <2>2, <2>3
    <3>2. CASE m < n
      BY <1>1, <1>3, <3>1, <3>2
    <3>3. CASE ~(m < n)
      <4>1. m - Len(u) \in 1 .. Len(s) - n /\ n + (m - Len(u)) = m + 1 /\ ~(m <= Len(u))
        BY <1>1, <1>3, <3>3
      <4> QED BY <1>4, <3>1, <3>3, <4>1
    <3> QED BY <3>2, <3>3
  <2> QED BY <2>1, <2>2, <2>3, <2>4
<1> HIDE DEF r
<1>6. DOMAIN r = 1 .. Len(s) - 1
  BY <1>5
<1>7. ASSUME NEW m \in DOMAIN r PROVE \E j \in DOMAIN s \ {n} : r[m] = s[j]
  <2>1. CASE m < n
    BY <1>1, <1>5, <1>6, <2>1
  <2>2. CASE ~(m < n)
    <3>1. r[m] = s[m + 1] /\ m + 1 \in DOMAIN s \ {n}
      BY <1>1, <1>5, <1>6, <2>2
    <3> QED BY <3>1
  <2> QED BY <2>1, <2>2
<1>8. ASSUME NEW j \in DOMAIN s \ {n} PROVE \E m \in DOMAIN r : r[m] = s[j]
  <2>1. CASE j < n
    <3>1. j \in DOMAIN r /\ r[j] = s[j]
      BY <1>1, <1>5, <1>6, <2>1
    <3> QED BY <3>1
  <2>2. CASE ~(j < n)
    <3>1. j - 1 \in DOMAIN r /\ r[j - 1] = s[j]
      BY <1>1, <1>5, <1>6, <2>2
    <3> QED BY <3>1
  <2> QED BY <2>1, <2>2
<1> QED BY <1>5, <1>7, <1>8 DEF r

\* SetToSeq lists exactly the elements of a finite set.
LEMMA Listing ==
  ASSUME NEW S, IsFiniteSet(S)
  PROVE  /\ SetToSeq(S) \in Seq(S)
         /\ \A x \in S : \E n \in DOMAIN SetToSeq(S) : SetToSeq(S)[n] = x
<1> DEFINE N == Cardinality(S)
<1>1. N \in Nat /\ ExistsBijection(1 .. N, S)
  BY FS_CardinalityType
<1>2. \E f \in [1 .. N -> S] : IsInjective(f)
  BY <1>1, Zenon DEF ExistsBijection, Bijection, Injection
<1>3. SetToSeq(S) \in [1 .. N -> S] /\ IsInjective(SetToSeq(S))
  BY <1>2 DEF SetToSeq
<1>4. SetToSeq(S) \in Injection(1 .. N, S)
  BY <1>3 DEF Injection
<1>5. Cardinality(1 .. N) = N
  BY <1>1, FS_Interval
<1>6. SetToSeq(S) \in Surjection(1 .. N, S)
  BY <1>4, <1>5, FS_Injection
<1>7. \A x \in S : \E n \in 1 .. N : SetToSeq(S)[n] = x
  BY <1>6 DEF Surjection
<1>8. DOMAIN SetToSeq(S) = 1 .. N
  BY <1>3
<1>9. SetToSeq(S) \in Seq(S)
  BY <1>1, <1>3
<1> QED BY <1>7, <1>8, <1>9

-----------------------------------------------------------------------------
(* The writes of one key.                                                  *)

\* Before hydration pendingOps holds every write of the user's, and each key's
\* last operation is the user's last write of it.
LastWrites ==
  \A k \in Keys :
    /\ OpsOn(k) # {} =>
         \E n \in OpsOn(k) : (\A m \in OpsOn(k) : m <= n) /\ pendingOps[n][2] = latest[k]
    /\ (~Hydrated /\ latest[k] # Absent) => OpsOn(k) # {}

\* What the drained store holds.
LEMMA Draining ==
  ASSUME TypeOK, LastWrites, NEW store \in Stores
  PROVE  /\ Drained(store) \in Stores
         /\ \A k \in Keys : OpsOn(k) # {} => Drained(store)[k] = latest[k]
         /\ pendingOps = <<>> => Drained(store) = store
<1>1. ASSUME NEW k \in Keys, OpsOn(k) # {}
      PROVE  pendingOps[LastOn(k)][2] = latest[k] /\ latest[k] \in Values
  <2>1. PICK n \in OpsOn(k) : (\A m \in OpsOn(k) : m <= n) /\ pendingOps[n][2] = latest[k]
    BY <1>1 DEF LastWrites
  <2>2. OpsOn(k) \subseteq Nat
    BY DEF OpsOn, TypeOK
  <2>3. LastOn(k) \in OpsOn(k) /\ \A m \in OpsOn(k) : m <= LastOn(k)
    BY <2>1 DEF LastOn
  <2>4. LastOn(k) = n
    BY <2>1, <2>2, <2>3
  <2>5. pendingOps[n] \in Keys \X Values
    BY <2>1 DEF OpsOn, TypeOK
  <2> QED BY <2>1, <2>4, <2>5
<1>2. Drained(store) \in Stores
  BY <1>1 DEF Drained, Stores
<1>3. \A k \in Keys : OpsOn(k) # {} => Drained(store)[k] = latest[k]
  BY <1>1 DEF Drained
<1>4. pendingOps = <<>> => Drained(store) = store
  BY DEF Drained, OpsOn, Stores
<1> QED BY <1>2, <1>3, <1>4

\* A write appended to pendingOps is the last one of its key.
LEMMA Queueing ==
  ASSUME TypeOK, LastWrites, NEW k \in Keys, NEW v \in Values, ~Hydrated,
         pendingOps' = Append(pendingOps, <<k, v>>),
         latest' = [latest EXCEPT ![k] = v], hydration' = hydration
  PROVE  LastWrites'
<1> DEFINE N == Len(pendingOps)
<1>1. /\ N \in Nat /\ pendingOps \in Seq(Keys \X Values) /\ latest \in Stores
      /\ DOMAIN pendingOps = 1 .. N
  BY DEF TypeOK
<1>2. /\ DOMAIN pendingOps' = 1 .. N + 1
      /\ \A n \in 1 .. N : pendingOps'[n] = pendingOps[n]
      /\ pendingOps'[N + 1] = <<k, v>>
  BY <1>1
<1>3. OpsOn(k)' = OpsOn(k) \cup {N + 1}
  BY <1>1, <1>2 DEF OpsOn
<1>4. \A j \in Keys \ {k} : OpsOn(j)' = OpsOn(j)
  BY <1>1, <1>2 DEF OpsOn
<1>5. \A j \in Keys : OpsOn(j) \subseteq 1 .. N
  BY <1>1 DEF OpsOn
<1>6. latest'[k] = v /\ \A j \in Keys \ {k} : latest'[j] = latest[j]
  BY <1>1 DEF Stores
<1>7. ASSUME NEW j \in Keys \ {k}
      PROVE  /\ OpsOn(j)' # {} => \E n \in OpsOn(j)' : (\A m \in OpsOn(j)' : m <= n)
                                                     /\ pendingOps'[n][2] = latest'[j]
             /\ (~Hydrated' /\ latest'[j] # Absent) => OpsOn(j)' # {}
  <2>1. OpsOn(j) # {} =>
          \E n \in OpsOn(j) : (\A m \in OpsOn(j) : m <= n) /\ pendingOps[n][2] = latest[j]
    BY DEF LastWrites
  <2>2. latest[j] # Absent => OpsOn(j) # {}
    BY DEF LastWrites
  <2> QED BY <1>2, <1>4, <1>5, <1>6, <2>1, <2>2
<1>8. /\ N + 1 \in OpsOn(k)' /\ \A m \in OpsOn(k)' : m <= N + 1
      /\ pendingOps'[N + 1][2] = latest'[k]
  BY <1>1, <1>2, <1>3, <1>5, <1>6
<1> QED BY <1>7, <1>8 DEF LastWrites

\* After hydration nothing waits.
LEMMA NothingWaits ==
  ASSUME Hydrated', pendingOps' = <<>>
  PROVE  LastWrites'
BY DEF LastWrites, OpsOn

\* Nothing of this changes.
LEMMA SameWrites ==
  ASSUME LastWrites, pendingOps' = pendingOps, latest' = latest, Hydrated' = Hydrated
  PROVE  LastWrites'
BY DEF LastWrites, OpsOn

-----------------------------------------------------------------------------
(* What the user wrote is what the app shows.                              *)

\* The second reading of the store happens only after the migration wrote.
RefetchAfterWrite == migration \in {"asking", "served"} => didWrite

IInv == TypeOK /\ LastWrites /\ RefetchAfterWrite /\ WritesAreSeen

\* The empty store, the only one before any write.
LEMMA EmptyIsStore == Empty \in Stores /\ \A k \in Keys : Empty[k] = Absent
BY DEF Empty, Stores

LEMMA InitIInv == Init => IInv
<1> SUFFICES ASSUME Init PROVE IInv
  OBVIOUS
<1>1. backend \in Stores
  BY EmptyIsStore, AutoRunIsKey DEF Init, Stores, Values
<1>2. TypeOK
  <2>1. 1 \in 1 .. MaxLaunches
    BY BoundsAreNat
  <2>2. pendingOps = <<>> /\ posts = <<>> /\ \A s : PostsOf(s) = {}
    BY DEF Init, PostsOf
  <2>3. pendingOps \in Seq(Keys \X Values) /\ posts \in Seq(Posts)
    BY <2>2
  <2>4. /\ done \in BOOLEAN /\ repaired \in BOOLEAN /\ didWrite \in BOOLEAN
        /\ failed \in BOOLEAN /\ written \subseteq Keys
    BY Zenon DEF Init
  <2>5. hydration = "asking" /\ retriesLeft \in 0 .. 3 /\ migration = "idle"
    BY DEF Init
  <2>6. response \in Stores /\ state \in Stores /\ snapshot \in Stores /\ latest \in Stores
    BY EmptyIsStore DEF Init
  <2>7. launch \in 1 .. MaxLaunches
    BY <2>1 DEF Init
  <2> QED BY <1>1, <2>2, <2>3, <2>4, <2>5, <2>6, <2>7 DEF TypeOK, Hydrated
<1>3. LastWrites /\ RefetchAfterWrite /\ WritesAreSeen
  BY EmptyIsStore DEF Init, LastWrites, OpsOn, RefetchAfterWrite, WritesAreSeen, Hydrated
<1> QED BY <1>2, <1>3 DEF IInv

\* Hydration ends with the drained store.
LEMMA HydrationStepKeeps ==
  ASSUME IInv, HydrationStep
  PROVE  IInv'
<1> USE DEF IInv
<1>1. ASSUME HydrationServed PROVE IInv'
  <2>1. TypeOK'
    BY <1>1 DEF HydrationServed, TypeOK, disk, migrating, Hydrated, PostsOf
  <2>2. LastWrites'
    BY <1>1, SameWrites DEF HydrationServed, Hydrated
  <2> QED BY <1>1, <2>1, <2>2
          DEF HydrationServed, RefetchAfterWrite, WritesAreSeen, migrating, Hydrated
<1>2. ASSUME NEW store \in Stores, HydratedWith(store), ~Hydrated,
             UNCHANGED <<disk, retriesLeft, posts, migrating, latest>>,
             snapshot' \in Stores, response' \in Stores
      PROVE  IInv'
  <2>1. state' = Drained(store) /\ pendingOps' = <<>> /\ Hydrated'
    BY <1>2 DEF HydratedWith, Hydrated
  <2>2. TypeOK'
    BY <1>2, <2>1, Draining DEF HydratedWith, TypeOK, disk, migrating, Hydrated, PostsOf
  <2>3. LastWrites'
    BY <2>1, NothingWaits
  <2>4. WritesAreSeen'
    BY <1>2, <2>1, Draining DEF WritesAreSeen, LastWrites
  <2>5. RefetchAfterWrite'
    BY <1>2 DEF RefetchAfterWrite, migrating
  <2> QED BY <2>2, <2>3, <2>4, <2>5
<1>3. ASSUME HydrationArrives PROVE IInv'
  <2>1. response \in Stores
    BY DEF TypeOK
  <2> QED BY <1>2, <1>3, <2>1, EmptyIsStore DEF HydrationArrives, Hydrated
<1>4. ASSUME hydration' = "waiting", hydration # "done", response' = Empty, retriesLeft > 0,
             UNCHANGED <<disk, retriesLeft, snapshot, state, pendingOps, posts,
                         migrating, latest>>
      PROVE  IInv'
  <2>1. TypeOK'
    BY <1>4, EmptyIsStore DEF TypeOK, disk, migrating, Hydrated, PostsOf
  <2>2. LastWrites'
    BY <1>4, SameWrites DEF Hydrated
  <2> QED BY <1>4, <2>1, <2>2 DEF RefetchAfterWrite, WritesAreSeen, migrating, Hydrated
<1>5. ASSUME HydrationFails PROVE IInv'
  <2>1. snapshot \in Stores
    BY DEF TypeOK
  <2> QED BY <1>2, <1>4, <1>5, <2>1, EmptyIsStore DEF HydrationFails, Hydrated
<1>6. ASSUME HydrationCorrupt PROVE IInv'
  <2>1. snapshot \in Stores /\ response \in Stores
    BY DEF TypeOK
  <2> QED BY <1>2, <1>6, <2>1, EmptyIsStore DEF HydrationCorrupt, Hydrated
<1>7. ASSUME HydrationRetries PROVE IInv'
  <2>1. TypeOK'
    BY <1>7 DEF HydrationRetries, TypeOK, disk, migrating, Hydrated, PostsOf
  <2>2. LastWrites'
    BY <1>7, SameWrites DEF HydrationRetries, Hydrated
  <2> QED BY <1>7, <2>1, <2>2
          DEF HydrationRetries, RefetchAfterWrite, WritesAreSeen, migrating, Hydrated
<1> QED BY <1>1, <1>3, <1>5, <1>6, <1>7 DEF HydrationStep

\* A request of one source is issued.
LEMMA Posting ==
  ASSUME TypeOK, NEW p \in Posts, posts' = Append(posts, p)
  PROVE  /\ posts' \in Seq(Posts)
         /\ \A s \in Sources : PostsOf(s)' # {} => PostsOf(s) # {} \/ p.by = s
         /\ \A n \in DOMAIN posts' : (n \in DOMAIN posts /\ posts'[n] = posts[n]) \/ posts'[n] = p
<1>1. posts \in Seq(Posts) /\ Len(posts) \in Nat /\ DOMAIN posts = 1 .. Len(posts)
  BY DEF TypeOK
<1>2. /\ posts' \in Seq(Posts) /\ DOMAIN posts' = 1 .. Len(posts) + 1
      /\ \A n \in 1 .. Len(posts) : posts'[n] = posts[n]
      /\ posts'[Len(posts) + 1] = p
  BY <1>1
<1> QED BY <1>1, <1>2 DEF PostsOf

LEMMA WritesKeep ==
  ASSUME IInv, NEW k \in Keys, NEW v \in Values, UserWrites(k, v)
  PROVE  IInv'
<1> USE DEF IInv
<1> DEFINE p == [key |-> k, value |-> v, by |-> "user"]
<1>1. p \in Posts /\ posts' = Append(posts, p)
  BY DEF UserWrites, Write, Posts, Sources
<1>2. latest' \in Stores /\ latest'[k] = v /\ \A j \in Keys \ {k} : latest'[j] = latest[j]
  BY DEF UserWrites, TypeOK, Stores
<1>3. TypeOK'
  <2>1. posts' \in Seq(Posts)
    BY <1>1, Posting
  <2>2. \A s \in {"migration", "repair"} : PostsOf(s)' # {} => PostsOf(s) # {}
    BY <1>1, Posting DEF Sources
  <2>3. state' \in Stores
    BY DEF UserWrites, Write, TypeOK, Stores
  <2>4. pendingOps' \in Seq(Keys \X Values) /\ (pendingOps' # <<>> => ~Hydrated)
    <3>1. <<k, v>> \in Keys \X Values /\ pendingOps \in Seq(Keys \X Values)
      BY DEF TypeOK
    <3>2. CASE Hydrated
      BY <3>1, <3>2 DEF UserWrites, Write, TypeOK
    <3>3. CASE ~Hydrated
      <4>1. pendingOps' = Append(pendingOps, <<k, v>>)
        BY <3>3 DEF UserWrites, Write
      <4> QED BY <3>1, <3>3, <4>1, AppendProperties
    <3> QED BY <3>2, <3>3
  <2> QED BY <1>2, <2>1, <2>2, <2>3, <2>4 DEF UserWrites, TypeOK, reading, migrating, Hydrated
<1>4. LastWrites'
  <2>1. CASE Hydrated
    BY <2>1, NothingWaits DEF UserWrites, Write, TypeOK, reading, Hydrated
  <2>2. CASE ~Hydrated
    BY <2>2, Queueing DEF UserWrites, Write, reading
  <2> QED BY <2>1, <2>2
<1>5. WritesAreSeen'
  BY <1>2 DEF UserWrites, Write, WritesAreSeen, TypeOK, Stores, reading, migrating, Hydrated
<1> QED BY <1>3, <1>4, <1>5 DEF UserWrites, RefetchAfterWrite, migrating

LEMMA SeedKeeps ==
  ASSUME IInv, SeedAutoRun
  PROVE  IInv'
<1> USE DEF IInv
<1> DEFINE p == [key |-> AutoRun, value |-> "off", by |-> "seed"]
<1>1. p \in Posts /\ posts' = Append(posts, p)
  BY AutoRunIsKey DEF SeedAutoRun, Write, Posts, Sources, Values
<1>2. TypeOK'
  <2>1. posts' \in Seq(Posts)
    BY <1>1, Posting
  <2>2. \A s \in {"migration", "repair"} : PostsOf(s)' # {} => PostsOf(s) # {}
    BY <1>1, Posting DEF Sources
  <2>3. state' \in Stores /\ pendingOps' = pendingOps
    BY AutoRunIsKey DEF SeedAutoRun, Write, TypeOK, Stores, Values
  <2> QED BY <2>1, <2>2, <2>3 DEF SeedAutoRun, TypeOK, disk, reading, migrating, Hydrated
<1>3. LastWrites'
  BY SameWrites DEF SeedAutoRun, Write, reading, Hydrated
<1>4. WritesAreSeen'
  BY AutoRunIsKey
     DEF SeedAutoRun, Write, WritesAreSeen, TypeOK, Stores, reading, migrating, Hydrated
<1> QED BY <1>2, <1>3, <1>4 DEF SeedAutoRun, RefetchAfterWrite, migrating

\* A settled request: the sequence of the others, and nothing the app shows.
LEMMA SettlingKeeps ==
  ASSUME IInv, NEW n \in DOMAIN posts, NEW ok \in BOOLEAN, Settle(n, ok), backend' \in Stores
  PROVE  IInv'
<1> USE DEF IInv
<1>1. posts \in Seq(Posts)
  BY DEF TypeOK
<1>2. posts' \in Seq(Posts)
  BY <1>1, Removing DEF Settle
<1>3. \A m \in DOMAIN posts' : \E j \in DOMAIN posts : posts'[m] = posts[j]
  BY <1>1, Removing DEF Settle
<1>4. \A s \in Sources : PostsOf(s)' # {} => PostsOf(s) # {}
  BY <1>3 DEF PostsOf
<1>5. didWrite' \in BOOLEAN /\ failed' \in BOOLEAN /\ (didWrite => didWrite')
  BY DEF Settle, TypeOK
<1>6. TypeOK'
  BY <1>2, <1>4, <1>5 DEF Settle, TypeOK, reading, Hydrated, Sources
<1>7. LastWrites'
  BY SameWrites DEF Settle, reading, Hydrated
<1> QED BY <1>5, <1>6, <1>7 DEF Settle, RefetchAfterWrite, WritesAreSeen, reading, Hydrated

\* The requests phase 1 issues: one for each missing key.
Copies == {[key |-> k, value |-> Legacy[k], by |-> "migration"] : k \in Missing}

LEMMA CopiesIssued ==
  ASSUME TypeOK, posts' = posts \o SetToSeq(Copies)
  PROVE  /\ posts' \in Seq(Posts)
         /\ \A n \in DOMAIN posts' :
              (n \in DOMAIN posts /\ posts'[n] = posts[n]) \/ posts'[n] \in Copies
         /\ \A c \in Copies : \E n \in DOMAIN posts' : posts'[n] = c
<1> DEFINE q == SetToSeq(Copies)
<1>1. Missing \subseteq Keys /\ IsFiniteSet(Missing)
  BY KeysAreFinite, FS_Subset DEF Missing
<1>2. Copies \subseteq Posts
  BY <1>1, LegacyType DEF Copies, Missing, Posts, Sources, Stores
<1>3. IsFiniteSet(Copies)
  <2> DEFINE f == [k \in Missing |-> [key |-> k, value |-> Legacy[k], by |-> "migration"]]
  <2>1. f \in Surjection(Missing, Copies)
    BY DEF Copies, Surjection
  <2> QED BY <1>1, <2>1, FS_Surjection
<1>4. q \in Seq(Copies) /\ \A c \in Copies : \E n \in DOMAIN q : q[n] = c
  BY <1>3, Listing
<1> HIDE DEF q
<1>5. posts \in Seq(Posts) /\ q \in Seq(Posts)
  <2>1. posts \in Seq(Posts)
    BY DEF TypeOK
  <2>2. q \in Seq(Posts)
    BY <1>2, <1>4
  <2> QED BY <2>1, <2>2
<1>6. posts' = posts \o q
  BY DEF q
<1>7. /\ posts' \in Seq(Posts) /\ Len(posts') = Len(posts) + Len(q)
      /\ \A n \in 1 .. Len(posts) + Len(q) :
           posts'[n] = IF n <= Len(posts) THEN posts[n] ELSE q[n - Len(posts)]
  BY <1>5, <1>6, ConcatProperties
<1>8. /\ Len(posts) \in Nat /\ Len(q) \in Nat
      /\ DOMAIN posts = 1 .. Len(posts) /\ DOMAIN q = 1 .. Len(q)
      /\ DOMAIN posts' = 1 .. Len(posts) + Len(q)
  BY <1>5, <1>7
<1>9. ASSUME NEW n \in DOMAIN posts'
      PROVE  (n \in DOMAIN posts /\ posts'[n] = posts[n]) \/ posts'[n] \in Copies
  <2>1. CASE n <= Len(posts)
    BY <1>7, <1>8, <2>1
  <2>2. CASE ~(n <= Len(posts))
    <3>1. n - Len(posts) \in DOMAIN q /\ posts'[n] = q[n - Len(posts)]
      BY <1>7, <1>8, <2>2
    <3> QED BY <1>4, <3>1
  <2> QED BY <2>1, <2>2
<1>10. ASSUME NEW c \in Copies PROVE \E n \in DOMAIN posts' : posts'[n] = c
  <2>1. PICK n \in DOMAIN q : q[n] = c
    BY <1>4
  <2>2. Len(posts) + n \in DOMAIN posts' /\ posts'[Len(posts) + n] = q[(Len(posts) + n) - Len(posts)]
    BY <1>7, <1>8, <2>1
  <2>3. (Len(posts) + n) - Len(posts) = n
    BY <1>8, <2>1
  <2> QED BY <2>1, <2>2, <2>3
<1> QED BY <1>7, <1>9, <1>10

\* A migration step that leaves the requests and what is shown alone.
LEMMA QuietMigration ==
  ASSUME IInv, UNCHANGED <<backend, written, launch, reading, state, pendingOps, posts, latest>>,
         done' \in BOOLEAN, repaired' \in BOOLEAN, response' \in Stores, failed' \in BOOLEAN,
         didWrite' = didWrite, Hydrated,
         migration' \in {"repair", "asking", "served", "done"},
         PostsOf("migration") = {}, PostsOf("repair") = {},
         migration' \in {"asking", "served"} => didWrite
  PROVE  IInv'
<1> USE DEF IInv
<1>1. PostsOf("migration")' = {} /\ PostsOf("repair")' = {}
  BY DEF PostsOf
<1>2. TypeOK'
  BY <1>1 DEF TypeOK, reading, Hydrated
<1>3. LastWrites'
  BY SameWrites DEF reading, Hydrated
<1> QED BY <1>2, <1>3 DEF RefetchAfterWrite, WritesAreSeen, reading, Hydrated

LEMMA MigrationStepKeeps ==
  ASSUME IInv, MigrationStep
  PROVE  IInv'
<1> USE DEF IInv
<1>b. /\ done \in BOOLEAN /\ repaired \in BOOLEAN /\ didWrite \in BOOLEAN /\ failed \in BOOLEAN
      /\ response \in Stores
  BY Zenon DEF TypeOK
<1>a. /\ PostsOf("migration") # {} => migration = "writing"
      /\ PostsOf("repair") # {} => migration = "repairing"
      /\ migration # "idle" => Hydrated
  BY DEF TypeOK
<1>1. ASSUME MigrationBegins, ~done PROVE IInv'
  <2>1. posts' = posts \o SetToSeq(Copies) /\ migration' = "writing" /\ migration = "idle"
    BY <1>1 DEF MigrationBegins, Copies
  <2>2. posts' \in Seq(Posts)
    BY <2>1, CopiesIssued
  <2>3. PostsOf("repair")' = {}
    <3>1. \A c \in Copies : c.by # "repair"
      BY DEF Copies
    <3>2. \A n \in DOMAIN posts' :
            (n \in DOMAIN posts /\ posts'[n] = posts[n]) \/ posts'[n] \in Copies
      BY <2>1, CopiesIssued
    <3>3. PostsOf("repair") = {}
      BY <1>a, <2>1
    <3> QED BY <3>1, <3>2, <3>3 DEF PostsOf
  <2>4. TypeOK'
    BY <1>1, <2>1, <2>2, <2>3 DEF MigrationBegins, TypeOK, disk, reading, Hydrated
  <2>5. LastWrites'
    BY <1>1, SameWrites DEF MigrationBegins, reading, Hydrated
  <2> QED BY <1>1, <2>1, <2>4, <2>5
          DEF MigrationBegins, RefetchAfterWrite, WritesAreSeen, reading, Hydrated
<1>2. ASSUME MigrationBegins, done PROVE IInv'
  <2>1. migration' \in {"done", "repair"} /\ Hydrated /\ migration = "idle" /\ posts' = posts
    BY <1>2 DEF MigrationBegins
  <2>2. PostsOf("migration") = {} /\ PostsOf("repair") = {}
    BY <1>a, <2>1
  <2>3. UNCHANGED <<done, repaired, response, failed, didWrite, backend, written, launch,
                    reading, state, pendingOps, latest>>
    BY <1>2, Zenon DEF MigrationBegins, disk
  <2> QED BY <1>b, <2>1, <2>2, <2>3, QuietMigration
<1>3. ASSUME WritesSettled PROVE IInv'
  <2>1. migration' = "repair" /\ migration = "writing" /\ PostsOf("migration") = {}
    BY <1>3 DEF WritesSettled
  <2>2. PostsOf("repair") = {} /\ Hydrated
    BY <1>a, <2>1
  <2>3. done' \in BOOLEAN /\ failed' \in BOOLEAN
    BY <1>3, Zenon DEF WritesSettled
  <2>4. UNCHANGED <<repaired, response, didWrite, backend, written, launch, reading, state,
                    pendingOps, posts, latest>>
    BY <1>3 DEF WritesSettled
  <2> QED BY <1>b, <2>1, <2>2, <2>3, <2>4, QuietMigration
<1>4. ASSUME RepairBegins, posts' # posts PROVE IInv'
  <2> DEFINE p == [key |-> AutoRun, value |-> "on", by |-> "repair"]
  <2>1. posts' = Append(posts, p) /\ migration' = "repairing" /\ migration = "repair"
        /\ repaired' = repaired
    BY <1>4 DEF RepairBegins
  <2>2. p \in Posts
    BY AutoRunIsKey DEF Posts, Sources, Values
  <2>3. posts' \in Seq(Posts) /\ (PostsOf("migration")' # {} => PostsOf("migration") # {})
    BY <2>1, <2>2, Posting DEF Sources
  <2>4. PostsOf("migration")' = {}
    BY <1>a, <2>1, <2>3
  <2>5. TypeOK'
    BY <1>4, <2>1, <2>3, <2>4 DEF RepairBegins, TypeOK, reading, Hydrated
  <2>6. LastWrites'
    BY <1>4, SameWrites DEF RepairBegins, reading, Hydrated
  <2> QED BY <1>4, <2>1, <2>5, <2>6
          DEF RepairBegins, RefetchAfterWrite, WritesAreSeen, reading, Hydrated
<1>5. ASSUME RepairBegins, posts' = posts PROVE IInv'
  <2>1. migration = "repair" /\ posts \in Seq(Posts)
    BY <1>5 DEF RepairBegins, TypeOK
  <2>2. posts' # Append(posts, [key |-> AutoRun, value |-> "on", by |-> "repair"])
    BY <1>5, <2>1
  <2>3. migration' = AfterRepair /\ repaired' = TRUE
    BY <1>5, <2>2 DEF RepairBegins
  <2>4. PostsOf("migration") = {} /\ PostsOf("repair") = {} /\ Hydrated
    BY <1>a, <2>1
  <2>5. UNCHANGED <<done, response, failed, didWrite, backend, written, launch, reading,
                    state, pendingOps, latest>>
    BY <1>5, Zenon DEF RepairBegins
  <2> QED BY <1>b, <1>5, <2>3, <2>4, <2>5, QuietMigration DEF AfterRepair
<1>6. ASSUME RepairSettled PROVE IInv'
  <2>1. migration = "repairing" /\ PostsOf("repair") = {}
        /\ migration' \in {"done", AfterRepair} /\ repaired' \in {repaired, TRUE}
    BY <1>6 DEF RepairSettled
  <2>2. PostsOf("migration") = {} /\ Hydrated
    BY <1>a, <2>1
  <2>3. UNCHANGED <<done, response, failed, didWrite, backend, written, launch, reading,
                    state, pendingOps, posts, latest>>
    BY <1>6, Zenon DEF RepairSettled
  <2>4. repaired' \in BOOLEAN
    BY <1>b, <2>1, Zenon
  <2> QED BY <1>b, <2>1, <2>2, <2>3, <2>4, QuietMigration DEF AfterRepair
<1>7. ASSUME RefetchServed \/ RefetchFails PROVE IInv'
  <2>1. /\ migration \in {"asking", "served"} /\ migration' \in {"served", "done"}
        /\ response' \in {backend, Empty}
    BY <1>7 DEF RefetchServed, RefetchFails
  <2>2. didWrite /\ PostsOf("migration") = {} /\ PostsOf("repair") = {} /\ Hydrated
    BY <1>a, <2>1 DEF RefetchAfterWrite
  <2>3. UNCHANGED <<done, repaired, failed, didWrite, backend, written, launch, reading,
                    state, pendingOps, posts, latest>>
    BY <1>7, Zenon DEF RefetchServed, RefetchFails, disk
  <2>4. response' \in Stores
    BY <2>1, EmptyIsStore DEF TypeOK
  <2> QED BY <1>b, <2>1, <2>2, <2>3, <2>4, QuietMigration
<1>8. ASSUME RefetchArrives PROVE IInv'
  <2>1. migration = "served" /\ Hydrated /\ didWrite
    BY <1>a, <1>8 DEF RefetchArrives, RefetchAfterWrite
  <2>2. pendingOps = <<>> /\ state' = response /\ pendingOps' = <<>>
    BY <1>b, <1>8, <2>1, Draining DEF RefetchArrives, TypeOK
  <2>3. TypeOK'
    BY <1>8, <2>1, <2>2, EmptyIsStore DEF RefetchArrives, TypeOK, disk, reading, Hydrated, PostsOf
  <2>4. LastWrites'
    BY <1>8, <2>1, <2>2, NothingWaits DEF RefetchArrives, reading, Hydrated
  <2> QED BY <1>8, <2>1, <2>3, <2>4 DEF RefetchArrives, RefetchAfterWrite, WritesAreSeen
<1> QED BY <1>1, <1>2, <1>3, <1>4, <1>5, <1>6, <1>7, <1>8 DEF MigrationStep

LEMMA RestartKeeps ==
  ASSUME IInv, Restart
  PROVE  IInv'
<1>1. backend \in Stores /\ done \in BOOLEAN /\ repaired \in BOOLEAN /\ written \subseteq Keys
  BY Zenon DEF IInv, TypeOK
<1>2. launch' \in 1 .. MaxLaunches
  BY BoundsAreNat DEF IInv, TypeOK, Restart
<1>3. /\ backend' = backend /\ done' = done /\ repaired' = repaired /\ written' = written
      /\ didWrite' \in BOOLEAN /\ failed' \in BOOLEAN
  BY Zenon DEF Restart
<1>4. /\ pendingOps' = <<>> /\ posts' = <<>> /\ hydration' = "asking" /\ retriesLeft' = 3
      /\ migration' = "idle" /\ response' = Empty /\ state' = Empty /\ snapshot' = Empty
      /\ latest' = Empty
  BY DEF Restart
<1>5. \A s : PostsOf(s)' = {}
  BY <1>4 DEF PostsOf
<1>6. TypeOK'
  <2>1. pendingOps' \in Seq(Keys \X Values) /\ posts' \in Seq(Posts)
    BY <1>4
  <2> QED BY <1>1, <1>2, <1>3, <1>4, <1>5, <2>1, EmptyIsStore DEF TypeOK, Hydrated
<1>7. LastWrites' /\ RefetchAfterWrite' /\ WritesAreSeen'
  BY <1>4, EmptyIsStore DEF LastWrites, OpsOn, RefetchAfterWrite, WritesAreSeen, Hydrated
<1> QED BY <1>6, <1>7 DEF IInv

LEMMA NextIInv == IInv /\ [Next]_vars => IInv'
<1> SUFFICES ASSUME IInv, [Next]_vars PROVE IInv'
  OBVIOUS
<1>1. ASSUME NEW n \in DOMAIN posts, NEW answered \in BOOLEAN, PostProcessed(n, answered)
      PROVE  IInv'
  <2>1. posts[n] \in Posts /\ backend \in Stores
    BY DEF IInv, TypeOK
  <2>2. backend' \in Stores
    BY <1>1, <2>1 DEF PostProcessed, Stores, Posts
  <2> QED BY <1>1, <2>2, SettlingKeeps DEF PostProcessed
<1>2. ASSUME NEW n \in DOMAIN posts, PostRefused(n) PROVE IInv'
  BY <1>2, SettlingKeeps DEF PostRefused, IInv, TypeOK
<1>3. CASE UNCHANGED vars
  <2>1. LastWrites'
    BY <1>3, SameWrites DEF vars, reading, Hydrated, IInv
  <2> QED BY <1>3, <2>1 DEF vars, disk, reading, migrating, IInv, TypeOK, RefetchAfterWrite,
                            WritesAreSeen, Hydrated, PostsOf
<1> QED
  BY <1>1, <1>2, <1>3, HydrationStepKeeps, MigrationStepKeeps, WritesKeep, SeedKeeps,
     RestartKeeps DEF Next

\* Every variable keeps its type: nothing waits in pendingOps once the store is
\* read, and the migration has requests under way only where it awaits them.
THEOREM TypeCorrect == Spec => []TypeOK
<1>1. IInv => TypeOK
  BY DEF IInv
<1> QED BY <1>1, InitIInv, NextIInv, PTL DEF Spec

\* What the user wrote in this launch is what the app shows, before and after the
\* store was read, unless the migration read it a second time.
THEOREM WritesNotLost == Spec => []WritesAreSeen
<1>1. IInv => WritesAreSeen
  BY DEF IInv
<1> QED BY <1>1, InitIInv, NextIInv, PTL DEF Spec

-----------------------------------------------------------------------------
(* The migration leaves nothing behind.                                    *)

Arrived(k) == Legacy[k] # Absent => backend[k] # Absent

\* What was ever read from the backend is still there.
SeenIsStored ==
  \A k \in Keys : (snapshot[k] # Absent \/ response[k] # Absent) => backend[k] # Absent

\* While phase 1 waits and no write of it failed, each key has arrived or is under way.
ArrivedOrComing ==
  (migration = "writing" /\ ~failed) =>
    \A k \in Keys : Arrived(k) \/ \E n \in PostsOf("migration") : posts[n].key = k

\* Nobody but the migration writes a key that neither the user nor auto-run wrote.
Untouched ==
  \A k \in Keys \ (written \cup {AutoRun}) :
    /\ backend[k] \in {Absent, Legacy[k]}
    /\ \A n \in DOMAIN posts : posts[n].key = k => posts[n].value = Legacy[k]

DoneMeansArrived == done => \A k \in Keys : Arrived(k)

Copied == SeenIsStored /\ ArrivedOrComing /\ Untouched /\ DoneMeansArrived

LEMMA InitCopied == Init => Copied
<1> SUFFICES ASSUME Init PROVE Copied
  OBVIOUS
<1>1. \A k \in Keys \ {AutoRun} : backend[k] = Absent
  BY EmptyIsStore DEF Init, Stores
<1>2. posts = <<>> /\ migration = "idle" /\ ~done /\ snapshot = Empty /\ response = Empty
  BY DEF Init
<1> QED BY <1>1, <1>2, EmptyIsStore
        DEF Copied, SeenIsStored, ArrivedOrComing, Untouched, DoneMeansArrived

\* A step that issues nothing and stores nothing, and does not end phase 1.
LEMMA CopyingUndisturbed ==
  ASSUME Copied, UNCHANGED <<backend, posts, migration, failed, done>>, written \subseteq written',
         \A k \in Keys : snapshot'[k] \in {snapshot[k], response[k]},
         \A k \in Keys : response'[k] \in {response[k], backend[k], Absent}
  PROVE  Copied'
<1>1. SeenIsStored'
  <2> SUFFICES ASSUME NEW k \in Keys, snapshot'[k] # Absent \/ response'[k] # Absent
               PROVE  backend[k] # Absent
    BY DEF SeenIsStored
  <2> QED BY DEF Copied, SeenIsStored
<1>2. ArrivedOrComing' /\ DoneMeansArrived'
  BY DEF Copied, ArrivedOrComing, DoneMeansArrived, Arrived, PostsOf
<1>3. Untouched'
  BY DEF Copied, Untouched
<1> QED BY <1>1, <1>2, <1>3 DEF Copied

\* The same, outside phase 1.
LEMMA CopyingOver ==
  ASSUME Copied, UNCHANGED <<backend, posts, written>>, migration' # "writing",
         done' => (done \/ \A k \in Keys : Arrived(k)),
         \A k \in Keys : snapshot'[k] = snapshot[k],
         \A k \in Keys : response'[k] \in {response[k], backend[k], Absent}
  PROVE  Copied'
<1>1. SeenIsStored'
  <2> SUFFICES ASSUME NEW k \in Keys, snapshot'[k] # Absent \/ response'[k] # Absent
               PROVE  backend[k] # Absent
    BY DEF SeenIsStored
  <2> QED BY DEF Copied, SeenIsStored
<1>2. DoneMeansArrived'
  BY DEF Copied, DoneMeansArrived, Arrived
<1>3. Untouched' /\ ArrivedOrComing'
  BY DEF Copied, Untouched, ArrivedOrComing
<1> QED BY <1>1, <1>2, <1>3 DEF Copied

\* A write that is not the migration's changes no key it must not.
LEMMA CopyingBesides ==
  ASSUME TypeOK, Copied, NEW p \in Posts, posts' = Append(posts, p),
         p.key \in written' \cup {AutoRun}, written \subseteq written',
         UNCHANGED <<backend, migration, failed, done, snapshot, response>>
  PROVE  Copied'
<1>1. \A n \in DOMAIN posts' : (n \in DOMAIN posts /\ posts'[n] = posts[n]) \/ posts'[n] = p
  BY Posting
<1>2. \A n \in DOMAIN posts : n \in DOMAIN posts' /\ posts'[n] = posts[n]
  BY DEF TypeOK
<1>3. SeenIsStored' /\ DoneMeansArrived'
  BY DEF Copied, SeenIsStored, DoneMeansArrived, Arrived
<1>4. ArrivedOrComing'
  BY <1>2 DEF Copied, ArrivedOrComing, Arrived, PostsOf
<1>5. Untouched'
  BY <1>1 DEF Copied, Untouched
<1> QED BY <1>3, <1>4, <1>5 DEF Copied

LEMMA CopyingBegins ==
  ASSUME TypeOK, Copied, MigrationBegins, ~done
  PROVE  Copied'
<1>1. posts' = posts \o SetToSeq(Copies) /\ UNCHANGED <<backend, done, written, snapshot, response>>
  BY DEF MigrationBegins, Copies, disk, reading
<1>2. /\ \A n \in DOMAIN posts' :
           (n \in DOMAIN posts /\ posts'[n] = posts[n]) \/ posts'[n] \in Copies
      /\ \A c \in Copies : \E n \in DOMAIN posts' : posts'[n] = c
  BY <1>1, CopiesIssued
<1>3. \A c \in Copies : c.value = Legacy[c.key] /\ c.by = "migration"
  BY DEF Copies
<1>4. ArrivedOrComing'
  <2> SUFFICES ASSUME NEW k \in Keys, ~Arrived(k)'
               PROVE  \E n \in PostsOf("migration")' : posts'[n].key = k
    BY DEF ArrivedOrComing
  <2>1. k \in Missing
    BY <1>1 DEF Copied, SeenIsStored, Arrived, Missing
  <2> DEFINE c == [key |-> k, value |-> Legacy[k], by |-> "migration"]
  <2>2. c \in Copies
    BY <2>1 DEF Copies
  <2>3. PICK n \in DOMAIN posts' : posts'[n] = c
    BY <1>2, <2>2
  <2> QED BY <2>3 DEF PostsOf
<1>5. Untouched'
  BY <1>1, <1>2, <1>3 DEF Copied, Untouched
<1>6. SeenIsStored' /\ DoneMeansArrived'
  BY <1>1 DEF Copied, SeenIsStored, DoneMeansArrived, Arrived
<1> QED BY <1>4, <1>5, <1>6 DEF Copied

\* The flag is set only over a backend in which every key has arrived.
LEMMA CopyingEnds ==
  ASSUME TypeOK, Copied, WritesSettled
  PROVE  Copied'
<1>1. done' => \A k \in Keys : Arrived(k)
  BY DEF WritesSettled, Copied, ArrivedOrComing
<1> QED BY <1>1, CopyingOver DEF WritesSettled, reading

\* A settled request: what it carried has arrived, or the phase has failed.
LEMMA CopyingSettles ==
  ASSUME TypeOK, Copied, NEW n \in DOMAIN posts, NEW ok \in BOOLEAN, Settle(n, ok),
         \/ backend' = [backend EXCEPT ![posts[n].key] = posts[n].value]
         \/ backend' = backend /\ ~ok
  PROVE  Copied'
<1> DEFINE p == posts[n]
<1>1. p \in Posts /\ backend \in Stores /\ posts \in Seq(Posts) /\ p.value # Absent
  <2>1. p \in Posts /\ backend \in Stores /\ posts \in Seq(Posts)
    BY DEF TypeOK
  <2>2. p.value \in Values
    BY <2>1 DEF Posts
  <2> QED BY <2>1, <2>2 DEF Values, Absent
<1>2. \A k \in Keys : backend'[k] = backend[k] \/ (k = p.key /\ backend'[k] = p.value)
  BY <1>1 DEF Stores
<1>3. \A k \in Keys : backend[k] # Absent => backend'[k] # Absent
  BY <1>1, <1>2
<1>4. \A m \in DOMAIN posts' : \E j \in DOMAIN posts : posts'[m] = posts[j]
  BY <1>1, Removing DEF Settle
<1>5. \A j \in DOMAIN posts \ {n} : \E m \in DOMAIN posts' : posts'[m] = posts[j]
  BY <1>1, Removing DEF Settle
<1>6. UNCHANGED <<done, written, snapshot, response, migration>>
  BY DEF Settle, reading
<1>7. SeenIsStored' /\ DoneMeansArrived'
  BY <1>3, <1>6 DEF Copied, SeenIsStored, DoneMeansArrived, Arrived
<1>8. Untouched'
  <2> SUFFICES ASSUME NEW k \in Keys \ (written \cup {AutoRun})
               PROVE  /\ backend'[k] \in {Absent, Legacy[k]}
                      /\ \A m \in DOMAIN posts' : posts'[m].key = k => posts'[m].value = Legacy[k]
    BY <1>6 DEF Untouched
  <2>1. /\ backend[k] \in {Absent, Legacy[k]}
        /\ \A j \in DOMAIN posts : posts[j].key = k => posts[j].value = Legacy[k]
    BY DEF Copied, Untouched
  <2> QED BY <1>2, <1>4, <2>1
<1>9. ArrivedOrComing'
  <2> SUFFICES ASSUME migration = "writing", ~failed', NEW k \in Keys, ~Arrived(k)'
               PROVE  \E m \in PostsOf("migration")' : posts'[m].key = k
    BY <1>6 DEF ArrivedOrComing
  <2>1. ~Arrived(k)
    BY <1>3 DEF Arrived
  <2>2. ~failed /\ (p.by = "migration" => ok)
    BY DEF Settle, TypeOK
  <2>3. PICK j \in PostsOf("migration") : posts[j].key = k
    BY <2>1, <2>2 DEF Copied, ArrivedOrComing
  <2>4. j # n
    <3> SUFFICES ASSUME j = n PROVE FALSE
      OBVIOUS
    <3>1. ok /\ p.key = k
      BY <2>2, <2>3 DEF PostsOf
    <3>2. backend'[k] = p.value
      BY <1>1, <3>1 DEF Stores
    <3> QED BY <1>1, <3>2 DEF Arrived
  <2>5. PICK m \in DOMAIN posts' : posts'[m] = posts[j]
    BY <1>5, <2>3, <2>4 DEF PostsOf
  <2> QED BY <2>3, <2>5 DEF PostsOf
<1> QED BY <1>7, <1>8, <1>9 DEF Copied

LEMMA NextCopied == TypeOK /\ Copied /\ [Next]_vars => Copied'
<1> SUFFICES ASSUME TypeOK, Copied, [Next]_vars PROVE Copied'
  OBVIOUS
<1>1. ASSUME HydrationStep PROVE Copied'
  <2>1. UNCHANGED <<backend, posts, migration, failed, done, written>>
    BY <1>1 DEF HydrationStep, HydrationServed, HydrationArrives, HydrationFails,
                HydrationCorrupt, HydrationRetries, disk, migrating
  <2>2. /\ snapshot' \in {snapshot, response} /\ response' \in {response, backend, Empty}
    BY <1>1 DEF HydrationStep, HydrationServed, HydrationArrives, HydrationFails,
                HydrationCorrupt, HydrationRetries
  <2> QED BY <2>1, <2>2, EmptyIsStore, CopyingUndisturbed
<1>2. ASSUME NEW k \in Keys, NEW v \in Values, UserWrites(k, v) PROVE Copied'
  <2> DEFINE p == [key |-> k, value |-> v, by |-> "user"]
  <2>1. p \in Posts /\ posts' = Append(posts, p) /\ p.key \in written'
    BY <1>2 DEF UserWrites, Write, Posts, Sources
  <2>2. UNCHANGED <<backend, migration, failed, done, snapshot, response>>
        /\ written \subseteq written'
    BY <1>2 DEF UserWrites, reading, migrating
  <2> QED BY <2>1, <2>2, CopyingBesides
<1>3. ASSUME SeedAutoRun PROVE Copied'
  <2> DEFINE p == [key |-> AutoRun, value |-> "off", by |-> "seed"]
  <2>1. p \in Posts /\ posts' = Append(posts, p) /\ p.key = AutoRun
    BY <1>3, AutoRunIsKey DEF SeedAutoRun, Write, Posts, Sources, Values
  <2>2. UNCHANGED <<backend, migration, failed, done, snapshot, response, written>>
    BY <1>3 DEF SeedAutoRun, disk, reading, migrating
  <2> QED BY <2>1, <2>2, CopyingBesides
<1>4. ASSUME NEW n \in DOMAIN posts, NEW answered \in BOOLEAN, PostProcessed(n, answered)
      PROVE  Copied'
  BY <1>4, CopyingSettles DEF PostProcessed
<1>5. ASSUME NEW n \in DOMAIN posts, PostRefused(n) PROVE Copied'
  BY <1>5, CopyingSettles DEF PostRefused
<1>6. ASSUME MigrationBegins, done PROVE Copied'
  <2>1. migration' # "writing"
    BY <1>6 DEF MigrationBegins
  <2> QED BY <1>6, <2>1, CopyingOver DEF MigrationBegins, disk, reading
<1>7. ASSUME RepairBegins PROVE Copied'
  <2>1. UNCHANGED <<backend, written, snapshot, response, done, failed>>
    BY <1>7 DEF RepairBegins, reading
  <2>2. migration' # "writing" /\ migration # "writing"
    BY <1>7 DEF RepairBegins, AfterRepair
  <2>3. CASE posts' = posts
    BY <2>1, <2>2, <2>3, CopyingOver
  <2>4. CASE posts' # posts
    <3> DEFINE p == [key |-> AutoRun, value |-> "on", by |-> "repair"]
    <3>1. p \in Posts /\ posts' = Append(posts, p)
      BY <1>7, <2>4, AutoRunIsKey DEF RepairBegins, Posts, Sources, Values
    <3>2. \A n \in DOMAIN posts' :
            (n \in DOMAIN posts /\ posts'[n] = posts[n]) \/ posts'[n] = p
      BY <3>1, Posting
    <3>3. Untouched'
      BY <2>1, <3>2 DEF Copied, Untouched
    <3> QED BY <2>1, <2>2, <3>3
            DEF Copied, SeenIsStored, ArrivedOrComing, DoneMeansArrived, Arrived
  <2> QED BY <2>3, <2>4
<1>8. ASSUME RepairSettled \/ RefetchServed \/ RefetchFails \/ RefetchArrives PROVE Copied'
  <2>1. UNCHANGED <<backend, posts, written, done, snapshot>> /\ migration' # "writing"
    BY <1>8 DEF RepairSettled, RefetchServed, RefetchFails, RefetchArrives, AfterRepair,
                disk, reading
  <2>2. response' \in {response, backend, Empty}
    BY <1>8 DEF RepairSettled, RefetchServed, RefetchFails, RefetchArrives
  <2> QED BY <2>1, <2>2, EmptyIsStore, CopyingOver
<1>9. ASSUME Restart PROVE Copied'
  <2>1. UNCHANGED <<backend, done, written>> /\ posts' = <<>> /\ migration' = "idle"
        /\ snapshot' = Empty /\ response' = Empty
    BY <1>9 DEF Restart
  <2> QED BY <2>1, EmptyIsStore
          DEF Copied, SeenIsStored, ArrivedOrComing, Untouched, DoneMeansArrived, Arrived
<1>10. CASE UNCHANGED vars
  BY <1>10, CopyingUndisturbed DEF vars, disk, reading, migrating
<1> QED
  BY <1>1, <1>2, <1>3, <1>4, <1>5, <1>6, <1>7, <1>8, <1>9, <1>10, CopyingBegins, CopyingEnds
     DEF Next, MigrationStep

\* Once the migration is declared complete, every key of the Electron store is in
\* the backend, through refusals, lost answers and crashes, and unchanged unless
\* the user or auto-run wrote it.
THEOREM MigrationComplete == Spec => []NothingLeftBehind
<1>1. Copied => NothingLeftBehind
  BY DEF Copied, DoneMeansArrived, Untouched, Arrived, NothingLeftBehind
<1> QED BY <1>1, TypeCorrect, InitCopied, NextCopied, PTL DEF Spec
=============================================================================
