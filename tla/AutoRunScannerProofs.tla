------------------------ MODULE AutoRunScannerProofs ------------------------
(***************************************************************************)
(* The scan's order and its delays, proved for every queue.                *)
(***************************************************************************)
EXTENDS AutoRunScanner, TLAPS

-----------------------------------------------------------------------------
(* The order of the queue.                                                 *)

\* Index is the inverse of the queue.
LEMMA IndexInverts ==
  /\ Len(Queue) \in Nat /\ DOMAIN Queue = 1 .. Len(Queue)
  /\ \A i \in Inst : Index(i) \in 1 .. Len(Queue) /\ Queue[Index(i)] = i
  /\ \A n \in 1 .. Len(Queue) : Queue[n] \in Inst /\ Index(Queue[n]) = n
<1>1. Len(Queue) \in Nat /\ DOMAIN Queue = 1 .. Len(Queue)
  BY QueueIsSequence
<1>2. ASSUME NEW i \in Inst
      PROVE  Index(i) \in 1 .. Len(Queue) /\ Queue[Index(i)] = i
  <2>1. \E n \in DOMAIN Queue : Queue[n] = i
    BY DEF Inst
  <2> QED BY <1>1, <2>1 DEF Index
<1>3. ASSUME NEW n \in 1 .. Len(Queue)
      PROVE  Queue[n] \in Inst /\ Index(Queue[n]) = n
  <2>1. Queue[n] \in Inst
    BY <1>1 DEF Inst
  <2> QED BY <1>1, <1>2, <2>1, QueueHasNoDuplicates
<1> QED BY <1>1, <1>2, <1>3

\* A queue of i alone, and an empty one.
LEMMA SmallQueues ==
  /\ Queue = <<>> <=> Len(Queue) = 0
  /\ \A i : Queue = <<i>> <=> (Len(Queue) = 1 /\ Queue[1] = i)
<1>1. Queue = <<>> <=> Len(Queue) = 0
  BY QueueIsSequence
<1>2. ASSUME NEW i PROVE Queue = <<i>> => (Len(Queue) = 1 /\ Queue[1] = i)
  OBVIOUS
<1>3. ASSUME NEW i, Len(Queue) = 1, Queue[1] = i PROVE Queue = <<i>>
  <2>1. Queue \in Seq(Inst)
    BY QueueIsSequence
  <2> QED BY <1>3, <2>1
<1> QED BY <1>1, <1>2, <1>3

LEMMA LongQueue ==
  ASSUME NEW c, Len(Queue) > 1
  PROVE  Queue # <<c>>
<1>1. Queue = <<c>> => Len(Queue) = 1
  BY SmallQueues
<1>2. Len(Queue) # 1
  BY IndexInverts
<1> QED BY <1>1, <1>2

\* The candidate after a queued instance is queued; there is none only if that
\* instance is alone.
LEMMA NextOfQueued ==
  ASSUME NEW i \in Inst
  PROVE  /\ FindNext(i) = None => Inst = {i}
         /\ FindNext(i) # None =>
              /\ FindNext(i) \in Inst
              /\ Index(FindNext(i)) = IF Index(i) = Len(Queue) THEN 1 ELSE Index(i) + 1
<1>1. Index(i) \in 1 .. Len(Queue) /\ Queue[Index(i)] = i /\ Len(Queue) \in Nat
  BY IndexInverts
<1>2. CASE Queue = <<i>>
  <2>1. Len(Queue) = 1 /\ Queue[1] = i
    BY <1>2, SmallQueues
  <2>2. Inst = {i}
    BY <2>1, IndexInverts
  <2> QED BY <1>2, <2>2 DEF FindNext
<1>3. CASE Queue # <<i>>
  <2>1. Queue # <<>>
    BY <1>1, SmallQueues
  <2>2. FindNext(i) = IF Index(i) = Len(Queue) THEN Queue[1] ELSE Queue[Index(i) + 1]
    BY <1>3, <2>1 DEF FindNext
  <2>3. 1 \in 1 .. Len(Queue) /\ (Index(i) # Len(Queue) => Index(i) + 1 \in 1 .. Len(Queue))
    BY <1>1
  <2> QED BY <2>2, <2>3, IndexInverts, NoneIsNotQueued
<1> QED BY <1>2, <1>3

\* From any anchor the first candidate is queued, unless nothing else is.
LEMMA NextOfAnchor ==
  ASSUME NEW i \in Inst \cup {None}, FindNext(i) # None
  PROVE  FindNext(i) \in Inst
<1>1. CASE i \in Inst
  BY <1>1, NextOfQueued
<1>2. CASE i \notin Inst
  <2>1. FindNext(i) = Queue[1] /\ Queue # <<>>
    BY <1>2 DEF FindNext
  <2> QED BY <2>1, IndexInverts, SmallQueues
<1> QED BY <1>1, <1>2

LEMMA NoNextOfAnchor ==
  ASSUME NEW i \in Inst \cup {None}, FindNext(i) = None, Queue # <<i>>
  PROVE  Inst = {}
<1>1. CASE i \in Inst
  <2>1. Inst = {i} /\ Index(i) \in 1 .. Len(Queue) /\ Len(Queue) \in Nat
    BY <1>1, NextOfQueued, IndexInverts
  <2>2. Queue # <<>>
    BY <2>1, SmallQueues
  <2>3. \/ FindNext(i) = Queue[1]
        \/ (FindNext(i) = Queue[Index(i) + 1] /\ Index(i) # Len(Queue))
    BY <1>1, <2>2 DEF FindNext
  <2>4. 1 \in 1 .. Len(Queue) /\ (Index(i) # Len(Queue) => Index(i) + 1 \in 1 .. Len(Queue))
    BY <2>1
  <2> QED BY <2>3, <2>4, IndexInverts, NoneIsNotQueued
<1>2. CASE i = None
  <2>1. Queue # <<>> => FindNext(i) = Queue[1]
    BY <1>2, NoneIsNotQueued DEF FindNext
  <2>2. Queue = <<>>
    BY <2>1, SmallQueues, IndexInverts, NoneIsNotQueued
  <2> QED BY <2>2, SmallQueues, IndexInverts DEF Inst
<1> QED BY <1>1, <1>2

LEMMA PreferredType ==
  ASSUME NEW sel
  PROVE  PreferredStartFrom(sel) \in Inst \cup {None} /\ Queue # <<PreferredStartFrom(sel)>>
<1>1. CASE Len(Queue) <= 1 \/ sel \notin Inst
  BY <1>1, SmallQueues, IndexInverts, NoneIsNotQueued DEF PreferredStartFrom
<1>2. CASE ~(Len(Queue) <= 1 \/ sel \notin Inst)
  <2>1. Index(sel) \in 1 .. Len(Queue) /\ Len(Queue) \in Nat
    BY <1>2, IndexInverts
  <2>2. PreferredStartFrom(sel) = Queue[IF Index(sel) = 1 THEN Len(Queue) ELSE Index(sel) - 1]
    BY <1>2 DEF PreferredStartFrom
  <2>3. (IF Index(sel) = 1 THEN Len(Queue) ELSE Index(sel) - 1) \in 1 .. Len(Queue)
    BY <2>1
  <2> QED BY <1>2, <2>2, <2>3, SmallQueues, IndexInverts
<1> QED BY <1>1, <1>2

\* getPreferredStartFrom: a scan from the anchor it returns tries the selected
\* instance first, wherever it stands in the queue.
THEOREM SelectedComesFirst ==
  ASSUME NEW sel \in Inst
  PROVE  FindNext(PreferredStartFrom(sel)) = sel
<1>1. Index(sel) \in 1 .. Len(Queue) /\ Queue[Index(sel)] = sel /\ Len(Queue) \in Nat
  BY IndexInverts
<1>2. CASE Len(Queue) <= 1
  <2>0. \A n, l \in Nat : (n \in 1 .. l /\ l <= 1) => (l = 1 /\ n = 1)
    OBVIOUS
  <2>a. Index(sel) \in Nat
    BY <1>1
  <2>b. Len(Queue) = 1 /\ Index(sel) = 1
    BY <1>1, <1>2, <2>0, <2>a
  <2>1. Len(Queue) = 1 /\ Queue[1] = sel
    BY <1>1, <2>b
  <2>2. PreferredStartFrom(sel) = None
    BY <1>2 DEF PreferredStartFrom
  <2>3. Queue # <<None>> /\ Queue # <<>>
    BY <2>1, SmallQueues, NoneIsNotQueued
  <2> QED BY <2>1, <2>2, <2>3, NoneIsNotQueued DEF FindNext
<1>3. CASE Len(Queue) > 1
  <2> DEFINE n == IF Index(sel) = 1 THEN Len(Queue) ELSE Index(sel) - 1
             p == Queue[n]
  <2>1. PreferredStartFrom(sel) = p
    BY <1>1, <1>3 DEF PreferredStartFrom
  <2>2. n \in 1 .. Len(Queue)
    BY <1>1
  <2>3. p \in Inst /\ Index(p) = n
    BY <2>2, IndexInverts
  <2>4. Queue # <<p>> /\ Queue # <<>>
    BY <1>3, SmallQueues
  <2>5. FindNext(p) = IF n = Len(Queue) THEN Queue[1] ELSE Queue[n + 1]
    BY <2>3, <2>4 DEF FindNext
  <2>6. (n = Len(Queue) => Index(sel) = 1) /\ (n # Len(Queue) => n + 1 = Index(sel))
    BY <1>1, <1>3
  <2> QED BY <1>1, <2>1, <2>5, <2>6
<1> QED BY <1>1, <1>2, <1>3

-----------------------------------------------------------------------------
(* The circular distance from a scan's first candidate.                    *)

\* Distances are positions below the queue's length, and tell instances apart;
\* the candidate after c is one further, or back at the first.
LEMMA DistanceCounts ==
  ASSUME NEW s \in Inst \cup {None}, FindNext(s) # None
  PROVE  /\ \A i \in Inst : Distance(s, i) \in 0 .. Len(Queue) - 1
         /\ \A i, j \in Inst : Distance(s, i) = Distance(s, j) => i = j
         /\ Distance(s, FindNext(s)) = 0
         /\ \A i \in Inst : FindNext(i) # None =>
              Distance(s, FindNext(i)) =
                IF Distance(s, i) = Len(Queue) - 1 THEN 0 ELSE Distance(s, i) + 1
<1> DEFINE first == Index(FindNext(s))
           L == Len(Queue)
           dist(n) == IF n >= first THEN n - first ELSE n - first + L
<1>1. first \in 1 .. L /\ L \in Nat
  BY NextOfAnchor, IndexInverts
<1>2. \A i : Distance(s, i) = dist(Index(i))
  BY DEF Distance
<1>3. \A i \in Inst : Index(i) \in 1 .. L /\ Queue[Index(i)] = i
  BY IndexInverts
<1>4. \A i \in Inst : FindNext(i) # None =>
        Index(FindNext(i)) = IF Index(i) = L THEN 1 ELSE Index(i) + 1
  BY NextOfQueued
<1> HIDE DEF first, L
<1>5. \A m, n \in 1 .. L : dist(m) = dist(n) => m = n
  BY <1>1
<1>6. \A n \in 1 .. L : dist(n) \in 0 .. L - 1
  BY <1>1
<1>7. \A n \in 1 .. L : dist(IF n = L THEN 1 ELSE n + 1) =
                          IF dist(n) = L - 1 THEN 0 ELSE dist(n) + 1
  BY <1>1
<1>8. dist(first) = 0
  BY <1>1
<1> HIDE DEF dist
<1>a. \A i \in Inst : Distance(s, i) \in 0 .. L - 1
  BY <1>2, <1>3, <1>6
<1>b. \A i, j \in Inst : Distance(s, i) = Distance(s, j) => i = j
  <2> SUFFICES ASSUME NEW i \in Inst, NEW j \in Inst, Distance(s, i) = Distance(s, j)
               PROVE  i = j
    OBVIOUS
  <2>1. Index(i) = Index(j)
    BY <1>2, <1>3, <1>5
  <2> QED BY <2>1, <1>3
<1>c. Distance(s, FindNext(s)) = 0
  BY <1>2, <1>8 DEF first
<1>d. \A i \in Inst : FindNext(i) # None =>
        Distance(s, FindNext(i)) = IF Distance(s, i) = L - 1 THEN 0 ELSE Distance(s, i) + 1
  BY <1>2, <1>3, <1>4, <1>7
<1> QED BY <1>a, <1>b, <1>c, <1>d DEF L

\* The first candidate of a scan is all it has visited then.
LEMMA UpToFirst ==
  ASSUME NEW s \in Inst \cup {None}, FindNext(s) # None
  PROVE  UpTo(s, FindNext(s)) = {FindNext(s)}
<1>1. FindNext(s) \in Inst
  BY NextOfAnchor
<1>2. \A i \in Inst : Distance(s, i) <= 0 => i = FindNext(s)
  BY <1>1, DistanceCounts
<1> QED BY <1>1, <1>2, DistanceCounts DEF UpTo

\* The candidate after c extends what was visited up to c by itself; when there
\* is none, or it was visited, everybody was.
LEMMA UpToNext ==
  ASSUME NEW s \in Inst \cup {None}, FindNext(s) # None, NEW c \in Inst
  PROVE  /\ (FindNext(c) = None \/ FindNext(c) \in UpTo(s, c)) => UpTo(s, c) = Inst
         /\ (FindNext(c) # None /\ FindNext(c) \notin UpTo(s, c)) =>
              UpTo(s, FindNext(c)) = UpTo(s, c) \cup {FindNext(c)}
<1> DEFINE n == FindNext(c)
           D(i) == Distance(s, i)
<1>0. Len(Queue) \in Nat
  BY IndexInverts
<1>1. \A i \in Inst : D(i) \in 0 .. Len(Queue) - 1
  BY DistanceCounts
<1>2. \A i, j \in Inst : D(i) = D(j) => i = j
  BY DistanceCounts
<1>3. CASE n = None
  <2>1. Inst = {c}
    BY <1>3, NextOfQueued
  <2>2. UpTo(s, c) = Inst
    BY <2>1, <1>1 DEF UpTo
  <2> QED BY <2>2, <1>3
<1>4. CASE n # None
  <2>1. n \in Inst
    BY <1>4, NextOfQueued
  <2>2. D(n) = IF D(c) = Len(Queue) - 1 THEN 0 ELSE D(c) + 1
    BY <1>4, DistanceCounts
  <2>3. n \in UpTo(s, c) <=> D(n) <= D(c)
    BY <2>1 DEF UpTo
  <2> HIDE DEF n, D
  <2>4. CASE D(c) = Len(Queue) - 1
    <3>1. D(n) <= D(c) /\ \A i \in Inst : D(i) <= D(c)
      BY <2>2, <2>4, <1>0, <1>1, <2>1
    <3>2. UpTo(s, c) = Inst
      BY <3>1 DEF UpTo, D
    <3>3. n \in UpTo(s, c)
      BY <3>2, <2>1
    <3> QED BY <3>2, <3>3 DEF n
  <2>5. CASE D(c) # Len(Queue) - 1
    <3>1. D(n) = D(c) + 1
      BY <2>2, <2>5
    <3>2. \A i \in Inst : D(i) <= D(n) <=> (D(i) <= D(c) \/ D(i) = D(n))
      BY <3>1, <1>1
    <3>3. \A i \in Inst : D(i) <= D(n) <=> (D(i) <= D(c) \/ i = n)
      BY <3>2, <1>2, <2>1
    <3>4. UpTo(s, n) = UpTo(s, c) \cup {n}
      BY <3>3, <2>1 DEF UpTo, D
    <3>5. n \notin UpTo(s, c)
      BY <3>1, <2>3, <1>1
    <3> QED BY <1>4, <3>4, <3>5 DEF n
  <2> QED BY <2>4, <2>5
<1> QED BY <1>3, <1>4

-----------------------------------------------------------------------------
(* The invariant.                                                          *)

\* A scan at its head has visited nobody, and has an anchor with somebody after
\* it, unless nobody is queued.
AtHead ==
  pc = "balances" =>
    path = "scan" /\ visited = {} /\ outcomes = {} /\ Queue # <<from>>

\* The scan under way began at a candidate.
BeganSomewhere == (path = "scan" /\ candidate # None) => FindNext(from) # None

IInv == TypeOK /\ AtHead /\ BeganSomewhere /\ VisitsInOrder

\* What no step of the flow changes.
Outside == UNCHANGED <<enabled, running, earned>>

LEMMA FinishStep ==
  ASSUME TypeOK, NEW d \in Delays \cup {"off"}, Finish(d),
         enabled' \in BOOLEAN, running' \in Inst \cup {None}, earned' \subseteq Inst
  PROVE  IInv'
<1>1. timer' \in Delays \cup {"off"}
  BY DEF Finish, Schedule, TypeOK
<1>2. TypeOK'
  BY <1>1 DEF Finish, TypeOK, PCs
<1> QED BY <1>2 DEF Finish, IInv, AtHead, BeganSomewhere, VisitsInOrder

LEMMA BeginStep ==
  ASSUME TypeOK, NEW s \in Inst \cup {None}, Queue # <<s>>, BeginScan(s),
         enabled' \in BOOLEAN, running' \in Inst \cup {None}, earned' \subseteq Inst,
         timer' \in Delays \cup {"off"}
  PROVE  IInv'
<1>1. TypeOK'
  BY DEF BeginScan, TypeOK, PCs
<1> QED BY <1>1 DEF BeginScan, IInv, AtHead, BeganSomewhere, VisitsInOrder

LEMMA ScanAfterSelectedStep ==
  ASSUME TypeOK, NEW d \in Delays \cup {"off"}, ScanAfterSelected(d), Outside
  PROVE  IInv'
<1>1. CASE enabled
  <2>1. timer' \in Delays \cup {"off"}
    BY <1>1 DEF ScanAfterSelected, Schedule, TypeOK
  <2>2. BeginScan(PreferredStartFrom(selected))
    BY <1>1 DEF ScanAfterSelected
  <2> QED BY <2>1, <2>2, BeginStep, PreferredType DEF TypeOK, Outside
<1>2. CASE ~enabled
  <2>1. Finish("off")
    BY <1>2 DEF ScanAfterSelected
  <2> QED BY <2>1, FinishStep DEF TypeOK, Outside
<1> QED BY <1>1, <1>2

\* The loop's head, at a candidate the scan reaches from its anchor.
LEMMA AdvanceStep ==
  ASSUME TypeOK, path = "scan", Outside, FindNext(from) # None,
         NEW c \in Inst \cup {None}, NEW r \in SUBSET Outcomes, Advance(c, r),
         (c # None /\ c \notin visited) => UpTo(from, c) = visited \cup {c}
  PROVE  IInv'
<1>1. DelayAfter(r) \in Delays \cup {"off"}
  BY DEF DelayAfter, Delays
<1>2. CASE c = None \/ c \in visited
  <2>1. Finish(DelayAfter(r))
    BY <1>2 DEF Advance
  <2> QED BY <1>1, <2>1, FinishStep DEF TypeOK, Outside
<1>3. CASE ~(c = None \/ c \in visited) /\ ~enabled
  <2>1. Finish("off")
    BY <1>3 DEF Advance
  <2> QED BY <2>1, FinishStep DEF TypeOK, Outside
<1>4. CASE ~(c = None \/ c \in visited) /\ enabled
  <2>1. /\ candidate' = c /\ visited' = visited \cup {c}
        /\ outcomes' = r
        /\ pending' = pending \cup {c}
        /\ Refresh(c)
        /\ UNCHANGED <<timer, path, selected, from>>
    BY <1>4 DEF Advance
  <2>2. c \in Inst /\ pc' \in {"check", "fetch"} /\ fresh' = fresh \cup {c}
    BY <1>4, <2>1 DEF Refresh
  <2>3. TypeOK'
    BY <2>1, <2>2, NoneIsNotQueued DEF TypeOK, PCs, Outside
  <2>4. visited' = UpTo(from', candidate')
    BY <1>4, <2>1
  <2> QED BY <2>1, <2>2, <2>3, <2>4 DEF IInv, AtHead, BeganSomewhere, VisitsInOrder
<1> QED BY <1>2, <1>3, <1>4

\* The loop goes on after its candidate.
LEMMA NextCandidate ==
  ASSUME IInv, path = "scan", candidate # None, Outside,
         NEW r \in SUBSET Outcomes, Advance(FindNext(candidate), r)
  PROVE  IInv'
<1>1. candidate \in Inst /\ from \in Inst \cup {None} /\ FindNext(from) # None
  BY DEF IInv, TypeOK, BeganSomewhere
<1>2. FindNext(candidate) \in Inst \cup {None}
  BY <1>1, NextOfQueued
<1>3. visited = UpTo(from, candidate)
  BY DEF IInv, VisitsInOrder
<1>4. (FindNext(candidate) # None /\ FindNext(candidate) \notin visited)
        => UpTo(from, FindNext(candidate)) = visited \cup {FindNext(candidate)}
  BY <1>1, <1>3, UpToNext
<1> QED BY <1>1, <1>2, <1>4, AdvanceStep DEF IInv

\* A step that leaves the scan where it is, but for the await.
LEMMA SamePlace ==
  ASSUME IInv, UNCHANGED <<path, selected, from, candidate, visited, outcomes>>,
         pc' \in PCs \ {"balances"} \/ pc' = pc,
         candidate' # None <=> pc' \in {"selection", "fetch", "check", "rewards", "start"},
         enabled' \in BOOLEAN, running' \in Inst \cup {None}, earned' \subseteq Inst,
         pending' \subseteq Inst, fresh' \subseteq Inst, timer' \in Delays \cup {"off"}
  PROVE  IInv'
<1>1. TypeOK'
  BY DEF IInv, TypeOK
<1>2. AtHead' /\ BeganSomewhere' /\ VisitsInOrder'
  BY DEF IInv, AtHead, BeganSomewhere, VisitsInOrder
<1> QED BY <1>1, <1>2 DEF IInv

LEMMA InitInv == Init => IInv
<1> SUFFICES ASSUME Init PROVE IInv
  OBVIOUS
<1>1. TypeOK
  BY DEF Init, TypeOK, PCs
<1> QED BY <1>1 DEF Init, IInv, AtHead, BeganSomewhere, VisitsInOrder

LEMMA FlowStepInv ==
  ASSUME IInv, FlowStep
  PROVE  IInv'
<1> USE DEF Outside
<1>0. TypeOK
  BY DEF IInv
<1>1. ASSUME NEW ok \in BOOLEAN, SelectionAwaited(ok) PROVE IInv'
  <2>1. CASE ok
    <3>1. pc = "selection" /\ Refresh(candidate) /\ Outside
          /\ UNCHANGED <<path, selected, from, candidate, visited, outcomes, pending, timer>>
      BY <1>1, <2>1 DEF SelectionAwaited
    <3>2. candidate \in Inst /\ candidate # None
      BY <3>1, <1>0 DEF TypeOK
    <3>3. pc' \in {"check", "fetch"} /\ fresh' = fresh \cup {candidate}
      BY <3>1 DEF Refresh
    <3> QED BY <1>0, <3>1, <3>2, <3>3, SamePlace DEF TypeOK, PCs
  <2>2. CASE ~ok
    <3>1. ScanAfterSelected("off") /\ Outside
      BY <1>1, <2>2 DEF SelectionAwaited
    <3> QED BY <1>0, <3>1, ScanAfterSelectedStep
  <2> QED BY <2>1, <2>2
<1>2. ASSUME NEW ok \in BOOLEAN, BalancesAwaited(ok) PROVE IInv'
  <2>1. /\ pc = "balances" /\ Outside
        /\ path = "scan" /\ visited = {} /\ Queue # <<from>> /\ from \in Inst \cup {None}
    BY <1>2, <1>0 DEF BalancesAwaited, IInv, AtHead, TypeOK
  <2>2. CASE ~ok \/ FindNext(from) = None
    <3>1. \E d \in Delays : Finish(d)
      BY <1>2, <2>2 DEF BalancesAwaited, Delays
    <3> QED BY <1>0, <2>1, <3>1, FinishStep DEF TypeOK
  <2>3. CASE ok /\ FindNext(from) # None
    <3>1. Advance(FindNext(from), {})
      BY <1>2, <2>3 DEF BalancesAwaited
    <3>2. FindNext(from) \in Inst /\ UpTo(from, FindNext(from)) = visited \cup {FindNext(from)}
      BY <2>1, <2>3, NextOfAnchor, UpToFirst
    <3> QED BY <1>0, <2>1, <2>3, <3>1, <3>2, AdvanceStep
  <2> QED BY <2>2, <2>3
<1>3. ASSUME NEW answer \in Answers, Fetched(answer) PROVE IInv'
  <2>1. candidate \in Inst /\ candidate # None
    BY <1>0, <1>3 DEF Fetched, TypeOK
  <2>2. earned' \subseteq Inst /\ pending' \subseteq Inst
    BY <1>0, <1>3, <2>1 DEF Fetched, Answer, TypeOK
  <2> QED BY <1>0, <1>3, <2>1, <2>2, SamePlace DEF Fetched, TypeOK, PCs
<1>4. ASSUME NEW result \in {"ok", "loading", "blocked"}, Deployability(result) PROVE IInv'
  <2>1. pc = "check" /\ path = "scan" /\ Outside /\ candidate # None
    BY <1>0, <1>4 DEF Deployability, TypeOK
  <2>2. CASE ~enabled
    BY <1>0, <1>4, <2>1, <2>2, FinishStep DEF Deployability, TypeOK
  <2>3. CASE enabled /\ result = "ok"
    BY <1>0, <1>4, <2>1, <2>3, SamePlace DEF Deployability, TypeOK, PCs
  <2>4. CASE enabled /\ result # "ok"
    <3>1. Advance(FindNext(candidate), outcomes \cup {result})
      BY <1>4, <2>4 DEF Deployability
    <3>2. outcomes \cup {result} \in SUBSET Outcomes
      BY <1>0, <1>4, <2>4 DEF TypeOK, Outcomes
    <3> QED BY <2>1, <3>1, <3>2, NextCandidate
  <2> QED BY <2>2, <2>3, <2>4
<1>5. ASSUME NEW result \in {"ok", "loading", "blocked", "notReady"}, SelectedChecked(result)
      PROVE  IInv'
  <2>1. pc = "check" /\ Outside /\ candidate # None
    BY <1>0, <1>5 DEF SelectedChecked, TypeOK
  <2>2. CASE result = "ok"
    BY <1>0, <1>5, <2>1, <2>2, SamePlace DEF SelectedChecked, TypeOK, PCs
  <2>3. CASE result # "ok"
    <3>1. \E d \in Delays \cup {"off"} : ScanAfterSelected(d)
      BY <1>5, <2>3 DEF SelectedChecked, Delays
    <3> QED BY <1>0, <2>1, <3>1, ScanAfterSelectedStep
  <2> QED BY <2>2, <2>3
<1>6. ASSUME RewardsAwaited PROVE IInv'
  <2>1. pc = "rewards" /\ Outside /\ candidate # None
    BY <1>0, <1>6 DEF RewardsAwaited, TypeOK
  <2>2. CASE ~(candidate \in earned /\ candidate \notin pending)
    <3>1. CASE ~enabled
      BY <1>0, <1>6, <2>1, <2>2, <3>1, FinishStep DEF RewardsAwaited, TypeOK
    <3>2. CASE enabled
      BY <1>0, <1>6, <2>1, <2>2, <3>2, SamePlace DEF RewardsAwaited, TypeOK, PCs
    <3> QED BY <3>1, <3>2
  <2>3. CASE candidate \in earned /\ candidate \notin pending /\ path = "scan"
    <3>1. Advance(FindNext(candidate), outcomes \cup {"eligible"})
      BY <1>6, <2>3 DEF RewardsAwaited
    <3>2. outcomes \cup {"eligible"} \in SUBSET Outcomes
      BY <1>0 DEF TypeOK, Outcomes
    <3> QED BY <2>1, <2>3, <3>1, <3>2, NextCandidate
  <2>4. CASE candidate \in earned /\ candidate \notin pending /\ path # "scan"
    BY <1>0, <1>6, <2>1, <2>4, ScanAfterSelectedStep DEF RewardsAwaited
  <2> QED BY <2>2, <2>3, <2>4
<1>7. ASSUME Started PROVE IInv'
  BY <1>0, <1>7, FinishStep DEF Started, TypeOK
<1>8. ASSUME NotStarted PROVE IInv'
  <2>1. pc = "start" /\ Outside /\ candidate \in Inst /\ candidate # None
    BY <1>0, <1>8 DEF NotStarted, TypeOK
  <2>2. CASE ~enabled
    BY <1>0, <1>8, <2>1, <2>2, FinishStep DEF NotStarted, TypeOK
  <2>3. CASE enabled /\ path = "scan"
    <3>1. Advance(FindNext(candidate), outcomes \cup {"infraFailed"})
      BY <1>8, <2>3 DEF NotStarted
    <3>2. outcomes \cup {"infraFailed"} \in SUBSET Outcomes
      BY <1>0 DEF TypeOK, Outcomes
    <3> QED BY <2>1, <2>3, <3>1, <3>2, NextCandidate
  <2>4. CASE enabled /\ path # "scan" /\ Len(Queue) > 1
    <3>1. BeginScan(candidate) /\ timer' = timer
      BY <1>8, <2>4 DEF NotStarted
    <3>2. Queue # <<candidate>>
      BY <2>4, LongQueue
    <3> QED BY <1>0, <2>1, <3>1, <3>2, BeginStep DEF TypeOK
  <2>5. CASE enabled /\ path # "scan" /\ ~(Len(Queue) > 1)
    <3>1. Finish("loading")
      BY <1>8, <2>5 DEF NotStarted
    <3> QED BY <1>0, <2>1, <3>1, FinishStep DEF TypeOK, Delays
  <2> QED BY <2>2, <2>3, <2>4, <2>5
<1> QED BY <1>1, <1>2, <1>3, <1>4, <1>5, <1>6, <1>7, <1>8 DEF FlowStep

\* A step of the rest of the app leaves the flow where it is.
LEMMA AppStepInv ==
  ASSUME IInv, UNCHANGED flow,
         enabled' \in BOOLEAN, running' \in Inst \cup {None}, earned' \subseteq Inst,
         pending' \subseteq Inst, fresh' \subseteq Inst, timer' \in Delays \cup {"off"}
  PROVE  IInv'
BY SamePlace DEF flow, IInv, TypeOK

LEMMA NextInv ==
  ASSUME IInv, [Next]_vars
  PROVE  IInv'
<1>0. TypeOK
  BY DEF IInv
<1>1. ASSUME NEW sel \in Inst \cup {None}, Startup(sel) PROVE IInv'
  <2>1. CASE sel \in Inst /\ (sel \in pending \/ sel \notin earned)
    <3>1. /\ pc' = "selection" /\ path' = "selected"
          /\ selected' = sel /\ candidate' = sel
          /\ pending' = pending \cup {sel}
          /\ UNCHANGED <<from, visited, outcomes, fresh, enabled, running, earned, timer>>
      BY <1>1, <2>1 DEF Startup
    <3>2. TypeOK'
      BY <1>0, <2>1, <3>1, NoneIsNotQueued DEF TypeOK, PCs
    <3> QED BY <3>1, <3>2 DEF IInv, AtHead, BeganSomewhere, VisitsInOrder
  <2>2. CASE ~(sel \in Inst /\ (sel \in pending \/ sel \notin earned))
    <3>1. /\ BeginScan(PreferredStartFrom(sel))
          /\ UNCHANGED <<enabled, running, earned, timer>>
      BY <1>1, <2>2 DEF Startup
    <3> QED BY <1>0, <3>1, BeginStep, PreferredType DEF TypeOK
  <2> QED BY <2>1, <2>2
<1>2. ASSUME NEW i \in Inst \cup {None}, Rotation(i) PROVE IInv'
  <2>1. Queue # <<i>>
    BY <1>2, SmallQueues DEF Rotation, Inst
  <2> QED BY <1>0, <1>2, <2>1, BeginStep DEF Rotation, TypeOK
<1>3. CASE Toggle
  BY <1>0, <1>3, AppStepInv DEF Toggle, TypeOK, rewards
<1>4. CASE TimerFires
  BY <1>0, <1>4, AppStepInv DEF TimerFires, TypeOK, rewards
<1>5. ASSUME NEW i \in Inst \cup {None}, Poll(i) PROVE IInv'
  BY <1>0, <1>5, AppStepInv DEF Poll, TypeOK, rewards
<1>6. ASSUME NEW i \in Inst, NEW answer \in Answers, OtherRefresh(i, answer) PROVE IInv'
  <2>1. earned' \subseteq Inst /\ pending' \subseteq Inst
    BY <1>0, <1>6 DEF OtherRefresh, Answer, TypeOK
  <2> QED BY <1>0, <1>6, <2>1, AppStepInv DEF OtherRefresh, TypeOK
<1>7. ASSUME NEW i \in Inst, NEW answer \in Answers, ContextWrites(i, answer) PROVE IInv'
  <2>1. earned' \subseteq Inst /\ pending' \subseteq Inst
    BY <1>0, <1>7 DEF ContextWrites, TypeOK
  <2> QED BY <1>0, <1>7, <2>1, AppStepInv DEF ContextWrites, TypeOK
<1>8. ASSUME NEW i \in Inst, ThrottleExpires(i) PROVE IInv'
  BY <1>0, <1>8, AppStepInv DEF ThrottleExpires, TypeOK
<1>9. CASE UNCHANGED vars
  BY <1>0, <1>9, AppStepInv DEF vars, rewards, TypeOK
<1> QED BY <1>1, <1>2, <1>3, <1>4, <1>5, <1>6, <1>7, <1>8, <1>9, FlowStepInv DEF Next

LEMMA Invariance == Spec => []IInv
<1>1. IInv /\ [Next]_vars => IInv'
  BY NextInv
<1> QED BY InitInv, <1>1, PTL DEF Spec

\* TypeOK for every queue: the candidate is null exactly between two candidates.
THEOREM TypeCorrect == Spec => []TypeOK
<1>1. IInv => TypeOK
  BY DEF IInv
<1> QED BY Invariance, <1>1, PTL

\* VisitsInOrder for every queue and every anchor: a scan goes once round the
\* queue, skipping nobody.
THEOREM ScansInOrder == Spec => []VisitsInOrder
<1>1. IInv => VisitsInOrder
  BY DEF IInv
<1> QED BY Invariance, <1>1, PTL

-----------------------------------------------------------------------------
(* The delays.                                                             *)

\* What the arming of a long delay promises.
TriedAll ==
  /\ visited = Inst
  /\ outcomes \cap {"loading", "infraFailed"} = {}
  /\ timer' = "eligible" => outcomes \subseteq {"eligible"}

LongDelayArmed == timer' # timer /\ timer' \in {"blocked", "eligible"}

\* A flow that ends arms the delay it names, or none.
LEMMA FinishDelay ==
  ASSUME NEW d, Finish(d), LongDelayArmed
  PROVE  d = timer'
BY DEF Finish, Schedule, LongDelayArmed

LEMMA AdvanceDelay ==
  ASSUME NEW c, NEW r \in SUBSET Outcomes, Advance(c, r), outcomes \subseteq r,
         (c = None \/ c \in visited) => visited = Inst, LongDelayArmed
  PROVE  TriedAll
<1>1. CASE c = None \/ c \in visited
  <2>1. DelayAfter(r) = timer'
    BY <1>1, FinishDelay DEF Advance
  <2>2. r \cap {"loading", "infraFailed"} = {}
    BY <2>1 DEF DelayAfter, LongDelayArmed
  <2>3. timer' = "eligible" => "blocked" \notin r
    BY <2>1, <2>2 DEF DelayAfter
  <2> QED BY <1>1, <2>2, <2>3 DEF TriedAll, Outcomes
<1>2. CASE ~(c = None \/ c \in visited)
  BY <1>2, FinishDelay DEF Advance, LongDelayArmed
<1> QED BY <1>1, <1>2

LEMMA NextCandidateDelay ==
  ASSUME IInv, path = "scan", candidate # None, LongDelayArmed,
         NEW x \in Outcomes, Advance(FindNext(candidate), outcomes \cup {x})
  PROVE  TriedAll
<1>1. candidate \in Inst /\ from \in Inst \cup {None} /\ FindNext(from) # None
      /\ visited = UpTo(from, candidate) /\ outcomes \subseteq Outcomes
  BY DEF IInv, TypeOK, BeganSomewhere, VisitsInOrder
<1>2. (FindNext(candidate) = None \/ FindNext(candidate) \in visited) => visited = Inst
  BY <1>1, UpToNext
<1> QED BY <1>1, <1>2, AdvanceDelay

\* The startup's fast path arms the 30s delay or none.
LEMMA AfterSelectedDelay ==
  ASSUME NEW d \in {"off", "loading"}, ScanAfterSelected(d)
  PROVE  ~LongDelayArmed
BY FinishDelay DEF ScanAfterSelected, Schedule, LongDelayArmed

LEMMA StepDelay ==
  ASSUME IInv, [Next]_vars, LongDelayArmed
  PROVE  TriedAll
<1>0. TypeOK
  BY DEF IInv
<1>1. ASSUME NEW ok \in BOOLEAN, SelectionAwaited(ok) PROVE TriedAll
  BY <1>1, AfterSelectedDelay DEF SelectionAwaited, LongDelayArmed
<1>2. ASSUME NEW ok \in BOOLEAN, BalancesAwaited(ok) PROVE TriedAll
  <2>1. /\ visited = {} /\ outcomes = {}
        /\ Queue # <<from>> /\ from \in Inst \cup {None}
    BY <1>0, <1>2 DEF BalancesAwaited, IInv, AtHead, TypeOK
  <2>2. CASE ~ok
    BY <1>2, <2>2, FinishDelay DEF BalancesAwaited, LongDelayArmed
  <2>3. CASE ok /\ FindNext(from) = None
    <3>1. Inst = {}
      BY <2>1, <2>3, NoNextOfAnchor
    <3> QED BY <2>1, <3>1 DEF TriedAll
  <2>4. CASE ok /\ FindNext(from) # None
    <3>1. Advance(FindNext(from), {})
      BY <1>2, <2>4 DEF BalancesAwaited
    <3> QED BY <2>1, <2>4, <3>1, AdvanceDelay
  <2> QED BY <2>2, <2>3, <2>4
<1>3. ASSUME NEW result \in {"ok", "loading", "blocked"}, Deployability(result) PROVE TriedAll
  <2>1. path = "scan" /\ candidate # None
    BY <1>0, <1>3 DEF Deployability, TypeOK
  <2>2. CASE ~enabled
    BY <1>3, <2>2, FinishDelay DEF Deployability, LongDelayArmed
  <2>3. CASE enabled /\ result = "ok"
    BY <1>3, <2>3 DEF Deployability, LongDelayArmed
  <2>4. CASE enabled /\ result # "ok"
    <3>1. Advance(FindNext(candidate), outcomes \cup {result}) /\ result \in Outcomes
      BY <1>3, <2>4 DEF Deployability, Outcomes
    <3> QED BY <2>1, <3>1, NextCandidateDelay
  <2> QED BY <2>2, <2>3, <2>4
<1>4. ASSUME NEW result \in {"ok", "loading", "blocked", "notReady"}, SelectedChecked(result)
      PROVE  TriedAll
  <2>1. CASE result = "ok"
    BY <1>4, <2>1 DEF SelectedChecked, LongDelayArmed
  <2>2. CASE result # "ok"
    BY <1>4, <2>2, AfterSelectedDelay DEF SelectedChecked
  <2> QED BY <2>1, <2>2
<1>5. ASSUME RewardsAwaited PROVE TriedAll
  <2>1. candidate # None
    BY <1>0, <1>5 DEF RewardsAwaited, TypeOK
  <2>2. CASE candidate \in earned /\ candidate \notin pending /\ path = "scan"
    <3>1. Advance(FindNext(candidate), outcomes \cup {"eligible"}) /\ "eligible" \in Outcomes
      BY <1>5, <2>2 DEF RewardsAwaited, Outcomes
    <3> QED BY <2>1, <2>2, <3>1, NextCandidateDelay
  <2>3. CASE candidate \in earned /\ candidate \notin pending /\ path # "scan"
    BY <1>5, <2>3, AfterSelectedDelay DEF RewardsAwaited
  <2>4. CASE ~(candidate \in earned /\ candidate \notin pending)
    BY <1>5, <2>4, FinishDelay DEF RewardsAwaited, LongDelayArmed
  <2> QED BY <2>2, <2>3, <2>4
<1>6. CASE Started
  BY <1>6, FinishDelay DEF Started, LongDelayArmed
<1>7. CASE NotStarted
  <2>1. candidate # None
    BY <1>0, <1>7 DEF NotStarted, TypeOK
  <2>2. CASE enabled /\ path = "scan"
    <3>1. Advance(FindNext(candidate), outcomes \cup {"infraFailed"})
          /\ "infraFailed" \in Outcomes
      BY <1>7, <2>2 DEF NotStarted, Outcomes
    <3> QED BY <2>1, <2>2, <3>1, NextCandidateDelay
  <2>3. CASE ~(enabled /\ path = "scan")
    BY <1>7, <2>3, FinishDelay DEF NotStarted, LongDelayArmed
  <2> QED BY <2>2, <2>3
<1>8. CASE FlowStep
  BY <1>1, <1>2, <1>3, <1>4, <1>5, <1>6, <1>7, <1>8
     DEF FlowStep, Fetched, LongDelayArmed
<1>9. CASE ~FlowStep
  BY <1>9 DEF Next, Startup, Rotation, Toggle, TimerFires, Poll, OtherRefresh, ContextWrites,
              ThrottleExpires, LongDelayArmed, vars
<1> QED BY <1>8, <1>9

\* LongDelayOnlyAfterAll for every queue: auto-run goes to sleep for 10 or 30
\* minutes only after a whole round that met no transient obstacle.
THEOREM LongDelays == Spec => LongDelayOnlyAfterAll
<1>1. IInv /\ [Next]_vars
      => [(timer' # timer /\ timer' \in {"blocked", "eligible"}) =>
            /\ visited = Inst
            /\ outcomes \cap {"loading", "infraFailed"} = {}
            /\ timer' = "eligible" => outcomes \subseteq {"eligible"}]_vars
  BY StepDelay DEF LongDelayArmed, TriedAll
<1> QED BY Invariance, <1>1, PTL DEF Spec, LongDelayOnlyAfterAll

\* A flow that ends with auto-run on confirmed a start or armed a timer.
LEMMA StepEnds ==
  ASSUME IInv, [Next]_vars, pc # "idle", pc' = "idle", enabled
  PROVE  timer' # "off" \/ Started
<1>0. TypeOK
  BY DEF IInv
<1>1. ASSUME NEW d \in Delays, Finish(d) PROVE timer' # "off"
  BY <1>1 DEF Finish, Schedule, Delays
<1>2. ASSUME NEW c, NEW r, Advance(c, r) PROVE timer' # "off"
  <2>1. DelayAfter(r) \in Delays
    BY DEF DelayAfter, Delays
  <2> QED BY <1>1, <1>2, <2>1 DEF Advance, Refresh
<1>3. ASSUME NEW d, ScanAfterSelected(d) PROVE FALSE
  BY <1>3 DEF ScanAfterSelected, BeginScan
<1>4. CASE FlowStep
  BY <1>1, <1>2, <1>3, <1>4 DEF FlowStep, SelectionAwaited, BalancesAwaited, Fetched,
     Deployability, SelectedChecked, RewardsAwaited, Started, NotStarted, BeginScan, Refresh,
     Delays
<1>5. CASE ~FlowStep
  BY <1>5 DEF Next, Startup, Rotation, BeginScan, Toggle, TimerFires, Poll, OtherRefresh,
              ContextWrites, ThrottleExpires, vars, flow
<1> QED BY <1>4, <1>5

\* EndsStartedOrArmed for every queue: no flow ends in silence.
THEOREM NoSilentEnd == Spec => EndsStartedOrArmed
<1>1. IInv /\ [Next]_vars
      => [(pc # "idle" /\ pc' = "idle" /\ enabled) => timer' # "off" \/ Started]_vars
  BY StepEnds
<1> QED BY Invariance, <1>1, PTL DEF Spec, EndsStartedOrArmed

-----------------------------------------------------------------------------
(* The contract.                                                           *)

\* Outside a scan nobody counts as visited.
Clean == (pc \in {"idle", "selection"} \/ path = "selected") => visited = {} /\ outcomes = {}

LEMMA CleanInvariance == Spec => []Clean
<1>1. Init => Clean
  BY DEF Init, Clean
<1>2. IInv /\ Clean /\ [Next]_vars => Clean'
  <2> SUFFICES ASSUME IInv, Clean, [Next]_vars PROVE Clean'
    OBVIOUS
  <2>1. ASSUME NEW d, Finish(d) PROVE Clean'
    BY <2>1 DEF Finish, Clean
  <2>2. ASSUME NEW a, BeginScan(a) PROVE Clean'
    BY <2>2 DEF BeginScan, Clean
  <2>3. ASSUME NEW d, ScanAfterSelected(d) PROVE Clean'
    BY <2>1, <2>2, <2>3 DEF ScanAfterSelected
  <2>4. ASSUME NEW c, NEW r, Advance(c, r), path = "scan" PROVE Clean'
    BY <2>1, <2>4 DEF Advance, Refresh, Clean
  <2>5. CASE FlowStep
    <3>1. ASSUME NEW ok \in BOOLEAN, SelectionAwaited(ok) PROVE Clean'
      BY <2>3, <3>1 DEF SelectionAwaited, Refresh, Clean
    <3>2. ASSUME NEW ok \in BOOLEAN, BalancesAwaited(ok) PROVE Clean'
      <4>1. path = "scan"
        BY <3>2 DEF BalancesAwaited, IInv, AtHead
      <4> QED BY <2>1, <2>4, <3>2, <4>1 DEF BalancesAwaited
    <3>4. ASSUME NEW answer \in Answers, Fetched(answer) PROVE Clean'
      BY <3>4 DEF Fetched, Clean
    <3>5. ASSUME NEW result \in {"ok", "loading", "blocked"}, Deployability(result)
          PROVE  Clean'
      BY <2>1, <2>4, <3>5 DEF Deployability, Clean
    <3>6. ASSUME NEW result \in {"ok", "loading", "blocked", "notReady"},
                 SelectedChecked(result)
          PROVE  Clean'
      BY <2>3, <3>6 DEF SelectedChecked, Clean
    <3>7. CASE RewardsAwaited
      BY <2>1, <2>3, <2>4, <3>7 DEF RewardsAwaited, Clean
    <3>8. CASE Started
      BY <2>1, <3>8 DEF Started
    <3>9. CASE NotStarted
      BY <2>1, <2>2, <2>4, <3>9 DEF NotStarted
    <3> QED BY <2>5, <3>1, <3>2, <3>4, <3>5, <3>6, <3>7, <3>8, <3>9 DEF FlowStep
  <2>6. ASSUME NEW sel, Startup(sel) PROVE Clean'
    BY <2>2, <2>6 DEF Startup, Clean
  <2>7. ASSUME NEW i, Rotation(i) PROVE Clean'
    BY <2>2, <2>7 DEF Rotation
  <2>8. CASE UNCHANGED flow
    BY <2>8 DEF flow, Clean
  <2> QED
    BY <2>5, <2>6, <2>7, <2>8
       DEF Next, Toggle, TimerFires, Poll, OtherRefresh, ContextWrites, ThrottleExpires, vars
<1> QED BY <1>1, <1>2, Invariance, PTL DEF Spec

\* A scan that ends is a Confirmed, a GiveUp or an Abandon of the contract.
LEMMA FinishMaps ==
  ASSUME TypeOK, pc # "idle", UNCHANGED enabled, NEW d \in Delays, Finish(d),
         d # "loading" => visited = Inst /\ ~Trouble
  PROVE  Contract!Next
<1>1. Stage # "idle" /\ Stage' = "idle" /\ visited' = {} /\ Trouble' = FALSE
  BY DEF Finish, Stage, Trouble
<1>2. CASE enabled
  <2>1. timer' = d
    BY <1>2 DEF Finish, Schedule, Delays
  <2>2. CASE d = "loading"
    <3>1. Contract!GiveUp("soon")
      BY <1>1, <1>2, <2>1, <2>2 DEF Contract!GiveUp, Contract!Stop, WakeUp
    <3> QED BY <3>1 DEF Contract!Next
  <2>3. CASE d # "loading"
    <3>1. WakeUp' = "late"
      BY <2>1, <2>3 DEF WakeUp, Delays
    <3>2. Contract!GiveUp("late")
      BY <1>1, <1>2, <2>3, <3>1 DEF Contract!GiveUp, Contract!Stop
    <3> QED BY <3>2 DEF Contract!Next
  <2> QED BY <2>2, <2>3
<1>3. CASE ~enabled
  <2>1. UNCHANGED timer
    BY <1>3 DEF Finish, Schedule
  <2>2. Contract!Abandon
    BY <1>1, <1>3, <2>1 DEF Contract!Abandon, Contract!Stop, WakeUp
  <2> QED BY <2>2 DEF Contract!Next
<1> QED BY <1>2, <1>3

LEMMA OffMaps ==
  ASSUME pc # "idle", UNCHANGED enabled, Finish("off"), ~enabled \/ pc = "start"
  PROVE  Contract!Next
<1>1. /\ Stage # "idle" /\ Stage' = "idle" /\ visited' = {} /\ Trouble' = FALSE
      /\ UNCHANGED WakeUp
  BY DEF Finish, Schedule, Stage, Trouble, WakeUp
<1>2. Contract!Abandon \/ Contract!Confirmed
  BY <1>1 DEF Contract!Abandon, Contract!Confirmed, Contract!Stop, Stage
<1> QED BY <1>2 DEF Contract!Next

\* The loop's head is a Look, or ends the scan.
LEMMA AdvanceMaps ==
  ASSUME TypeOK, pc # "idle", UNCHANGED enabled,
         NEW c \in Inst \cup {None}, NEW r \in SUBSET Outcomes, Advance(c, r),
         outcomes \subseteq r, (c = None \/ c \in visited) => visited = Inst
  PROVE  Contract!Next
<1>1. CASE c = None \/ c \in visited
  <2>1. Finish(DelayAfter(r)) /\ DelayAfter(r) \in Delays
    BY <1>1 DEF Advance, DelayAfter, Delays
  <2>2. DelayAfter(r) # "loading" => visited = Inst /\ ~Trouble
    BY <1>1 DEF DelayAfter, Trouble
  <2> QED BY <2>1, <2>2, FinishMaps
<1>2. CASE ~(c = None \/ c \in visited) /\ ~enabled
  BY <1>2, OffMaps DEF Advance
<1>3. CASE ~(c = None \/ c \in visited) /\ enabled
  <2>1. /\ visited' = visited \cup {c} /\ outcomes' = r /\ UNCHANGED timer
        /\ pc' \in {"check", "fetch"}
    BY <1>3 DEF Advance, Refresh
  <2>2. Stage # "idle" /\ Stage' = "looking" /\ UNCHANGED WakeUp
    BY <2>1 DEF Stage, WakeUp
  <2>3. Trouble' = Trouble \/ Trouble' = TRUE
    <3>1. Trouble => Trouble'
      BY <2>1 DEF Trouble
    <3>2. Trouble \in BOOLEAN /\ Trouble' \in BOOLEAN
      BY DEF Trouble
    <3> QED BY <3>1, <3>2
  <2>4. Contract!Look(c)
    BY <1>3, <2>1, <2>2, <2>3 DEF Contract!Look
  <2>5. c \in Inst
    BY <1>3
  <2> QED BY <2>4, <2>5 DEF Contract!Next
<1> QED BY <1>1, <1>2, <1>3

LEMMA NextCandidateMaps ==
  ASSUME IInv, path = "scan", candidate # None, pc # "idle", UNCHANGED enabled,
         NEW x \in Outcomes, Advance(FindNext(candidate), outcomes \cup {x})
  PROVE  Contract!Next
<1>1. candidate \in Inst /\ from \in Inst \cup {None} /\ FindNext(from) # None
      /\ visited = UpTo(from, candidate) /\ outcomes \subseteq Outcomes /\ TypeOK
  BY DEF IInv, TypeOK, BeganSomewhere, VisitsInOrder
<1>2. (FindNext(candidate) = None \/ FindNext(candidate) \in visited) => visited = Inst
  BY <1>1, UpToNext
<1>3. FindNext(candidate) \in Inst \cup {None}
  BY <1>1, NextOfQueued
<1> QED BY <1>1, <1>2, <1>3, AdvanceMaps

\* From the fast path to the scan is a FallBack.
LEMMA BeginMaps ==
  ASSUME pc # "idle", enabled, UNCHANGED enabled, visited = {}, outcomes = {},
         NEW a, BeginScan(a), timer' \in {timer, "loading"}
  PROVE  Contract!Next
<1>1. Stage # "idle" /\ Stage' = "looking" /\ UNCHANGED visited /\ UNCHANGED Trouble
  BY DEF BeginScan, Stage, Trouble
<1>2. WakeUp' \in {WakeUp, "soon"}
  BY DEF WakeUp
<1>3. Contract!FallBack
  BY <1>1, <1>2 DEF Contract!FallBack
<1> QED BY <1>3 DEF Contract!Next

LEMMA AfterSelectedMaps ==
  ASSUME pc # "idle", UNCHANGED enabled, visited = {}, outcomes = {},
         NEW d \in {"off", "loading"}, ScanAfterSelected(d)
  PROVE  Contract!Next
<1>1. CASE enabled
  <2>1. BeginScan(PreferredStartFrom(selected)) /\ timer' \in {timer, "loading"}
    BY <1>1 DEF ScanAfterSelected, Schedule
  <2> QED BY <1>1, <2>1, BeginMaps
<1>2. CASE ~enabled
  BY <1>2, OffMaps DEF ScanAfterSelected
<1> QED BY <1>1, <1>2

\* Every step of the scanner is one of the contract's or changes nothing of it.
LEMMA StepMaps ==
  ASSUME IInv, Clean, [Next]_vars
  PROVE  Contract!Next \/ UNCHANGED Contract!vars
<1>0. TypeOK
  BY DEF IInv
<1>1. ASSUME UNCHANGED <<enabled, timer, visited, outcomes>>, Stage' = Stage
      PROVE  UNCHANGED Contract!vars
  BY <1>1 DEF Contract!vars, Trouble, WakeUp
<1>2. ASSUME NEW sel, Startup(sel) PROVE Contract!Next
  <2>1. /\ enabled /\ Stage = "idle" /\ Stage' = "looking"
        /\ UNCHANGED <<enabled, timer>>
    BY <1>2 DEF Startup, BeginScan, Stage
  <2>2. visited' = visited /\ outcomes' = outcomes
    BY <1>2 DEF Startup, BeginScan, Clean
  <2>3. Contract!Begin
    BY <2>1, <2>2 DEF Contract!Begin, Trouble, WakeUp
  <2> QED BY <2>3 DEF Contract!Next
<1>3. ASSUME NEW i, Rotation(i) PROVE Contract!Next
  <2>1. /\ enabled /\ Stage = "idle" /\ Stage' = "looking"
        /\ UNCHANGED <<enabled, timer>>
    BY <1>3 DEF Rotation, BeginScan, Stage
  <2>2. visited' = visited /\ outcomes' = outcomes
    BY <1>3 DEF Rotation, BeginScan, Clean
  <2>3. Contract!Begin
    BY <2>1, <2>2 DEF Contract!Begin, Trouble, WakeUp
  <2> QED BY <2>3 DEF Contract!Next
<1>4. CASE Toggle
  <2>1. Contract!Toggle
    BY <1>4 DEF Toggle, flow, Contract!Toggle, Stage, Trouble, WakeUp
  <2> QED BY <2>1 DEF Contract!Next
<1>5. CASE TimerFires
  <2>1. Contract!TimerRings
    BY <1>5 DEF TimerFires, flow, Contract!TimerRings, Stage, Trouble, WakeUp
  <2> QED BY <2>1 DEF Contract!Next
<1>6. CASE UNCHANGED <<enabled, timer, flow>>
  BY <1>1, <1>6 DEF flow, Stage
<1>7. ASSUME NEW ok \in BOOLEAN, SelectionAwaited(ok)
      PROVE  Contract!Next \/ UNCHANGED Contract!vars
  <2>1. CASE ok
    <3>1. Stage' = Stage
      BY <1>7, <2>1 DEF SelectionAwaited, Refresh, Stage
    <3> QED BY <1>1, <1>7, <2>1, <3>1 DEF SelectionAwaited
  <2>2. CASE ~ok
    BY <1>7, <2>2, AfterSelectedMaps DEF SelectionAwaited, Clean
  <2> QED BY <2>1, <2>2, <1>7 DEF SelectionAwaited
<1>8. ASSUME NEW ok \in BOOLEAN, BalancesAwaited(ok) PROVE Contract!Next
  <2>1. /\ visited = {} /\ outcomes = {} /\ pc # "idle" /\ UNCHANGED enabled
        /\ Queue # <<from>> /\ from \in Inst \cup {None}
    BY <1>0, <1>8 DEF BalancesAwaited, IInv, AtHead, TypeOK
  <2>2. CASE ~ok
    BY <1>0, <1>8, <2>1, <2>2, FinishMaps DEF BalancesAwaited, Delays
  <2>3. CASE ok /\ FindNext(from) = None
    <3>1. Inst = {} /\ ~Trouble
      BY <2>1, <2>3, NoNextOfAnchor DEF Trouble
    <3> QED BY <1>0, <1>8, <2>1, <2>3, <3>1, FinishMaps DEF BalancesAwaited, Delays
  <2>4. CASE ok /\ FindNext(from) # None
    <3>1. Advance(FindNext(from), {}) /\ FindNext(from) \in Inst
      BY <1>8, <2>1, <2>4, NextOfAnchor DEF BalancesAwaited
    <3> QED BY <1>0, <2>1, <2>4, <3>1, AdvanceMaps
  <2> QED BY <2>2, <2>3, <2>4
<1>9. ASSUME NEW answer, Fetched(answer) PROVE UNCHANGED Contract!vars
  BY <1>1, <1>9 DEF Fetched, Stage
<1>10. ASSUME NEW result \in {"ok", "loading", "blocked"}, Deployability(result)
       PROVE  Contract!Next \/ UNCHANGED Contract!vars
  <2>1. path = "scan" /\ candidate # None /\ pc = "check" /\ UNCHANGED enabled
    BY <1>0, <1>10 DEF Deployability, TypeOK
  <2>2. CASE ~enabled
    BY <1>10, <2>1, <2>2, OffMaps DEF Deployability
  <2>3. CASE enabled /\ result = "ok"
    BY <1>1, <1>10, <2>3 DEF Deployability, Stage
  <2>4. CASE enabled /\ result # "ok"
    <3>1. Advance(FindNext(candidate), outcomes \cup {result}) /\ result \in Outcomes
      BY <1>10, <2>4 DEF Deployability, Outcomes
    <3> QED BY <2>1, <3>1, NextCandidateMaps
  <2> QED BY <2>2, <2>3, <2>4
<1>11. ASSUME NEW result \in {"ok", "loading", "blocked", "notReady"}, SelectedChecked(result)
       PROVE  Contract!Next \/ UNCHANGED Contract!vars
  <2>1. CASE result = "ok"
    BY <1>1, <1>11, <2>1 DEF SelectedChecked, Stage
  <2>2. CASE result # "ok"
    BY <1>11, <2>2, AfterSelectedMaps DEF SelectedChecked, Clean
  <2> QED BY <2>1, <2>2
<1>12. CASE RewardsAwaited
  <2>1. candidate # None /\ pc = "rewards" /\ UNCHANGED enabled
    BY <1>0, <1>12 DEF RewardsAwaited, TypeOK
  <2>2. CASE candidate \in earned /\ candidate \notin pending /\ path = "scan"
    <3>1. Advance(FindNext(candidate), outcomes \cup {"eligible"}) /\ "eligible" \in Outcomes
      BY <1>12, <2>2 DEF RewardsAwaited, Outcomes
    <3> QED BY <2>1, <2>2, <3>1, NextCandidateMaps
  <2>3. CASE candidate \in earned /\ candidate \notin pending /\ path # "scan"
    <3>1. visited = {} /\ outcomes = {}
      BY <1>0, <2>3 DEF Clean, TypeOK
    <3> QED BY <1>12, <2>1, <2>3, <3>1, AfterSelectedMaps DEF RewardsAwaited
  <2>4. CASE ~(candidate \in earned /\ candidate \notin pending) /\ ~enabled
    BY <1>12, <2>1, <2>4, OffMaps DEF RewardsAwaited
  <2>5. CASE ~(candidate \in earned /\ candidate \notin pending) /\ enabled
    <3>1. pc' = "start" /\ UNCHANGED <<visited, outcomes, timer>>
      BY <1>12, <2>5 DEF RewardsAwaited
    <3>2. Contract!Attempt
      BY <2>1, <2>5, <3>1 DEF Contract!Attempt, Stage, Trouble, WakeUp
    <3> QED BY <3>2 DEF Contract!Next
  <2> QED BY <2>2, <2>3, <2>4, <2>5
<1>13. CASE Started
  BY <1>13, OffMaps DEF Started
<1>14. CASE NotStarted
  <2>1. candidate # None /\ pc = "start" /\ UNCHANGED enabled
    BY <1>0, <1>14 DEF NotStarted, TypeOK
  <2>2. CASE ~enabled
    BY <1>14, <2>1, <2>2, OffMaps DEF NotStarted
  <2>3. CASE enabled /\ path = "scan"
    <3>1. Advance(FindNext(candidate), outcomes \cup {"infraFailed"})
          /\ "infraFailed" \in Outcomes
      BY <1>14, <2>3 DEF NotStarted, Outcomes
    <3> QED BY <2>1, <2>3, <3>1, NextCandidateMaps
  <2>4. CASE enabled /\ path # "scan" /\ Len(Queue) > 1
    <3>1. visited = {} /\ outcomes = {} /\ BeginScan(candidate) /\ timer' = timer
      BY <1>0, <1>14, <2>4 DEF NotStarted, Clean, TypeOK
    <3> QED BY <2>1, <2>4, <3>1, BeginMaps
  <2>5. CASE enabled /\ path # "scan" /\ ~(Len(Queue) > 1)
    <3>1. Finish("loading")
      BY <1>14, <2>5 DEF NotStarted
    <3> QED BY <1>0, <2>1, <3>1, FinishMaps DEF Delays
  <2> QED BY <2>2, <2>3, <2>4, <2>5
<1>15. CASE FlowStep
  BY <1>7, <1>8, <1>9, <1>10, <1>11, <1>12, <1>13, <1>14, <1>15 DEF FlowStep
<1> QED
  BY <1>2, <1>3, <1>4, <1>5, <1>6, <1>15
     DEF Next, Poll, OtherRefresh, ContextWrites, ThrottleExpires, vars

\* The scanner implements ScanContract for every queue: each of its steps is a
\* step of the contract, or one the rest of auto-run cannot see.
THEOREM ContractKept == Spec => KeepsContract
<1>1. Init => Contract!Init
  BY DEF Init, Contract!Init, Stage, Trouble, WakeUp
<1>2. IInv /\ Clean /\ [Next]_vars => [Contract!Next]_(Contract!vars)
  BY StepMaps
<1> QED BY <1>1, <1>2, Invariance, CleanInvariance, PTL DEF Spec, KeepsContract, Contract!Safety
=============================================================================
