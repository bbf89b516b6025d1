---------------------------- MODULE AutoRunQueue ----------------------------
(***************************************************************************)
(* The included queue of auto-run: the persisted autoRun object            *)
(* (useAutoRunStore.ts), the three effects of AutoRunProvider that seed,   *)
(* extend and normalise it, the user's include and exclude, the list       *)
(* helpers (utils.ts) and the migration of the queue keyed by agent type.  *)
(*                                                                         *)
(* A write is visible to the next write at once (autoRunRef) but to the    *)
(* effects and the callbacks only once rendered: their closures hold the   *)
(* lists of the last render.  React renders a click synchronously, with    *)
(* its effects; a write by an effect is rendered some time later, and      *)
(* clicks and services polls may come first.                               *)
(***************************************************************************)
EXTENDS Naturals, FiniteSets, Sequences, SequencesExt

CONSTANTS
  Configured,   \* the configured instances, in the order of the services
  Types,        \* the agent types
  TypeOf,       \* the agent type of an instance
  MaxOrder      \* bound on the orders a run of clicks reaches before a rerender

Instances == ToSet(Configured)

ASSUME ConfiguredIsAList == Configured \in Seq(Instances)
ASSUME ConfiguredOnce == IsInjective(Configured)
ASSUME TypeOfType == TypeOf \in [Instances -> Types]

VARIABLES
  available,    \* configured, not decommissioned and not archived
  store,        \* the autoRun object as last written
  rendered      \* the autoRun object as last rendered

queueVars == <<available, store, rendered>>

Items  == [id : Instances, order : Nat]
Ids(q) == {q[n].id : n \in DOMAIN q}
Stores == [initialized : BOOLEAN, included : Seq(Items), excluded : SUBSET Instances]

\* No instance is both queued and listed as excluded.
QueueTypeOK ==
  /\ available \subseteq Instances
  /\ store \in Stores /\ rendered \in Stores
  /\ Ids(store.included) \cap store.excluded = {}

-----------------------------------------------------------------------------
(* The list helpers.                                                       *)

\* A list is read through its places: the places P, by ascending key and else in
\* their order (lodash sortBy is stable).
Precedes(key, m, n) == key[m] < key[n] \/ (key[m] = key[n] /\ m < n)
Rank(key, P, n) == Cardinality({m \in P : Precedes(key, m, n)})
Nth(key, P, r) == CHOOSE n \in P : Rank(key, P, n) = r - 1
Listed(q, key, P) == [r \in 1 .. Cardinality(P) |-> q[Nth(key, P, r)]]

Places(q) == [n \in DOMAIN q |-> n]
Orders(q) == [n \in DOMAIN q |-> q[n].order]

SortByOrder(q) == Listed(q, Orders(q), DOMAIN q)

\* filter: the items of the instances in S.
Filtered(q, S) == Listed(q, Places(q), {n \in DOMAIN q : q[n].id \in S})

\* normalizeIncludedInstances: the first of each instance, orders compacted.
Normalized(q) ==
  LET Firsts == {n \in DOMAIN q : \A m \in DOMAIN q :
                   q[m].id = q[n].id => ~Precedes(Orders(q), m, n)}
      unique == Listed(q, Orders(q), Firsts)
  IN  [n \in DOMAIN unique |-> [id |-> unique[n].id, order |-> n - 1]]

\* appendNewInstances: orders continue after the current maximum.
Appended(q, new) ==
  LET next == IF q = <<>> THEN 0 ELSE 1 + Max({q[n].order : n \in DOMAIN q})
  IN  q \o [n \in DOMAIN new |-> [id |-> new[n], order |-> next + n - 1]]

\* getEligibleInstances.
Eligible(A) ==
  Listed(Configured, Places(Configured), {n \in DOMAIN Configured : Configured[n] \in A})

\* sortIncludedInstances of the normalised list, for the rotation and the UI.
Sorted(q, A) == SortByOrder(Filtered(Normalized(q), A))

\* Mutant: a queue of one counts as empty.
OrderedOffByOne(q, A) ==
  LET sorted == Sorted(q, A)
  IN  IF Len(sorted) > 1 THEN [n \in DOMAIN sorted |-> sorted[n].id] ELSE Eligible(A)

\* getOrderedIncludedInstances: what auto-run rotates through.
Ordered(q, A) ==
  LET sorted == Sorted(q, A)
  IN  IF sorted # <<>> THEN [n \in DOMAIN sorted |-> sorted[n].id] ELSE Eligible(A)

-----------------------------------------------------------------------------
(* The effects of a render that shows w with A available.  All three read  *)
(* w; each write merges with the writes before it.                         *)

Seed(w, A, prev) ==
  IF ~w.initialized /\ A # {}
  THEN [prev EXCEPT !.initialized = TRUE, !.included = Appended(<<>>, Eligible(A))]
  ELSE prev

\* Mutant: the user's exclusions are not looked at.
AppendNewForgetful(w, A, prev) ==
  LET new == Eligible(A \ Ids(w.included))
  IN  IF w.initialized /\ new # <<>>
      THEN [prev EXCEPT !.included = Appended(w.included, new)]
      ELSE prev

AppendNew(w, A, prev) ==
  LET new == Eligible(A \ (Ids(w.included) \cup w.excluded))
  IN  IF w.initialized /\ new # <<>>
      THEN [prev EXCEPT !.included = Appended(w.included, new)]
      ELSE prev

\* Mutant: the list is rebuilt in the order of the services.
NormalizeRebuilds(w, A, prev) ==
  LET kept == Eligible((A \cap Ids(w.included)) \ w.excluded)
  IN  IF A # {} THEN [prev EXCEPT !.included = Appended(<<>>, kept)] ELSE prev

\* Mutant: only a dropped item counts as a change.
NormalizeOnLength(w, A, prev) ==
  LET normalized == Filtered(Normalized(w.included), A \ w.excluded)
  IN  IF w.included # <<>> /\ A # {} /\ Len(normalized) # Len(w.included)
      THEN [prev EXCEPT !.included = normalized]
      ELSE prev

Normalize(w, A, prev) ==
  LET normalized == Filtered(Normalized(w.included), A \ w.excluded)
  IN  IF w.included # <<>> /\ A # {} /\ normalized # w.included
      THEN [prev EXCEPT !.included = normalized]
      ELSE prev

Effects(w, A) == Normalize(w, A, AppendNew(w, A, Seed(w, A, w)))

\* w is rendered with A available, and the effects run.
Render(w, A) ==
  /\ available' = A
  /\ rendered' = w
  /\ store' = Effects(w, A)

-----------------------------------------------------------------------------
\* prepateAutoRunInstancesForMigration: every instance of a type takes its order.
Migrated(types) ==
  LET instances == Eligible({i \in Instances : TypeOf[i] \in ToSet(types)})
      place(i) == CHOOSE k \in DOMAIN types : types[k] = TypeOf[i]
  IN  SortByOrder([n \in DOMAIN instances |->
                     [id |-> instances[n], order |-> place(instances[n]) - 1]])

\* A first launch, or the first one after the queue was keyed by agent type.
QueueInit ==
  /\ available = {}
  /\ \/ store = [initialized |-> FALSE, included |-> <<>>, excluded |-> {}]
     \/ \E T \in SUBSET Types : \E types \in SetToAllKPermutations(T) :
          /\ ToSet(types) = T /\ T # {}
          /\ store = [initialized |-> TRUE, included |-> Migrated(types),
                      excluded |-> {i \in Instances : TypeOf[i] \notin T}]
  /\ rendered = store

\* A services poll: instances appear, are archived, restored or decommissioned.
ServicesRender(A) == A # available /\ Render(store, A)

\* An effect's write is rendered.
Rerender == store # rendered /\ Render(store, available)

\* includeInstance, from the closure of the last render.
IncludeInstance(i) ==
  /\ i \in available
  /\ i \in rendered.excluded \/ i \notin Ids(rendered.included)
  /\ \A n \in DOMAIN rendered.included : rendered.included[n].order < MaxOrder
  /\ LET excluded == rendered.excluded \ {i}
     IN  IF i \in Ids(rendered.included)
         THEN Render([store EXCEPT !.excluded = excluded], available)
         ELSE Render([store EXCEPT !.excluded = excluded,
                                   !.included = Appended(rendered.included, <<i>>)],
                     available)

\* excludeInstance of a listed instance, never of the last one.
ExcludeInstance(i) ==
  /\ i \in Ids(Sorted(rendered.included, available))
  /\ Len(Sorted(rendered.included, available)) > 1
  /\ Render([store EXCEPT
               !.included = Filtered(rendered.included, Instances \ {i}),
               !.excluded = rendered.excluded \cup {i}], available)

QueueNext ==
  \/ \E A \in SUBSET Instances : ServicesRender(A)
  \/ Rerender
  \/ \E i \in Instances : IncludeInstance(i) \/ ExcludeInstance(i)

QueueSpec == QueueInit /\ [][QueueNext]_queueVars

-----------------------------------------------------------------------------
(* Properties.                                                             *)

Settled == rendered = store

\* The effects read one render and overwrite each other's writes, yet they do
\* not chase each other: from any state, three more renders write nothing new.
\* A queue whose effects keep disagreeing would write to disk for ever.
EffectsConverge ==
  LET once == Effects(store, available)
      twice == Effects(once, available)
      thrice == Effects(twice, available)
  IN  Effects(thrice, available) = thrice

\* Once settled, auto-run has queued exactly the available instances the user did
\* not exclude, each once, in places numbered from 0 (A.6 of the checklist).
SettledQueueIsTheUsersChoice ==
  (Settled /\ store.initialized /\ available # {}) =>
     /\ Ids(store.included) = available \ store.excluded
     /\ Len(store.included) = Cardinality(Ids(store.included))
     /\ \A n \in DOMAIN store.included : store.included[n].order = n - 1

\* An instance the user excluded is rotated through only when every available
\* instance is excluded, and no click of the user brings that about.
ExcludedRunsOnlyAsFallback ==
  Settled => \/ ToSet(Ordered(store.included, available)) \cap store.excluded = {}
             \/ available \subseteq store.excluded

Place(q, i) == CHOOSE n \in DOMAIN q : q[n].id = i

Before(q, i, j) ==
  LET sorted == SortByOrder(q) IN Place(sorted, i) < Place(sorted, j)

\* From one render to the next, instances that stay queued keep their order,
\* whatever else comes and goes, and whichever write of several wins.
OrderKept ==
  [][\A i, j \in Ids(rendered.included) \cap Ids(rendered'.included) :
       Before(rendered.included, i, j) => Before(rendered'.included, i, j)]_queueVars
=============================================================================
