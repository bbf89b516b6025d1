------------------------------ MODULE PearlStore ------------------------------
(***************************************************************************)
(* The renderer's copy of pearl_store.json (StoreProvider.tsx), the writes *)
(* that go to it and to the middleware (ElectronApiProvider.tsx), the      *)
(* one-off migration from the Electron store, and the seed that auto-run   *)
(* writes into a store without its key (AutoRunProvider).                  *)
(*                                                                         *)
(* The middleware answers requests in any order, each at one instant; a    *)
(* request may be refused, or carried out and its answer lost.  Quitting   *)
(* also ends the middleware, so requests under way are lost.  Two values   *)
(* stand for all: of the auto-run object, what its enabled field holds.    *)
(***************************************************************************)
EXTENDS Naturals, Sequences, FiniteSets, SequencesExt

CONSTANTS
  Keys,           \* the backend-bound keys
  AutoRun,        \* the one auto-run is kept under
  Legacy,         \* what the Electron store of an older version holds
  CorruptAnswers, \* the middleware may answer HTTP 500 or no JSON
  MaxWrites,      \* bound on the writes under way or pending when the user writes
  MaxLaunches     \* bound on the launches

Values == {"on", "off"}
Absent == "absent"
Stores == [Keys -> Values \cup {Absent}]
Empty  == [k \in Keys |-> Absent]

ASSUME AutoRunIsKey == AutoRun \in Keys
ASSUME LegacyType == Legacy \in Stores
ASSUME KeysAreFinite == IsFiniteSet(Keys)
ASSUME BoundsAreNat == MaxWrites \in Nat /\ MaxLaunches \in Nat \ {0}

VARIABLES
  backend,      \* pearl_store.json
  done,         \* pearlStoreMigrationComplete
  repaired,     \* pearlStoreAutoRunRepaired
  written,      \* history: the keys the user ever wrote
  launch,       \* history: the number of this launch
  hydration,    \* where attemptHydration is
  retriesLeft,
  response,     \* the store a GET under way has read
  state,        \* storeState
  snapshot,     \* hydrationSnapshotRef
  pendingOps,   \* pendingOpsRef
  posts,        \* writes under way
  migration,    \* where the migration is
  didWrite,
  failed,       \* a write of the migration's present phase failed
  latest        \* history: the user's last writes in this launch

disk      == <<backend, done, repaired, written, launch>>
reading   == <<hydration, retriesLeft, snapshot>>
migrating == <<migration, didWrite, failed>>
vars == <<disk, reading, response, state, pendingOps, posts, migrating, latest>>

Sources    == {"user", "seed", "migration", "repair"}
Posts      == [key : Keys, value : Values, by : Sources]
Hydrated   == hydration = "done"
PostsOf(s) == {n \in DOMAIN posts : posts[n].by = s}

\* Writes wait in pendingOps only before hydration; the migration runs only after
\* it, and has requests under way only while it awaits them.
TypeOK ==
  /\ backend \in Stores /\ done \in BOOLEAN /\ repaired \in BOOLEAN
  /\ written \subseteq Keys /\ launch \in 1 .. MaxLaunches
  /\ hydration \in {"asking", "served", "waiting", "done"} /\ retriesLeft \in 0 .. 3
  /\ response \in Stores /\ state \in Stores /\ snapshot \in Stores /\ latest \in Stores
  /\ pendingOps \in Seq(Keys \X Values) /\ posts \in Seq(Posts)
  /\ migration \in {"idle", "writing", "repair", "repairing", "asking", "served", "done"}
  /\ didWrite \in BOOLEAN /\ failed \in BOOLEAN
  /\ pendingOps # <<>> => ~Hydrated
  /\ migration # "idle" => Hydrated
  /\ PostsOf("migration") # {} => migration = "writing"
  /\ PostsOf("repair") # {} => migration = "repairing"

-----------------------------------------------------------------------------
\* The first launch with a backend store: it is new, or holds the auto-run object
\* an earlier version wrote before it was migrated.
Init ==
  /\ backend \in {Empty, [Empty EXCEPT ![AutoRun] = "off"]}
  /\ done = FALSE /\ repaired = FALSE
  /\ written = {} /\ launch = 1
  /\ hydration = "asking" /\ retriesLeft = 3
  /\ response = Empty /\ state = Empty /\ snapshot = Empty
  /\ pendingOps = <<>> /\ posts = <<>>
  /\ migration = "idle" /\ didWrite = FALSE /\ failed = FALSE
  /\ latest = Empty

\* The app is quit or crashes, and is launched again.
Restart ==
  /\ launch < MaxLaunches
  /\ launch' = launch + 1
  /\ hydration' = "asking" /\ retriesLeft' = 3
  /\ response' = Empty /\ state' = Empty /\ snapshot' = Empty
  /\ pendingOps' = <<>> /\ posts' = <<>>
  /\ migration' = "idle" /\ didWrite' = FALSE /\ failed' = FALSE
  /\ latest' = Empty
  /\ UNCHANGED <<backend, done, repaired, written>>

-----------------------------------------------------------------------------
(* Hydration.                                                              *)

OpsOn(k)  == {n \in DOMAIN pendingOps : pendingOps[n][1] = k}
LastOn(k) == CHOOSE n \in OpsOn(k) : \A m \in OpsOn(k) : m <= n

\* Mutant: what the backend answered wins.
DrainedUnder(store) ==
  [k \in Keys |-> IF store[k] = Absent /\ OpsOn(k) # {} THEN pendingOps[LastOn(k)][2]
                  ELSE store[k]]

\* drainPendingOps: of several operations on a key the last one wins.
Drained(store) ==
  [k \in Keys |-> IF OpsOn(k) = {} THEN store[k] ELSE pendingOps[LastOn(k)][2]]

HydratedWith(store) ==
  /\ hydration' = "done"
  /\ state' = Drained(store)
  /\ pendingOps' = <<>>

HydrationServed ==
  /\ hydration = "asking"
  /\ hydration' = "served"
  /\ response' = backend
  /\ UNCHANGED <<disk, retriesLeft, snapshot, state, pendingOps, posts, migrating, latest>>

HydrationArrives ==
  /\ hydration = "served"
  /\ snapshot' = response
  /\ HydratedWith(response)
  /\ response' = Empty
  /\ UNCHANGED <<disk, retriesLeft, posts, migrating, latest>>

\* Mutant: the last attempt does not fall back.
HydrationFailsForGood ==
  /\ hydration \in {"asking", "served"}
  /\ hydration' = "waiting" /\ UNCHANGED <<state, pendingOps>>
  /\ response' = Empty
  /\ UNCHANGED <<disk, retriesLeft, snapshot, posts, migrating, latest>>

\* No answer: try again in 3s, or go on with an empty store after the last retry.
HydrationFails ==
  /\ hydration \in {"asking", "served"}
  /\ IF retriesLeft > 0
     THEN hydration' = "waiting" /\ UNCHANGED <<state, pendingOps>>
     ELSE HydratedWith(Empty)
  /\ response' = Empty
  /\ UNCHANGED <<disk, retriesLeft, snapshot, posts, migrating, latest>>

\* A corrupt answer: go on with an empty store at once.
HydrationCorrupt ==
  /\ CorruptAnswers
  /\ hydration = "asking"
  /\ HydratedWith(Empty)
  /\ UNCHANGED <<disk, retriesLeft, snapshot, response, posts, migrating, latest>>

HydrationRetries ==
  /\ hydration = "waiting" /\ retriesLeft > 0
  /\ hydration' = "asking"
  /\ retriesLeft' = retriesLeft - 1
  /\ UNCHANGED <<disk, snapshot, response, state, pendingOps, posts, migrating, latest>>

-----------------------------------------------------------------------------
(* Writes.                                                                 *)

\* store.set: the event first, then the request.
Write(k, v, source) ==
  /\ IF Hydrated
     THEN state' = [state EXCEPT ![k] = v] /\ UNCHANGED pendingOps
     ELSE pendingOps' = Append(pendingOps, <<k, v>>) /\ UNCHANGED state
  /\ posts' = Append(posts, [key |-> k, value |-> v, by |-> source])

UserWrites(k, v) ==
  /\ Len(posts) < MaxWrites /\ Len(pendingOps) < MaxWrites
  /\ latest[k] # v
  /\ Write(k, v, "user")
  /\ latest' = [latest EXCEPT ![k] = v]
  /\ written' = written \cup {k}
  /\ UNCHANGED <<backend, done, repaired, launch, reading, response, migrating>>

\* Auto-run finds no key of its own and writes the first list, switched off.
SeedAutoRun ==
  /\ Hydrated
  /\ state[AutoRun] = Absent
  /\ Write(AutoRun, "off", "seed")
  /\ UNCHANGED <<disk, reading, response, migrating, latest>>

\* The n-th request settles.  Only the migration looks at the answer.
Settle(n, ok) ==
  /\ posts' = RemoveAt(posts, n)
  /\ IF posts[n].by \in {"migration", "repair"}
     THEN didWrite' = (didWrite \/ ok) /\ failed' = (failed \/ ~ok)
     ELSE UNCHANGED <<didWrite, failed>>
  /\ UNCHANGED <<done, repaired, written, launch, reading, response, state, pendingOps,
                 migration, latest>>

\* The backend stores it; its answer may be lost.
PostProcessed(n, answered) ==
  /\ backend' = [backend EXCEPT ![posts[n].key] = posts[n].value]
  /\ Settle(n, answered)

PostRefused(n) == Settle(n, FALSE) /\ UNCHANGED backend

-----------------------------------------------------------------------------
(* The migration.  Its flags and the Electron store are read by IPC, which *)
(* nobody else writes.                                                     *)

Missing == {k \in Keys : Legacy[k] # Absent /\ snapshot[k] = Absent}

\* Phase 1: copy what the snapshot lacks.
MigrationBegins ==
  /\ Hydrated /\ migration = "idle"
  /\ IF done
     THEN /\ migration' = IF repaired THEN "done" ELSE "repair"
          /\ UNCHANGED posts
     ELSE /\ migration' = "writing"
          /\ posts' = posts \o SetToSeq({[key |-> k, value |-> Legacy[k],
                                          by |-> "migration"] : k \in Missing})
  /\ UNCHANGED <<disk, reading, response, state, pendingOps, didWrite, failed, latest>>

\* Mutant: the flag is set whatever happened to the writes.
WritesSettledRegardless ==
  /\ migration = "writing" /\ PostsOf("migration") = {}
  /\ done' = TRUE
  /\ migration' = "repair" /\ failed' = FALSE
  /\ UNCHANGED <<backend, repaired, written, launch, reading, response, state, pendingOps,
                 posts, didWrite, latest>>

\* The flag is set only when all writes succeeded.
WritesSettled ==
  /\ migration = "writing" /\ PostsOf("migration") = {}
  /\ done' = ~failed
  /\ migration' = "repair" /\ failed' = FALSE
  /\ UNCHANGED <<backend, repaired, written, launch, reading, response, state, pendingOps,
                 posts, didWrite, latest>>

AfterRepair == IF didWrite THEN "asking" ELSE "done"

\* Phase 2: auto-run was on and the backend's snapshot has it off.
RepairBegins ==
  /\ migration = "repair"
  /\ IF ~repaired /\ Legacy[AutoRun] = "on" /\ snapshot[AutoRun] = "off"
     THEN /\ migration' = "repairing"
          /\ posts' = Append(posts, [key |-> AutoRun, value |-> "on", by |-> "repair"])
          /\ UNCHANGED repaired
     ELSE /\ migration' = AfterRepair /\ repaired' = TRUE
          /\ UNCHANGED posts
  /\ UNCHANGED <<backend, done, written, launch, reading, response, state, pendingOps,
                 didWrite, failed, latest>>

\* A failure ends the migration, with no refetch.
RepairSettled ==
  /\ migration = "repairing" /\ PostsOf("repair") = {}
  /\ IF failed
     THEN migration' = "done" /\ UNCHANGED repaired
     ELSE migration' = AfterRepair /\ repaired' = TRUE
  /\ UNCHANGED <<backend, done, written, launch, reading, response, state, pendingOps,
                 posts, didWrite, failed, latest>>

RefetchServed ==
  /\ migration = "asking"
  /\ response' = backend
  /\ migration' = "served"
  /\ UNCHANGED <<disk, reading, state, pendingOps, posts, didWrite, failed, latest>>

RefetchFails ==
  /\ migration \in {"asking", "served"}
  /\ migration' = "done" /\ response' = Empty
  /\ UNCHANGED <<disk, reading, state, pendingOps, posts, didWrite, failed, latest>>

RefetchArrives ==
  /\ migration = "served"
  /\ state' = Drained(response) /\ pendingOps' = <<>>
  /\ migration' = "done" /\ response' = Empty
  /\ UNCHANGED <<disk, reading, posts, didWrite, failed, latest>>

-----------------------------------------------------------------------------
HydrationStep ==
  HydrationServed \/ HydrationArrives \/ HydrationFails \/ HydrationCorrupt \/ HydrationRetries

MigrationStep ==
  \/ MigrationBegins \/ WritesSettled \/ RepairBegins \/ RepairSettled
  \/ RefetchServed \/ RefetchFails \/ RefetchArrives

Next ==
  \/ HydrationStep
  \/ MigrationStep
  \/ \E k \in Keys, v \in Values : UserWrites(k, v)
  \/ SeedAutoRun
  \/ \E n \in DOMAIN posts : \/ \E answered \in BOOLEAN : PostProcessed(n, answered)
                             \/ PostRefused(n)
  \/ Restart

\* A request to the middleware is answered or fails, and timers fire.
Spec == Init /\ [][Next]_vars /\ WF_vars(HydrationStep)

-----------------------------------------------------------------------------
(* Properties.                                                             *)

\* "Drain pending operations after hydration [...] so no writes are lost": what
\* the user wrote in this launch is what the app shows, also when it was written
\* while the store was being read.  A migration that wrote something replaces the
\* store by a second reading, which may lack a later write.
WritesAreSeen ==
  (Hydrated /\ ~didWrite) => \A k \in Keys : latest[k] # Absent => state[k] = latest[k]

\* The migration is declared complete only once every key of the Electron store
\* has arrived, through partial failures, lost answers and crashes; only the user
\* and auto-run's seed may have changed one since.
NothingLeftBehind ==
  done => \A k \in Keys :
            /\ k \notin written \cup {AutoRun} => backend[k] = Legacy[k]
            /\ Legacy[k] # Absent => backend[k] # Absent

\* The app gets a store to work with however the middleware behaves.
HydrationEnds == <>Hydrated
=============================================================================
