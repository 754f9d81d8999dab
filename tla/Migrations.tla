---------------------------- MODULE Migrations ----------------------------
(***************************************************************************)
(* Forward migrations at the start of a replica                            *)
(* (internal/store/migrations.go, called from cmd/server/main.go).         *)
(* Replicas of any two releases may start at once.  A release is a set of  *)
(* migration files; a file is its version and its contents, which stand    *)
(* for the SQL and for its checksum.  Connections are lost and processes   *)
(* end at any point; each statement outside a transaction is committed on  *)
(* its own.                                                                *)
(***************************************************************************)
EXTENDS Naturals, FiniteSets, FiniteSetsExt

CONSTANTS
  Replicas,
  Versions,   \* version numbers of migrations
  Contents,   \* contents of a file
  Null,       \* a checksum that an older release did not record
  None,       \* no row; no one
  Starts      \* bound: starts of a replica that are explored

\* What the constants have to satisfy.
MigrationsAssumption ==
  /\ Versions \subseteq Nat
  /\ Null \notin Contents /\ None \notin Contents \cup {Null} \cup Replicas
  /\ Starts \in Nat

VARIABLES
  history,   \* schema_migrations: the checksum of each version that is applied
  executed,  \* how often the SQL of each version has been committed
  holder,    \* replica that holds the advisory lock
  replica,   \* where each replica is, its release and the versions it found
  starts     \* starts so far

vars == <<history, executed, holder, replica, starts>>

\* loadMigrations gives each version once, in the order of the versions.
Releases == UNION {[S -> Contents] : S \in SUBSET Versions}
Off == [pc |-> "off", release |-> <<>>, found |-> {}]
Go(r, p) == replica' = [replica EXCEPT ![r] = p]
At(r, pc) == replica[r].pc = pc
Release(r) == holder' = IF holder = r THEN None ELSE holder
Files(r) == DOMAIN replica[r].release
Applied == {v \in Versions : history[v] # None}

\* The database is empty or was made by a release that kept no checksums.
Init ==
  /\ \E S \in SUBSET Versions :
       /\ history = [v \in Versions |-> IF v \in S THEN Null ELSE None]
       /\ executed = [v \in Versions |-> IF v \in S THEN 1 ELSE 0]
  /\ holder = None
  /\ replica = [r \in Replicas |-> Off]
  /\ starts = 0

LoadMigrations(r, release) ==
  /\ At(r, "off") /\ starts < Starts
  /\ Go(r, [pc |-> "waiting", release |-> release, found |-> {}])
  /\ starts' = starts + 1
  /\ UNCHANGED <<history, executed, holder>>

MayLock(r) == holder = None
AcquireLock(r) ==
  /\ At(r, "waiting") /\ MayLock(r)
  /\ holder' = r
  /\ Go(r, [replica[r] EXCEPT !.pc = "locked"])
  /\ UNCHANGED <<history, executed, starts>>

\* Every applied migration is in the release, with the checksum that is recorded.
AcceptsPresent(r) == Applied \subseteq Files(r)
Accepts(r) ==
  /\ Applied \subseteq Files(r)
  /\ \A v \in Applied : history[v] \in {Null, replica[r].release[v]}

ReadHistory(r) ==
  /\ At(r, "locked") /\ Accepts(r)
  /\ Go(r, [replica[r] EXCEPT !.pc = "sealing", !.found = Applied])
  /\ UNCHANGED <<history, executed, holder, starts>>

Refuse(r) ==
  /\ At(r, "locked") /\ ~Accepts(r)
  /\ Go(r, Off) /\ Release(r)
  /\ UNCHANGED <<history, executed, starts>>

\* UPDATE ... WHERE checksum IS NULL, one statement per version.
Sealed(r, v) == [history EXCEPT ![v] = IF @ = Null THEN replica[r].release[v] ELSE @]
Unsealed(r) == {v \in replica[r].found : history[v] = Null}
Seal(r) ==
  /\ At(r, "sealing") /\ Unsealed(r) # {}
  /\ history' = Sealed(r, Min(Unsealed(r)))
  /\ UNCHANGED <<executed, holder, replica, starts>>

RequireChecksums(r) ==
  /\ At(r, "sealing") /\ Unsealed(r) = {}
  /\ Go(r, [replica[r] EXCEPT !.pc = "applying"])
  /\ UNCHANGED <<history, executed, holder, starts>>

\* The SQL and the record of the next file, in one transaction.
Missing(r) == Files(r) \ replica[r].found
CommittedApart(r, v) == \* Faulty variant: the record is written after the commit.
  /\ executed' = [executed EXCEPT ![v] = @ + 1]
  /\ \/ history' = [history EXCEPT ![v] = replica[r].release[v]]
     \/ history' = history
Committed(r, v) ==
  /\ executed' = [executed EXCEPT ![v] = @ + 1]
  /\ history' = [history EXCEPT ![v] = replica[r].release[v]]

Apply(r) ==
  /\ At(r, "applying") /\ Missing(r) # {}
  /\ LET v == Min(Missing(r))
     IN  IF history[v] # None   \* the INSERT meets the row of another replica
         THEN UNCHANGED <<history, executed>> /\ Go(r, Off) /\ Release(r)
         ELSE /\ Committed(r, v)
              /\ Go(r, [replica[r] EXCEPT !.found = @ \cup {v}])
              /\ UNCHANGED holder
  /\ UNCHANGED starts

\* Migrate returns; its deferred function releases the lock.
Serve(r) ==
  /\ At(r, "applying") /\ Missing(r) = {}
  /\ Go(r, [replica[r] EXCEPT !.pc = "running"]) /\ Release(r)
  /\ UNCHANGED <<history, executed, starts>>

\* A statement or a commit fails, or the process ends; the lock goes with the session.
Stop(r) ==
  /\ ~At(r, "off")
  /\ Go(r, Off) /\ Release(r)
  /\ UNCHANGED <<history, executed, starts>>

Next ==
  \E r \in Replicas :
    \/ \E release \in Releases : LoadMigrations(r, release)
    \/ AcquireLock(r) \/ ReadHistory(r) \/ Refuse(r) \/ Seal(r) \/ RequireChecksums(r)
    \/ Apply(r) \/ Serve(r) \/ Stop(r)

Spec == Init /\ [][Next]_vars

----------------------------------------------------------------------------
(* Properties.                                                             *)

\* The table, the lock and what the replicas know are of their types.
TypeOK ==
  /\ history \in [Versions -> Contents \cup {Null, None}]
  /\ executed \in [Versions -> Nat]
  /\ holder \in Replicas \cup {None}
  /\ starts \in 0 .. Starts
  /\ \A r \in Replicas : /\ replica[r].release \in Releases
                         /\ replica[r].found \subseteq Versions

\* The SQL of a version has been executed once if the version is recorded, and
\* never otherwise, whatever crashed in between.
AppliedOnce == \A v \in Versions : executed[v] = IF v \in Applied THEN 1 ELSE 0

\* A replica that serves has the schema of its release: every file of it is
\* recorded with the contents the replica has, though others start and migrate
\* meanwhile ("changing or removing one causes startup to fail instead of
\* silently accepting schema drift").
ServesItsSchema ==
  \A r \in Replicas : At(r, "running") =>
    \A v \in Files(r) : history[v] = replica[r].release[v]

=============================================================================
