------------------------------ MODULE MCStores ------------------------------
(* What replicas share, for TLC: idempotency records, rate-limit buckets, the *)
(* schema's history, and the tables that clients read page by page.  They     *)
(* have no state in common, so a behaviour follows one of them.               *)
EXTENDS Idempotency, TLC

CONSTANTS
  Buckets, Limit, Window, Batch, MaxTime, MaxBurst,
  Replicas, Versions, Contents, Null, None, Starts,
  Rows, Instants, MaxPage

VARIABLES
  part,   \* what the behaviour follows
  now, bucket, chosen, granted, deleted,
  history, executed, holder, replica, starts,
  list, table, pager, got, steady, moved, skipped, cut

rateVars == <<now, bucket, chosen, granted, deleted>>
migrationVars == <<history, executed, holder, replica, starts>>
listVars == <<list, table, pager, got, steady, moved, skipped, cut>>
allVars == <<part, vars, rateVars, migrationVars, listVars>>

R == INSTANCE RateLimiter WITH Keys <- Buckets, lost <- deleted
M == INSTANCE Migrations
L == INSTANCE ListPaging WITH Uids <- Rows, Times <- Instants, MaxLimit <- MaxPage

ASSUME StoresAssumption ==
  R!RateLimiterAssumption /\ M!MigrationsAssumption /\ L!PagingAssumption

NoRates == now = 0 /\ bucket = 0 /\ chosen = 0 /\ granted = 0 /\ deleted = 0
NoMigrations ==
  /\ history = 0 /\ executed = 0 /\ holder = 0 /\ replica = 0 /\ starts = 0
NoList ==
  /\ list = 0 /\ table = 0 /\ pager = 0 /\ got = 0
  /\ steady = 0 /\ moved = 0 /\ skipped = 0 /\ cut = 0

\* The records of a behaviour that follows another part: no request is made.
NoRequests ==
  LET k == CHOOSE k \in Keys : TRUE
      h == CHOOSE h \in Hashes : TRUE
  IN  Init /\ \A c \in Clients : req[c].key = k /\ req[c].hash = h

MCInit ==
  \/ part = "idempotency" /\ Init /\ NoRates /\ NoMigrations /\ NoList
  \/ part = "rates" /\ R!Init /\ NoRequests /\ NoMigrations /\ NoList
  \/ part = "migrations" /\ M!Init /\ NoRequests /\ NoRates /\ NoList
  \/ part = "list" /\ L!Init /\ NoRequests /\ NoRates /\ NoMigrations

MCNext ==
  /\ UNCHANGED part
  /\ \/ part = "idempotency" /\ Next /\ UNCHANGED <<rateVars, migrationVars, listVars>>
     \/ part = "rates" /\ R!Next /\ UNCHANGED <<vars, migrationVars, listVars>>
     \/ part = "migrations" /\ M!Next /\ UNCHANGED <<vars, rateVars, listVars>>
     \/ part = "list" /\ L!Next /\ UNCHANGED <<vars, rateVars, migrationVars>>

MCSpec == MCInit /\ [][MCNext]_allVars

\* Clients, buckets and replicas are interchangeable.
Symmetry == Permutations(Clients) \cup Permutations(Buckets) \cup Permutations(Replicas)

-----------------------------------------------------------------------------
(* Properties of the other parts, beside those of Idempotency.               *)

\* In any stretch of a window's length Take lets through at most twice the
\* limit, and one limit more for every live bucket the cleanup deleted.
GrantsBounded == part = "rates" => R!GrantsBounded

\* The SQL of a version was executed once if it is recorded and never
\* otherwise, whichever replicas start together and whatever crashes.
AppliedOnce == part = "migrations" => M!AppliedOnce

\* A replica that serves has the schema of its release, file by file.
ServesItsSchema == part = "migrations" => M!ServesItsSchema

\* A client that follows next_cursor to its end is given every row that stayed
\* in its place once, whatever changes between its pages (pagination, the list
\* handlers), unless a failure has cut the list short.
PagedExactly == part = "list" => L!PagedExactly
=============================================================================
