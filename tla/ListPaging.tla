----------------------------- MODULE ListPaging -----------------------------
(***************************************************************************)
(* The lists of the API (internal/api/pagination.go, the list handlers).   *)
(* A client follows next_cursor from page to page, with any limit on each, *)
(* while rows are inserted, ended, deleted and, where the list is ordered  *)
(* by updated_at, moved.  A page is one SELECT of limit+1 rows; the list   *)
(* of Projects then loads each of them by statements of their own.         *)
(*                                                                         *)
(* A row is the instant it is ordered by, and whether it is open, internal *)
(* (shown to operators only) or ended: revoked, expired, soft-deleted, or  *)
(* of another status than the one asked for.                               *)
(***************************************************************************)
EXTENDS Naturals, FiniteSets

CONSTANTS
  Uids,      \* uids of rows, which break ties of their instants
  Times,     \* instants
  MaxLimit,  \* bound: the largest limit of a page
  None

\* What the constants have to satisfy.
PagingAssumption ==
  /\ Uids \subseteq Nat /\ IsFiniteSet(Uids)
  /\ Times \subseteq Nat /\ MaxLimit \in Nat \ {0}
  /\ None \notin [at : Nat, uid : Nat]   \* no cursor

VARIABLES
  list,     \* the list that is paged through
  table,    \* its rows
  pager,    \* where the client is: its cursor, and the rows a page has selected
  got,      \* how often the client was given each row
  steady,   \* rows that were on the list all the time, in the same place
  moved,    \* rows whose instant has changed
  skipped,  \* Projects that could not be loaded
  cut       \* a failure has ended the list before its last row

vars == <<list, table, pager, got, steady, moved, skipped, cut>>

----------------------------------------------------------------------------
(* The lists: their order, what they are ordered by, the rows they show.   *)

Present == {"open", "internal", "ended"}
NotEnded == {"open", "internal"}
NewestFirst(shows) ==
  [order |-> "desc", by |-> "created_at", shows |-> shows, loaded |-> "at once"]
OldestFirst(shows) == [NewestFirst(shows) EXCEPT !.order = "asc"]
VisibleTo(operator) == IF operator THEN NotEnded ELSE {"open"}

ListTenantMembers == NewestFirst(Present)
ListTenantInvitations == NewestFirst(Present)
ListMemberSessions == NewestFirst(NotEnded)
ListOAuthApplications == NewestFirst(NotEnded)
ListResourceServers == NewestFirst(NotEnded)
ListOAuthConsents == NewestFirst(Present)
ListProjectUsers == NewestFirst(Present)
ListActivity == NewestFirst(Present)
ListServiceAccounts == NewestFirst(NotEnded)
ListServiceCredentials == NewestFirst(Present)
ListSupportCaseAttachments == NewestFirst(Present)
ListSupportCaseExternalReferences == NewestFirst(Present)
ListSupportCaseMessages(operator) == OldestFirst(VisibleTo(operator))
ListSupportCaseEvents(operator) == OldestFirst(VisibleTo(operator))
ListSupportCases(status) == [NewestFirst(status) EXCEPT !.by = "updated_at"]
ListProjects == [NewestFirst(Present) EXCEPT !.loaded = "one by one"]

Lists ==
  {ListTenantMembers, ListTenantInvitations, ListMemberSessions, ListOAuthApplications,
   ListResourceServers, ListOAuthConsents, ListProjectUsers, ListActivity,
   ListServiceAccounts, ListServiceCredentials, ListSupportCaseAttachments,
   ListSupportCaseExternalReferences, ListProjects}
  \cup {ListSupportCaseMessages(o) : o \in BOOLEAN}
  \cup {ListSupportCaseEvents(o) : o \in BOOLEAN}
  \cup {ListSupportCases(status) : status \in {Present, {"open"}}}

----------------------------------------------------------------------------
Absent == [at |-> 0, state |-> "absent"]
Deleted == [at |-> 0, state |-> "deleted"]   \* its uid is not given out again
Key(u) == [at |-> table[u].at, uid |-> u]
Shown == {u \in Uids : table[u].state \in list.shows}

Init ==
  /\ list \in Lists
  /\ table \in [Uids -> {Absent} \cup [at : Times, state : Present]]
  /\ pager = [pc |-> "paging", after |-> None, limit |-> 0, rows |-> {}]
  /\ got = [u \in Uids |-> 0]
  /\ steady = Shown
  /\ moved = {} /\ skipped = {} /\ cut = FALSE

\* ORDER BY created_at DESC, uid DESC, or ASC and ASC.
ByTime(k, l) == IF list.order = "asc" THEN k.at > l.at ELSE k.at < l.at
Follows(k, l) ==
  \/ ByTime(k, l)
  \/ k.at = l.at /\ IF list.order = "asc" THEN k.uid > l.uid ELSE k.uid < l.uid

First(S, n) ==   \* ORDER BY ... LIMIT
  {u \in S : Cardinality({v \in S : Follows(Key(u), Key(v))}) < n}

\* (created_at,uid)<(cursor); without a cursor the list begins at its first row.
\* Faulty variant: the cursor has no uid.
BeyondTime(k) == pager.after = None \/ ByTime(k, pager.after)
Beyond(k) == pager.after = None \/ Follows(k, pager.after)

Selected(n) == First({u \in Shown : Beyond(Key(u))}, n + 1)

\* What is more than the limit tells that there is more; the cursor is the
\* position of the last row that is given out.
Position(items) == CHOOSE k \in {Key(u) : u \in items} : \A u \in items : ~Follows(Key(u), k)

Respond(items, n) ==
  LET given == First(items, n) IN
  /\ got' = [u \in Uids |-> IF u \in given /\ got[u] < 2 THEN got[u] + 1 ELSE got[u]]
  /\ pager' = [pc |-> IF Cardinality(items) > n THEN "paging" ELSE "done",
               after |-> IF Cardinality(items) > n THEN Position(given) ELSE None,
               limit |-> 0, rows |-> {}]

ListPage(n) ==
  /\ pager.pc = "paging" /\ list.loaded = "at once"
  /\ Respond(Selected(n), n)
  /\ UNCHANGED <<list, table, steady, moved, skipped, cut>>

\* The rows break off after the first k: no handler asks rows.Err(), so the page
\* is answered with what was read, and as the last one.
ReadingFails(n, k) ==
  /\ pager.pc = "paging" /\ list.loaded = "at once"
  /\ k < Cardinality(Selected(n))
  /\ Respond(First(Selected(n), k), n)
  /\ cut' = TRUE
  /\ UNCHANGED <<list, table, steady, moved, skipped>>

\* listProjects selects uids, then loads each Project.
SelectProjects(n) ==
  /\ pager.pc = "paging" /\ list.loaded = "one by one"
  /\ pager' = [pager EXCEPT !.pc = "loading", !.limit = n, !.rows = Selected(n)]
  /\ UNCHANGED <<list, table, got, steady, moved, skipped, cut>>

\* One that cannot be loaded is left out, whatever the error.
LoadProjects(failed) ==
  /\ pager.pc = "loading" /\ failed \subseteq pager.rows
  /\ Respond(pager.rows \ failed, pager.limit)
  /\ skipped' = skipped \cup failed
  /\ cut' = (cut \/ (failed # {} /\ Cardinality(pager.rows) > pager.limit))
  /\ UNCHANGED <<list, table, steady, moved>>

----------------------------------------------------------------------------
(* Meanwhile.                                                              *)

\* Rows become visible when their transactions commit, not in the order of
\* their instants.
SetRow(u, row) ==
  /\ pager.pc # "done"
  /\ table' = [table EXCEPT ![u] = row]
  /\ steady' = IF row.at = table[u].at /\ row.state \in list.shows
               THEN steady ELSE steady \ {u}
  /\ moved' = IF row.at # table[u].at /\ table[u] # Absent /\ row # Deleted
              THEN moved \cup {u} ELSE moved
  /\ UNCHANGED <<list, pager, got, skipped, cut>>

Insert(u, t, state) ==
  /\ table[u] = Absent /\ got[u] = 0
  /\ SetRow(u, [at |-> t, state |-> state])

Instant(u, t) == IF list.by = "updated_at" THEN t ELSE table[u].at

End(u, t) ==
  /\ table[u].state \in NotEnded
  /\ SetRow(u, [at |-> Instant(u, t), state |-> "ended"])

Touch(u, t) ==
  /\ list.by = "updated_at" /\ table[u].state \in Present
  /\ SetRow(u, [table[u] EXCEPT !.at = t])

\* Of a row no more is kept.  Projects are not deleted.
Delete(u) ==
  /\ table[u].state \in Present /\ list.loaded = "at once"
  /\ SetRow(u, Deleted)

Next ==
  \/ \E n \in 1 .. MaxLimit :
       ListPage(n) \/ SelectProjects(n) \/ \E k \in 0 .. n : ReadingFails(n, k)
  \/ \E failed \in SUBSET Uids : LoadProjects(failed)
  \/ \E u \in Uids, t \in Times :
       Touch(u, t) \/ End(u, t) \/ \E state \in NotEnded : Insert(u, t, state)
  \/ \E u \in Uids : Delete(u)

Spec == Init /\ [][Next]_vars

----------------------------------------------------------------------------
(* Properties.                                                             *)

\* A client that follows next_cursor to its end was given every row that was
\* on the list all the time and in its place, and none twice except one that
\* moved, whatever was inserted, ended and deleted between its pages.  Only a
\* failure that the handler does not report ends the list early (cut).
PagedExactly ==
  /\ \A u \in Uids \ moved : got[u] <= 1
  /\ pager.pc = "done" /\ ~cut => \A u \in steady \ skipped : got[u] = 1
=============================================================================
