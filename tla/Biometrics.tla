----------------------------- MODULE Biometrics -----------------------------
(***************************************************************************)
(* The facial enrolment of one Project User (internal/api/biometrics.go)   *)
(* and the external provider that holds the templates                      *)
(* (internal/api/biometric_provider.go).  The row and the provider are     *)
(* changed by separate calls, of which each may fail, and of which the     *)
(* provider's may fail after it took effect; requests overlap freely.      *)
(***************************************************************************)
EXTENDS Naturals, FiniteSets

CONSTANTS
  Templates,  \* template identifiers; the provider may give one out again
  Uids,       \* identifiers of rows of biometric_credentials
  Handlers,   \* requests in flight
  None        \* no row, no template

\* What the constants have to satisfy.
BiometricsAssumption == None \notin Templates \cup Uids

VARIABLES
  row,       \* the row of the user: its uid and provider_template_id
  provider,  \* templates the provider holds
  used,      \* uids that were inserted
  handler,   \* what each request in flight knows
  removed,   \* templates removed for the user, or after a save that failed
  contested  \* templates given out while another enrolment replaces them

vars == <<row, provider, used, handler, removed, contested>>

NoRow == [uid |-> None, template |-> None]
Idle == [pc |-> "idle", uid |-> None, new |-> None, old |-> None]

Init ==
  /\ row = NoRow
  /\ provider = {} /\ used = {} /\ removed = {} /\ contested = {}
  /\ handler = [h \in Handlers |-> Idle]

Go(h, r) == handler' = [handler EXCEPT ![h] = r]
At(h, pc) == handler[h].pc = pc

\* Enrolments that will still save t, and that may still delete it as the old one.
Obtained(t) == {h \in Handlers : handler[h].pc \in {"enrolled", "old_read"} /\ handler[h].new = t}
Replacing(t) == {h \in Handlers : handler[h].pc \in {"old_read", "saved"} /\ handler[h].old = t}

----------------------------------------------------------------------------
(* enrollBiometric.                                                        *)

\* The provider's POST, for which it may choose an id it gave before; when its
\* answer is lost the request ends, and the provider keeps the template.
Enroll(h, t, answered) ==
  /\ handler[h] = Idle
  /\ provider' = provider \cup {t} /\ removed' = removed \ {t}
  /\ contested' = IF Replacing(t) # {} THEN contested \cup {t} ELSE contested \ {t}
  /\ Go(h, IF answered THEN [Idle EXCEPT !.pc = "enrolled", !.new = t] ELSE Idle)
  /\ UNCHANGED <<row, used>>

\* A row that cannot be read counts as none.
ReadOldTemplate(h, read) ==
  /\ At(h, "enrolled")
  /\ LET old == IF read THEN row.template ELSE None IN
       /\ contested' = IF Obtained(old) \ {h} # {} THEN contested \cup {old} ELSE contested
       /\ Go(h, [handler[h] EXCEPT !.pc = "old_read", !.old = old])
  /\ UNCHANGED <<row, provider, used, removed>>

\* INSERT ... ON CONFLICT DO UPDATE: a row that is there keeps its uid.
Upserted(h, u) == [uid |-> IF row = NoRow THEN u ELSE row.uid, template |-> handler[h].new]
Upsert(h, u) ==
  /\ u \notin used
  /\ row' = Upserted(h, u)
  /\ used' = IF row = NoRow THEN used \cup {u} ELSE used

SaveEnrollment(h, u) ==
  /\ At(h, "old_read")
  /\ Upsert(h, u)
  /\ Go(h, [handler[h] EXCEPT !.pc = "saved"])
  /\ UNCHANGED <<provider, removed, contested>>

\* An error of the statement, which may have been committed all the same.
SaveFails(h) ==
  /\ At(h, "old_read")
  /\ UNCHANGED <<row, used>> \/ \E u \in Uids : Upsert(h, u)
  /\ Go(h, [handler[h] EXCEPT !.pc = "failed"])
  /\ UNCHANGED <<provider, removed, contested>>

\* After any error the new template is taken back.
TakeBack(h, ok) ==
  /\ At(h, "failed")
  /\ provider' = IF ok THEN provider \ {handler[h].new} ELSE provider
  /\ removed' = IF ok THEN removed \cup {handler[h].new} ELSE removed
  /\ Go(h, Idle)
  /\ UNCHANGED <<row, used, contested>>

SupersededAlways(h) == {handler[h].old}
Superseded(h) == {handler[h].old} \ {None, handler[h].new}
DeleteOldTemplate(h, ok) ==
  /\ At(h, "saved")
  /\ provider' = IF ok THEN provider \ Superseded(h) ELSE provider
  /\ Go(h, Idle)
  /\ UNCHANGED <<row, used, removed, contested>>

----------------------------------------------------------------------------
(* deleteBiometricEnrollment.                                              *)

ReadEnrollment(h) ==
  /\ handler[h] = Idle /\ row # NoRow
  /\ Go(h, [Idle EXCEPT !.pc = "deleting", !.uid = row.uid, !.old = row.template])
  /\ UNCHANGED <<row, provider, used, removed, contested>>

\* The provider's DELETE; a template that is gone already is an answer too.
DeleteTemplate(h, answered) ==
  /\ At(h, "deleting")
  /\ provider' = provider \ {handler[h].old}
  /\ removed' = removed \cup {handler[h].old}
  /\ Go(h, IF answered THEN [handler[h] EXCEPT !.pc = "deleted"] ELSE Idle)
  /\ UNCHANGED <<row, used, contested>>

\* DELETE ... WHERE uid: whatever template the row holds by now.
DeletesRow(h) == row.uid = handler[h].uid
DeleteEnrollment(h) ==
  /\ At(h, "deleted")
  /\ row' = IF DeletesRow(h) THEN NoRow ELSE row
  /\ Go(h, Idle)
  /\ UNCHANGED <<provider, used, removed, contested>>

\* The provider is unavailable, the database fails or the request is lost.
Abandon(h) ==
  /\ handler[h] # Idle
  /\ Go(h, Idle)
  /\ UNCHANGED <<row, provider, used, removed, contested>>

----------------------------------------------------------------------------
Handle(h) ==
  \/ \E t \in Templates, ok \in BOOLEAN : Enroll(h, t, ok)
  \/ \E u \in Uids : SaveEnrollment(h, u)
  \/ \E ok \in BOOLEAN : ReadOldTemplate(h, ok) \/ DeleteOldTemplate(h, ok)
  \/ SaveFails(h) \/ \E ok \in BOOLEAN : TakeBack(h, ok) \/ DeleteTemplate(h, ok)
  \/ ReadEnrollment(h) \/ DeleteEnrollment(h) \/ Abandon(h)

Next == \E h \in Handlers : Handle(h)

Spec == Init /\ [][Next]_vars

----------------------------------------------------------------------------
(* Properties.                                                             *)

\* The row, the provider and the requests are of their types.
TypeOK ==
  /\ row \in {NoRow} \cup [uid : Uids, template : Templates]
  /\ provider \subseteq Templates /\ used \subseteq Uids
  /\ removed \subseteq Templates /\ contested \subseteq Templates
  /\ handler \in [Handlers ->
       [pc : {"idle", "enrolled", "old_read", "saved", "failed", "deleting", "deleted"},
        uid : Uids \cup {None}, new : Templates \cup {None}, old : Templates \cup {None}]]

\* However enrolments overlap, fail and are given an id again, the template the
\* user is verified against is at the provider, unless a deletion the user asked
\* for removed it, an enrolment took it back because its save reported an error,
\* or the provider gave it out again while another enrolment was replacing it
\* (enrollBiometric deletes the old template, never the one in force).
EnrolledTemplateHeld ==
  row # NoRow => row.template \in provider \cup removed \cup contested
=============================================================================
