-------------------------- MODULE TenantMembership --------------------------
(***************************************************************************)
(* The members of ONE tenant and the invitations they join by              *)
(* (internal/api/tenant_members.go, the role check of server.go and        *)
(* permissions.go, the schema in migrations/000005_tenant_memberships).    *)
(*                                                                         *)
(* A management request is authorised by the middleware, which reads the   *)
(* role of the caller, and acts later in a transaction of its own: the     *)
(* role it acts with may be out of date.  A change or removal of a member  *)
(* locks every member row of the tenant first, so it is one step; creating *)
(* an invitation looks for a member without a lock and inserts in a second *)
(* statement, so it is two.                                                *)
(***************************************************************************)
EXTENDS Naturals, FiniteSets

CONSTANTS
  Members,      \* member rows (uids)
  Founder,      \* the owner that signup created
  Emails,       \* addresses; email_normalized is unique over all tenants
  FounderEmail,
  Invitations,  \* invitation rows (uids)
  Handlers,     \* management requests in flight
  Nobody        \* no member

ASSUME MembershipAssumption ==
  /\ Founder \in Members /\ FounderEmail \in Emails /\ Nobody \notin Members

VARIABLES member, invitation, foreign, handler, answer

vars == <<member, invitation, foreign, handler, answer>>

\* "viewer" stands for developer and support too: none of them manages members.
Roles == {"owner", "admin", "viewer"}
InvitationRoles == Roles \ {"owner"}  \* the CHECK of tenant_invitations
MemberStatus == {"unused", "active", "disabled", "removed"}
InvitationStatus == {"unused", "pending", "accepted", "revoked", "deleted"}
Answers == {"none", "invitation_exists", "check_violation"}

ValidMemberRole(role) == role \in Roles
ValidInvitationRole(role) == ValidMemberRole(role) /\ role # "owner"

RoleAllowsManageTenant(role) == role \in {"owner", "admin"}

Idle == [pc |-> "idle", by |-> Nobody, role |-> "viewer",
         email |-> FounderEmail, grant |-> "viewer"]

Exists(m) == member[m].status \in {"active", "disabled"}
ActiveOwners == {m \in Members : member[m].status = "active" /\ member[m].role = "owner"}
Holders(e) == {m \in Members : Exists(m) /\ member[m].email = e}

\* listTenantInvitations shows a pending invitation past its time as expired.
ShownStatus(i) ==
  IF invitation[i].status = "pending" /\ invitation[i].expired
  THEN "expired" ELSE invitation[i].status

Done(h, a) ==
  /\ handler' = [handler EXCEPT ![h] = Idle]
  /\ answer' = [answer EXCEPT ![h] = a]

----------------------------------------------------------------------------
Init ==
  /\ member = [m \in Members |->
       IF m = Founder THEN [status |-> "active", role |-> "owner", email |-> FounderEmail]
                      ELSE [status |-> "unused", role |-> "viewer", email |-> FounderEmail]]
  /\ invitation = [i \in Invitations |->
       [status |-> "unused", email |-> FounderEmail, role |-> "viewer",
        expired |-> FALSE, by |-> Nobody]]
  /\ foreign = {}
  /\ handler = [h \in Handlers |-> Idle]
  /\ answer = [h \in Handlers |-> "none"]

\* consoleAuthorized(permissionManageTenant): a strong session of an active
\* member whose role allows it; the request keeps the role read here.
Authorize(h, m) ==
  /\ handler[h] = Idle
  /\ member[m].status = "active"
  /\ RoleAllowsManageTenant(member[m].role)
  /\ handler' = [handler EXCEPT ![h] =
       [Idle EXCEPT !.pc = "authorized", !.by = m, !.role = member[m].role]]
  /\ answer' = [answer EXCEPT ![h] = "none"]
  /\ UNCHANGED <<member, invitation, foreign>>

Authorized(h) == handler[h].pc = "authorized"

\* A request that fails, is refused or whose client goes away.
Abandon(h) ==
  /\ handler[h] # Idle
  /\ Done(h, "none")
  /\ UNCHANGED <<member, invitation, foreign>>

----------------------------------------------------------------------------
(* Members.                                                                *)

\* The tenant's active owners are counted under the lock; the one concerned
\* is among them.
LastOwnerUnchecked(m) == FALSE
LastOwner(m) == m \in ActiveOwners /\ ~ \E o \in ActiveOwners : o # m

OwnerRuleUnchecked(h, m, role) == TRUE
OwnerRule(h, m, role) ==
  handler[h].role = "admin" => member[m].role # "owner" /\ role # "owner"

UpdateMember(h, m, role, status) ==
  /\ Authorized(h)
  /\ Exists(m)
  /\ OwnerRule(h, m, role)
  /\ LastOwner(m) => role = "owner" /\ status = "active"
  /\ member' = [member EXCEPT ![m].role = role, ![m].status = status]
  /\ Done(h, "none")
  /\ UNCHANGED <<invitation, foreign>>

MayRemove(h, m) ==
  /\ Authorized(h)
  /\ m # handler[h].by
  /\ Exists(m)
  /\ OwnerRule(h, m, "viewer")
  /\ ~LastOwner(m)

\* The foreign key of accepted_by_member_uid sets the column to NULL; the CHECK
\* of the table refuses that while the invitation is an accepted one.
SchemaRefuses(m) ==
  \E i \in Invitations : invitation[i].status = "accepted" /\ invitation[i].by = m

RemoveMember(h, m) ==
  /\ MayRemove(h, m)
  /\ IF SchemaRefuses(m)
     THEN Done(h, "check_violation") /\ UNCHANGED member
     ELSE Done(h, "none") /\ member' = [member EXCEPT ![m].status = "removed"]
  /\ UNCHANGED <<invitation, foreign>>

----------------------------------------------------------------------------
(* Invitations.                                                            *)

\* createTenantInvitation, first statement: nobody in this tenant has the
\* address.  The idempotency claim around it is the module Idempotency's.
CheckInvitee(h, e, role) ==
  /\ Authorized(h)
  /\ ValidInvitationRole(role)
  /\ Holders(e) = {}
  /\ handler' = [handler EXCEPT ![h].pc = "checked", ![h].email = e, ![h].grant = role]
  /\ UNCHANGED <<member, invitation, foreign, answer>>

\* The unique index covers every row with status pending, expired or not.
PendingFor(e) ==
  {i \in Invitations : invitation[i].status = "pending" /\ invitation[i].email = e}

\* Second statement: INSERT ... ON CONFLICT DO NOTHING; the foreign key wants
\* the caller's row.
InsertInvitation(h, i) ==
  LET e == handler[h].email IN
  /\ handler[h].pc = "checked"
  /\ Exists(handler[h].by)
  /\ invitation[i].status = "unused"
  /\ IF PendingFor(e) # {}
     THEN Done(h, "invitation_exists") /\ UNCHANGED invitation
     ELSE /\ Done(h, "none")
          /\ invitation' = [invitation EXCEPT ![i] =
               [status |-> "pending", email |-> e, role |-> handler[h].grant,
                expired |-> FALSE, by |-> Nobody]]
  /\ UNCHANGED <<member, foreign>>

RevokeInvitation(h, i) ==
  /\ Authorized(h)
  /\ Exists(handler[h].by)
  /\ ShownStatus(i) = "pending"
  /\ invitation' = [invitation EXCEPT ![i].status = "revoked"]
  /\ Done(h, "none")
  /\ UNCHANGED <<member, foreign>>

\* ON CONFLICT (email_normalized) DO NOTHING: an address that is taken, here or
\* in another tenant, leaves the invitation as it was.
EmailFree(e) == Holders(e) = {} /\ e \notin foreign

AcceptInvitation(i, m) ==
  /\ ShownStatus(i) = "pending"
  /\ member[m].status = "unused"
  /\ EmailFree(invitation[i].email)
  /\ member' = [member EXCEPT ![m] =
       [status |-> "active", role |-> invitation[i].role, email |-> invitation[i].email]]
  /\ invitation' = [invitation EXCEPT ![i].status = "accepted", ![i].by = m]
  /\ UNCHANGED <<foreign, handler, answer>>

\* signup of another tenant's owner.
SignupElsewhere(e) ==
  /\ Holders(e) = {} /\ e \notin foreign
  /\ foreign' = foreign \cup {e}
  /\ UNCHANGED <<member, invitation, handler, answer>>

\* Seven days.
Expire(i) ==
  /\ invitation[i].status = "pending" /\ ~invitation[i].expired
  /\ invitation' = [invitation EXCEPT ![i].expired = TRUE]
  /\ UNCHANGED <<member, foreign, handler, answer>>

\* The maintenance job, ninety days after an invitation came to its end.
Ended(i) ==
  \/ invitation[i].status \in {"accepted", "revoked"}
  \/ invitation[i].status = "pending" /\ invitation[i].expired

Cleanup(i) ==
  /\ Ended(i)
  /\ invitation' = [invitation EXCEPT ![i].status = "deleted"]
  /\ UNCHANGED <<member, foreign, handler, answer>>

----------------------------------------------------------------------------
Request(h) ==
  \/ \E m \in Members : Authorize(h, m) \/ RemoveMember(h, m)
  \/ \E m \in Members, role \in Roles, status \in {"active", "disabled"} :
       UpdateMember(h, m, role, status)
  \/ \E e \in Emails, role \in Roles : CheckInvitee(h, e, role)
  \/ \E i \in Invitations : InsertInvitation(h, i) \/ RevokeInvitation(h, i)
  \/ Abandon(h)

Next ==
  \/ \E h \in Handlers : Request(h)
  \/ \E i \in Invitations, m \in Members : AcceptInvitation(i, m)
  \/ \E e \in Emails : SignupElsewhere(e)
  \/ \E i \in Invitations : Expire(i) \/ Cleanup(i)

Spec == Init /\ [][Next]_vars

----------------------------------------------------------------------------
(* Properties.                                                             *)

\* Rows, requests and answers are of their types; no invitation, and no request
\* for one, ever carries the role owner.
TypeOK ==
  /\ member \in [Members -> [status : MemberStatus, role : Roles, email : Emails]]
  /\ invitation \in [Invitations ->
       [status : InvitationStatus, email : Emails, role : InvitationRoles,
        expired : BOOLEAN, by : Members \cup {Nobody}]]
  /\ foreign \subseteq Emails
  /\ handler \in [Handlers -> [pc : {"idle", "authorized", "checked"},
       by : Members \cup {Nobody}, role : Roles, email : Emails, grant : InvitationRoles]]
  /\ answer \in [Handlers -> Answers]

\* The tenant always has an active owner, although owners demote, disable and
\* remove one another in requests that were all authorised while they were
\* owners (updateTenantMember and removeTenantMember answer last_owner).
HasActiveOwner == ActiveOwners # {}

Owned(m) == Exists(m) /\ member[m].role = "owner"

\* Whoever becomes an owner, stops being one or is disabled as one, it is by a
\* request that was authorised as an owner's: an admin never gets there, not
\* even when the target was promoted after the request was authorised.
OwnersChangedByOwners ==
  [][\A m \in Members :
       Owned(m) # Owned(m)' \/ (Owned(m) /\ member'[m].status # member[m].status)
       => \E h \in Handlers : handler[h].role = "owner" /\ handler'[h] = Idle]_vars

\* A removal that passes every check of the handler is carried out: the schema
\* means ON DELETE SET NULL to let a member go who accepted an invitation.
RemovalCarriedOut == \A h \in Handlers : answer[h] # "check_violation"

=============================================================================
