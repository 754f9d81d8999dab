----------------------- MODULE TenantMembershipProofs -----------------------
(***************************************************************************)
(* What TenantMembership guarantees for any number of members, addresses,  *)
(* invitations and requests in flight: the tenant always has an active     *)
(* owner, and owners are changed by owners' requests only.                 *)
(***************************************************************************)
EXTENDS TenantMembership, TLAPS

\* The record of a member, an invitation and a request.
MemberRow == [status : MemberStatus, role : Roles, email : Emails]
InvitationRow == [status : InvitationStatus, email : Emails, role : InvitationRoles,
                  expired : BOOLEAN, by : Members \cup {Nobody}]
RequestRow == [pc : {"idle", "authorized", "checked"}, by : Members \cup {Nobody},
               role : Roles, email : Emails, grant : InvitationRoles]

\* A request in flight was authorised with a role that manages the tenant
\* (consoleAuthorized), so one that is not an admin's is an owner's.
ManagersAct ==
  \A h \in Handlers : handler[h].pc # "idle" => RoleAllowsManageTenant(handler[h].role)

\* The inductive invariant.
IInv == TypeOK /\ HasActiveOwner /\ ManagersAct

----------------------------------------------------------------------------
(* Types.                                                                  *)

\* A request that is idle is of its type.
LEMMA IdleType == Idle \in RequestRow
BY MembershipAssumption DEF Idle, RequestRow, Roles, InvitationRoles

\* A request that ends leaves requests and answers of their types.
LEMMA DoneType ==
  ASSUME TypeOK, NEW h \in Handlers, NEW a \in Answers, Done(h, a)
  PROVE  /\ handler' \in [Handlers -> RequestRow] /\ answer' \in [Handlers -> Answers]
BY IdleType DEF TypeOK, Done, RequestRow

\* No action writes a row, a request or an answer that is not of its type.
LEMMA TypeStep == TypeOK /\ [Next]_vars => TypeOK'
<1> SUFFICES ASSUME TypeOK, [Next]_vars PROVE TypeOK'
  OBVIOUS
<1>1. "none" \in Answers /\ "check_violation" \in Answers /\ "invitation_exists" \in Answers
  BY DEF Answers
<1>2. ASSUME NEW h \in Handlers, NEW m \in Members, Authorize(h, m) PROVE TypeOK'
  <2>1. [Idle EXCEPT !.pc = "authorized", !.by = m, !.role = member[m].role] \in RequestRow
    BY <1>2, IdleType DEF TypeOK, RequestRow, Idle
  <2> QED BY <1>1, <1>2, <2>1 DEF TypeOK, Authorize, RequestRow
<1>3. ASSUME NEW h \in Handlers, Abandon(h) PROVE TypeOK'
  BY <1>1, <1>3, DoneType DEF TypeOK, Abandon, RequestRow
<1>4. ASSUME NEW h \in Handlers, NEW m \in Members, NEW role \in Roles,
             NEW status \in {"active", "disabled"}, UpdateMember(h, m, role, status)
      PROVE  TypeOK'
  <2>1. member' \in [Members -> MemberRow]
    <3> DEFINE new == [member[m] EXCEPT !.role = role, !.status = status]
    <3>1. new \in MemberRow
      BY DEF TypeOK, MemberRow, MemberStatus
    <3>2. member' = [member EXCEPT ![m] = new]
      BY <1>4 DEF TypeOK, UpdateMember
    <3> HIDE DEF new
    <3> QED BY <3>1, <3>2 DEF TypeOK, MemberRow
  <2> QED BY <1>1, <1>4, <2>1, DoneType DEF TypeOK, UpdateMember, RequestRow, MemberRow
<1>5. ASSUME NEW h \in Handlers, NEW m \in Members, RemoveMember(h, m) PROVE TypeOK'
  <2>1. member' \in [Members -> MemberRow]
    BY <1>5 DEF TypeOK, RemoveMember, MemberRow, MemberStatus
  <2>2. /\ handler' \in [Handlers -> RequestRow] /\ answer' \in [Handlers -> Answers]
    BY <1>1, <1>5, DoneType DEF RemoveMember
  <2> QED BY <1>5, <2>1, <2>2 DEF TypeOK, RemoveMember, RequestRow, MemberRow
<1>6. ASSUME NEW h \in Handlers, NEW e \in Emails, NEW role \in Roles, CheckInvitee(h, e, role)
      PROVE  TypeOK'
  <2>1. role \in InvitationRoles
    BY <1>6 DEF CheckInvitee, ValidInvitationRole, InvitationRoles
  <2>2. handler' \in [Handlers -> RequestRow]
    <3> DEFINE new == [handler[h] EXCEPT !.pc = "checked", !.email = e, !.grant = role]
    <3>1. new \in RequestRow
      BY <2>1 DEF TypeOK, RequestRow
    <3>2. handler' = [handler EXCEPT ![h] = new]
      BY <1>6 DEF TypeOK, CheckInvitee
    <3> HIDE DEF new
    <3> QED BY <3>1, <3>2 DEF TypeOK, RequestRow
  <2> QED BY <1>6, <2>2 DEF TypeOK, CheckInvitee, RequestRow
<1>7. ASSUME NEW h \in Handlers, NEW i \in Invitations, InsertInvitation(h, i) PROVE TypeOK'
  <2>1. invitation' \in [Invitations -> InvitationRow]
    <3> DEFINE new == [status |-> "pending", email |-> handler[h].email,
                       role |-> handler[h].grant, expired |-> FALSE, by |-> Nobody]
    <3>1. new \in InvitationRow
      BY DEF TypeOK, InvitationRow, InvitationStatus
    <3>2. invitation' \in {invitation, [invitation EXCEPT ![i] = new]}
      BY <1>7 DEF InsertInvitation
    <3> HIDE DEF new
    <3> QED BY <3>1, <3>2 DEF TypeOK, InvitationRow
  <2>2. /\ handler' \in [Handlers -> RequestRow] /\ answer' \in [Handlers -> Answers]
    BY <1>1, <1>7, DoneType DEF InsertInvitation
  <2> QED BY <1>7, <2>1, <2>2 DEF TypeOK, InsertInvitation, RequestRow, InvitationRow
<1>8. ASSUME NEW h \in Handlers, NEW i \in Invitations, RevokeInvitation(h, i) PROVE TypeOK'
  <2>1. invitation' \in [Invitations -> InvitationRow]
    BY <1>8 DEF TypeOK, RevokeInvitation, InvitationRow, InvitationStatus
  <2> QED BY <1>1, <1>8, <2>1, DoneType DEF TypeOK, RevokeInvitation, RequestRow, InvitationRow
<1>9. ASSUME NEW i \in Invitations, NEW m \in Members, AcceptInvitation(i, m) PROVE TypeOK'
  <2>1. member' \in [Members -> MemberRow]
    BY <1>9 DEF TypeOK, AcceptInvitation, MemberRow, MemberStatus, InvitationRoles
  <2>2. invitation' \in [Invitations -> InvitationRow]
    <3> DEFINE new == [invitation[i] EXCEPT !.status = "accepted", !.by = m]
    <3>1. new \in InvitationRow
      BY DEF TypeOK, InvitationRow, InvitationStatus
    <3>2. invitation' = [invitation EXCEPT ![i] = new]
      BY <1>9 DEF TypeOK, AcceptInvitation
    <3> HIDE DEF new
    <3> QED BY <3>1, <3>2 DEF TypeOK, InvitationRow
  <2> QED BY <1>9, <2>1, <2>2 DEF TypeOK, AcceptInvitation, MemberRow, InvitationRow
<1>10. ASSUME NEW e \in Emails, SignupElsewhere(e) PROVE TypeOK'
  BY <1>10 DEF TypeOK, SignupElsewhere
<1>11. ASSUME NEW i \in Invitations, Expire(i) PROVE TypeOK'
  <2>1. invitation' \in [Invitations -> InvitationRow]
    BY <1>11 DEF TypeOK, Expire, InvitationRow
  <2> QED BY <1>11, <2>1 DEF TypeOK, Expire, InvitationRow
<1>12. ASSUME NEW i \in Invitations, Cleanup(i) PROVE TypeOK'
  <2>1. invitation' \in [Invitations -> InvitationRow]
    BY <1>12 DEF TypeOK, Cleanup, InvitationRow, InvitationStatus
  <2> QED BY <1>12, <2>1 DEF TypeOK, Cleanup, InvitationRow
<1>13. CASE UNCHANGED vars
  BY <1>13 DEF TypeOK, vars
<1> QED BY <1>2, <1>3, <1>4, <1>5, <1>6, <1>7, <1>8, <1>9, <1>10, <1>11, <1>12, <1>13
        DEF Next, Request

----------------------------------------------------------------------------
(* Owners.                                                                 *)

\* A request that is in flight after a step was authorised by it, or was in
\* flight before with the same role.
LEMMA ManagersStep == TypeOK /\ ManagersAct /\ [Next]_vars => ManagersAct'
<1> SUFFICES ASSUME TypeOK, ManagersAct, [Next]_vars, NEW g \in Handlers, handler'[g].pc # "idle"
             PROVE  RoleAllowsManageTenant(handler'[g].role)
  BY DEF ManagersAct, RoleAllowsManageTenant
<1>1. ASSUME NEW h \in Handlers, NEW a, Done(h, a)
      PROVE  handler'[g] = handler[g]
  BY <1>1 DEF Done, Idle, TypeOK
<1>2. ASSUME NEW h \in Handlers, NEW m \in Members, Authorize(h, m)
      PROVE  RoleAllowsManageTenant(handler'[g].role)
  <2>1. CASE g = h
    BY <1>2, <2>1 DEF Authorize, TypeOK, Idle
  <2>2. CASE g # h
    BY <1>2, <2>2 DEF Authorize, TypeOK, ManagersAct
  <2> QED BY <2>1, <2>2
<1>3. ASSUME NEW h \in Handlers, NEW e \in Emails, NEW role \in Roles, CheckInvitee(h, e, role)
      PROVE  RoleAllowsManageTenant(handler'[g].role)
  <2>1. handler'[g].role = handler[g].role /\ handler[g].pc # "idle"
    BY <1>3 DEF CheckInvitee, Authorized, TypeOK
  <2> QED BY <2>1 DEF ManagersAct
<1>4. ASSUME handler'[g] = handler[g] PROVE RoleAllowsManageTenant(handler'[g].role)
  BY <1>4 DEF ManagersAct
<1> QED BY <1>1, <1>2, <1>3, <1>4
        DEF Next, Request, Abandon, UpdateMember, RemoveMember, InsertInvitation,
            RevokeInvitation, AcceptInvitation, SignupElsewhere, Expire, Cleanup, vars

\* Of the active owners one remains: the one concerned unless it is the last,
\* who keeps the role and stays active (updateTenantMember, removeTenantMember).
LEMMA OwnerStep == TypeOK /\ HasActiveOwner /\ [Next]_vars => HasActiveOwner'
<1> SUFFICES ASSUME TypeOK, HasActiveOwner, [Next]_vars PROVE \E o \in Members : o \in ActiveOwners'
  BY DEF HasActiveOwner
<1>1. PICK o \in Members : o \in ActiveOwners
  BY DEF HasActiveOwner, ActiveOwners
<1>2. ASSUME member'[o] = member[o] PROVE o \in ActiveOwners'
  BY <1>1, <1>2 DEF ActiveOwners
<1>3. ASSUME NEW h \in Handlers, NEW m \in Members, NEW role \in Roles,
             NEW status \in {"active", "disabled"}, UpdateMember(h, m, role, status)
      PROVE  \E p \in Members : p \in ActiveOwners'
  <2>1. CASE m # o
    BY <1>2, <1>3, <2>1 DEF UpdateMember, TypeOK
  <2>2. CASE m = o /\ LastOwner(m)
    <3>1. member'[m].role = "owner" /\ member'[m].status = "active"
      BY <1>3, <2>2 DEF UpdateMember, TypeOK
    <3> QED BY <3>1 DEF ActiveOwners
  <2>3. CASE m = o /\ ~LastOwner(m)
    <3>1. PICK p \in ActiveOwners : p # m
      BY <1>1, <2>3 DEF LastOwner
    <3>2. p \in Members /\ member'[p] = member[p]
      BY <1>3, <3>1 DEF UpdateMember, TypeOK, ActiveOwners
    <3> QED BY <3>1, <3>2 DEF ActiveOwners
  <2> QED BY <2>1, <2>2, <2>3
<1>4. ASSUME NEW h \in Handlers, NEW m \in Members, RemoveMember(h, m)
      PROVE  \E p \in Members : p \in ActiveOwners'
  <2>1. CASE m # o
    BY <1>2, <1>4, <2>1 DEF RemoveMember, TypeOK
  <2>2. CASE m = o
    <3>1. PICK p \in ActiveOwners : p # m
      BY <1>1, <1>4, <2>2 DEF LastOwner, RemoveMember, MayRemove
    <3>2. p \in Members /\ member'[p] = member[p]
      BY <1>4, <3>1 DEF RemoveMember, TypeOK, ActiveOwners
    <3> QED BY <3>1, <3>2 DEF ActiveOwners
  <2> QED BY <2>1, <2>2
<1>5. ASSUME NEW i \in Invitations, NEW m \in Members, AcceptInvitation(i, m)
      PROVE  \E p \in Members : p \in ActiveOwners'
  <2>1. m # o
    BY <1>1, <1>5 DEF AcceptInvitation, ActiveOwners
  <2> QED BY <1>2, <1>5, <2>1 DEF AcceptInvitation, TypeOK
<1>6. ASSUME UNCHANGED member PROVE \E p \in Members : p \in ActiveOwners'
  BY <1>2, <1>6
<1> QED BY <1>3, <1>4, <1>5, <1>6
        DEF Next, Request, Authorize, Abandon, CheckInvitee, InsertInvitation,
            RevokeInvitation, SignupElsewhere, Expire, Cleanup, vars

\* The request behind a change of an owner is not an admin's, and ends.
LEMMA ChangedByOwner ==
  ASSUME TypeOK, ManagersAct, Next, NEW m \in Members,
         Owned(m) # Owned(m)' \/ (Owned(m) /\ member'[m].status # member[m].status)
  PROVE  \E h \in Handlers : handler[h].role = "owner" /\ handler'[h] = Idle
<1>1. member'[m] # member[m]
  BY DEF Owned, Exists
<1>2. ASSUME NEW h \in Handlers, NEW n \in Members, NEW role \in Roles,
             NEW status \in {"active", "disabled"}, UpdateMember(h, n, role, status)
      PROVE  handler[h].role = "owner" /\ handler'[h] = Idle
  <2>1. n = m
    BY <1>1, <1>2 DEF UpdateMember, TypeOK
  <2>2. handler'[h] = Idle
    BY <1>2 DEF UpdateMember, Done, TypeOK
  <2>3. member'[m].role = role /\ member'[m].status = status
    BY <1>2, <2>1 DEF UpdateMember, TypeOK
  <2>4. member[m].role = "owner" \/ role = "owner"
    BY <1>2, <2>1, <2>3 DEF Owned, Exists, UpdateMember
  <2>5. handler[h].role # "admin"
    BY <1>2, <2>1, <2>4 DEF UpdateMember, OwnerRule
  <2>6. RoleAllowsManageTenant(handler[h].role)
    BY <1>2 DEF UpdateMember, Authorized, ManagersAct
  <2> QED BY <2>2, <2>5, <2>6 DEF RoleAllowsManageTenant
<1>3. ASSUME NEW h \in Handlers, NEW n \in Members, RemoveMember(h, n)
      PROVE  handler[h].role = "owner" /\ handler'[h] = Idle
  <2>1. n = m /\ member'[m] = [member[m] EXCEPT !.status = "removed"]
    BY <1>1, <1>3 DEF RemoveMember, TypeOK
  <2>2. handler'[h] = Idle
    BY <1>3 DEF RemoveMember, Done, TypeOK
  <2>3. member[m].role = "owner"
    BY <2>1 DEF Owned, Exists, TypeOK
  <2>4. handler[h].role # "admin"
    BY <1>3, <2>1, <2>3 DEF RemoveMember, MayRemove, OwnerRule
  <2>5. RoleAllowsManageTenant(handler[h].role)
    BY <1>3 DEF RemoveMember, MayRemove, Authorized, ManagersAct
  <2> QED BY <2>2, <2>4, <2>5 DEF RoleAllowsManageTenant
<1>4. ASSUME NEW i \in Invitations, NEW n \in Members, AcceptInvitation(i, n) PROVE FALSE
  <2>1. n = m /\ ~Owned(m)
    BY <1>1, <1>4 DEF AcceptInvitation, TypeOK, Owned, Exists
  <2>2. member'[m].role # "owner"
    BY <1>4, <2>1 DEF AcceptInvitation, TypeOK, InvitationRoles
  <2> QED BY <2>1, <2>2 DEF Owned
<1> QED BY <1>1, <1>2, <1>3, <1>4
        DEF Next, Request, Authorize, Abandon, CheckInvitee, InsertInvitation,
            RevokeInvitation, SignupElsewhere, Expire, Cleanup

----------------------------------------------------------------------------
(* Theorems.                                                               *)

\* The invariant holds of the tenant that signup creates.
LEMMA InitIInv == Init => IInv
<1> SUFFICES ASSUME Init PROVE IInv
  OBVIOUS
<1>1. TypeOK
  <2>1. member \in [Members -> MemberRow]
    BY MembershipAssumption DEF Init, MemberRow, MemberStatus, Roles
  <2>2. invitation \in [Invitations -> InvitationRow]
    BY MembershipAssumption DEF Init, InvitationRow, InvitationStatus, InvitationRoles, Roles
  <2>3. handler \in [Handlers -> RequestRow]
    BY IdleType DEF Init
  <2> QED BY <2>1, <2>2, <2>3 DEF Init, TypeOK, MemberRow, InvitationRow, RequestRow, Answers
<1>2. HasActiveOwner
  BY MembershipAssumption DEF Init, HasActiveOwner, ActiveOwners
<1>3. ManagersAct
  BY DEF Init, ManagersAct, Idle
<1> QED BY <1>1, <1>2, <1>3 DEF IInv

\* Every behaviour has the inductive invariant.
THEOREM Invariance == Spec => []IInv
<1>1. IInv /\ [Next]_vars => IInv'
  BY TypeStep, ManagersStep, OwnerStep DEF IInv
<1> QED BY InitIInv, <1>1, PTL DEF Spec

\* Rows, requests and answers keep their types, and no invitation ever carries
\* the role owner (createTenantInvitation, acceptTenantInvitation).
THEOREM TypeCorrect == Spec => []TypeOK
<1>1. IInv => TypeOK
  BY DEF IInv
<1> QED BY Invariance, <1>1, PTL

\* However owners demote, disable and remove one another, one active owner is
\* left (updateTenantMember, removeTenantMember).
THEOREM OwnerRemains == Spec => []HasActiveOwner
<1>1. IInv => HasActiveOwner
  BY DEF IInv
<1> QED BY Invariance, <1>1, PTL

\* Nobody becomes an owner, stops being one or is disabled as one but by a
\* request that was authorised as an owner's (updateTenantMember).
THEOREM OwnersOnlyByOwners == Spec => OwnersChangedByOwners
<1>1. IInv /\ [Next]_vars =>
        [\A m \in Members :
           Owned(m) # Owned(m)' \/ (Owned(m) /\ member'[m].status # member[m].status)
           => \E h \in Handlers : handler[h].role = "owner" /\ handler'[h] = Idle]_vars
  BY ChangedByOwner DEF IInv
<1> QED BY Invariance, <1>1, PTL DEF Spec, OwnersChangedByOwners
=============================================================================
