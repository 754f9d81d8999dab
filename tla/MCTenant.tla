------------------------------ MODULE MCTenant ------------------------------
(* What a tenant administers, for TLC: its members, the settings and the      *)
(* Users of a Project, their facial templates, its service accounts, and how  *)
(* its support cases are opened.  A behaviour follows one of them; logins are *)
(* followed twice, with many requests and with every mode.                    *)
EXTENDS TenantMembership, TLC

CONSTANTS
  Pair, Couple, Duo,   \* identities of rows and of requests in flight
  First, Second, Third,
  Tenant, LoginModes, AccountLimit, ActiveLimit, CaseLimit, MaxReopens,
  None, RpIds, BadRpIds, Origins

VARIABLES
  part,   \* what the behaviour follows
  user, face, attempt, ceremony, session, project, credential, request,
  origins,
  row, provider, used, removed, contested,
  account, subject, issuer, creator,
  case, lock, reopened

loginVars == <<user, face, attempt, ceremony, session>>
bioVars == <<row, provider, used, removed, contested>>
serviceVars == <<account, subject, issuer, creator>>
caseVars == <<case, lock, reopened>>
sharedVars == <<project, credential, request>>   \* used by several of the parts
allVars == <<part, vars, loginVars, sharedVars, origins, bioVars, serviceVars, caseVars>>

Login == INSTANCE ProjectUserLogin
  WITH Attempts <- Second, Ceremonies <- Couple, Credentials <- First, Sessions <- Duo,
       Modes <- LoginModes, handler <- request
Factors == INSTANCE ProjectUserLogin
  WITH Attempts <- Pair, Ceremonies <- Couple, Credentials <- First, Sessions <- Duo,
       Handlers <- Second, Modes <- {"passkey", "security_key", "hybrid"}, handler <- request
Config == INSTANCE ProjectConfig WITH Credentials <- Duo, handler <- request
Bio == INSTANCE Biometrics
  WITH Templates <- First \cup Second \cup Third, Uids <- Pair, handler <- request
Service == INSTANCE ServiceCredentials
  WITH Accounts <- First, Credentials <- Couple \cup Third, Subjects <- Second,
       Issuers <- Pair, Creators <- First, member <- subject
Intake == INSTANCE CaseIntake
  WITH Projects <- Second, Cases <- Couple \cup Duo,
       Handlers <- Pair \cup Third, Limit <- CaseLimit
ASSUME TenantConstants ==
  /\ Login!LoginAssumption /\ Factors!LoginAssumption /\ Config!ConfigAssumption
  /\ Bio!BiometricsAssumption /\ Service!ServiceAssumption
  /\ Intake!IntakeAssumption

NoUsers == user = 0 /\ face = 0 /\ attempt = 0 /\ ceremony = 0 /\ session = 0
NoProject == project = 0 /\ credential = 0
NoTemplates == row = 0 /\ provider = 0 /\ used = 0 /\ removed = 0 /\ contested = 0
NoServices == account = 0 /\ subject = 0 /\ issuer = 0 /\ creator = 0
NoCases == case = 0 /\ lock = 0 /\ reopened = 0

MCInit ==
  /\ Init
  /\ \/ /\ part = "membership" /\ request = 0 /\ origins = 0
        /\ NoUsers /\ NoProject /\ NoTemplates /\ NoServices /\ NoCases
     \/ /\ part = "login" /\ Login!Init /\ origins = 0
        /\ NoTemplates /\ NoServices /\ NoCases
     \/ /\ part = "factors" /\ Factors!Init /\ origins = 0
        /\ NoTemplates /\ NoServices /\ NoCases
     \/ /\ part = "config" /\ Config!Init
        /\ NoUsers /\ NoTemplates /\ NoServices /\ NoCases
     \/ /\ part = "biometrics" /\ Bio!Init /\ origins = 0
        /\ NoUsers /\ NoProject /\ NoServices /\ NoCases
     \/ /\ part = "service" /\ Service!Init /\ request = 0 /\ origins = 0
        /\ NoUsers /\ NoTemplates /\ NoCases
     \/ /\ part = "intake" /\ Intake!Init /\ credential = 0 /\ origins = 0
        /\ NoUsers /\ NoTemplates /\ NoServices

OfLogin == UNCHANGED <<vars, origins, bioVars, serviceVars, caseVars>>

MCNext ==
  /\ UNCHANGED part
  /\ \/ /\ part = "membership" /\ Next
        /\ UNCHANGED <<loginVars, sharedVars, origins, bioVars, serviceVars, caseVars>>
     \/ part = "login" /\ Login!Next /\ OfLogin
     \/ part = "factors" /\ Factors!Next /\ OfLogin
     \/ /\ part = "config" /\ Config!Next
        /\ UNCHANGED <<vars, loginVars, bioVars, serviceVars, caseVars>>
     \/ /\ part = "biometrics" /\ Bio!Next
        /\ UNCHANGED <<vars, loginVars, project, credential, origins, serviceVars, caseVars>>
     \/ /\ part = "service" /\ Service!Next
        /\ UNCHANGED <<vars, loginVars, request, origins, bioVars, caseVars>>
     \/ /\ part = "intake" /\ Intake!Next
        /\ UNCHANGED <<vars, loginVars, credential, origins, bioVars, serviceVars>>

MCSpec == MCInit /\ [][MCNext]_allVars

\* The identities of rows and of requests are interchangeable.
Symmetry ==
  Permutations(Pair) \cup Permutations(Couple) \cup
  Permutations(Duo) \cup Permutations(Handlers)

-----------------------------------------------------------------------------
(* Properties of the other parts, beside those of TenantMembership.          *)

\* However many requests present the factors of one login at the same moment,
\* it gives at most one session (completeLogin).
OneSessionPerAttempt == part = "login" => Login!OneSessionPerAttempt

\* A session that a FIDO factor completed was completed by a ceremony of its
\* own attempt (finishFidoLogin, finishFirstFidoEnrollment).
SessionOfItsCeremony == part = "factors" => Factors!SessionOfItsCeremony

\* A session is behind a verified password unless a security key completed it,
\* and a credential comes from a ceremony that a verified password or a session
\* began (fido_flow.go).
SecondFactor == part = "factors" => Factors!SecondFactor

\* From the first registration on no request changes the RP ID, not even one
\* that read the Project before it (updateProject, finishFidoEnrollment).
RpIdPermanent == [][part = "config" => Config!KeepsRpId]_allVars

\* However enrolments overlap, fail and are given an id again, the template the
\* user is verified against is at the provider, unless a deletion removed it, a
\* save that reported an error took it back, or the provider gave it out again
\* while another enrolment was replacing it (enrollBiometric).
EnrolledTemplateHeld == part = "biometrics" => Bio!EnrolledTemplateHeld

\* An account that is disabled or deleted has no active credential, whatever
\* was being issued when it was (updateServiceAccount, deleteServiceAccount).
DisabledHasNone == part = "service" => Service!DisabledHasNone

\* Requests that count a tenant's active cases at the same moment exceed the
\* limit by no more than one for each further row they can lock, and by the cases
\* that were reopened (createSupportCase, createSupportSubmission).
IntakeBounded == part = "intake" => Intake!IntakeBounded
=============================================================================
