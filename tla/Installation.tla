---------------------------- MODULE Installation ----------------------------
(***************************************************************************)
(* The first set-up of an instance and the administrator's sessions.  The  *)
(* configuration is in the core database; grants and sessions are in the   *)
(* runtime database, so no transaction spans both.  setup.Service          *)
(* serialises its mutations with mutationMu; logins and password changes   *)
(* take no lock.                                                           *)
(*                                                                         *)
(* Tokens are numbers in the order they are issued, a password is a        *)
(* number.  What a step validates in its input, the login rate limit and   *)
(* the CSRF token are left out.                                            *)
(***************************************************************************)
EXTENDS Naturals, FiniteSets

CONSTANTS
  Nobody,         \* no token
  MaxGrants,      \* bound: grants issued
  MaxPasswords,   \* bound: passwords used
  MaxPending,     \* bound: logins and password changes at a time
  MaxDirectories, \* bound: times the data directory is replaced
  MaxInstallFaults \* bound: crashes and failed writes

VARIABLES
  installation,  \* installation_state
  administrator, \* administrators: password (0: none), session_generation
  storage,       \* setup_storage: the recorded identity of the directory, 0: none
  tls,           \* management_tls
  reviewed,      \* setup_hardware_review
  directory,     \* external: the directory's identity
  grant,         \* setup_bootstrap_grant: the token not yet consumed
  setupSessions, \* setup_sessions
  expired,       \* external: tokens whose time is over
  grants,        \* tokens issued so far
  held,          \* the mutation that holds mutationMu
  logins,        \* logins that have verified a password
  changes,       \* password changes that have verified the current one
  adminSessions, \* administrator_sessions
  purge,         \* a password change has yet to delete the sessions
  installFaults

configuration == <<installation, administrator, storage, tls, reviewed>>
authorization == <<grant, setupSessions, grants>>
adminVars == <<logins, changes, adminSessions, purge>>
installVars == <<configuration, directory, authorization, expired, held,
                 adminVars, installFaults>>

InstallFault == installFaults < MaxInstallFaults /\ installFaults' = installFaults + 1
SetupSteps == {"administrator", "storage", "loopback", "local-ca", "confirm",
          "hardware", "complete"}
NoMutation == [step |-> "none"]
Slow == Cardinality(logins) + Cardinality(changes) < MaxPending

Passwords == [password : 1 .. MaxPasswords, generation : Nat]
Mutations == {NoMutation} \cup [step : {"session", "revoke"}]
               \cup [step : SetupSteps, token : 1 .. MaxGrants]

InstallAssumption ==
  /\ Nobody \notin Nat
  /\ MaxGrants \in Nat /\ MaxPasswords \in Nat /\ MaxPending \in Nat
  /\ MaxDirectories \in Nat /\ MaxInstallFaults \in Nat
ASSUME InstallAssumption

InstallTypeOK ==
  /\ installation \in {"uninitialized", "ready"}
  /\ administrator \in [password : 0 .. MaxPasswords, generation : Nat]
  /\ storage \in 0 .. MaxDirectories + 1 /\ directory \in 1 .. MaxDirectories + 1
  /\ tls \in {"none", "unconfirmed", "confirmed"} /\ reviewed \in BOOLEAN
  /\ grant \in 1 .. MaxGrants \cup {Nobody} /\ grants \in 0 .. MaxGrants
  /\ setupSessions \subseteq 1 .. MaxGrants /\ expired \subseteq 1 .. MaxGrants
  /\ held \in Mutations
  /\ logins \subseteq Passwords /\ adminSessions \subseteq Passwords
  /\ changes \subseteq Nat
  /\ purge \in BOOLEAN /\ installFaults \in 0 .. MaxInstallFaults

InstallInit ==
  /\ installation = "uninitialized"
  /\ administrator = [password |-> 0, generation |-> 0]
  /\ storage = 0 /\ tls = "none" /\ reviewed = FALSE /\ directory = 1
  /\ grant = Nobody /\ setupSessions = {} /\ expired = {} /\ grants = 0
  /\ held = NoMutation
  /\ logins = {} /\ changes = {} /\ adminSessions = {} /\ purge = FALSE
  /\ installFaults = 0

-----------------------------------------------------------------------------
(* Authorisation.                                                          *)

MutantUnheld == TRUE
Unheld == held = NoMutation
Uninitialized == installation = "uninitialized"
Authorised(token) == Uninitialized /\ token \in setupSessions \ expired

(* ReplaceSetupBootstrap: a new grant ends every setup session.            *)
Replace ==
  /\ grants < MaxGrants /\ grants' = grants + 1
  /\ grant' = grants + 1 /\ setupSessions' = {}

GenerateBootstrap ==
  /\ Unheld /\ Uninitialized /\ Replace
  /\ UNCHANGED <<configuration, directory, expired, held, adminVars, installFaults>>

(* The session has the number of its grant.                                *)
ConsumeSetupBootstrap ==
  /\ grant' = Nobody
  /\ setupSessions' = (setupSessions \ expired) \cup {grant}

ConsumeBootstrap ==
  /\ Unheld /\ Uninitialized
  /\ grant # Nobody /\ grant \notin expired
  /\ ConsumeSetupBootstrap
  /\ UNCHANGED <<configuration, directory, grants, expired, held, adminVars, installFaults>>

(* BeginAdministratorSetup, for a logged-in administrator: a grant and its *)
(* consumption in two transactions.                                        *)
BeginAdministratorSetup ==
  /\ Unheld /\ Uninitialized /\ administrator.password # 0
  /\ \E s \in adminSessions : s.generation = administrator.generation
  /\ Replace
  /\ held' = [step |-> "session"]
  /\ UNCHANGED <<configuration, directory, expired, adminVars, installFaults>>

BeginSession ==
  /\ held.step = "session"
  /\ ConsumeSetupBootstrap
  /\ held' = NoMutation
  /\ UNCHANGED <<configuration, directory, grants, expired, adminVars, installFaults>>

(* External: time, and the disk.                                           *)
Expire(token) ==
  /\ token \in 1 .. grants \ expired
  /\ expired' = expired \cup {token}
  /\ UNCHANGED <<configuration, directory, authorization, held, adminVars, installFaults>>

ReplaceDirectory ==
  /\ directory <= MaxDirectories /\ directory' = directory + 1
  /\ UNCHANGED <<configuration, authorization, expired, held, adminVars, installFaults>>

-----------------------------------------------------------------------------
(* A set-up step reads its session and the steps before it, then writes in *)
(* one transaction.                                                        *)

Prerequisite(step) ==
  CASE step = "storage"                 -> administrator.password # 0
    [] step \in {"loopback", "local-ca"} -> storage # 0
    [] step = "hardware"                -> tls = "confirmed"
    [] step = "complete"                -> /\ administrator.password # 0
                                           /\ storage = directory
    [] OTHER                            -> TRUE

BeginStep(step, token) ==
  /\ Unheld
  /\ Authorised(token) /\ Prerequisite(step)
  /\ held' = [step |-> step, token |-> token]
  /\ UNCHANGED <<configuration, directory, authorization, expired, adminVars, installFaults>>

NewPassword == \E p \in 1 .. MaxPasswords :
  /\ p # administrator.password
  /\ administrator' = [password |-> p, generation |-> administrator.generation + 1]

Writes(step) ==
  /\ held.step = step /\ held' = NoMutation
  /\ UNCHANGED <<installation, directory, authorization, expired, adminVars, installFaults>>

(* The administrator's step reads the session again after the slow hash.   *)
WriteAdministrator ==
  /\ Writes("administrator") /\ Authorised(held.token)
  /\ IF administrator.generation <= MaxPasswords THEN NewPassword
                                                 ELSE UNCHANGED administrator
  /\ UNCHANGED <<storage, tls, reviewed>>

WriteStorage ==
  /\ Writes("storage") /\ Uninitialized
  /\ storage' = directory
  /\ UNCHANGED <<administrator, tls, reviewed>>

(* A certificate of a local authority must be confirmed by its fingerprint.*)
WriteTLS ==
  /\ Writes("loopback") \/ Writes("local-ca")
  /\ Uninitialized
  /\ tls' = IF held.step = "loopback" THEN "confirmed" ELSE "unconfirmed"
  /\ UNCHANGED <<administrator, storage, reviewed>>

ConfirmTLS ==
  /\ Writes("confirm")
  /\ tls' = IF tls = "unconfirmed" THEN "confirmed" ELSE tls
  /\ UNCHANGED <<administrator, storage, reviewed>>

WriteReview ==
  /\ Writes("hardware") /\ Uninitialized
  /\ reviewed' = TRUE
  /\ UNCHANGED <<administrator, storage, tls>>

(* Complete: the core database decides; then the grants are revoked.       *)
WriteComplete ==
  /\ held.step = "complete" /\ Uninitialized
  /\ administrator.password # 0 /\ storage # 0
  /\ installation' = "ready"
  /\ held' = [step |-> "revoke"]
  /\ UNCHANGED <<administrator, storage, tls, reviewed, directory, authorization,
                 expired, adminVars, installFaults>>

Revoke ==
  /\ held.step = "revoke"
  /\ setupSessions' = {} /\ grant' = Nobody /\ held' = NoMutation
  /\ UNCHANGED <<configuration, directory, grants, expired, adminVars, installFaults>>

(* A step that is refused at its second look, or whose write fails.        *)
StepFails ==
  /\ held # NoMutation
  /\ \/ InstallFault
     \/ held.step = "administrator" /\ ~Authorised(held.token) /\ UNCHANGED installFaults
  /\ held' = NoMutation
  /\ UNCHANGED <<configuration, directory, authorization, expired, adminVars>>

(* ProvisionAdministrator, from the root-only control socket, only if      *)
(* there is none.                                                          *)
ProvisionAdministrator ==
  /\ Unheld /\ Uninitialized /\ administrator.password = 0
  /\ NewPassword
  /\ UNCHANGED <<installation, storage, tls, reviewed, directory, authorization,
                 expired, held, adminVars, installFaults>>

-----------------------------------------------------------------------------
(* The administrator's sessions.                                           *)

(* Login reads hash and generation in one query, verifies, then stores.    *)
LoginVerified ==
  /\ administrator.password # 0 /\ Slow
  /\ logins' = logins \cup {administrator}
  /\ UNCHANGED <<configuration, directory, authorization, expired, held, changes,
                 adminSessions, purge, installFaults>>

MutantIssued(login) == [login EXCEPT !.generation = administrator.generation]
Issued(login) == login

LoginStored(login) ==
  /\ login \in logins
  /\ logins' = logins \ {login}
  /\ adminSessions' = adminSessions \cup {Issued(login)}
  /\ UNCHANGED <<configuration, directory, authorization, expired, held, changes,
                 purge, installFaults>>

EndSession(s) ==
  /\ s \in adminSessions
  /\ adminSessions' = adminSessions \ {s}
  /\ UNCHANGED <<configuration, directory, authorization, expired, held, logins,
                 changes, purge, installFaults>>

(* ChangePassword: authenticated and verified under a generation, written  *)
(* only if that generation is still current, then all sessions deleted.    *)
ChangeVerified(s) ==
  /\ s \in adminSessions /\ s.generation = administrator.generation /\ Slow
  /\ changes' = changes \cup {administrator.generation}
  /\ UNCHANGED <<configuration, directory, authorization, expired, held, logins,
                 adminSessions, purge, installFaults>>

ChangeWritten(g) ==
  /\ g \in changes /\ changes' = changes \ {g}
  /\ IF g = administrator.generation /\ g <= MaxPasswords
       THEN NewPassword /\ purge' = TRUE
       ELSE UNCHANGED <<administrator, purge>>
  /\ UNCHANGED <<installation, storage, tls, reviewed, directory, authorization,
                 expired, held, logins, adminSessions, installFaults>>

Purge ==
  /\ purge /\ purge' = FALSE
  /\ adminSessions' = {}
  /\ UNCHANGED <<configuration, directory, authorization, expired, held, logins,
                 changes, installFaults>>

InstallCrashes ==
  /\ InstallFault
  /\ held' = NoMutation /\ logins' = {} /\ changes' = {} /\ purge' = FALSE
  /\ UNCHANGED <<configuration, directory, authorization, expired, adminSessions>>

InstallNext ==
  \/ GenerateBootstrap \/ ConsumeBootstrap
  \/ BeginAdministratorSetup \/ BeginSession
  \/ \E token \in 1 .. MaxGrants : Expire(token)
  \/ ReplaceDirectory
  \/ \E step \in SetupSteps, token \in setupSessions : BeginStep(step, token)
  \/ WriteAdministrator \/ WriteStorage \/ WriteTLS \/ ConfirmTLS
  \/ WriteReview \/ WriteComplete \/ Revoke \/ StepFails
  \/ ProvisionAdministrator
  \/ LoginVerified
  \/ \E login \in logins : LoginStored(login)
  \/ \E s \in adminSessions : EndSession(s) \/ ChangeVerified(s)
  \/ \E g \in changes : ChangeWritten(g)
  \/ Purge \/ InstallCrashes

InstallSpec == InstallInit /\ [][InstallNext]_installVars

-----------------------------------------------------------------------------

(* Set-up state is written by a session that no newer grant has ended, and *)
(* never after the instance is ready; the password alone may change then   *)
(* (setup/service.go:440-443).                                             *)
SetupIsGuarded ==
  [][<<storage, tls, reviewed>>' # <<storage, tls, reviewed>>
       => Uninitialized /\ held.step # "none" /\ held.token \in setupSessions]_installVars

(* A ready instance has an administrator and a storage root, and one setup *)
(* session at most is alive.  A session that authenticates was issued for  *)
(* the present password, although logins, password changes and the two     *)
(* databases are not synchronised (auth/service.go:108-146, :214-239).     *)
InstallIsSafe ==
  /\ InstallTypeOK
  /\ installation = "ready" => administrator.password # 0 /\ storage # 0
  /\ Cardinality(setupSessions) <= 1
  /\ \A s \in adminSessions :
       s.generation = administrator.generation => s.password = administrator.password
=============================================================================
