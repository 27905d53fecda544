--------------------------- MODULE Administration ---------------------------
(***************************************************************************)
(* The opt-in authentication of the server and the Administration API      *)
(* (local-services/src/admin.rs, local-ai/src/cli/serve/admin.rs, the      *)
(* owner's command line in local-ai/src/cli/admin.rs).                     *)
(*                                                                         *)
(* The tables (settings, admin keys, projects, service accounts, project   *)
(* keys, audit log) are one SQLite database that the server and the        *)
(* command line share.  Each operation is one immediate transaction, so    *)
(* one step here; what interleaves is a request's authorization, the       *)
(* reading of its body and the operation it then performs, and the two     *)
(* statements of enable_auth, which are no transaction.                    *)
(***************************************************************************)
EXTENDS Naturals, FiniteSets

CONSTANTS
    AdminKeys,      \* ids new_id may give to admin API keys
    Projects,       \* ids of projects
    Accounts,       \* ids of service accounts
    ProjectKeys,    \* ids of project API keys
    Requests,       \* HTTP requests in flight at once
    KeyTtl,         \* the expires_in_seconds a creator may ask for
    MaxAdminClock,  \* bound: seconds that pass
    MaxAdminFaults  \* bound: transactions that fail

ASSUME AdminAssumption ==
    /\ {KeyTtl, MaxAdminClock, MaxAdminFaults} \subseteq Nat
    /\ AdminKeys \cap ProjectKeys = {}

VARIABLES
    fixed,      \* whether the server was started with --api-key
    auth,       \* admin_settings.auth_enabled
    adminKey,   \* admin_api_keys: state and expiry of each id
    project,    \* admin_projects: "new", "active" or "archived"
    account,    \* admin_service_accounts: state and project of each id
    projectKey, \* admin_project_keys: state, project, account, expiry
    auditLog,   \* admin_audit_logs: its entries
    request,    \* each HTTP request: idle, or who it was authorized as
    enabling,   \* enable_auth between its count and its update
    adminClock, \* Unix time
    adminFaults \* failed transactions so far

adminVars == <<fixed, auth, adminKey, project, account, projectKey, auditLog,
               request, enabling, adminClock, adminFaults>>

Never == MaxAdminClock + KeyTtl + 1   \* an expires_at that is NULL

Nobody == [kind |-> "none", key |-> "none", admin |-> FALSE]

AdminInit ==
    /\ fixed \in BOOLEAN
    /\ auth = FALSE
    /\ adminKey = [k \in AdminKeys |-> [state |-> "new", expires |-> Never]]
    /\ project = [p \in Projects |-> "new"]
    /\ account = [a \in Accounts |-> [state |-> "new", project |-> "none"]]
    /\ projectKey = [k \in ProjectKeys |->
          [state |-> "new", project |-> "none", account |-> "none", expires |-> Never]]
    /\ auditLog = {}
    /\ request = [q \in Requests |-> Nobody]
    /\ enabling = FALSE
    /\ adminClock = 0
    /\ adminFaults = 0

(***************************************************************************)
(* The operations of Admin.  `actor' is the owner (the command line) or    *)
(* the admin key of the request; every one writes its audit entries in its *)
(* own transaction.                                                        *)
(***************************************************************************)
Expiry(e) == e \in {adminClock + KeyTtl, Never}

Audited(entries) == auditLog' = auditLog \cup entries

Entry(kind, id) == [kind |-> kind, id |-> id]

CreateAdminKey(k) ==
    /\ adminKey[k].state = "new"
    /\ \E e \in 0..Never : Expiry(e) /\ adminKey' = [adminKey EXCEPT ![k] =
                               [state |-> "live", expires |-> e]]
    /\ auth' = TRUE
    /\ Audited({Entry("api_key.created", k)})
    /\ UNCHANGED <<project, account, projectKey>>

DeleteAdminKey(k) ==
    /\ adminKey[k].state = "live"
    /\ adminKey' = [adminKey EXCEPT ![k].state = "gone"]
    /\ Audited({Entry("api_key.deleted", k)})
    /\ UNCHANGED <<auth, project, account, projectKey>>

CreateProject(p) ==
    /\ project[p] = "new"
    /\ project' = [project EXCEPT ![p] = "active"]
    /\ Audited({Entry("project.created", p)})
    /\ UNCHANGED <<auth, adminKey, account, projectKey>>

ModifyProject(p) ==
    /\ project[p] = "active"
    /\ Audited({Entry("project.updated", p)})
    /\ UNCHANGED <<auth, adminKey, project, account, projectKey>>

(* Idempotent: the second archive answers the project and writes nothing.  *)
ArchiveProject(p) ==
    /\ project[p] # "new"
    /\ project' = [project EXCEPT ![p] = "archived"]
    /\ Audited(IF project[p] = "archived" THEN {} ELSE {Entry("project.archived", p)})
    /\ UNCHANGED <<auth, adminKey, account, projectKey>>

(* A new project key's row and its audit entry (insert_project_key).       *)
InsertProjectKey(p, a, k) ==
    /\ projectKey[k].state = "new"
    /\ \E e \in 0..Never : Expiry(e) /\ projectKey' = [projectKey EXCEPT ![k] =
            [state |-> "live", project |-> p, account |-> a, expires |-> e]]

ActiveProject(p) == project[p] = "active"

(* create_service_account, with a first key unless it is created only.     *)
CreateServiceAccount(p, a) ==
    /\ ActiveProject(p)
    /\ account[a].state = "new"
    /\ account' = [account EXCEPT ![a] = [state |-> "live", project |-> p]]
    /\ \/ /\ Audited({Entry("service_account.created", a)})
          /\ UNCHANGED projectKey
       \/ \E k \in ProjectKeys :
             /\ InsertProjectKey(p, a, k)
             /\ Audited({Entry("service_account.created", a),
                         Entry("api_key.created", k)})
    /\ UNCHANGED <<auth, adminKey, project>>

HasAccount(p, a) == account[a] = [state |-> "live", project |-> p]

UpdateServiceAccount(p, a) ==
    /\ ActiveProject(p) /\ HasAccount(p, a)
    /\ Audited({Entry("service_account.updated", a)})
    /\ UNCHANGED <<auth, adminKey, project, account, projectKey>>

CreateServiceAccountKey(p, a) ==
    /\ ActiveProject(p) /\ HasAccount(p, a)
    /\ \E k \in ProjectKeys :
          /\ InsertProjectKey(p, a, k)
          /\ Audited({Entry("api_key.created", k)})
    /\ UNCHANGED <<auth, adminKey, project, account>>

KeysOf(a) == {k \in ProjectKeys : projectKey[k].state = "live" /\ projectKey[k].account = a}

(* Mutant of DeleteServiceAccount: the keys that go with it are not audited. *)
DeleteServiceAccountUnaudited(p, a) ==
    /\ project[p] # "new" /\ HasAccount(p, a)
    /\ account' = [account EXCEPT ![a].state = "gone"]
    /\ projectKey' = [k \in ProjectKeys |->
          IF k \in KeysOf(a) THEN [projectKey[k] EXCEPT !.state = "gone"] ELSE projectKey[k]]
    /\ Audited({Entry("service_account.deleted", a)})
    /\ UNCHANGED <<auth, adminKey, project>>

(* delete_service_account: the row, its keys by ON DELETE CASCADE, and an  *)
(* audit entry for each key read before the delete.                        *)
DeleteServiceAccount(p, a) ==
    /\ project[p] # "new" /\ HasAccount(p, a)
    /\ account' = [account EXCEPT ![a].state = "gone"]
    /\ projectKey' = [k \in ProjectKeys |->
          IF k \in KeysOf(a) THEN [projectKey[k] EXCEPT !.state = "gone"] ELSE projectKey[k]]
    /\ Audited({Entry("api_key.deleted", k) : k \in KeysOf(a)}
                 \cup {Entry("service_account.deleted", a)})
    /\ UNCHANGED <<auth, adminKey, project>>

DeleteProjectKey(p, k) ==
    /\ project[p] # "new"
    /\ projectKey[k].state = "live" /\ projectKey[k].project = p
    /\ projectKey' = [projectKey EXCEPT ![k].state = "gone"]
    /\ Audited({Entry("api_key.deleted", k)})
    /\ UNCHANGED <<auth, adminKey, project, account>>

(* The operations the Administration API dispatches (dispatch); retrieving *)
(* and listing change nothing, and a refused operation (an unknown id, an  *)
(* archived project, a bad body) leaves every table alone.                 *)
Administer ==
    \/ \E k \in AdminKeys : CreateAdminKey(k) \/ DeleteAdminKey(k)
    \/ \E p \in Projects :
          \/ CreateProject(p) \/ ModifyProject(p) \/ ArchiveProject(p)
          \/ \E a \in Accounts :
                \/ CreateServiceAccount(p, a) \/ UpdateServiceAccount(p, a)
                \/ CreateServiceAccountKey(p, a) \/ DeleteServiceAccount(p, a)
          \/ \E k \in ProjectKeys : DeleteProjectKey(p, k)
    \/ UNCHANGED <<auth, adminKey, project, account, projectKey, auditLog>>

(***************************************************************************)
(* Authorization (Gate::check over authenticate).  A token is nothing, one *)
(* that is no key, the --api-key key, or a key that was handed out once.   *)
(***************************************************************************)
Issued == {k \in AdminKeys : adminKey[k].state # "new"}
            \cup {k \in ProjectKeys : projectKey[k].state # "new"}

Tokens == {"none", "unknown"} \cup (IF fixed THEN {"fixed"} ELSE {}) \cup Issued

(* authenticate's verdict: the row is found, has not expired, and its      *)
(* project is not archived.                                                *)
LiveAdminKey(k) == adminKey[k].state = "live" /\ adminKey[k].expires > adminClock

(* Mutant of LiveProjectKey: the project's archiving is overlooked. *)
LiveProjectKeyOfArchived(k) ==
    projectKey[k].state = "live" /\ projectKey[k].expires > adminClock

LiveProjectKey(k) ==
    /\ projectKey[k].state = "live" /\ projectKey[k].expires > adminClock
    /\ project[projectKey[k].project] # "archived"

(* The callers Gate::check makes of a token for a path of the              *)
(* Administration API or another; empty when it refuses.                   *)
GateCheck(token, administration) ==
    IF token = "fixed"
    THEN IF administration THEN {} ELSE {[kind |-> "static", key |-> "none"]}
    ELSE IF ~auth
    THEN IF fixed \/ administration THEN {} ELSE {[kind |-> "anonymous", key |-> "none"]}
    ELSE IF token \in AdminKeys
    THEN IF LiveAdminKey(token) /\ administration
         THEN {[kind |-> "admin", key |-> token]} ELSE {}
    ELSE IF token \in ProjectKeys
    THEN IF LiveProjectKey(token) /\ ~administration
         THEN {[kind |-> "project", key |-> token]} ELSE {}
    ELSE {}

(* authorize: the check alone; the request goes on only if it was granted. *)
Authorize(q) ==
    /\ request[q] = Nobody
    /\ \E token \in Tokens, administration \in BOOLEAN :
          \E caller \in GateCheck(token, administration) :
             request' = [request EXCEPT ![q] =
                [kind |-> caller.kind, key |-> caller.key, admin |-> administration]]
    /\ UNCHANGED <<auth, adminKey, project, account, projectKey, auditLog,
                   enabling, adminClock, adminFaults>>

(* handle: once the body is read, an admin key's request runs its one      *)
(* operation, whatever has become of the key since; any other request is   *)
(* some other API's.                                                       *)
Serve(q) ==
    /\ request[q] # Nobody
    /\ request' = [request EXCEPT ![q] = Nobody]
    /\ IF request[q].admin THEN Administer
       ELSE UNCHANGED <<auth, adminKey, project, account, projectKey, auditLog>>
    /\ UNCHANGED <<enabling, adminClock, adminFaults>>

(* A transaction that fails, or whose body is too large, changes nothing.  *)
ServeFailed(q) ==
    /\ request[q].admin /\ adminFaults < MaxAdminFaults
    /\ request' = [request EXCEPT ![q] = Nobody]
    /\ adminFaults' = adminFaults + 1
    /\ UNCHANGED <<auth, adminKey, project, account, projectKey, auditLog,
                   enabling, adminClock>>

(***************************************************************************)
(* The owner's command line.                                               *)
(***************************************************************************)
OwnerKeys ==
    /\ \E k \in AdminKeys : CreateAdminKey(k) \/ DeleteAdminKey(k)
    /\ UNCHANGED <<request, enabling, adminClock, adminFaults>>

DisableAuth ==
    /\ auth' = FALSE
    /\ UNCHANGED <<adminKey, project, account, projectKey, auditLog, request,
                   enabling, adminClock, adminFaults>>

(* enable_auth counts the live admin keys and then updates the setting.    *)
CountLive ==
    /\ ~enabling
    /\ \E k \in AdminKeys : LiveAdminKey(k)
    /\ enabling' = TRUE
    /\ UNCHANGED <<auth, adminKey, project, account, projectKey, auditLog,
                   request, adminClock, adminFaults>>

EnableAuth ==
    /\ enabling
    /\ auth' = TRUE
    /\ enabling' = FALSE
    /\ UNCHANGED <<adminKey, project, account, projectKey, auditLog,
                   request, adminClock, adminFaults>>

AdminTick ==
    /\ adminClock < MaxAdminClock
    /\ adminClock' = adminClock + 1
    /\ UNCHANGED <<auth, adminKey, project, account, projectKey, auditLog,
                   request, enabling, adminFaults>>

AdminNext ==
    /\ UNCHANGED fixed
    /\ \/ \E q \in Requests : Authorize(q) \/ Serve(q) \/ ServeFailed(q)
       \/ OwnerKeys \/ DisableAuth \/ CountLive \/ EnableAuth \/ AdminTick

AdminSpec == AdminInit /\ [][AdminNext]_adminVars

(***************************************************************************)
(* Properties.                                                             *)
(***************************************************************************)
Logged(kind, id) == Entry(kind, id) \in auditLog

AsLogged(state, id, created, ended) ==
    /\ (state # "new") = Logged(created, id)
    /\ (state \in {"gone", "archived"}) = Logged(ended, id)

(* The audit log accounts for every row: replaying it gives the tables,    *)
(* the keys that went with their service account included.                 *)
AuditReplays ==
    /\ \A k \in AdminKeys :
          AsLogged(adminKey[k].state, k, "api_key.created", "api_key.deleted")
    /\ \A k \in ProjectKeys :
          AsLogged(projectKey[k].state, k, "api_key.created", "api_key.deleted")
    /\ \A p \in Projects :
          AsLogged(project[p], p, "project.created", "project.archived")
    /\ \A a \in Accounts :
          AsLogged(account[a].state, a, "service_account.created", "service_account.deleted")

(* A request is let in under a project key only while the key's service    *)
(* account exists and its project is not archived, though authenticate     *)
(* never reads the account: its deletion took the key with it.             *)
OnlyLiveKeysAct ==
    [][\A q \in Requests :
          LET caller == request'[q] IN
          request[q] = Nobody /\ caller.kind = "project" =>
             LET row == projectKey[caller.key] IN
             /\ project[row.project] = "active"
             /\ account[row.account] = [state |-> "live", project |-> row.project]]_adminVars

(***************************************************************************)
(* The inductive invariant behind both (ServicesProofs).                   *)
(***************************************************************************)
RowStates == {"new", "live", "gone"}

AdminTypeOK ==
    /\ fixed \in BOOLEAN /\ auth \in BOOLEAN /\ enabling \in BOOLEAN
    /\ adminKey \in [AdminKeys -> [state: RowStates, expires: Nat]]
    /\ project \in [Projects -> {"new", "active", "archived"}]
    /\ account \in [Accounts -> [state: RowStates, project: Projects \cup {"none"}]]
    /\ projectKey \in [ProjectKeys ->
          [state: RowStates, project: Projects \cup {"none"},
           account: Accounts \cup {"none"}, expires: Nat]]
    /\ request \in [Requests ->
          [kind: {"none", "static", "anonymous", "admin", "project"},
           key: AdminKeys \cup ProjectKeys \cup {"none"}, admin: BOOLEAN]]
    /\ adminClock \in Nat /\ adminFaults \in Nat

(* A key row has the service account it was made for, and a project: the   *)
(* foreign keys of admin_project_keys.                                     *)
KeysHaveAccounts ==
    \A k \in ProjectKeys : projectKey[k].state = "live" =>
        /\ projectKey[k].account \in Accounts /\ projectKey[k].project \in Projects
        /\ HasAccount(projectKey[k].project, projectKey[k].account)
        /\ project[projectKey[k].project] # "new"

AdminIInv == AdminTypeOK /\ KeysHaveAccounts /\ AuditReplays
=============================================================================
