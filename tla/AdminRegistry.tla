--------------------------- MODULE AdminRegistry ---------------------------
(***************************************************************************)
(* The accounts of the admin console (auth/admins.ts), its sessions        *)
(* (auth/admin-session.ts) and the requests that change accounts           *)
(* (http/admin/routes.ts): each handler reads the registry, awaits, and    *)
(* acts on what it read.  The web processes seed the first owner at boot,  *)
(* and the provisioning command changes accounts with no session.          *)
(***************************************************************************)
EXTENDS Naturals, FiniteSets

CONSTANTS
    Ids,            \* account ids, random: an id is never used again
    Tokens,         \* session tokens, random as well
    Requests,       \* admin requests under way
    Processes,      \* web processes
    EmailOf,        \* id -> the login email of the account made under it
    BootstrapEmail, \* ADMIN_BOOTSTRAP_EMAIL
    Patches,        \* the bodies of PATCH requests
    Roles,          \* the roles that are given to accounts
    Commands        \* what operators do by provision-admin

VARIABLES
    account,    \* id -> its row in Postgres
    session,    \* token -> its entry in Redis
    request,    \* request -> where it is
    boot        \* process -> where its bootstrap is

vars == <<account, session, request, boot>>

ASSUME AdminAssumption ==
    /\ IsFiniteSet(Ids) /\ "none" \notin Requests
    /\ EmailOf \in [Ids -> STRING]
    /\ BootstrapEmail \in STRING
    /\ Commands \subseteq {"create", "delete"}
    /\ Roles \subseteq {"viewer", "manager", "owner"} /\ "owner" \in Roles
    /\ Patches \subseteq [role : Roles \cup {"keep"}, disabled : {"keep", "yes", "no"}]

(* An id is unused, that of an account, or that of one that was deleted.   *)
Unused == [state |-> "unused", role |-> "none", disabled |-> FALSE]

NoSession == [state |-> "unused", user |-> "none", role |-> "none"]

(* "role" is the role of the account as the request knows it; "held" are   *)
(* those the account had, enabled, since the request was sent (history);   *)
(* "stale" says that rows changed after the request read its target and    *)
(* before it changed it (history).                                         *)
Keep == [role |-> "keep", disabled |-> "keep"]
NoRequest == [step |-> "idle", user |-> "none", role |-> "none", held |-> {},
              op |-> "none", target |-> "none", patch |-> Keep, stale |-> FALSE]

Live(i) == account[i].state = "live"
ActiveOwners(acc) ==
    {i \in Ids : acc[i].state = "live" /\ acc[i].role = "owner" /\ ~acc[i].disabled}

countOwners == Cardinality(ActiveOwners(account))

Taken(email) == \E i \in Ids : Live(i) /\ EmailOf[i] = email

Init ==
    /\ account = [i \in Ids |-> Unused]
    /\ session = [t \in Tokens |-> NoSession]
    /\ request = [r \in Requests |-> NoRequest]
    /\ boot = [p \in Processes |-> "start"]

-----------------------------------------------------------------------------
(* A statement that changes the rows.                                      *)

Standing(acc, i) ==
    IF acc[i].state = "live" /\ ~acc[i].disabled THEN {acc[i].role} ELSE {}

(* A request that has read the account it is to change. *)
Deciding(q) == q.step \in {"count", "write"}

(* The history of a request q before which the rows become acc. *)
Witness(q, acc) ==
    CASE q.step = "account" -> [q EXCEPT !.held = @ \cup Standing(acc, q.user)]
      [] Deciding(q) -> [q EXCEPT !.stale = @ \/ acc # account]
      [] OTHER -> q

(* Request r, or nobody of Requests, makes the rows acc and is done. *)
Change(acc, r) ==
    /\ account' = acc
    /\ request' = [s \in Requests |-> IF s = r THEN NoRequest
                                       ELSE Witness(request[s], acc)]

Inserted(i, role) ==
    [account EXCEPT ![i] = [state |-> "live", role |-> role, disabled |-> FALSE]]

-----------------------------------------------------------------------------
(* Login: the account is read, its password is verified against what was   *)
(* read, and a session is made.                                            *)

getAdminByEmail(r, i) ==
    /\ request[r].step = "idle"
    /\ Live(i)
    /\ ~account[i].disabled
    /\ request' = [request EXCEPT ![r] = [NoRequest EXCEPT
                      !.step = "verified", !.user = i, !.role = account[i].role]]
    /\ UNCHANGED <<account, session, boot>>

createSession(r, t) ==
    /\ request[r].step = "verified"
    /\ session[t].state = "unused"
    /\ session' = [session EXCEPT ![t] =
                      [state |-> "live", user |-> request[r].user, role |-> request[r].role]]
    /\ request' = [request EXCEPT ![r] = NoRequest]
    /\ UNCHANGED <<account, boot>>

(* destroySession, or the TTL of the session elapses. *)
destroySession(t) ==
    /\ session[t].state = "live"
    /\ session' = [session EXCEPT ![t] = [NoSession EXCEPT !.state = "gone"]]
    /\ UNCHANGED <<account, request, boot>>

-----------------------------------------------------------------------------
(* adminAuth and requireMinRole("owner"): the session is read from Redis,  *)
(* then its account from Postgres.                                         *)

Send(r, t) ==
    LET user == session[t].user IN
    /\ request[r].step = "idle"
    /\ session[t].state = "live"
    /\ request' = [request EXCEPT ![r] = [NoRequest EXCEPT
                      !.step = "account", !.user = user, !.role = session[t].role,
                      !.held = Standing(account, user)]]
    /\ UNCHANGED <<account, session, boot>>

Admitted(r, role) ==
    IF role = "owner"
    THEN [request[r] EXCEPT !.step = "handler", !.role = role]
    ELSE NoRequest

(* A mutant of resolveSession: the role of the session is returned. *)
resolveSessionStoredRole(r) ==
    LET i == request[r].user IN
    /\ request[r].step = "account"
    /\ request' = [request EXCEPT ![r] =
                      IF Live(i) /\ ~account[i].disabled
                      THEN Admitted(r, request[r].role)
                      ELSE NoRequest]
    /\ UNCHANGED <<account, session, boot>>

resolveSession(r) ==
    LET i == request[r].user IN
    /\ request[r].step = "account"
    /\ request' = [request EXCEPT ![r] =
                      IF Live(i) /\ ~account[i].disabled
                      THEN Admitted(r, account[i].role)
                      ELSE NoRequest]
    /\ UNCHANGED <<account, session, boot>>

(* A store is unreachable, or the handler refuses the request. *)
Fail(r) ==
    /\ request[r].step # "idle"
    /\ request' = [request EXCEPT ![r] = NoRequest]
    /\ UNCHANGED <<account, session, boot>>

-----------------------------------------------------------------------------
(* POST /api/admins: createAdmin looks the email up, hashes the password   *)
(* and inserts; the email column is UNIQUE (db.ts).                        *)

LookUpEmail(r, i, role) ==
    /\ request[r].step = "handler"
    /\ account[i].state = "unused"
    /\ ~Taken(EmailOf[i])
    /\ request' = [request EXCEPT ![r] = [NoRequest EXCEPT
                      !.step = "insert", !.target = i,
                      !.patch = [role |-> role, disabled |-> "no"]]]
    /\ UNCHANGED <<account, session, boot>>

(* A mutant of Insertable: the email column is not UNIQUE. *)
InsertableTwice(i) == account[i].state = "unused"

Insertable(i) == account[i].state = "unused" /\ ~Taken(EmailOf[i])

createAdmin(r) ==
    LET i == request[r].target IN
    /\ request[r].step = "insert"
    /\ Insertable(i)
    /\ Change(Inserted(i, request[r].patch.role), r)
    /\ UNCHANGED <<session, boot>>

-----------------------------------------------------------------------------
(* PATCH and DELETE /api/admins/:id.                                       *)

(* A mutant of removesOwner: disabling an owner does not remove one. *)
removesOwnerByRole(row, op, patch) ==
    /\ row.role = "owner"
    /\ op = "delete" \/ patch.role \notin {"keep", "owner"}

removesOwner(row, op, patch) ==
    /\ row.role = "owner"
    /\ \/ op = "delete"
       \/ patch.role \notin {"keep", "owner"}
       \/ patch.disabled = "yes"

(* The target is read, and it is decided whether the owners are counted. *)
getAdminById(r, i, op, patch) ==
    /\ request[r].step = "handler"
    /\ Live(i)
    /\ request' = [request EXCEPT ![r] = [NoRequest EXCEPT
                      !.step = IF removesOwner(account[i], op, patch) THEN "count" ELSE "write",
                      !.op = op, !.target = i, !.patch = patch]]
    /\ UNCHANGED <<account, session, boot>>

(* The guard: the last owner is not removed. *)
Guard(r) ==
    /\ request[r].step = "count"
    /\ request' = [request EXCEPT ![r] = IF countOwners <= 1
                                         THEN NoRequest
                                         ELSE [@ EXCEPT !.step = "write"]]
    /\ UNCHANGED <<account, session, boot>>

Patched(row, patch) ==
    [row EXCEPT !.role = IF patch.role = "keep" THEN @ ELSE patch.role,
                !.disabled = IF patch.disabled = "keep" THEN @ ELSE patch.disabled = "yes"]

(* UPDATE ... WHERE id: a row that is gone meanwhile is not there to change. *)
updateAdmin(r) ==
    LET i == request[r].target IN
    /\ request[r].step = "write" /\ request[r].op = "patch"
    /\ Change(IF Live(i)
              THEN [account EXCEPT ![i] = Patched(@, request[r].patch)]
              ELSE account, r)
    /\ UNCHANGED <<session, boot>>

(* A mutant of Deleted: the id may be used again. *)
DeletedForgotten(i) == [account EXCEPT ![i] = Unused]

Deleted(i) ==
    [account EXCEPT ![i] = [state |-> "deleted", role |-> "none", disabled |-> FALSE]]

deleteAdmin(r) ==
    LET i == request[r].target IN
    /\ request[r].step = "write" /\ request[r].op = "delete"
    /\ Change(IF Live(i) THEN Deleted(i) ELSE account, r)
    /\ UNCHANGED <<session, boot>>

-----------------------------------------------------------------------------
(* ensureBootstrapAdmin at the start of a web process: it counts all       *)
(* accounts, then creates the first.  A query that fails ends it for good. *)

BootStep(p, from, to) == boot[p] = from /\ boot' = [boot EXCEPT ![p] = to]

CountAdmins(p) ==
    /\ BootStep(p, "start", IF \E i \in Ids : Live(i) THEN "up" ELSE "empty")
    /\ UNCHANGED <<account, session, request>>

LookUpBootstrapEmail(p) ==
    /\ BootStep(p, "empty", IF Taken(BootstrapEmail) THEN "up" ELSE "seed")
    /\ UNCHANGED <<account, session, request>>

ensureBootstrapAdmin(p, i) ==
    /\ BootStep(p, "seed", "up")
    /\ EmailOf[i] = BootstrapEmail
    /\ Insertable(i)
    /\ Change(Inserted(i, "owner"), "none")
    /\ UNCHANGED session

BootFails(p) ==
    /\ boot[p] \in {"start", "empty", "seed"}
    /\ boot' = [boot EXCEPT ![p] = "up"]
    /\ UNCHANGED <<account, session, request>>

(* provision-admin delete: no guard. *)
CliDelete(i) ==
    /\ "delete" \in Commands
    /\ Live(i)
    /\ Change(Deleted(i), "none")
    /\ UNCHANGED <<session, boot>>

(* provision-admin create. *)
CliCreate(i, role) ==
    /\ "create" \in Commands
    /\ Insertable(i)
    /\ Change(Inserted(i, role), "none")
    /\ UNCHANGED <<session, boot>>

-----------------------------------------------------------------------------

Next ==
    \/ \E r \in Requests, i \in Ids : getAdminByEmail(r, i)
    \/ \E r \in Requests, t \in Tokens : createSession(r, t) \/ Send(r, t)
    \/ \E t \in Tokens : destroySession(t)
    \/ \E r \in Requests :
          \/ resolveSession(r) \/ Fail(r) \/ createAdmin(r)
          \/ Guard(r) \/ updateAdmin(r) \/ deleteAdmin(r)
    \/ \E r \in Requests, i \in Ids, role \in Roles : LookUpEmail(r, i, role)
    \/ \E r \in Requests, i \in Ids, patch \in Patches : getAdminById(r, i, "patch", patch)
    \/ \E r \in Requests, i \in Ids :
          getAdminById(r, i, "delete", Keep)
    \/ \E p \in Processes :
          CountAdmins(p) \/ LookUpBootstrapEmail(p) \/ BootFails(p)
    \/ \E p \in Processes, i \in Ids : ensureBootstrapAdmin(p, i)
    \/ \E i \in Ids : CliDelete(i)
    \/ \E i \in Ids, role \in Roles : CliCreate(i, role)

Spec == Init /\ [][Next]_vars

-----------------------------------------------------------------------------

Rows == [state : {"unused", "live", "deleted"}, role : Roles \cup {"none"},
         disabled : BOOLEAN]
Sessions == [state : {"unused", "live", "gone"}, user : Ids \cup {"none"},
             role : Roles \cup {"none"}]
RequestRecords ==
    [step : {"idle", "verified", "account", "handler", "insert", "count", "write"},
     user : Ids \cup {"none"}, role : Roles \cup {"none"}, held : SUBSET Roles,
     op : {"none", "patch", "delete"}, target : Ids \cup {"none"},
     patch : [role : Roles \cup {"keep"}, disabled : {"keep", "yes", "no"}],
     stale : BOOLEAN]

(* The state is well typed, and whoever is signed in, or is the target of  *)
(* a change, is or was an account: an id is never used again.              *)
TypeOK ==
    /\ account \in [Ids -> Rows]
    /\ session \in [Tokens -> Sessions]
    /\ request \in [Requests -> RequestRecords]
    /\ boot \in [Processes -> {"start", "empty", "seed", "up"}]
    /\ \A t \in Tokens : session[t].state = "live" =>
          session[t].user \in Ids /\ account[session[t].user].state # "unused"
    /\ \A r \in Requests : Deciding(request[r]) =>
          request[r].target \in Ids /\ account[request[r].target].state # "unused"

(* A request is let into an owner's handler with a role that its account   *)
(* had, enabled, after the request was sent: disabling, demoting or        *)
(* deleting an account takes effect on its next request                    *)
(* (auth/admin-session.ts:14-15), whatever its sessions say.               *)
AuthorizedAsCurrent ==
    \A r \in Requests : request[r].step = "handler" => request[r].role \in request[r].held

(* A login email names one account, though every creation looks it up      *)
(* before it inserts and two may do so at once.                            *)
EmailNamesOneAccount ==
    \A i, j \in Ids : Live(i) /\ Live(j) /\ EmailOf[i] = EmailOf[j] => i = j

(* No request of the console takes the last active owner away              *)
(* (http/admin/routes.ts:222), if no row changed between its reading its   *)
(* target and its changing it.                                             *)
LastOwnerKept ==
    [][\A r \in Requests : Deciding(request[r]) /\ ~request[r].stale /\ request'[r] = NoRequest
          => (ActiveOwners(account') = {} => ActiveOwners(account) = {})]_vars

(* The same of every request, as the comment at http/admin/routes.ts:222   *)
(* has it: "don't let the last active owner be demoted or disabled".       *)
LastOwnerNeverRemoved ==
    [][\A r \in Requests : Deciding(request[r]) /\ request'[r] = NoRequest
          => (ActiveOwners(account') = {} => ActiveOwners(account) = {})]_vars

=============================================================================
