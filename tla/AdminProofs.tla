---------------------------- MODULE AdminProofs ----------------------------
(***************************************************************************)
(* Proofs about the admin registry, for every set of accounts, sessions,   *)
(* requests and web processes, whatever operators do beside them.          *)
(***************************************************************************)
EXTENDS AdminRegistry, FiniteSetTheorems, TLAPS

-----------------------------------------------------------------------------
(* The inductive invariant: the rows acc, and sessions and requests beside *)
(* them, each by itself.  What a request stands on is kept while it waits  *)
(* for its account, and what its guard saw as long as no row changes.      *)

RowsOK(acc) ==
    /\ acc \in [Ids -> Rows]
    /\ \A i \in Ids : acc[i].state = "live" => acc[i].role \in Roles
    /\ \A i, j \in Ids : acc[i].state = "live" /\ acc[j].state = "live"
                            /\ EmailOf[i] = EmailOf[j] => i = j

Known(i, acc) == i \in Ids /\ acc[i].state # "unused"

SessionOK(s, acc) ==
    /\ s \in Sessions
    /\ s.state = "live" => Known(s.user, acc) /\ s.role \in Roles

RequestOK(q, acc) ==
    /\ q \in RequestRecords
    /\ q.step \in {"verified", "account"} => Known(q.user, acc) /\ q.role \in Roles
    /\ q.step = "account" => Standing(acc, q.user) \subseteq q.held
    /\ q.step = "handler" => q.role \in q.held
    /\ q.step = "insert" => q.target \in Ids /\ q.patch.role \in Roles
    /\ Deciding(q) => Known(q.target, acc) /\ q.op \in {"patch", "delete"}
    /\ q.step = "write" /\ ~q.stale /\ removesOwner(acc[q.target], q.op, q.patch)
          => Cardinality(ActiveOwners(acc)) > 1

IInv ==
    /\ RowsOK(account)
    /\ session \in [Tokens -> Sessions]
    /\ \A t \in Tokens : SessionOK(session[t], account)
    /\ request \in [Requests -> RequestRecords]
    /\ \A r \in Requests : RequestOK(request[r], account)
    /\ boot \in [Processes -> {"start", "empty", "seed", "up"}]

(* Rows that forget no id of the rows acc. *)
Later(later, acc) == \A i \in Ids : acc[i].state # "unused" => later[i].state # "unused"

-----------------------------------------------------------------------------
(* The values the steps are made of.                                       *)

LEMMA NoRequestOK == ASSUME NEW acc PROVE RequestOK(NoRequest, acc)
  BY DEF NoRequest, RequestOK, RequestRecords, Keep, Deciding

LEMMA StandingType ==
    ASSUME NEW acc, RowsOK(acc), NEW i \in Ids
    PROVE  Standing(acc, i) \subseteq Roles
  BY DEF RowsOK, Standing

(* A row inserted under an id and an email that are free.                  *)
LEMMA InsertedOK ==
    ASSUME RowsOK(account), NEW i \in Ids, NEW role \in Roles, Insertable(i)
    PROVE  RowsOK(Inserted(i, role)) /\ Later(Inserted(i, role), account)
  BY DEF RowsOK, Insertable, Inserted, Taken, Live, Later, Rows

LEMMA PatchedOK ==
    ASSUME RowsOK(account), NEW i \in Ids, Live(i),
           NEW patch \in [role : Roles \cup {"keep"}, disabled : {"keep", "yes", "no"}]
    PROVE  /\ RowsOK([account EXCEPT ![i] = Patched(@, patch)])
           /\ Later([account EXCEPT ![i] = Patched(@, patch)], account)
  <1> DEFINE row == Patched(account[i], patch)
             acc == [account EXCEPT ![i] = Patched(@, patch)]
  <1>1. account \in [Ids -> Rows] /\ account[i] \in Rows /\ account[i].role \in Roles
    BY DEF RowsOK, Live
  <1>2. row \in Rows /\ row.state = "live" /\ row.role \in Roles
    BY <1>1 DEF Patched, Rows, Live
  <1>3. acc \in [Ids -> Rows] /\ acc[i] = row /\ \A j \in Ids : j # i => acc[j] = account[j]
    BY <1>1, <1>2
  <1> HIDE DEF row, acc
  <1>4. RowsOK(acc)
    BY <1>2, <1>3 DEF RowsOK, Live
  <1>5. Later(acc, account)
    BY <1>2, <1>3 DEF Later
  <1> QED
    BY <1>4, <1>5 DEF acc

LEMMA DeletedOK ==
    ASSUME RowsOK(account), NEW i \in Ids
    PROVE  RowsOK(Deleted(i)) /\ Later(Deleted(i), account)
  BY DEF RowsOK, Deleted, Later, Rows

(* A request beside which the rows change knows what it knew, and what its *)
(* account has become; one that has its target is stale.                   *)
LEMMA WitnessOK ==
    ASSUME NEW q, RequestOK(q, account), NEW acc, RowsOK(acc), Later(acc, account)
    PROVE  RequestOK(Witness(q, acc), acc) /\ Witness(q, acc).step = q.step
  <1>1. q \in RequestRecords
    BY DEF RequestOK
  <1>2. CASE q.step = "account"
    <2> DEFINE w == [q EXCEPT !.held = @ \cup Standing(acc, q.user)]
    <2>1. Witness(q, acc) = w
      BY <1>2 DEF Witness, Deciding
    <2>2. Known(q.user, account) /\ q.role \in Roles
      BY <1>2 DEF RequestOK
    <2>3. Standing(acc, q.user) \subseteq Roles /\ q.held \subseteq Roles
      BY <1>1, <2>2, StandingType DEF Known, RequestRecords
    <2>4. /\ w \in RequestRecords
          /\ w.step = "account" /\ w.user = q.user /\ w.role = q.role
          /\ w.held = q.held \cup Standing(acc, q.user)
      BY <1>1, <1>2, <2>3 DEF RequestRecords
    <2>5. Known(w.user, acc) /\ w.role \in Roles
      BY <2>2, <2>4 DEF Known, Later
    <2> HIDE DEF w
    <2> QED
      BY <1>2, <2>1, <2>4, <2>5 DEF RequestOK, Deciding
  <1>3. CASE Deciding(q)
    <2> DEFINE w == [q EXCEPT !.stale = @ \/ acc # account]
    <2>1. Witness(q, acc) = w
      BY <1>3 DEF Witness, Deciding
    <2>2. q.stale \in BOOLEAN
      BY <1>1 DEF RequestRecords
    <2>3. /\ w \in RequestRecords
          /\ w.step = q.step /\ w.target = q.target /\ w.op = q.op /\ w.patch = q.patch
          /\ w.stale = (q.stale \/ acc # account)
      BY <1>1, <2>2 DEF RequestRecords
    <2>4. Known(w.target, acc) /\ w.op \in {"patch", "delete"}
      BY <1>3, <2>3 DEF RequestOK, Known, Later
    <2>5. ASSUME w.step = "write", ~w.stale, removesOwner(acc[w.target], w.op, w.patch)
          PROVE  Cardinality(ActiveOwners(acc)) > 1
      <3>1. acc = account /\ ~q.stale
        BY <2>3, <2>5
      <3> QED
        BY <2>3, <2>5, <3>1 DEF RequestOK
    <2> HIDE DEF w
    <2> QED
      BY <1>3, <2>1, <2>3, <2>4, <2>5 DEF RequestOK, Deciding
  <1>4. CASE q.step # "account" /\ ~Deciding(q)
    <2>1. Witness(q, acc) = q
      BY <1>4 DEF Witness
    <2>2. q.step = "verified" => Known(q.user, acc) /\ q.role \in Roles
      BY DEF RequestOK, Known, Later
    <2> QED
      BY <1>4, <2>1, <2>2 DEF RequestOK, Deciding
  <1> QED
    BY <1>2, <1>3, <1>4

-----------------------------------------------------------------------------
(* What a step leaves of the invariant.                                    *)

(* A step of one request, that changes no row.                             *)
LEMMA OneRequest ==
    ASSUME IInv, NEW r \in Requests, NEW q,
           request' = [request EXCEPT ![r] = q], RequestOK(q, account),
           UNCHANGED <<account, session, boot>>
    PROVE  IInv'
  <1>1. q \in RequestRecords
    BY DEF RequestOK
  <1>2. request' \in [Requests -> RequestRecords]
    BY <1>1 DEF IInv
  <1>3. \A s \in Requests : RequestOK(request'[s], account')
    BY DEF IInv
  <1> QED
    BY <1>2, <1>3 DEF IInv

(* A step that makes the rows acc.                                         *)
LEMMA ChangedRows ==
    ASSUME IInv, NEW acc, RowsOK(acc), Later(acc, account), NEW r, Change(acc, r),
           UNCHANGED session, boot' \in [Processes -> {"start", "empty", "seed", "up"}]
    PROVE  IInv'
  <1>1. account' = acc
    BY DEF Change
  <1>2. RowsOK(account')
    BY <1>1
  <1>3. \A t \in Tokens : SessionOK(session'[t], account')
    BY <1>1 DEF IInv, SessionOK, Known, Later
  <1>4. ASSUME NEW s \in Requests
        PROVE  request'[s] \in RequestRecords /\ RequestOK(request'[s], account')
    <2>1. request'[s] = IF s = r THEN NoRequest ELSE Witness(request[s], acc)
      BY DEF Change
    <2>2. RequestOK(request[s], account)
      BY DEF IInv
    <2>3. RequestOK(request'[s], account')
      BY <1>1, <2>1, <2>2, NoRequestOK, WitnessOK
    <2> QED
      BY <2>3 DEF RequestOK
  <1>5. request' = [s \in Requests |-> request'[s]]
    BY DEF Change
  <1>6. request' \in [Requests -> RequestRecords]
    BY <1>4, <1>5
  <1> QED
    BY <1>2, <1>3, <1>4, <1>6 DEF IInv

-----------------------------------------------------------------------------
(* The initial state, and every step.                                      *)

LEMMA InitHolds == Init => IInv
  <1> SUFFICES ASSUME Init PROVE IInv
    OBVIOUS
  <1>1. RowsOK(account)
    BY DEF Init, RowsOK, Rows, Unused
  <1>2. /\ session \in [Tokens -> Sessions]
        /\ \A t \in Tokens : SessionOK(session[t], account)
    BY DEF Init, SessionOK, Sessions, NoSession
  <1>3. /\ request \in [Requests -> RequestRecords]
        /\ \A r \in Requests : RequestOK(request[r], account)
    BY NoRequestOK DEF Init, RequestOK
  <1> QED
    BY <1>1, <1>2, <1>3 DEF Init, IInv

(* The steps of a login, and of a request up to its handler.               *)
LEMMA EntranceKeeps ==
    ASSUME IInv, NEW r \in Requests,
           \/ \E i \in Ids : getAdminByEmail(r, i)
           \/ \E t \in Tokens : createSession(r, t) \/ Send(r, t)
           \/ resolveSession(r)
           \/ Fail(r)
    PROVE  IInv'
  <1>1. ASSUME NEW i \in Ids, getAdminByEmail(r, i)
        PROVE  IInv'
    <2> DEFINE q == [NoRequest EXCEPT !.step = "verified", !.user = i, !.role = account[i].role]
    <2>1. account[i].role \in Roles /\ Known(i, account)
      BY <1>1 DEF getAdminByEmail, IInv, RowsOK, Live, Known
    <2>2. RequestOK(q, account)
      BY <2>1 DEF RequestOK, NoRequest, RequestRecords, Keep, Deciding
    <2> QED
      BY <1>1, <2>2, OneRequest DEF getAdminByEmail
  <1>2. ASSUME NEW t \in Tokens, createSession(r, t)
        PROVE  IInv'
    <2> DEFINE s == [state |-> "live", user |-> request[r].user, role |-> request[r].role]
    <2>1. RequestOK(request[r], account)
      BY DEF IInv
    <2>2. SessionOK(s, account)
      BY <1>2, <2>1 DEF createSession, RequestOK, SessionOK, Sessions, Known
    <2>3. /\ session' \in [Tokens -> Sessions]
          /\ \A u \in Tokens : SessionOK(session'[u], account)
      BY <1>2, <2>2 DEF createSession, IInv, SessionOK
    <2>4. /\ request' \in [Requests -> RequestRecords]
          /\ \A u \in Requests : RequestOK(request'[u], account)
      BY <1>2, NoRequestOK DEF createSession, IInv, RequestOK
    <2> QED
      BY <1>2, <2>3, <2>4 DEF createSession, IInv
  <1>3. ASSUME NEW t \in Tokens, Send(r, t)
        PROVE  IInv'
    <2> DEFINE user == session[t].user
               q == [NoRequest EXCEPT !.step = "account", !.user = user,
                                      !.role = session[t].role, !.held = Standing(account, user)]
    <2>1. Known(user, account) /\ session[t].role \in Roles
      BY <1>3 DEF Send, IInv, SessionOK
    <2>2. Standing(account, user) \subseteq Roles
      BY <2>1, StandingType DEF Known, IInv
    <2>3. request' = [request EXCEPT ![r] = q]
      BY <1>3 DEF Send
    <2>4. RequestOK(q, account)
      <3>1. /\ q \in RequestRecords /\ q.step = "account" /\ q.user = user
            /\ q.role = session[t].role /\ q.held = Standing(account, user)
        <4> HIDE DEF user
        <4> QED
          BY <2>1, <2>2 DEF NoRequest, RequestRecords, Keep, Known
      <3> HIDE DEF q
      <3> QED
        BY <2>1, <3>1 DEF RequestOK, Deciding
    <2> QED
      BY <1>3, <2>3, <2>4, OneRequest DEF Send
  <1>4. CASE resolveSession(r)
    <2> DEFINE i == request[r].user
               q == IF Live(i) /\ ~account[i].disabled THEN Admitted(r, account[i].role)
                    ELSE NoRequest
    <2>1. request' = [request EXCEPT ![r] = q]
      BY <1>4 DEF resolveSession
    <2>2. RequestOK(request[r], account) /\ request[r] \in RequestRecords
      BY DEF IInv
    <2>3. CASE Live(i) /\ ~account[i].disabled /\ account[i].role = "owner"
      <3>1. q = [request[r] EXCEPT !.step = "handler", !.role = "owner"]
        BY <2>3 DEF Admitted
      <3>2. "owner" \in request[r].held /\ "owner" \in Roles
        BY <1>4, <2>2, <2>3, AdminAssumption DEF resolveSession, RequestOK, Standing, Live
      <3>3. /\ q \in RequestRecords /\ q.step = "handler"
            /\ q.role = "owner" /\ q.held = request[r].held
        <4> HIDE DEF i
        <4> QED
          BY <2>2, <3>1, <3>2 DEF RequestRecords
      <3>4. RequestOK(q, account)
        <4> HIDE DEF q
        <4> QED
          BY <3>2, <3>3 DEF RequestOK, Deciding
      <3> QED
        BY <1>4, <2>1, <3>4, OneRequest DEF resolveSession
    <2>4. CASE ~(Live(i) /\ ~account[i].disabled /\ account[i].role = "owner")
      <3>1. q = NoRequest
        BY <2>4 DEF Admitted
      <3> QED
        BY <1>4, <2>1, <3>1, NoRequestOK, OneRequest DEF resolveSession
    <2> QED
      BY <2>3, <2>4
  <1>5. CASE Fail(r)
    BY <1>5, NoRequestOK, OneRequest DEF Fail
  <1> QED
    BY <1>1, <1>2, <1>3, <1>4, <1>5

(* The steps of the handlers of accounts.                                  *)
LEMMA HandlerKeeps ==
    ASSUME IInv, NEW r \in Requests,
           \/ \E i \in Ids, role \in Roles : LookUpEmail(r, i, role)
           \/ \E i \in Ids, patch \in Patches : getAdminById(r, i, "patch", patch)
           \/ \E i \in Ids : getAdminById(r, i, "delete", Keep)
           \/ Guard(r)
           \/ createAdmin(r) \/ updateAdmin(r) \/ deleteAdmin(r)
    PROVE  IInv'
  <1> DEFINE i0 == request[r].target
  <1>0. /\ RequestOK(request[r], account) /\ request[r] \in RequestRecords
        /\ RowsOK(account) /\ boot \in [Processes -> {"start", "empty", "seed", "up"}]
    BY DEF IInv
  <1>1. ASSUME NEW i \in Ids, NEW role \in Roles, LookUpEmail(r, i, role)
        PROVE  IInv'
    <2> DEFINE q == [NoRequest EXCEPT !.step = "insert", !.target = i,
                        !.patch = [role |-> role, disabled |-> "no"]]
    <2>1. q \in RequestRecords /\ q.step = "insert" /\ q.target = i /\ q.patch.role = role
      BY DEF NoRequest, RequestRecords, Keep
    <2>2. RequestOK(q, account)
      BY <2>1 DEF RequestOK, Deciding
    <2> QED
      BY <1>1, <2>2, OneRequest DEF LookUpEmail
  <1>2. ASSUME NEW i \in Ids, NEW op \in {"patch", "delete"},
               NEW patch \in Patches \cup {Keep}, getAdminById(r, i, op, patch)
        PROVE  IInv'
    <2> DEFINE step == IF removesOwner(account[i], op, patch) THEN "count" ELSE "write"
               q == [NoRequest EXCEPT !.step = step, !.op = op, !.target = i, !.patch = patch]
    <2>1. Known(i, account)
      BY <1>2 DEF getAdminById, Known, Live
    <2>2. patch \in [role : Roles \cup {"keep"}, disabled : {"keep", "yes", "no"}]
      BY AdminAssumption DEF Keep
    <2>3. /\ q \in RequestRecords /\ q.step = step /\ q.op = op
          /\ q.target = i /\ q.patch = patch
      BY <2>2 DEF NoRequest, RequestRecords, Keep
    <2>4. request' = [request EXCEPT ![r] = q]
      BY <1>2 DEF getAdminById
    <2>5. RequestOK(q, account)
      <3> HIDE DEF q
      <3> QED
        BY <2>1, <2>3 DEF RequestOK, Deciding
    <2> QED
      BY <1>2, <2>4, <2>5, OneRequest DEF getAdminById
  <1>3. CASE Guard(r)
    <2> DEFINE q == [request[r] EXCEPT !.step = "write"]
    <2>1. CASE countOwners <= 1
      <3>1. request' = [request EXCEPT ![r] = NoRequest]
        BY <1>3, <2>1 DEF Guard
      <3> QED
        BY <1>3, <3>1, NoRequestOK, OneRequest DEF Guard
    <2>2. CASE ~(countOwners <= 1)
      <3>1. request' = [request EXCEPT ![r] = q]
        BY <1>3, <2>2 DEF Guard, IInv
      <3>2. IsFiniteSet(ActiveOwners(account))
        BY AdminAssumption, FS_Subset DEF ActiveOwners
      <3>3. Cardinality(ActiveOwners(account)) > 1
        BY <2>2, <3>2, FS_CardinalityType DEF countOwners
      <3>4. RequestOK(q, account)
        BY <1>0, <1>3, <3>3 DEF Guard, RequestOK, RequestRecords, Deciding
      <3> QED
        BY <1>3, <3>1, <3>4, OneRequest DEF Guard
    <2> QED
      BY <2>1, <2>2
  <1>4. CASE createAdmin(r)
    <2>1. i0 \in Ids /\ request[r].patch.role \in Roles
      BY <1>0, <1>4 DEF createAdmin, RequestOK
    <2>2. Insertable(i0) /\ Change(Inserted(i0, request[r].patch.role), r)
      BY <1>4 DEF createAdmin
    <2> QED
      BY <1>0, <1>4, <2>1, <2>2, InsertedOK, ChangedRows DEF createAdmin
  <1>5. CASE updateAdmin(r)
    <2> DEFINE patch == request[r].patch
               acc == [account EXCEPT ![i0] = Patched(@, patch)]
    <2>1. i0 \in Ids
      BY <1>0, <1>5 DEF updateAdmin, RequestOK, Deciding, Known
    <2>2. patch \in [role : Roles \cup {"keep"}, disabled : {"keep", "yes", "no"}]
      BY <1>0 DEF RequestRecords
    <2>3. Live(i0) => RowsOK(acc) /\ Later(acc, account)
      BY <1>0, <2>1, <2>2, PatchedOK
    <2>4. Later(account, account)
      BY DEF Later
    <2>5. Change(IF Live(i0) THEN acc ELSE account, r) /\ UNCHANGED <<session, boot>>
      BY <1>5 DEF updateAdmin
    <2> HIDE DEF acc
    <2> QED
      BY <1>0, <2>3, <2>4, <2>5, ChangedRows
  <1>6. CASE deleteAdmin(r)
    <2>1. i0 \in Ids
      BY <1>0, <1>6 DEF deleteAdmin, RequestOK, Deciding, Known
    <2>2. Later(account, account)
      BY DEF Later
    <2>3. Change(IF Live(i0) THEN Deleted(i0) ELSE account, r) /\ UNCHANGED <<session, boot>>
      BY <1>6 DEF deleteAdmin
    <2> QED
      BY <1>0, <2>1, <2>2, <2>3, DeletedOK, ChangedRows
  <1> QED
    BY <1>1, <1>2, <1>3, <1>4, <1>5, <1>6

(* The steps of web processes, of operators and of sessions that end.      *)
LEMMA OthersKeep ==
    ASSUME IInv,
           \/ \E p \in Processes :
                 CountAdmins(p) \/ LookUpBootstrapEmail(p) \/ BootFails(p)
           \/ \E p \in Processes, i \in Ids : ensureBootstrapAdmin(p, i)
           \/ \E t \in Tokens : destroySession(t)
           \/ \E i \in Ids : CliDelete(i)
           \/ \E i \in Ids, role \in Roles : CliCreate(i, role)
    PROVE  IInv'
  <1>0. RowsOK(account) /\ boot \in [Processes -> {"start", "empty", "seed", "up"}]
    BY DEF IInv
  <1>1. ASSUME NEW p \in Processes, CountAdmins(p) \/ LookUpBootstrapEmail(p) \/ BootFails(p)
        PROVE  IInv'
    <2>1. boot' \in [Processes -> {"start", "empty", "seed", "up"}]
      BY <1>0, <1>1 DEF CountAdmins, LookUpBootstrapEmail, BootFails, BootStep
    <2> QED
      BY <1>1, <2>1 DEF CountAdmins, LookUpBootstrapEmail, BootFails, IInv
  <1>2. ASSUME NEW p \in Processes, NEW i \in Ids, ensureBootstrapAdmin(p, i)
        PROVE  IInv'
    <2>1. boot' \in [Processes -> {"start", "empty", "seed", "up"}]
      BY <1>0, <1>2 DEF ensureBootstrapAdmin, BootStep
    <2>2. Insertable(i) /\ Change(Inserted(i, "owner"), "none") /\ UNCHANGED session
      BY <1>2 DEF ensureBootstrapAdmin
    <2> QED
      BY <1>0, <2>1, <2>2, InsertedOK, ChangedRows, AdminAssumption
  <1>3. ASSUME NEW t \in Tokens, destroySession(t)
        PROVE  IInv'
    <2> DEFINE s == [NoSession EXCEPT !.state = "gone"]
    <2>1. SessionOK(s, account)
      BY DEF SessionOK, Sessions, NoSession
    <2> QED
      BY <1>3, <2>1 DEF destroySession, IInv, SessionOK
  <1>4. ASSUME NEW i \in Ids, CliDelete(i)
        PROVE  IInv'
    BY <1>0, <1>4, DeletedOK, ChangedRows DEF CliDelete
  <1>5. ASSUME NEW i \in Ids, NEW role \in Roles, CliCreate(i, role)
        PROVE  IInv'
    BY <1>0, <1>5, InsertedOK, ChangedRows DEF CliCreate
  <1> QED
    BY <1>1, <1>2, <1>3, <1>4, <1>5

LEMMA NextKeeps == IInv /\ [Next]_vars => IInv'
  <1> SUFFICES ASSUME IInv, [Next]_vars PROVE IInv'
    OBVIOUS
  <1>1. CASE Next
    BY <1>1, EntranceKeeps, HandlerKeeps, OthersKeep DEF Next
  <1>2. CASE UNCHANGED vars
    BY <1>2 DEF vars, IInv
  <1> QED
    BY <1>1, <1>2

(* The inductive invariant of the accounts, their sessions and the requests *)
(* holds in every state (auth/admins.ts, http/admin/routes.ts).            *)
THEOREM AlwaysIInv == Spec => []IInv
  BY InitHolds, NextKeeps, PTL DEF Spec

-----------------------------------------------------------------------------

(* The registry, the sessions and the requests stay well typed, and an id  *)
(* that was an account's stays known (auth/admins.ts, admin-session.ts).   *)
THEOREM TypeCorrect == Spec => []TypeOK
  <1>1. IInv => TypeOK
    BY DEF IInv, TypeOK, RowsOK, SessionOK, RequestOK, Known
  <1> QED
    BY <1>1, AlwaysIInv, PTL

(* adminAuth lets a request in with a role that its account had, enabled,  *)
(* after the request was sent.                                             *)
THEOREM AlwaysAuthorizedAsCurrent == Spec => []AuthorizedAsCurrent
  <1>1. IInv => AuthorizedAsCurrent
    BY DEF IInv, AuthorizedAsCurrent, RequestOK
  <1> QED
    BY <1>1, AlwaysIInv, PTL

(* Two creations, or a creation and a boot, make no second account under   *)
(* an email.                                                               *)
THEOREM EmailsAreUnique == Spec => []EmailNamesOneAccount
  <1>1. IInv => EmailNamesOneAccount
    BY DEF IInv, EmailNamesOneAccount, RowsOK, Live
  <1> QED
    BY <1>1, AlwaysIInv, PTL

-----------------------------------------------------------------------------
(* Only a request that changes its target while no row has changed since   *)
(* it read it is held to the guard: it saw another owner than its target.  *)

(* More than one account is more than the account i.                       *)
LEMMA AnotherOwner ==
    ASSUME NEW i, Cardinality(ActiveOwners(account)) > 1
    PROVE  \E j \in ActiveOwners(account) : j # i
  <1> SUFFICES ASSUME ActiveOwners(account) \subseteq {i} PROVE FALSE
    OBVIOUS
  <1>1. IsFiniteSet({i}) /\ Cardinality({i}) = 1
    BY FS_Singleton
  <1>2. /\ IsFiniteSet(ActiveOwners(account))
        /\ Cardinality(ActiveOwners(account)) <= 1
    BY <1>1, FS_Subset
  <1>3. Cardinality(ActiveOwners(account)) \in Nat
    BY <1>2, FS_CardinalityType
  <1> QED
    BY <1>2, <1>3

(* A change of one row that leaves no active owner takes an owner away, so *)
(* that the guard has seen another.                                        *)
LEMMA GuardedChange ==
    ASSUME IInv, NEW r \in Requests, request[r].step = "write", ~request[r].stale,
           NEW acc, NEW row, acc = [account EXCEPT ![request[r].target] = row],
           ~removesOwner(account[request[r].target], request[r].op, request[r].patch)
              /\ account[request[r].target].state = "live"
              /\ account[request[r].target].role = "owner"
              /\ ~account[request[r].target].disabled
                 => row.state = "live" /\ row.role = "owner" /\ ~row.disabled,
           ActiveOwners(acc) = {}
    PROVE  ActiveOwners(account) = {}
  <1> DEFINE i == request[r].target
  <1>1. /\ RequestOK(request[r], account) /\ i \in Ids
        /\ account \in [Ids -> Rows]
    BY DEF IInv, RequestOK, Deciding, Known, RowsOK
  <1>2. ASSUME NEW j \in ActiveOwners(account), j # i
        PROVE  FALSE
    <2>1. acc[j] = account[j]
      BY <1>1, <1>2 DEF ActiveOwners
    <2>2. j \in ActiveOwners(acc)
      BY <1>2, <2>1 DEF ActiveOwners
    <2> QED
      BY <2>2
  <1>3. ASSUME i \in ActiveOwners(account)
        PROVE  FALSE
    <2>1. acc[i] = row /\ i \notin ActiveOwners(acc)
      BY <1>1
    <2>2. removesOwner(account[i], request[r].op, request[r].patch)
      BY <1>1, <1>3, <2>1 DEF ActiveOwners
    <2>3. Cardinality(ActiveOwners(account)) > 1
      BY <1>1, <2>2 DEF RequestOK
    <2> QED
      BY <2>3, <1>2, AnotherOwner
  <1> QED
    BY <1>2, <1>3

LEMMA StepKeepsOwner ==
    ASSUME IInv, [Next]_vars, NEW r \in Requests,
           Deciding(request[r]), ~request[r].stale, request'[r] = NoRequest,
           ActiveOwners(account') = {}
    PROVE  ActiveOwners(account) = {}
  <1>1. RequestOK(request[r], account) /\ request[r] \in RequestRecords
    BY DEF IInv
  <1>2. CASE account' = account
    BY <1>2
  <1>3. CASE \E s : s # r /\ Change(account', s)
    <2>1. request'[r] = Witness(request[r], account')
      BY <1>3 DEF Change
    <2>2. Witness(request[r], account').step = request[r].step
      BY <1>1 DEF Witness, RequestRecords, Deciding
    <2> QED
      BY <2>1, <2>2 DEF NoRequest, Deciding
  <1>4. CASE updateAdmin(r)
    <2> DEFINE i == request[r].target
               row == Patched(account[i], request[r].patch)
    <2>1. CASE ~Live(i)
      BY <1>4, <2>1 DEF updateAdmin, Change
    <2>2. CASE Live(i)
      <3>1. account' = [account EXCEPT ![i] = row]
        BY <1>4, <2>2 DEF updateAdmin, Change
      <3>2. account[i] \in Rows
        BY <1>1 DEF IInv, RowsOK, RequestOK, Known
      <3>3. ~removesOwner(account[i], request[r].op, request[r].patch)
              /\ account[i].state = "live" /\ account[i].role = "owner" /\ ~account[i].disabled
                 => row.state = "live" /\ row.role = "owner" /\ ~row.disabled
        BY <3>2 DEF removesOwner, Patched, Rows
      <3> HIDE DEF row
      <3> QED
        BY <1>4, <3>1, <3>3, GuardedChange DEF updateAdmin
    <2> QED
      BY <2>1, <2>2
  <1>5. CASE deleteAdmin(r)
    <2> DEFINE i == request[r].target
               row == [state |-> "deleted", role |-> "none", disabled |-> FALSE]
    <2>1. CASE ~Live(i)
      BY <1>5, <2>1 DEF deleteAdmin, Change
    <2>2. CASE Live(i)
      <3>1. account' = [account EXCEPT ![i] = row]
        BY <1>5, <2>2 DEF deleteAdmin, Change, Deleted
      <3>2. ~removesOwner(account[i], request[r].op, request[r].patch)
               => account[i].role # "owner"
        BY <1>5 DEF removesOwner, deleteAdmin
      <3> HIDE DEF row
      <3> QED
        BY <1>5, <3>1, <3>2, GuardedChange DEF deleteAdmin
    <2> QED
      BY <2>1, <2>2
  <1>6. \/ account' = account
        \/ \E s : s # r /\ Change(account', s)
        \/ updateAdmin(r) \/ deleteAdmin(r)
    <2>1. CASE UNCHANGED vars
      BY <2>1 DEF vars
    <2>2. CASE \/ \E s \in Requests, i \in Ids : getAdminByEmail(s, i)
               \/ \E s \in Requests, t \in Tokens : createSession(s, t) \/ Send(s, t)
               \/ \E t \in Tokens : destroySession(t)
               \/ \E s \in Requests : resolveSession(s) \/ Fail(s) \/ Guard(s)
               \/ \E s \in Requests, i \in Ids, role \in Roles : LookUpEmail(s, i, role)
               \/ \E s \in Requests, i \in Ids, patch \in Patches :
                     getAdminById(s, i, "patch", patch)
               \/ \E s \in Requests, i \in Ids : getAdminById(s, i, "delete", Keep)
               \/ \E p \in Processes :
                     CountAdmins(p) \/ LookUpBootstrapEmail(p) \/ BootFails(p)
      BY <2>2 DEF getAdminByEmail, createSession, Send, destroySession, resolveSession, Fail,
                  Guard, LookUpEmail, getAdminById, CountAdmins, LookUpBootstrapEmail, BootFails
    <2>3. CASE \/ \E p \in Processes, i \in Ids : ensureBootstrapAdmin(p, i)
               \/ \E i \in Ids : CliDelete(i)
               \/ \E i \in Ids, role \in Roles : CliCreate(i, role)
      <3>1. Change(account', "none")
        BY <2>3 DEF ensureBootstrapAdmin, CliDelete, CliCreate, Change
      <3> QED
        BY <3>1, AdminAssumption
    <2>4. ASSUME NEW s \in Requests, createAdmin(s) \/ updateAdmin(s) \/ deleteAdmin(s)
          PROVE  \/ account' = account
                 \/ \E u : u # r /\ Change(account', u)
                 \/ updateAdmin(r) \/ deleteAdmin(r)
      <3>1. Change(account', s)
        BY <2>4 DEF createAdmin, updateAdmin, deleteAdmin, Change
      <3>2. CASE s = r
        BY <2>4, <3>2 DEF createAdmin, Deciding
      <3> QED
        BY <3>1, <3>2
    <2> QED
      BY <2>1, <2>2, <2>3, <2>4 DEF Next
  <1> QED
    BY <1>2, <1>3, <1>4, <1>5, <1>6

(* No request takes the last active owner away, unless rows changed under  *)
(* it: the guard of http/admin/routes.ts:225 and 246.                      *)
THEOREM TheLastOwnerIsKept == Spec => LastOwnerKept
  <1> DEFINE A == \A r \in Requests :
                Deciding(request[r]) /\ ~request[r].stale /\ request'[r] = NoRequest
                   => (ActiveOwners(account') = {} => ActiveOwners(account) = {})
  <1>1. IInv /\ [Next]_vars => [A]_vars
    BY StepKeepsOwner
  <1> QED
    BY <1>1, AlwaysIInv, PTL DEF Spec, LastOwnerKept

=============================================================================
