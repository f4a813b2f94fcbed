--------------------------- MODULE TenantRegistry ---------------------------
(***************************************************************************)
(* The tenant registry (auth/tenants.ts) and the authentication of a       *)
(* request by it (http/middleware/auth.ts): the rows of the tenants table, *)
(* the short-lived positive cache of each process, the lookups and the     *)
(* changes under way, each of which awaits Postgres, and the clock.        *)
(***************************************************************************)
EXTENDS Naturals, Sequences

CONSTANTS
    Keys,           \* API keys, by their hash
    Processes,      \* processes, each with its cache
    Clis,           \* those that run the provisioning script, not a server
    Requests,       \* requests a process may have to authenticate
    ProcessOf,      \* request -> the process that serves it
    Operators,      \* admin requests that may change the registry
    Ops,            \* the changes they make
    OverlappedToo,  \* are changes that a lookup overlapped to be seen too?
    TTL,            \* API_KEY_CACHE_TTL_SECONDS
    Latency,        \* bound on the time from a row's read to its reply
    MaxTime,        \* bound of the clock
    MaxChanges      \* bound on the changes of a row

VARIABLES
    rows,       \* key -> the versions of its row, with the time of each
    cache,      \* process, key -> its cache entry
    request,    \* request -> its authentication
    change,     \* operator -> the change it makes
    settled,    \* process, key -> the version its finished changes made,
                \* those that a lookup overlapped only if OverlappedToo
                \* (history)
    now         \* the clock

vars == <<rows, cache, request, change, settled, now>>

ASSUME TenantAssumption ==
    /\ TTL \in Nat \ {0}
    /\ Latency \in Nat
    /\ MaxTime \in Nat
    /\ MaxChanges \in Nat
    /\ Clis \subseteq Processes
    /\ ProcessOf \in [Requests -> Processes \ Clis]
    /\ Ops \subseteq {"create", "touch", "enable", "disable", "revoke"}
    /\ OverlappedToo \in BOOLEAN

(* What a row says: no such tenant, a tenant, or a disabled one. *)
Rows == {"none", "enabled", "disabled"}

(* Version 0 of a row is its absence before it is created. *)
Version(k) == Len(rows[k])
RowAt(k, v) == IF v = 0 THEN "none" ELSE rows[k][v].row
Row(k) == RowAt(k, Version(k))

(* The time the version was superseded; it is not the last one. *)
SupersededAt(k, v) == rows[k][v + 1].at

NoEntry == [version |-> 0, expiresAt |-> 0]
NoRequest == [step |-> "idle", key |-> "none", version |-> 0, readAt |-> 0,
              at |-> 0, floor |-> 0]
NoChange == [step |-> "idle", process |-> "none", op |-> "none", key |-> "none",
             version |-> 0, overlapped |-> FALSE]      \* version 0: it found no row

Init ==
    /\ rows = [k \in Keys |-> << >>]
    /\ cache = [p \in Processes |-> [k \in Keys |-> NoEntry]]
    /\ request = [r \in Requests |-> NoRequest]
    /\ change = [o \in Operators |-> NoChange]
    /\ settled = [p \in Processes |-> [k \in Keys |-> 0]]
    /\ now = 0

-----------------------------------------------------------------------------
(* resolveTenant and the auth middleware.                                  *)

InFlight(p, k) ==
    {r \in Requests : /\ ProcessOf[r] = p
                      /\ request[r].key = k
                      /\ request[r].step \in {"query", "reply"}}

Changing(p, k) ==
    {o \in Operators : /\ change[o].step # "idle"
                       /\ change[o].process = p
                       /\ change[o].key = k}

(* The request for a key, and the answer that a version of its row gives.  *)
Asked(k, p) ==
    [step |-> "query", key |-> k, version |-> 0, readAt |-> 0, at |-> 0,
     floor |-> settled[p][k]]

Answer(asked, v) ==
    [step |-> IF RowAt(asked.key, v) = "enabled" THEN "admitted" ELSE "refused",
     key |-> asked.key, version |-> v, readAt |-> 0, at |-> now,
     floor |-> asked.floor]

(* A mutant of CacheHit: a hit renews the entry. *)
CacheHitRenews(r, k) ==
    LET p == ProcessOf[r]
        entry == cache[p][k]
    IN  /\ request[r].step = "idle"
        /\ entry.expiresAt > now
        /\ request' = [request EXCEPT ![r] = Answer(Asked(k, p), entry.version)]
        /\ cache' = [cache EXCEPT ![p][k].expiresAt = now + TTL]
        /\ UNCHANGED <<rows, change, settled, now>>

(* The process has an unexpired entry: the request is answered at once. *)
CacheHit(r, k) ==
    LET p == ProcessOf[r]
        entry == cache[p][k]
    IN  /\ request[r].step = "idle"
        /\ entry.expiresAt > now
        /\ request' = [request EXCEPT ![r] = Answer(Asked(k, p), entry.version)]
        /\ UNCHANGED <<rows, cache, change, settled, now>>

(* Otherwise the request awaits a SELECT.  A change of the key under way   *)
(* in the process is now overlapped by a lookup.                           *)
CacheMiss(r, k) ==
    LET p == ProcessOf[r] IN
    /\ request[r].step = "idle"
    /\ cache[p][k].expiresAt <= now
    /\ request' = [request EXCEPT ![r] = Asked(k, p)]
    /\ change' = [o \in Operators |->
                    IF o \in Changing(p, k)
                    THEN [change[o] EXCEPT !.overlapped = TRUE] ELSE change[o]]
    /\ UNCHANGED <<rows, cache, settled, now>>

(* Postgres reads the row. *)
Select(r) ==
    /\ request[r].step = "query"
    /\ request' = [request EXCEPT ![r].step = "reply",
                                  ![r].version = Version(request[r].key),
                                  ![r].readAt = now]
    /\ UNCHANGED <<rows, cache, change, settled, now>>

(* A mutant of getTenantByHash: that there is no tenant is cached too. *)
getTenantByHashCachesMissing(r) ==
    LET p == ProcessOf[r]
        k == request[r].key
        v == request[r].version
    IN  /\ request[r].step = "reply"
        /\ cache' = [cache EXCEPT ![p][k] = [version |-> v, expiresAt |-> now + TTL]]
        /\ request' = [request EXCEPT ![r] = Answer(@, v)]
        /\ UNCHANGED <<rows, change, settled, now>>

(* The row arrives: it is cached, a missing one is not. *)
getTenantByHash(r) ==
    LET p == ProcessOf[r]
        k == request[r].key
        v == request[r].version
    IN  /\ request[r].step = "reply"
        /\ cache' = [cache EXCEPT ![p][k] =
                        IF RowAt(k, v) = "none" THEN NoEntry
                        ELSE [version |-> v, expiresAt |-> now + TTL]]
        /\ request' = [request EXCEPT ![r] = Answer(@, v)]
        /\ UNCHANGED <<rows, change, settled, now>>

(* The query fails: the middleware refuses the request (503). *)
Unavailable(r) ==
    /\ request[r].step \in {"query", "reply"}
    /\ request' = [request EXCEPT ![r].step = "unavailable"]
    /\ UNCHANGED <<rows, cache, change, settled, now>>

-----------------------------------------------------------------------------
(* The changes: putTenant under a new key, updateTenantByHash, which may   *)
(* set disabled or leave it, and revokeByHash (revokeApiKey does the same  *)
(* by the raw key).                                                        *)

(* The row after the change, of a row it applies to. *)
Changed(op, row) ==
    CASE op \in {"create", "enable"} -> "enabled"
      [] op = "disable" -> "disabled"
      [] op = "revoke" -> "none"
      [] op = "touch" -> row

(* A new key is random: nobody's before, and never used again. *)
Applies(op, k) ==
    IF op = "create" THEN Version(k) = 0 ELSE Row(k) # "none"

Evicted(p, k) == [cache EXCEPT ![p][k] = NoEntry]

Sent(p, op, k) ==
    [step |-> "sent", process |-> p, op |-> op, key |-> k, version |-> 0,
     overlapped |-> InFlight(p, k) # {}]

(* The script (scripts/provision-tenant.ts) creates and revokes; a cache   *)
(* it evicts from is its own, which the servers do not share.              *)
Offered(p) == IF p \in Clis THEN {"create", "revoke"} ELSE Ops

(* The statement is sent.  A revocation evicts the entry before. *)
Begin(o, p, op, k) ==
    /\ change[o].step = "idle"
    /\ op \in Offered(p)
    /\ op = "create" => Version(k) = 0
    /\ change' = [change EXCEPT ![o] = Sent(p, op, k)]
    /\ cache' = IF op = "revoke" THEN Evicted(p, k) ELSE cache
    /\ UNCHANGED <<rows, request, settled, now>>

(* Postgres runs the statement: on no row, it does nothing. *)
Commit(o) ==
    LET k == change[o].key IN
    /\ change[o].step = "sent"
    /\ IF Applies(change[o].op, k)
       THEN /\ Version(k) < MaxChanges
            /\ rows' = [rows EXCEPT ![k] =
                           Append(@, [row |-> Changed(change[o].op, Row(k)), at |-> now])]
            /\ change' = [change EXCEPT ![o].step = "done",
                                        ![o].version = Version(k) + 1]
       ELSE /\ change' = [change EXCEPT ![o].step = "done"]
            /\ UNCHANGED rows
    /\ UNCHANGED <<cache, request, settled, now>>

Later(v, u) == IF v > u THEN v ELSE u

(* A finished change of the process is known to it from now on. *)
Known(o) ==
    LET c == change[o] IN
    settled' = IF OverlappedToo \/ ~c.overlapped
               THEN [settled EXCEPT ![c.process][c.key] = Later(c.version, @)]
               ELSE settled

(* A mutant of Finish: an update leaves the entry in the cache. *)
FinishKeepsEntry(o) ==
    /\ change[o].step = "done"
    /\ Known(o)
    /\ change' = [change EXCEPT ![o] = NoChange]
    /\ UNCHANGED <<rows, cache, request, now>>

(* The statement's result arrives.  A creation or an update evicts the     *)
(* entry after, if it found a row.                                         *)
Finish(o) ==
    LET c == change[o] IN
    /\ c.step = "done"
    /\ Known(o)
    /\ cache' = IF c.op # "revoke" /\ c.version > 0
                THEN Evicted(c.process, c.key) ELSE cache
    /\ change' = [change EXCEPT ![o] = NoChange]
    /\ UNCHANGED <<rows, request, now>>

(* The query fails, before or after it was committed: the handler throws,  *)
(* the admin is told of an error.                                          *)
Abort(o) ==
    /\ change[o].step \in {"sent", "done"}
    /\ change' = [change EXCEPT ![o] = NoChange]
    /\ UNCHANGED <<rows, cache, request, settled, now>>

-----------------------------------------------------------------------------

(* An answered request makes room for another. *)
Leave(r) ==
    /\ request[r].step \in {"admitted", "refused", "unavailable"}
    /\ request' = [request EXCEPT ![r] = NoRequest]
    /\ UNCHANGED <<rows, cache, change, settled, now>>

(* A row that was read arrives within Latency. *)
Tick ==
    /\ now < MaxTime
    /\ \A r \in Requests : request[r].step = "reply" => now < request[r].readAt + Latency
    /\ now' = now + 1
    /\ UNCHANGED <<rows, cache, request, change, settled>>

Next ==
    \/ \E r \in Requests, k \in Keys : CacheHit(r, k) \/ CacheMiss(r, k)
    \/ \E r \in Requests :
          Select(r) \/ getTenantByHash(r) \/ Unavailable(r) \/ Leave(r)
    \/ \E o \in Operators, p \in Processes, op \in Ops, k \in Keys : Begin(o, p, op, k)
    \/ \E o \in Operators : Commit(o) \/ Finish(o) \/ Abort(o)
    \/ Tick

Spec == Init /\ [][Next]_vars

-----------------------------------------------------------------------------

Time == 0..MaxTime
Versions == 0..MaxChanges

RequestRecords ==
    [step : {"idle", "query", "reply", "admitted", "refused", "unavailable"},
     key : Keys \cup {"none"}, version : Versions, readAt : Time, at : Time,
     floor : Versions]

ChangeRecords ==
    [step : {"idle", "sent", "done"}, process : Processes \cup {"none"},
     op : Ops \cup {"none"}, key : Keys \cup {"none"}, version : Versions,
     overlapped : BOOLEAN]

Shapes ==
    /\ rows \in [Keys -> Seq([row : Rows, at : Time])]
    /\ cache \in [Processes -> [Keys -> [version : Versions,
                                         expiresAt : 0..(MaxTime + TTL)]]]
    /\ request \in [Requests -> RequestRecords]
    /\ change \in [Operators -> ChangeRecords]
    /\ settled \in [Processes -> [Keys -> Versions]]
    /\ now \in Time

(* Every version spoken of exists, and no entry that is still good says    *)
(* that there is no tenant.                                                *)
Coherent ==
    /\ \A k \in Keys : Version(k) \in Versions
    /\ \A p \in Processes, k \in Keys :
          /\ cache[p][k].version <= Version(k)
          /\ settled[p][k] <= Version(k)
          /\ cache[p][k].expiresAt > now => RowAt(k, cache[p][k].version) # "none"
    /\ \A r \in Requests : request[r].step # "idle" =>
          /\ request[r].key \in Keys
          /\ request[r].version <= Version(request[r].key)
    /\ \A o \in Operators : change[o].step # "idle" =>
          /\ change[o].process \in Processes
          /\ change[o].op \in Ops
          /\ change[o].key \in Keys
          /\ change[o].version <= Version(change[o].key)

(* The state is well typed and coherent. *)
TypeOK == Shapes /\ Coherent

(* A key is admitted for a tenant that was enabled, and that no change had *)
(* superseded for longer than the cache's TTL and a reply's latency: a     *)
(* revoked or disabled key is dead in every process by then, whichever     *)
(* server or script changed it, whatever replies arrive late or out of     *)
(* order and whatever queries fail.                                        *)
AdmittedIsFresh ==
    \A r \in Requests : request[r].step = "admitted" =>
        LET k == request[r].key
            v == request[r].version
        IN  /\ RowAt(k, v) = "enabled"
            /\ v = Version(k) \/ request[r].at < SupersededAt(k, v) + TTL + Latency

IsAnswered(r) == request[r].step \in {"admitted", "refused"}

(* auth/tenants.ts:173-174: a change clears the entry "so this process     *)
(* sees the change at once".  It is seen by every request that the process *)
(* authenticates after it, if no lookup of the key overlapped it; the code *)
(* promises that of every change (OverlappedToo).                          *)
ChangeIsSeenAtOnce ==
    \A r \in Requests : IsAnswered(r) => request[r].version >= request[r].floor

=============================================================================
