---------------------------- MODULE TenantProofs ----------------------------
(***************************************************************************)
(* Proofs about the tenant registry, for every set of keys, processes,     *)
(* requests and operators, every TTL and every latency.                    *)
(***************************************************************************)
EXTENDS TenantRegistry, TLAPS

-----------------------------------------------------------------------------
(* A committed change adds a version to one row and leaves the others.     *)

LEMMA AddedVersion ==
    ASSUME Shapes, NEW k \in Keys, NEW row \in Rows,
           rows' = [rows EXCEPT ![k] = Append(@, [row |-> row, at |-> now])]
    PROVE  /\ rows' \in [Keys -> Seq([row : Rows, at : Time])]
           /\ Version(k)' = Version(k) + 1
           /\ rows'[k][Version(k) + 1] = [row |-> row, at |-> now]
           /\ \A v \in 1..Version(k) : rows'[k][v] = rows[k][v]
           /\ \A j \in Keys \ {k} : rows'[j] = rows[j]
  <1> DEFINE entry == [row |-> row, at |-> now]
  <1>1. entry \in [row : Rows, at : Time]
    BY DEF Shapes
  <1>2. rows[k] \in Seq([row : Rows, at : Time])
    BY DEF Shapes
  <1>3. rows'[k] = Append(rows[k], entry)
    BY DEF Shapes
  <1>4. /\ Append(rows[k], entry) \in Seq([row : Rows, at : Time])
        /\ Len(Append(rows[k], entry)) = Len(rows[k]) + 1
        /\ Append(rows[k], entry)[Len(rows[k]) + 1] = entry
        /\ \A v \in 1..Len(rows[k]) : Append(rows[k], entry)[v] = rows[k][v]
    BY <1>1, <1>2
  <1>5. rows' \in [Keys -> Seq([row : Rows, at : Time])]
    BY <1>3, <1>4 DEF Shapes
  <1> QED
    BY <1>3, <1>4, <1>5 DEF Version, Shapes

LEMMA Elements ==
    ASSUME NEW S, NEW s \in Seq(S)
    PROVE  Len(s) \in Nat /\ \A i \in 1..Len(s) : s[i] \in S
  OBVIOUS

LEMMA VersionNat ==
    ASSUME Shapes, NEW k \in Keys
    PROVE  /\ Version(k) \in Nat
           /\ \A v \in 1..Version(k) : /\ rows[k][v] \in [row : Rows, at : Time]
                                       /\ RowAt(k, v) = rows[k][v].row
           /\ \A v \in 0..Version(k) : RowAt(k, v) \in Rows
  <1>1. rows[k] \in Seq([row : Rows, at : Time])
    BY DEF Shapes
  <1>2. Len(rows[k]) \in Nat /\ \A v \in 1..Len(rows[k]) : rows[k][v] \in [row : Rows, at : Time]
    BY <1>1, Elements
  <1> QED
    BY <1>2 DEF Version, RowAt, Rows

LEMMA ChangedType ==
    ASSUME NEW op \in Ops, NEW row \in Rows
    PROVE  Changed(op, row) \in Rows
  BY TenantAssumption DEF Changed, Rows

-----------------------------------------------------------------------------
(* Why an admission is fresh.  The clock may not pass the reply of a row   *)
(* that was read by more than Latency, so a row superseded since its read  *)
(* was superseded at most Latency before the reply, which starts its TTL.  *)

EntryFresh(e, k) ==
    /\ e.expiresAt <= now + TTL
    /\ e.version < Version(k) => e.expiresAt <= SupersededAt(k, e.version) + TTL + Latency

LookupFresh(q) ==
    /\ q.readAt <= now /\ now <= q.readAt + Latency
    /\ q.version < Version(q.key) => q.readAt <= SupersededAt(q.key, q.version)

AdmissionFresh(q) ==
    /\ RowAt(q.key, q.version) = "enabled"
    /\ q.at <= now
    /\ q.version < Version(q.key) =>
          q.at < SupersededAt(q.key, q.version) + TTL + Latency

Fresh ==
    /\ \A p \in Processes, k \in Keys : EntryFresh(cache[p][k], k)
    /\ \A r \in Requests : request[r].step = "reply" => LookupFresh(request[r])
    /\ \A r \in Requests : request[r].step = "admitted" => AdmissionFresh(request[r])

IInv == TypeOK /\ Fresh

-----------------------------------------------------------------------------

LEMMA InitHolds == Init => IInv
  <1> SUFFICES ASSUME Init PROVE IInv
    OBVIOUS
  <1>1. Shapes
    <2>1. << >> \in Seq([row : Rows, at : Time])
      OBVIOUS
    <2> QED
      BY <2>1, TenantAssumption
      DEF Init, Shapes, NoEntry, NoRequest, NoChange, RequestRecords, ChangeRecords,
          Versions, Time
  <1>2. Coherent
    BY TenantAssumption
    DEF Init, Coherent, NoEntry, NoRequest, NoChange, Version, Versions
  <1>3. Fresh
    BY TenantAssumption
    DEF Init, Fresh, EntryFresh, NoEntry, NoRequest, Version
  <1> QED
    BY <1>1, <1>2, <1>3 DEF IInv, TypeOK

(* A request that is answered by a version that exists is well typed.      *)
LEMMA AnswerType ==
    ASSUME Shapes, NEW q \in RequestRecords, q.key \in Keys,
           NEW v \in Versions
    PROVE  /\ Answer(q, v) \in RequestRecords
           /\ Answer(q, v).key = q.key
           /\ Answer(q, v).version = v
           /\ Answer(q, v).at = now
           /\ Answer(q, v).floor = q.floor
           /\ Answer(q, v).step \in {"admitted", "refused"}
           /\ Answer(q, v).step = "admitted" => RowAt(q.key, v) = "enabled"
  BY TenantAssumption DEF Answer, RequestRecords, Shapes, Time

LEMMA AskedType ==
    ASSUME Shapes, NEW k \in Keys, NEW p \in Processes
    PROVE  /\ Asked(k, p) \in RequestRecords
           /\ Asked(k, p).key = k
           /\ Asked(k, p).version = 0
           /\ Asked(k, p).floor = settled[p][k]
           /\ Asked(k, p).step = "query"
  BY TenantAssumption DEF Asked, RequestRecords, Shapes, Time, Versions

(* The parts of the invariant that speak of requests, and of cache entries. *)
RequestsOK ==
    /\ request \in [Requests -> RequestRecords]
    /\ \A r \in Requests : request[r].step # "idle" =>
          /\ request[r].key \in Keys
          /\ request[r].version <= Version(request[r].key)
    /\ \A r \in Requests : request[r].step = "reply" => LookupFresh(request[r])
    /\ \A r \in Requests : request[r].step = "admitted" => AdmissionFresh(request[r])

EntriesOK ==
    /\ cache \in [Processes -> [Keys -> [version : Versions,
                                         expiresAt : 0..(MaxTime + TTL)]]]
    /\ \A p \in Processes, k \in Keys :
          /\ cache[p][k].version <= Version(k)
          /\ cache[p][k].expiresAt > now => RowAt(k, cache[p][k].version) # "none"
          /\ EntryFresh(cache[p][k], k)

(* The parts that speak of the operators' changes, and of the rest. *)
ChangesOK ==
    /\ change \in [Operators -> ChangeRecords]
    /\ \A o \in Operators : change[o].step # "idle" =>
          /\ change[o].process \in Processes
          /\ change[o].op \in Ops
          /\ change[o].key \in Keys
          /\ change[o].version <= Version(change[o].key)

SettledOK ==
    /\ settled \in [Processes -> [Keys -> Versions]]
    /\ \A p \in Processes, k \in Keys : settled[p][k] <= Version(k)

RowsOK ==
    /\ rows \in [Keys -> Seq([row : Rows, at : Time])]
    /\ now \in Time
    /\ \A k \in Keys : Version(k) \in Versions

LEMMA Parts ==
    IInv <=> RequestsOK /\ EntriesOK /\ ChangesOK /\ SettledOK /\ RowsOK
  BY DEF IInv, TypeOK, Shapes, Coherent, Fresh, RequestsOK, EntriesOK, ChangesOK,
         SettledOK, RowsOK

LEMMA PartsNext ==
    IInv' <=> RequestsOK' /\ EntriesOK' /\ ChangesOK' /\ SettledOK' /\ RowsOK'
  BY DEF IInv, TypeOK, Shapes, Coherent, Fresh, RequestsOK, EntriesOK, ChangesOK,
         SettledOK, RowsOK

(* A step that leaves the table and the clock alone keeps what it does not *)
(* touch.                                                                  *)
LEMMA SameRows ==
    ASSUME IInv, UNCHANGED <<rows, now>>
    PROVE  /\ RowsOK'
           /\ UNCHANGED request => RequestsOK'
           /\ UNCHANGED cache => EntriesOK'
           /\ UNCHANGED change => ChangesOK'
           /\ UNCHANGED settled => SettledOK'
  <1>1. RowsOK /\ RequestsOK /\ EntriesOK /\ ChangesOK /\ SettledOK
    BY Parts
  <1>2. RowsOK'
    BY <1>1 DEF RowsOK, Version
  <1>3. UNCHANGED request => RequestsOK'
    BY <1>1 DEF RequestsOK, LookupFresh, AdmissionFresh, Version, RowAt, SupersededAt
  <1>4. UNCHANGED cache => EntriesOK'
    BY <1>1 DEF EntriesOK, EntryFresh, Version, RowAt, SupersededAt
  <1>5. UNCHANGED change => ChangesOK'
    BY <1>1 DEF ChangesOK, Version
  <1>6. UNCHANGED settled => SettledOK'
    BY <1>1 DEF SettledOK, Version
  <1> QED
    BY <1>2, <1>3, <1>4, <1>5, <1>6

(* A request whose record becomes idle, unavailable or one that awaits its *)
(* row.                                                                    *)
LEMMA OtherRequests ==
    ASSUME IInv, UNCHANGED <<rows, now>>,
           NEW r \in Requests, NEW q \in RequestRecords,
           request' = [request EXCEPT ![r] = q],
           q.step # "idle" => q.key \in Keys /\ q.version <= Version(q.key),
           q.step = "reply" => LookupFresh(q),
           q.step = "admitted" => AdmissionFresh(q)
    PROVE  RequestsOK'
  <1>1. RequestsOK
    BY Parts
  <1>2. request'[r] = q /\ \A s \in Requests \ {r} : request'[s] = request[s]
    BY <1>1 DEF RequestsOK
  <1>3. request' \in [Requests -> RequestRecords]
    BY <1>1 DEF RequestsOK
  <1>4. \A s \in Requests : request'[s].step # "idle" =>
          /\ request'[s].key \in Keys
          /\ request'[s].version <= Version(request[s].key)'
    BY <1>1, <1>2 DEF RequestsOK, Version
  <1>5. \A s \in Requests : request'[s].step = "reply" => LookupFresh(request[s])'
    BY <1>1, <1>2 DEF RequestsOK, LookupFresh, Version, SupersededAt
  <1>6. \A s \in Requests : request'[s].step = "admitted" => AdmissionFresh(request[s])'
    BY <1>1, <1>2 DEF RequestsOK, AdmissionFresh, RowAt, Version, SupersededAt
  <1> QED
    BY <1>3, <1>4, <1>5, <1>6 DEF RequestsOK

(* An answer by a version that is not superseded for too long.             *)
LEMMA AnswerKeeps ==
    ASSUME IInv, UNCHANGED <<rows, now>>,
           NEW r \in Requests, NEW q \in RequestRecords, q.key \in Keys,
           NEW v \in Versions, v <= Version(q.key),
           v < Version(q.key) => now < SupersededAt(q.key, v) + TTL + Latency,
           request' = [request EXCEPT ![r] = Answer(q, v)]
    PROVE  RequestsOK'
  <1>1. Shapes
    BY DEF IInv, TypeOK
  <1>2. Answer(q, v).step = "admitted" => AdmissionFresh(Answer(q, v))
    <2>1. now \in Nat
      BY <1>1 DEF Shapes, Time
    <2>2. /\ Answer(q, v).key = q.key
          /\ Answer(q, v).version = v
          /\ Answer(q, v).at = now
          /\ Answer(q, v).step = "admitted" => RowAt(q.key, v) = "enabled"
      BY <1>1, AnswerType
    <2> QED
      BY <2>1, <2>2 DEF AdmissionFresh
  <1> QED
    BY <1>1, <1>2, AnswerType, OtherRequests

(* The time a version was superseded is one. *)
LEMMA SupersededType ==
    ASSUME Shapes, NEW k \in Keys, NEW v \in Nat, v < Version(k)
    PROVE  SupersededAt(k, v) \in Nat
  <1>1. v + 1 \in 1..Version(k)
    BY VersionNat
  <1> QED
    BY <1>1, VersionNat DEF SupersededAt, Time

-----------------------------------------------------------------------------

LEMMA CacheHitKeeps ==
    ASSUME IInv, NEW r \in Requests, NEW k \in Keys, CacheHit(r, k)
    PROVE  IInv'
  <1> DEFINE p == ProcessOf[r]
             e == cache[p][k]
  <1>1. Shapes /\ EntriesOK
    BY Parts DEF IInv, TypeOK
  <1>2. /\ p \in Processes /\ e.version \in Versions /\ e.version \in Nat
        /\ e.expiresAt \in Nat /\ now \in Nat
        /\ e.version <= Version(k)
        /\ EntryFresh(e, k)
    BY <1>1, TenantAssumption DEF EntriesOK, Shapes, Time, Versions
  <1>3. /\ request' = [request EXCEPT ![r] = Answer(Asked(k, p), e.version)]
        /\ UNCHANGED <<rows, cache, change, settled, now>>
        /\ e.expiresAt > now
    BY DEF CacheHit
  <1>4. Asked(k, p) \in RequestRecords /\ Asked(k, p).key = k
    BY <1>1, <1>2, AskedType
  <1>5. e.version < Version(k) => now < SupersededAt(k, e.version) + TTL + Latency
    BY <1>1, <1>2, <1>3, SupersededType, TenantAssumption DEF EntryFresh
  <1>6. RequestsOK'
    <2> HIDE DEF p, e
    <2> QED
      BY <1>2, <1>3, <1>4, <1>5, AnswerKeeps
  <1> QED
    BY <1>3, <1>6, SameRows, PartsNext

LEMMA CacheMissKeeps ==
    ASSUME IInv, NEW r \in Requests, NEW k \in Keys, CacheMiss(r, k)
    PROVE  IInv'
  <1> DEFINE p == ProcessOf[r]
  <1>1. Shapes /\ ChangesOK
    BY Parts DEF IInv, TypeOK
  <1>2. /\ request' = [request EXCEPT ![r] = Asked(k, p)]
        /\ UNCHANGED <<rows, cache, settled, now>>
        /\ change' = [o \in Operators |->
                        IF o \in Changing(p, k)
                        THEN [change[o] EXCEPT !.overlapped = TRUE] ELSE change[o]]
    BY DEF CacheMiss
  <1>3. /\ p \in Processes
        /\ Asked(k, p) \in RequestRecords
        /\ Asked(k, p).step = "query" /\ Asked(k, p).key = k /\ Asked(k, p).version = 0
        /\ 0 <= Version(k)
    BY <1>1, TenantAssumption, AskedType, VersionNat
  <1>4. RequestsOK'
    <2> HIDE DEF p
    <2> QED
      BY <1>2, <1>3, OtherRequests
  <1>5. ChangesOK'
    <2>1. ASSUME NEW o \in Operators
          PROVE  /\ change'[o] \in ChangeRecords
                 /\ change'[o].step = change[o].step
                 /\ change'[o].process = change[o].process
                 /\ change'[o].op = change[o].op
                 /\ change'[o].key = change[o].key
                 /\ change'[o].version = change[o].version
      <3>1. change[o] \in ChangeRecords
        BY <1>1 DEF Shapes
      <3>2. CASE o \in Changing(p, k)
        <4>1. change'[o] = [change[o] EXCEPT !.overlapped = TRUE]
          BY <1>2, <3>2
        <4> HIDE DEF p
        <4> QED
          BY <3>1, <4>1 DEF ChangeRecords
      <3>3. CASE o \notin Changing(p, k)
        <4>1. change'[o] = change[o]
          BY <1>2, <3>3
        <4> QED
          BY <3>1, <4>1
      <3> QED
        BY <3>2, <3>3
    <2>2. change' \in [Operators -> ChangeRecords]
      BY <1>2, <2>1
    <2> QED
      BY <1>1, <1>2, <2>1, <2>2 DEF ChangesOK, Version
  <1> QED
    BY <1>2, <1>4, <1>5, SameRows, PartsNext

LEMMA SelectKeeps ==
    ASSUME IInv, NEW r \in Requests, Select(r)
    PROVE  IInv'
  <1> DEFINE q == [request[r] EXCEPT !.step = "reply",
                                     !.version = Version(request[r].key),
                                     !.readAt = now]
  <1>1. RequestsOK /\ RowsOK /\ request[r] \in RequestRecords
    BY Parts DEF RequestsOK
  <1>2. /\ request' = [request EXCEPT ![r] = q]
        /\ request[r].step = "query"
        /\ UNCHANGED <<rows, cache, change, settled, now>>
    BY <1>1 DEF Select, RequestsOK
  <1>3. request[r].key \in Keys /\ Version(request[r].key) \in Versions /\ now \in Time
    BY <1>1, <1>2 DEF RequestsOK, RowsOK
  <1>4. q \in RequestRecords
    BY <1>1, <1>3 DEF RequestRecords
  <1>5. /\ q.step = "reply" /\ q.key = request[r].key
        /\ q.version = Version(request[r].key) /\ q.readAt = now
    BY <1>1 DEF RequestRecords
  <1>6. q.version <= Version(q.key) /\ LookupFresh(q)
    BY <1>3, <1>5, TenantAssumption DEF LookupFresh, Versions, Time
  <1>7. RequestsOK'
    <2> HIDE DEF q
    <2> QED
      BY <1>2, <1>3, <1>4, <1>5, <1>6, OtherRequests
  <1> QED
    BY <1>2, <1>7, SameRows, PartsNext

LEMMA getTenantByHashKeeps ==
    ASSUME IInv, NEW r \in Requests, getTenantByHash(r)
    PROVE  IInv'
  <1> DEFINE p == ProcessOf[r]
             k == request[r].key
             v == request[r].version
             e == IF RowAt(k, v) = "none" THEN NoEntry
                  ELSE [version |-> v, expiresAt |-> now + TTL]
  <1>1. Shapes /\ RequestsOK /\ RowsOK /\ EntriesOK
    BY Parts DEF IInv, TypeOK
  <1>2. /\ request' = [request EXCEPT ![r] = Answer(request[r], v)]
        /\ cache' = [cache EXCEPT ![p][k] = e]
        /\ request[r].step = "reply"
        /\ UNCHANGED <<rows, change, settled, now>>
    BY <1>1 DEF getTenantByHash, RequestsOK
  <1>3. /\ request[r] \in RequestRecords /\ k \in Keys /\ p \in Processes
        /\ v \in Versions /\ v \in Nat /\ v <= Version(k)
        /\ now \in Time /\ now \in Nat /\ LookupFresh(request[r])
    <2>1. request[r] \in RequestRecords /\ k \in Keys /\ v <= Version(k)
      BY <1>1, <1>2 DEF RequestsOK
    <2>2. LookupFresh(request[r])
      BY <1>1, <1>2 DEF RequestsOK
    <2>3. v \in Versions /\ v \in Nat
      BY <2>1, TenantAssumption DEF RequestRecords, Versions
    <2>4. p \in Processes /\ now \in Time /\ now \in Nat
      BY <1>1, TenantAssumption DEF RowsOK, Time
    <2> QED
      BY <2>1, <2>2, <2>3, <2>4
  <1>4. v < Version(k) => /\ SupersededAt(k, v) \in Nat
                          /\ now <= SupersededAt(k, v) + Latency
    <2>1. request[r].readAt \in Nat
      BY <1>3 DEF RequestRecords, Time
    <2> QED
      BY <2>1, <1>1, <1>3, SupersededType, TenantAssumption DEF LookupFresh
  <1>5. RequestsOK'
    <2>1. v < Version(k) => now < SupersededAt(k, v) + TTL + Latency
      BY <1>3, <1>4, TenantAssumption
    <2> HIDE DEF k, v
    <2> QED
      BY <1>2, <1>3, <2>1, AnswerKeeps DEF k
  <1>6. /\ e \in [version : Versions, expiresAt : 0..(MaxTime + TTL)]
        /\ e.version <= Version(k)
        /\ e.expiresAt > now => RowAt(k, e.version) # "none"
        /\ EntryFresh(e, k)
    <2>0. Version(k) \in Nat
      BY <1>1, <1>3, VersionNat
    <2>1. CASE RowAt(k, v) = "none"
      <3>1. e = [version |-> 0, expiresAt |-> 0]
        BY <2>1 DEF NoEntry
      <3>2. 0 < Version(k) => SupersededAt(k, 0) \in Nat
        BY <1>1, <1>3, SupersededType
      <3> QED
        BY <3>1, <3>2, <1>3, <2>0, TenantAssumption DEF EntryFresh, Versions, Time
    <2>2. CASE RowAt(k, v) # "none"
      <3>1. e = [version |-> v, expiresAt |-> now + TTL]
        BY <2>2
      <3> QED
        BY <3>1, <2>2, <1>3, <1>4, <2>0, TenantAssumption DEF EntryFresh, Versions, Time
    <2> QED
      BY <2>1, <2>2
  <1>7. EntriesOK'
    <2> HIDE DEF p, k, v, e
    <2>1. cache' \in [Processes -> [Keys -> [version : Versions,
                                             expiresAt : 0..(MaxTime + TTL)]]]
      BY <1>1, <1>2, <1>3, <1>6 DEF EntriesOK
    <2>2. ASSUME NEW i \in Processes, NEW j \in Keys
          PROVE  cache'[i][j] = IF i = p /\ j = k THEN e ELSE cache[i][j]
      BY <1>1, <1>2, <1>3 DEF EntriesOK
    <2>3. ASSUME NEW i \in Processes, NEW j \in Keys
          PROVE  (/\ cache[i][j].version <= Version(j)
                  /\ cache[i][j].expiresAt > now => RowAt(j, cache[i][j].version) # "none"
                  /\ EntryFresh(cache[i][j], j))'
      <3>1. CASE i = p /\ j = k
        BY <3>1, <2>2, <1>2, <1>6 DEF EntryFresh, Version, RowAt, SupersededAt
      <3>2. CASE ~(i = p /\ j = k)
        BY <3>2, <2>2, <1>2, <1>1 DEF EntriesOK, EntryFresh, Version, RowAt, SupersededAt
      <3> QED
        BY <3>1, <3>2
    <2> QED
      BY <2>1, <2>3 DEF EntriesOK
  <1> QED
    BY <1>2, <1>5, <1>7, SameRows, PartsNext

(* An entry is evicted: there is none, which is as fresh as it gets.       *)
LEMMA EvictedKeeps ==
    ASSUME IInv, UNCHANGED <<rows, now>>,
           NEW p \in Processes, NEW k \in Keys, cache' = Evicted(p, k)
    PROVE  EntriesOK'
  <1>1. Shapes /\ RowsOK /\ EntriesOK
    BY Parts DEF IInv, TypeOK
  <1>2. cache' = [cache EXCEPT ![p][k] = NoEntry]
    BY DEF Evicted
  <1>3. /\ NoEntry \in [version : Versions, expiresAt : 0..(MaxTime + TTL)]
        /\ NoEntry.version = 0 /\ NoEntry.expiresAt = 0
    BY TenantAssumption DEF NoEntry, Versions
  <1>4. /\ 0 <= Version(k) /\ now \in Nat /\ EntryFresh(NoEntry, k)
    <2>1. now \in Nat /\ Version(k) \in Nat
      BY <1>1, VersionNat DEF RowsOK, Time
    <2>2. 0 < Version(k) => SupersededAt(k, 0) \in Nat
      BY <1>1, SupersededType
    <2> QED
      BY <1>3, <2>1, <2>2, TenantAssumption DEF EntryFresh
  <1>5. cache' \in [Processes -> [Keys -> [version : Versions,
                                           expiresAt : 0..(MaxTime + TTL)]]]
    BY <1>1, <1>2, <1>3 DEF EntriesOK
  <1>6. ASSUME NEW i \in Processes, NEW j \in Keys
        PROVE  cache'[i][j] = IF i = p /\ j = k THEN NoEntry ELSE cache[i][j]
    BY <1>1, <1>2 DEF EntriesOK
  <1>7. ASSUME NEW i \in Processes, NEW j \in Keys
        PROVE  (/\ cache[i][j].version <= Version(j)
                /\ cache[i][j].expiresAt > now => RowAt(j, cache[i][j].version) # "none"
                /\ EntryFresh(cache[i][j], j))'
    <2>1. CASE i = p /\ j = k
      BY <2>1, <1>3, <1>4, <1>6 DEF EntryFresh, Version, RowAt, SupersededAt
    <2>2. CASE ~(i = p /\ j = k)
      BY <2>2, <1>1, <1>6 DEF EntriesOK, EntryFresh, Version, RowAt, SupersededAt
    <2> QED
      BY <2>1, <2>2
  <1> QED
    BY <1>5, <1>7 DEF EntriesOK

LEMMA UnavailableKeeps ==
    ASSUME IInv, NEW r \in Requests, Unavailable(r)
    PROVE  IInv'
  <1> DEFINE q == [request[r] EXCEPT !.step = "unavailable"]
  <1>1. RequestsOK /\ request[r] \in RequestRecords
    BY Parts DEF RequestsOK
  <1>2. /\ request' = [request EXCEPT ![r] = q]
        /\ request[r].step \in {"query", "reply"}
        /\ UNCHANGED <<rows, cache, change, settled, now>>
    BY <1>1 DEF Unavailable, RequestsOK
  <1>3. /\ q \in RequestRecords /\ q.step = "unavailable"
        /\ q.key \in Keys /\ q.version <= Version(q.key)
    BY <1>1, <1>2 DEF RequestRecords, RequestsOK
  <1>4. RequestsOK'
    <2> HIDE DEF q
    <2> QED
      BY <1>2, <1>3, OtherRequests
  <1> QED
    BY <1>2, <1>4, SameRows, PartsNext

LEMMA LeaveKeeps ==
    ASSUME IInv, NEW r \in Requests, Leave(r)
    PROVE  IInv'
  <1>1. RequestsOK
    BY Parts
  <1>2. NoRequest \in RequestRecords /\ NoRequest.step = "idle"
    BY TenantAssumption DEF NoRequest, RequestRecords, Versions, Time
  <1>3. RequestsOK'
    BY <1>2, OtherRequests DEF Leave
  <1> QED
    BY <1>3, SameRows, PartsNext DEF Leave

(* An operator whose change begins, ends or goes on.                       *)
LEMMA OtherChanges ==
    ASSUME IInv, UNCHANGED <<rows, now>>,
           NEW o \in Operators, NEW c \in ChangeRecords,
           change' = [change EXCEPT ![o] = c],
           c.step # "idle" => /\ c.process \in Processes /\ c.op \in Ops
                              /\ c.key \in Keys /\ c.version <= Version(c.key)
    PROVE  ChangesOK'
  <1>1. ChangesOK
    BY Parts
  <1>2. change'[o] = c /\ \A s \in Operators \ {o} : change'[s] = change[s]
    BY <1>1 DEF ChangesOK
  <1>3. change' \in [Operators -> ChangeRecords]
    BY <1>1 DEF ChangesOK
  <1> QED
    BY <1>1, <1>2, <1>3 DEF ChangesOK, Version

LEMMA NoChangeType ==
    NoChange \in ChangeRecords /\ NoChange.step = "idle"
  BY TenantAssumption DEF NoChange, ChangeRecords, Versions

LEMMA BeginKeeps ==
    ASSUME IInv, NEW o \in Operators, NEW p \in Processes, NEW op \in Ops,
           NEW k \in Keys, Begin(o, p, op, k)
    PROVE  IInv'
  <1> DEFINE c == Sent(p, op, k)
  <1>1. /\ change' = [change EXCEPT ![o] = c]
        /\ cache' = Evicted(p, k) \/ cache' = cache
        /\ UNCHANGED <<rows, request, settled, now>>
    BY DEF Begin
  <1>2. 0 \in Versions
    BY TenantAssumption DEF Versions
  <1>3. /\ c \in ChangeRecords /\ c.process = p /\ c.op = op /\ c.key = k
        /\ c.version = 0
    BY <1>2 DEF Sent, ChangeRecords
  <1>4. c.version <= Version(c.key)
    BY <1>3, VersionNat DEF IInv, TypeOK
  <1>5. ChangesOK'
    <2> HIDE DEF c
    <2> QED
      BY <1>1, <1>3, <1>4, OtherChanges
  <1>6. EntriesOK'
    BY <1>1, EvictedKeeps, SameRows
  <1> QED
    BY <1>1, <1>5, <1>6, SameRows, PartsNext

LEMMA AbortKeeps ==
    ASSUME IInv, NEW o \in Operators, Abort(o)
    PROVE  IInv'
  <1>1. ChangesOK'
    BY NoChangeType, OtherChanges DEF Abort
  <1> QED
    BY <1>1, SameRows, PartsNext DEF Abort

LEMMA FinishKeeps ==
    ASSUME IInv, NEW o \in Operators, Finish(o)
    PROVE  IInv'
  <1> DEFINE p == change[o].process
             k == change[o].key
             v == change[o].version
  <1>1. /\ change[o].step = "done"
        /\ change' = [change EXCEPT ![o] = NoChange]
        /\ cache' = Evicted(p, k) \/ cache' = cache
        /\ settled' = [settled EXCEPT ![p][k] = Later(v, @)] \/ settled' = settled
        /\ UNCHANGED <<rows, request, now>>
    BY DEF Finish, Known
  <1>2. ChangesOK /\ SettledOK
    BY Parts
  <1>3. p \in Processes /\ k \in Keys /\ v \in Versions /\ v <= Version(k)
    BY <1>1, <1>2 DEF ChangesOK, ChangeRecords
  <1>4. ChangesOK'
    BY <1>1, NoChangeType, OtherChanges
  <1>5. EntriesOK'
    <2> HIDE DEF p, k
    <2> QED
      BY <1>1, <1>3, EvictedKeeps, SameRows
  <1>6. SettledOK'
    <2> HIDE DEF p, k, v
    <2>1. Later(v, settled[p][k]) \in Versions /\ Later(v, settled[p][k]) <= Version(k)
      BY <1>2, <1>3 DEF SettledOK, Later
    <2>2. \A c \in Keys : Version(c)' = Version(c)
      BY <1>1 DEF Version
    <2>3. CASE settled' = settled
      BY <1>2, <2>2, <2>3 DEF SettledOK
    <2>4. CASE settled' = [settled EXCEPT ![p][k] = Later(v, @)]
      BY <1>2, <1>3, <2>1, <2>2, <2>4 DEF SettledOK
    <2> QED
      BY <1>1, <2>3, <2>4
  <1> QED
    BY <1>1, <1>4, <1>5, <1>6, SameRows, PartsNext

(* What adding a version does to the parts that refer to the versions: the *)
(* one superseded was so just now.                                         *)
LEMMA CommitKeeps ==
    ASSUME IInv, NEW o \in Operators, Commit(o)
    PROVE  IInv'
  <1>1. /\ Shapes /\ ChangesOK /\ RowsOK /\ RequestsOK /\ EntriesOK /\ SettledOK
        /\ change[o] \in ChangeRecords
    BY Parts DEF IInv, TypeOK, ChangesOK
  <1>2. /\ change[o].step = "sent"
        /\ UNCHANGED <<cache, request, settled, now>>
    BY DEF Commit
  <1>3. /\ change[o].process \in Processes /\ change[o].op \in Ops
        /\ change[o].key \in Keys /\ change[o].version <= Version(change[o].key)
    BY <1>1, <1>2 DEF ChangesOK
  <1>k. PICK k \in Keys : k = change[o].key
    BY <1>3
  <1>r. PICK row : row = Changed(change[o].op, Row(k))
    OBVIOUS
  <1> DEFINE d == [change[o] EXCEPT !.step = "done"]
             c == [change[o] EXCEPT !.step = "done", !.version = Version(k) + 1]
  <1>4. CASE UNCHANGED rows /\ change' = [change EXCEPT ![o] = d]
    <2>1. /\ d \in ChangeRecords /\ d.process = change[o].process
          /\ d.op = change[o].op /\ d.key = change[o].key /\ d.version = change[o].version
      BY <1>1 DEF ChangeRecords
    <2>2. ChangesOK'
      <3> HIDE DEF d
      <3> QED
        BY <1>2, <1>3, <1>4, <2>1, OtherChanges
    <2> QED
      BY <1>2, <1>4, <2>2, SameRows, PartsNext
  <1>5. CASE /\ Version(k) < MaxChanges
             /\ rows' = [rows EXCEPT ![k] = Append(@, [row |-> row, at |-> now])]
             /\ change' = [change EXCEPT ![o] = c]
    <2>1. Version(k) \in Nat /\ now \in Nat
      BY <1>1, <1>3, VersionNat DEF RowsOK, Time
    <2>2. row \in Rows
      BY <1>1, <1>3, <1>r, <2>1, VersionNat, ChangedType DEF Row
    <2>3. /\ rows' \in [Keys -> Seq([row : Rows, at : Time])]
          /\ Version(k)' = Version(k) + 1
          /\ rows'[k][Version(k) + 1] = [row |-> row, at |-> now]
          /\ \A v \in 1..Version(k) : rows'[k][v] = rows[k][v]
          /\ \A j \in Keys \ {k} : rows'[j] = rows[j]
      BY <1>1, <1>5, <2>2, AddedVersion
    <2>4. \A j \in Keys : Version(j)' \in Versions /\ Version(j) <= Version(j)'
      BY <1>1, <1>5, <2>1, <2>3, TenantAssumption DEF RowsOK, Version, Versions
    <2>5. RowsOK'
      BY <1>1, <1>2, <2>3, <2>4 DEF RowsOK
    <2>6. ASSUME NEW j \in Keys, NEW v \in Nat, v <= Version(j)
          PROVE  /\ RowAt(j, v)' = RowAt(j, v)
                 /\ v < Version(j)' => \/ v < Version(j) /\ SupersededAt(j, v)' = SupersededAt(j, v)
                                       \/ SupersededAt(j, v)' = now
      <3>1. CASE j = k
        <4>1. RowAt(k, v)' = RowAt(k, v)
          <5>1. CASE v = 0
            BY <5>1 DEF RowAt
          <5>2. CASE v # 0
            <6>1. v \in 1..Version(k)
              BY <2>1, <2>6, <3>1, <5>2
            <6>2. rows'[k][v] = rows[k][v]
              BY <2>3, <6>1
            <6> QED
              BY <5>2, <6>2 DEF RowAt
          <5> QED
            BY <5>1, <5>2
        <4>2. ASSUME v < Version(k)
              PROVE  SupersededAt(k, v)' = SupersededAt(k, v)
          <5>1. v + 1 \in 1..Version(k)
            BY <2>1, <4>2
          <5>2. rows'[k][v + 1] = rows[k][v + 1]
            BY <2>3, <5>1
          <5> QED
            BY <5>2 DEF SupersededAt
        <4>3. v = Version(k) => SupersededAt(k, v)' = now
          BY <2>1, <2>3 DEF SupersededAt
        <4> QED
          BY <2>1, <2>6, <3>1, <4>1, <4>2, <4>3
      <3>2. CASE j # k
        BY <2>3, <3>2 DEF RowAt, SupersededAt, Version
      <3> QED
        BY <3>1, <3>2
    <2>7. RequestsOK'
      <3>1. ASSUME NEW r \in Requests, request[r].step # "idle"
            PROVE  /\ request[r].key \in Keys /\ request[r].version \in Nat
                   /\ request[r].version <= Version(request[r].key)
                   /\ request[r].readAt \in Nat /\ request[r].at \in Nat
        <4>1. request[r] \in RequestRecords
          BY <1>1 DEF RequestsOK
        <4> QED
          BY <1>1, <3>1, <4>1, TenantAssumption
          DEF RequestsOK, RequestRecords, Versions, Time
      <3>2. \A r \in Requests : request[r].step # "idle" =>
                request[r].version <= Version(request[r].key)'
        <4>1. ASSUME NEW j \in Keys
              PROVE  Version(j) \in Nat /\ Version(j)' \in Nat /\ Version(j) <= Version(j)'
          BY <1>1, <2>4, VersionNat, TenantAssumption DEF Versions
        <4> QED
          BY <1>2, <3>1, <4>1 DEF Version
      <3>3. ASSUME NEW r \in Requests, request[r].step = "reply"
            PROVE  LookupFresh(request[r])'
        <4>1. LookupFresh(request[r])
          BY <1>1, <3>3 DEF RequestsOK
        <4> QED
          BY <1>2, <2>1, <2>6, <3>1, <3>3, <4>1 DEF LookupFresh
      <3>4. ASSUME NEW r \in Requests, request[r].step = "admitted"
            PROVE  AdmissionFresh(request[r])'
        <4>1. AdmissionFresh(request[r])
          BY <1>1, <3>4 DEF RequestsOK
        <4> QED
          BY <1>2, <2>1, <2>6, <3>1, <3>4, <4>1, TenantAssumption DEF AdmissionFresh
      <3> QED
        BY <1>1, <1>2, <3>1, <3>2, <3>3, <3>4 DEF RequestsOK
    <2>8. EntriesOK'
      <3>1. ASSUME NEW p \in Processes, NEW j \in Keys
            PROVE  (/\ cache[p][j].version <= Version(j)
                    /\ cache[p][j].expiresAt > now => RowAt(j, cache[p][j].version) # "none"
                    /\ EntryFresh(cache[p][j], j))'
        <4>1. /\ cache[p][j].version \in Nat /\ cache[p][j].expiresAt \in Nat
              /\ cache[p][j].version <= Version(j)
              /\ cache[p][j].expiresAt > now => RowAt(j, cache[p][j].version) # "none"
              /\ EntryFresh(cache[p][j], j)
          BY <1>1, TenantAssumption DEF EntriesOK, Versions
        <4>2. cache[p][j].version <= Version(j)'
          BY <4>1, <2>4, <1>1, VersionNat DEF Versions
        <4> QED
          BY <1>2, <2>1, <2>6, <4>1, <4>2, TenantAssumption DEF EntryFresh
      <3> QED
        BY <1>1, <1>2, <3>1 DEF EntriesOK
    <2>9. ChangesOK'
      <3>1. /\ c \in ChangeRecords /\ c.process = change[o].process
            /\ c.op = change[o].op /\ c.key = k /\ c.version = Version(k) + 1
        <4>1. Version(k) + 1 \in Versions
          BY <2>1, <2>3, <2>4
        <4> QED
          BY <1>1, <1>k, <4>1 DEF ChangeRecords
      <3> HIDE DEF c
      <3>2. change'[o] = c /\ \A s \in Operators \ {o} : change'[s] = change[s]
        BY <1>1, <1>5 DEF ChangesOK
      <3>3. change' \in [Operators -> ChangeRecords]
        BY <1>1, <1>5, <3>1 DEF ChangesOK
      <3>4. ASSUME NEW s \in Operators, change'[s].step # "idle"
            PROVE  /\ change'[s].process \in Processes /\ change'[s].op \in Ops
                   /\ change'[s].key \in Keys
                   /\ change'[s].version <= Version(change[s].key)'
        <4>1. CASE s = o
          BY <4>1, <3>1, <3>2, <1>3, <1>k, <2>1, <2>3
        <4>2. CASE s # o
          <5>1. /\ change[s].process \in Processes /\ change[s].op \in Ops
                /\ change[s].key \in Keys /\ change[s].version \in Nat
                /\ change[s].version <= Version(change[s].key)
            BY <1>1, <3>2, <3>4, <4>2, TenantAssumption
            DEF ChangesOK, ChangeRecords, Versions
          <5> QED
            BY <5>1, <4>2, <3>2, <2>4, <1>1, VersionNat DEF Versions
        <4> QED
          BY <4>1, <4>2
      <3> QED
        BY <3>3, <3>4 DEF ChangesOK
    <2>10. SettledOK'
      <3>1. ASSUME NEW p \in Processes, NEW j \in Keys
            PROVE  settled[p][j] <= Version(j)'
        BY <1>1, <2>4, VersionNat, TenantAssumption DEF SettledOK, Versions
      <3> QED
        BY <1>1, <1>2, <3>1 DEF SettledOK
    <2> QED
      BY <2>5, <2>7, <2>8, <2>9, <2>10, PartsNext
  <1> QED
    BY <1>k, <1>r, <1>4, <1>5 DEF Commit

LEMMA TickKeeps ==
    ASSUME IInv, Tick
    PROVE  IInv'
  <1>1. /\ Shapes /\ ChangesOK /\ RowsOK /\ RequestsOK /\ EntriesOK /\ SettledOK
    BY Parts DEF IInv, TypeOK
  <1>2. /\ now < MaxTime /\ now' = now + 1 /\ now \in Nat
        /\ UNCHANGED <<rows, cache, request, change, settled>>
        /\ \A r \in Requests : request[r].step = "reply" =>
              now < request[r].readAt + Latency
    BY <1>1 DEF Tick, RowsOK, Time
  <1>3. RowsOK' /\ ChangesOK' /\ SettledOK'
    <2>1. now' \in Time
      BY <1>2, TenantAssumption DEF Time
    <2> QED
      BY <1>1, <1>2, <2>1 DEF RowsOK, ChangesOK, SettledOK, Version
  <1>4. EntriesOK'
    BY <1>1, <1>2, TenantAssumption
    DEF EntriesOK, EntryFresh, Version, RowAt, SupersededAt
  <1>5. RequestsOK'
    <2>1. ASSUME NEW r \in Requests
          PROVE  request[r].readAt \in Nat /\ request[r].at \in Nat
      BY <1>1, TenantAssumption DEF RequestsOK, RequestRecords, Time
    <2> QED
      BY <1>1, <1>2, <2>1, TenantAssumption
      DEF RequestsOK, LookupFresh, AdmissionFresh, Version, RowAt, SupersededAt
  <1> QED
    BY <1>3, <1>4, <1>5, PartsNext

-----------------------------------------------------------------------------

(* A step of a process or of the clock keeps the invariant of the cached   *)
(* records and the lookups under way (auth/tenants.ts).                    *)
THEOREM Inductive == IInv /\ [Next]_vars => IInv'
  <1> SUFFICES ASSUME IInv, [Next]_vars PROVE IInv'
    OBVIOUS
  <1>1. CASE UNCHANGED vars
    BY <1>1, SameRows, PartsNext DEF vars
  <1>2. CASE \E r \in Requests, k \in Keys : CacheHit(r, k) \/ CacheMiss(r, k)
    BY <1>2, CacheHitKeeps, CacheMissKeeps
  <1>3. CASE \E r \in Requests :
                Select(r) \/ getTenantByHash(r) \/ Unavailable(r) \/ Leave(r)
    BY <1>3, SelectKeeps, getTenantByHashKeeps, UnavailableKeeps, LeaveKeeps
  <1>4. CASE \E o \in Operators, p \in Processes, op \in Ops, k \in Keys :
                Begin(o, p, op, k)
    BY <1>4, BeginKeeps
  <1>5. CASE \E o \in Operators : Commit(o) \/ Finish(o) \/ Abort(o)
    BY <1>5, CommitKeeps, FinishKeeps, AbortKeeps
  <1>6. CASE Tick
    BY <1>6, TickKeeps
  <1> QED
    BY <1>1, <1>2, <1>3, <1>4, <1>5, <1>6 DEF Next

(* The state of the registry is well typed and coherent: every version a   *)
(* cache, a lookup or a change speaks of exists, and no process holds a    *)
(* good entry for a tenant that is not there.                              *)
THEOREM TypeCorrect == Spec => []TypeOK
  <1>1. IInv => TypeOK
    BY DEF IInv
  <1> QED
    BY <1>1, InitHolds, Inductive, PTL DEF Spec

(* Every admission, in every process, is of a tenant that was enabled and  *)
(* that no change had superseded for TTL + Latency: with any TTL, and with *)
(* replies that arrive in any order within Latency.                        *)
THEOREM AdmissionsAreFresh == Spec => []AdmittedIsFresh
  <1>1. IInv => AdmittedIsFresh
    <2> SUFFICES ASSUME IInv, NEW r \in Requests, request[r].step = "admitted"
                 PROVE  LET k == request[r].key
                            v == request[r].version
                        IN  /\ RowAt(k, v) = "enabled"
                            /\ \/ v = Version(k)
                               \/ request[r].at < SupersededAt(k, v) + TTL + Latency
      BY DEF AdmittedIsFresh
    <2>1. AdmissionFresh(request[r])
      BY DEF IInv, Fresh
    <2>2. /\ request[r].key \in Keys
          /\ request[r].version \in Nat
          /\ Version(request[r].key) \in Nat
          /\ request[r].version <= Version(request[r].key)
      <3>1. Shapes /\ RequestsOK /\ request[r] \in RequestRecords
        BY Parts DEF IInv, TypeOK, RequestsOK
      <3> QED
        BY <3>1, VersionNat, TenantAssumption DEF RequestsOK, RequestRecords, Versions
    <2> QED
      BY <2>1, <2>2 DEF AdmissionFresh
  <1> QED
    BY <1>1, InitHolds, Inductive, PTL DEF Spec

-----------------------------------------------------------------------------
(* Why a change is seen at once.  A lookup that a change overlaps marks it, *)
(* so while an unmarked change is under way no lookup of its key is in     *)
(* flight on its process: nothing can fill the entry between an eviction   *)
(* and the answer to the change.                                           *)

EntriesSeen ==
    \A p \in Processes, k \in Keys :
        cache[p][k].expiresAt > now => settled[p][k] <= cache[p][k].version

LookupsSeen ==
    \A r \in Requests :
        LET q == request[r] IN
        /\ q.step = "query" => q.floor <= Version(q.key)
        /\ q.step = "reply" => /\ q.floor <= q.version
                               /\ settled[ProcessOf[r]][q.key] <= q.version
        /\ IsAnswered(r) => q.floor <= q.version

ChangesSeen ==
    \A o \in Operators :
        LET c == change[o] IN
        c.step # "idle" /\ ~c.overlapped =>
            /\ InFlight(c.process, c.key) = {}
            /\ c.op = "revoke" => cache[c.process][c.key].expiresAt <= now

Seen == EntriesSeen /\ LookupsSeen /\ ChangesSeen

(* What the types give of an entry, a request and a change.                *)
LEMMA SeenTypes ==
    ASSUME IInv
    PROVE  /\ now \in Nat
           /\ \A k \in Keys : Version(k) \in Nat
           /\ \A p \in Processes, k \in Keys :
                 /\ cache[p][k].version \in Nat /\ cache[p][k].expiresAt \in Nat
                 /\ settled[p][k] \in Nat /\ settled[p][k] <= Version(k)
           /\ \A r \in Requests :
                 /\ ProcessOf[r] \in Processes
                 /\ request[r].floor \in Nat /\ request[r].version \in Nat
                 /\ request[r].step # "idle" => request[r].key \in Keys
           /\ \A o \in Operators : change[o].step # "idle" =>
                 /\ change[o].process \in Processes /\ change[o].key \in Keys
                 /\ change[o].version \in Nat
                 /\ change[o].version <= Version(change[o].key)
  <1>1. RequestsOK /\ EntriesOK /\ ChangesOK /\ SettledOK /\ RowsOK /\ Shapes
    BY Parts DEF IInv, TypeOK
  <1>2. now \in Nat /\ \A k \in Keys : Version(k) \in Nat
    BY <1>1, VersionNat DEF RowsOK, Time
  <1>3. \A p \in Processes, k \in Keys :
            /\ cache[p][k].version \in Nat /\ cache[p][k].expiresAt \in Nat
            /\ settled[p][k] \in Nat /\ settled[p][k] <= Version(k)
    BY <1>1, TenantAssumption DEF EntriesOK, SettledOK, Versions
  <1>4. ASSUME NEW r \in Requests
        PROVE  /\ ProcessOf[r] \in Processes
               /\ request[r].floor \in Nat /\ request[r].version \in Nat
               /\ request[r].step # "idle" => request[r].key \in Keys
    <2>1. request[r] \in RequestRecords
      BY <1>1 DEF RequestsOK
    <2> QED
      BY <1>1, <2>1, TenantAssumption DEF RequestsOK, RequestRecords, Versions
  <1>5. ASSUME NEW o \in Operators, change[o].step # "idle"
        PROVE  /\ change[o].process \in Processes /\ change[o].key \in Keys
               /\ change[o].version \in Nat
               /\ change[o].version <= Version(change[o].key)
    <2>1. change[o] \in ChangeRecords
      BY <1>1 DEF ChangesOK
    <2> QED
      BY <1>1, <1>5, <2>1, TenantAssumption DEF ChangesOK, ChangeRecords, Versions
  <1> QED
    BY <1>2, <1>3, <1>4, <1>5

(* A request that gets another record, with the entries and the changes    *)
(* left alone.                                                             *)
LEMMA SeenRequest ==
    ASSUME IInv, Seen, UNCHANGED <<rows, settled, now>>,
           NEW r \in Requests, NEW q, request' = [request EXCEPT ![r] = q],
           q.step = "query" => q.floor <= Version(q.key),
           q.step = "reply" => q.floor <= q.version
                               /\ settled[ProcessOf[r]][q.key] <= q.version,
           q.step \in {"admitted", "refused"} => q.floor <= q.version
    PROVE  LookupsSeen'
  <1>1. request \in [Requests -> RequestRecords]
    BY DEF IInv, TypeOK, Shapes
  <1>2. request'[r] = q /\ \A s \in Requests \ {r} : request'[s] = request[s]
    BY <1>1
  <1>3. \A k : Version(k)' = Version(k)
    BY DEF Version
  <1> QED
    BY <1>2, <1>3 DEF Seen, LookupsSeen, IsAnswered

(* A step after which no more lookups are in flight keeps what is said of  *)
(* the changes, if it leaves them and the entries alone.                   *)
LEMMA FewerLookups ==
    ASSUME IInv, Seen, UNCHANGED <<change, now>>,
           NEW r \in Requests, NEW q, request' = [request EXCEPT ![r] = q],
           q.step \in {"query", "reply"} =>
               request[r].step \in {"query", "reply"} /\ q.key = request[r].key
    PROVE  /\ \A p, k : InFlight(p, k)' \subseteq InFlight(p, k)
           /\ UNCHANGED cache => ChangesSeen'
  <1>1. request \in [Requests -> RequestRecords]
    BY DEF IInv, TypeOK, Shapes
  <1>2. request'[r] = q /\ \A s \in Requests \ {r} : request'[s] = request[s]
    BY <1>1
  <1>3. \A p, k : InFlight(p, k)' \subseteq InFlight(p, k)
    BY <1>2 DEF InFlight
  <1> QED
    BY <1>3 DEF Seen, ChangesSeen

LEMMA CacheHitSees ==
    ASSUME IInv, Seen, NEW r \in Requests, NEW k \in Keys, CacheHit(r, k)
    PROVE  Seen'
  <1> DEFINE p == ProcessOf[r]
             q == Answer(Asked(k, p), cache[p][k].version)
  <1>1. /\ request' = [request EXCEPT ![r] = q] /\ cache[p][k].expiresAt > now
        /\ UNCHANGED <<rows, cache, change, settled, now>>
    BY DEF CacheHit
  <1>2. q.step \in {"admitted", "refused"} /\ q.floor = settled[p][k]
        /\ q.version = cache[p][k].version
    BY DEF Answer, Asked
  <1>3. q.floor <= q.version
    BY <1>1, <1>2, SeenTypes DEF Seen, EntriesSeen
  <1> HIDE DEF q, p
  <1>4. LookupsSeen'
    BY <1>1, <1>2, <1>3, SeenRequest
  <1>5. ChangesSeen'
    BY <1>1, <1>2, FewerLookups
  <1> QED
    BY <1>1, <1>4, <1>5 DEF Seen, EntriesSeen

LEMMA CacheMissSees ==
    ASSUME IInv, Seen, NEW r \in Requests, NEW k \in Keys, CacheMiss(r, k)
    PROVE  Seen'
  <1> DEFINE p == ProcessOf[r]
             q == Asked(k, p)
  <1>1. /\ request' = [request EXCEPT ![r] = q]
        /\ change' = [o \in Operators |->
                        IF o \in Changing(p, k)
                        THEN [change[o] EXCEPT !.overlapped = TRUE] ELSE change[o]]
        /\ UNCHANGED <<rows, cache, settled, now>>
    BY DEF CacheMiss
  <1>2. q.step = "query" /\ q.floor = settled[p][k] /\ q.key = k
    BY DEF Asked
  <1>3. LookupsSeen'
    <2>1. q.floor <= Version(q.key)
      BY <1>2, SeenTypes
    <2> HIDE DEF q, p
    <2> QED
      BY <1>1, <1>2, <2>1, SeenRequest
  <1>4. ASSUME NEW o \in Operators, change'[o].step # "idle", ~change'[o].overlapped
        PROVE  /\ change'[o] = change[o]
               /\ InFlight(change[o].process, change[o].key)' = {}
               /\ change[o].op = "revoke" =>
                      cache'[change[o].process][change[o].key].expiresAt <= now'
    <2>1. o \notin Changing(p, k) /\ change'[o] = change[o]
      <3>1. change[o] \in ChangeRecords
        BY DEF IInv, TypeOK, Shapes
      <3>2. CASE o \in Changing(p, k)
        <4>1. change'[o] = [change[o] EXCEPT !.overlapped = TRUE]
          BY <1>1, <3>2
        <4> QED
          BY <1>4, <3>1, <4>1 DEF ChangeRecords
      <3> QED
        BY <1>1, <3>2
    <2>2. ~(change[o].process = p /\ change[o].key = k)
      BY <1>4, <2>1 DEF Changing
    <2>3. /\ InFlight(change[o].process, change[o].key) = {}
          /\ change[o].op = "revoke" =>
                 cache[change[o].process][change[o].key].expiresAt <= now
      BY <1>4, <2>1 DEF Seen, ChangesSeen
    <2>4. request'[r] = q /\ \A s \in Requests \ {r} : request'[s] = request[s]
      BY <1>1 DEF IInv, TypeOK, Shapes
    <2>5. \A s \in Requests : s \notin InFlight(change[o].process, change[o].key)'
      <3>1. change'[o].process = change[o].process /\ change'[o].key = change[o].key
        BY <2>1
      <3> QED
        BY <1>2, <2>2, <2>3, <2>4, <3>1 DEF InFlight
    <2>6. InFlight(change[o].process, change[o].key)' = {}
      BY <2>5 DEF InFlight
    <2> QED
      BY <1>1, <2>1, <2>3, <2>6
  <1>5. ChangesSeen'
    BY <1>4 DEF ChangesSeen
  <1> QED
    BY <1>1, <1>3, <1>5 DEF Seen, EntriesSeen

LEMMA SelectSees ==
    ASSUME IInv, Seen, NEW r \in Requests, Select(r)
    PROVE  Seen'
  <1> DEFINE k == request[r].key
             q == [request[r] EXCEPT !.step = "reply", !.version = Version(k),
                                     !.readAt = now]
  <1>1. request[r] \in RequestRecords
    BY DEF IInv, TypeOK, Shapes
  <1>2. /\ request' = [request EXCEPT ![r] = q] /\ request[r].step = "query"
        /\ UNCHANGED <<rows, cache, change, settled, now>>
    BY DEF Select, IInv, TypeOK, Shapes
  <1>3. /\ q.step = "reply" /\ q.key = k /\ q.version = Version(k)
        /\ q.floor = request[r].floor
    BY <1>1 DEF RequestRecords
  <1>4. q.floor <= q.version /\ settled[ProcessOf[r]][k] <= q.version
    BY <1>2, <1>3, SeenTypes DEF Seen, LookupsSeen
  <1> HIDE DEF q
  <1>5. LookupsSeen'
    BY <1>2, <1>3, <1>4, SeenRequest
  <1>6. ChangesSeen'
    BY <1>2, <1>3, FewerLookups
  <1> QED
    BY <1>2, <1>5, <1>6 DEF Seen, EntriesSeen

LEMMA getTenantByHashSees ==
    ASSUME IInv, Seen, NEW r \in Requests, getTenantByHash(r)
    PROVE  Seen'
  <1> DEFINE p == ProcessOf[r]
             k == request[r].key
             v == request[r].version
             e == IF RowAt(k, v) = "none" THEN NoEntry
                  ELSE [version |-> v, expiresAt |-> now + TTL]
             q == Answer(request[r], v)
  <1>1. /\ request' = [request EXCEPT ![r] = q] /\ cache' = [cache EXCEPT ![p][k] = e]
        /\ request[r].step = "reply"
        /\ UNCHANGED <<rows, change, settled, now>>
    BY DEF getTenantByHash, IInv, TypeOK, Shapes
  <1>2. /\ q.step \in {"admitted", "refused"} /\ q.floor = request[r].floor
        /\ q.version = v
    BY DEF Answer
  <1>3. /\ p \in Processes /\ k \in Keys /\ q.floor <= v /\ settled[p][k] <= v
    BY <1>1, <1>2, SeenTypes DEF Seen, LookupsSeen
  <1>4. e.expiresAt > now => settled[p][k] <= e.version
    BY <1>3, SeenTypes DEF NoEntry
  <1>5. r \in InFlight(p, k)
    BY <1>1 DEF InFlight
  <1> HIDE DEF q, e, v
  <1>6. LookupsSeen'
    BY <1>1, <1>2, <1>3, SeenRequest
  <1>7. \A i \in Processes, j \in Keys :
            cache'[i][j] = IF i = p /\ j = k THEN e ELSE cache[i][j]
    BY <1>1, <1>3 DEF IInv, TypeOK, Shapes
  <1>8. EntriesSeen'
    BY <1>1, <1>4, <1>7 DEF Seen, EntriesSeen
  <1>9. ASSUME NEW o \in Operators, change[o].step # "idle", ~change[o].overlapped
        PROVE  /\ InFlight(change[o].process, change[o].key)' = {}
               /\ change[o].op = "revoke" =>
                      cache'[change[o].process][change[o].key].expiresAt <= now
    <2>1. /\ InFlight(change[o].process, change[o].key) = {}
          /\ change[o].op = "revoke" =>
                 cache[change[o].process][change[o].key].expiresAt <= now
      BY <1>9 DEF Seen, ChangesSeen
    <2>2. InFlight(change[o].process, change[o].key)' = {}
      BY <1>1, <1>2, <2>1, FewerLookups
    <2>3. ~(change[o].process = p /\ change[o].key = k)
      BY <1>5, <2>1
    <2>4. change[o].process \in Processes /\ change[o].key \in Keys
      BY <1>9, SeenTypes
    <2> QED
      BY <1>7, <2>1, <2>2, <2>3, <2>4
  <1>10. ChangesSeen'
    BY <1>1, <1>9 DEF ChangesSeen
  <1> QED
    BY <1>6, <1>8, <1>10 DEF Seen

LEMMA LeaveSees ==
    ASSUME IInv, Seen, NEW r \in Requests, Unavailable(r) \/ Leave(r)
    PROVE  Seen'
  <1>1. PICK q : /\ request' = [request EXCEPT ![r] = q]
                 /\ q.step \in {"idle", "unavailable"}
    <2>1. CASE Unavailable(r)
      <3> DEFINE d == [request[r] EXCEPT !.step = "unavailable"]
      <3>1. request[r] \in RequestRecords
        BY DEF IInv, TypeOK, Shapes
      <3>2. request' = [request EXCEPT ![r] = d]
        BY <2>1 DEF Unavailable, IInv, TypeOK, Shapes
      <3>3. d.step = "unavailable"
        BY <3>1 DEF RequestRecords
      <3> HIDE DEF d
      <3> QED
        BY <3>2, <3>3
    <2>2. CASE Leave(r)
      <3>1. request' = [request EXCEPT ![r] = NoRequest]
        BY <2>2 DEF Leave
      <3>2. NoRequest.step = "idle"
        BY DEF NoRequest
      <3> QED
        BY <3>1, <3>2
    <2> QED
      BY <2>1, <2>2
  <1>2. UNCHANGED <<rows, cache, change, settled, now>>
    BY DEF Unavailable, Leave
  <1>3. LookupsSeen'
    BY <1>1, <1>2, SeenRequest
  <1>4. ChangesSeen'
    BY <1>1, <1>2, FewerLookups
  <1> QED
    BY <1>2, <1>3, <1>4 DEF Seen, EntriesSeen

(* An eviction takes nothing from what is seen.                            *)
LEMMA EvictedSees ==
    ASSUME IInv, Seen, UNCHANGED now, NEW p \in Processes, NEW k \in Keys,
           cache' = Evicted(p, k)
    PROVE  /\ cache'[p][k].expiresAt <= now
           /\ \A i \in Processes, j \in Keys :
                 cache'[i][j].expiresAt > now => cache'[i][j] = cache[i][j]
           /\ \A i \in Processes, j \in Keys :
                 cache[i][j].expiresAt <= now => cache'[i][j].expiresAt <= now
  <1>1. cache' = [cache EXCEPT ![p][k] = NoEntry] /\ NoEntry.expiresAt = 0
    BY DEF Evicted, NoEntry
  <1>2. \A i \in Processes, j \in Keys :
            cache'[i][j] = IF i = p /\ j = k THEN NoEntry ELSE cache[i][j]
    BY <1>1 DEF IInv, TypeOK, Shapes
  <1> QED
    BY <1>1, <1>2, SeenTypes

LEMMA BeginSees ==
    ASSUME IInv, Seen, NEW o \in Operators, NEW p \in Processes, NEW op \in Ops,
           NEW k \in Keys, Begin(o, p, op, k)
    PROVE  Seen'
  <1> DEFINE c == Sent(p, op, k)
  <1>1. /\ change' = [change EXCEPT ![o] = c]
        /\ cache' = IF op = "revoke" THEN Evicted(p, k) ELSE cache
        /\ UNCHANGED <<rows, request, settled, now>>
    BY DEF Begin
  <1>2. /\ c.process = p /\ c.op = op /\ c.key = k
        /\ c.overlapped = (InFlight(p, k) # {})
    BY DEF Sent
  <1>3. /\ op = "revoke" => cache'[p][k].expiresAt <= now
        /\ \A i \in Processes, j \in Keys :
              cache'[i][j].expiresAt > now => cache'[i][j] = cache[i][j]
        /\ \A i \in Processes, j \in Keys :
              cache[i][j].expiresAt <= now => cache'[i][j].expiresAt <= now
    BY <1>1, EvictedSees
  <1> HIDE DEF c
  <1>4. change'[o] = c /\ \A s \in Operators \ {o} : change'[s] = change[s]
    BY <1>1 DEF IInv, TypeOK, Shapes
  <1>5. \A i, j : InFlight(i, j)' = InFlight(i, j)
    BY <1>1 DEF InFlight
  <1>6. ASSUME NEW s \in Operators, change'[s].step # "idle", ~change'[s].overlapped
        PROVE  /\ InFlight(change'[s].process, change'[s].key) = {}
               /\ change'[s].op = "revoke" =>
                      cache'[change'[s].process][change'[s].key].expiresAt <= now
    <2>1. CASE s = o
      BY <1>2, <1>3, <1>4, <1>6, <2>1
    <2>2. CASE s # o
      <3>1. change'[s] = change[s]
        BY <1>4, <2>2
      <3>2. change[s].process \in Processes /\ change[s].key \in Keys
        BY <1>6, <3>1, SeenTypes
      <3> QED
        BY <1>3, <1>6, <3>1, <3>2 DEF Seen, ChangesSeen
    <2> QED
      BY <2>1, <2>2
  <1>7. ChangesSeen'
    BY <1>1, <1>5, <1>6 DEF ChangesSeen
  <1>8. EntriesSeen'
    BY <1>1, <1>3 DEF Seen, EntriesSeen
  <1>9. LookupsSeen'
    BY <1>1 DEF Seen, LookupsSeen, IsAnswered, Version
  <1> QED
    BY <1>7, <1>8, <1>9 DEF Seen

LEMMA VersionGrows ==
    ASSUME IInv, NEW o \in Operators, Commit(o), NEW k \in Keys
    PROVE  Version(k) \in Nat /\ Version(k)' \in Nat /\ Version(k) <= Version(k)'
  <1> DEFINE j == change[o].key
             e == [row |-> Changed(change[o].op, Row(j)), at |-> now]
  <1>1. rows \in [Keys -> Seq([row : Rows, at : Time])] /\ Version(k) \in Nat
    BY SeenTypes DEF IInv, TypeOK, Shapes
  <1>2. rows' = rows \/ rows' = [rows EXCEPT ![j] = Append(@, e)]
    BY DEF Commit
  <1>3. e \in [row : Rows, at : Time]
    <2>1. Shapes /\ j \in Keys /\ change[o].op \in Ops
      BY Parts DEF IInv, TypeOK, ChangesOK, Commit
    <2>2. Row(j) \in Rows
      BY <2>1, VersionNat DEF Row
    <2> QED
      BY <2>1, <2>2, ChangedType DEF Shapes
  <1> HIDE DEF e, j
  <1>4. CASE k = j /\ rows' = [rows EXCEPT ![j] = Append(@, e)]
    <2>1. rows'[k] = Append(rows[k], e) /\ rows[k] \in Seq([row : Rows, at : Time])
      BY <1>1, <1>4
    <2>2. Len(Append(rows[k], e)) = Len(rows[k]) + 1
      BY <1>3, <2>1
    <2> QED
      BY <1>1, <2>1, <2>2 DEF Version
  <1>5. CASE ~(k = j /\ rows' = [rows EXCEPT ![j] = Append(@, e)])
    <2>1. rows'[k] = rows[k]
      BY <1>1, <1>2, <1>5
    <2> QED
      BY <1>1, <2>1 DEF Version
  <1> QED
    BY <1>4, <1>5

(* A committed change only adds versions, and is as overlapped as before.  *)
LEMMA CommitSees ==
    ASSUME IInv, IInv', Seen, NEW o \in Operators, Commit(o)
    PROVE  Seen'
  <1>1. UNCHANGED <<cache, request, settled, now>>
    BY DEF Commit
  <1>2. change[o] \in ChangeRecords /\ change \in [Operators -> ChangeRecords]
    BY DEF IInv, TypeOK, Shapes
  <1>3. /\ change[o].step # "idle"
        /\ \A s \in Operators : /\ change'[s].process = change[s].process
                                /\ change'[s].key = change[s].key
                                /\ change'[s].op = change[s].op
                                /\ change'[s].overlapped = change[s].overlapped
                                /\ change'[s].step # "idle" => change[s].step # "idle"
    <2>1. change[o].step = "sent" /\ change[o].key \in Keys
      BY SeenTypes DEF Commit
    <2>2. PICK c \in ChangeRecords :
             /\ change' = [change EXCEPT ![o] = c]
             /\ c.process = change[o].process /\ c.key = change[o].key
             /\ c.op = change[o].op /\ c.overlapped = change[o].overlapped
      <3> DEFINE d == [change[o] EXCEPT !.step = "done"]
                 e == [change[o] EXCEPT !.step = "done",
                                        !.version = Version(change[o].key) + 1]
      <3>1. CASE Applies(change[o].op, change[o].key)
        <4>1. change' = [change EXCEPT ![o] = e]
          BY <3>1, <1>2 DEF Commit
        <4>2. change'[o] = e /\ change'[o] \in ChangeRecords
          BY <4>1, <1>2 DEF IInv, TypeOK, Shapes
        <4>3. /\ e.process = change[o].process /\ e.key = change[o].key
              /\ e.op = change[o].op /\ e.overlapped = change[o].overlapped
          BY <1>2 DEF ChangeRecords
        <4> QED
          BY <4>1, <4>2, <4>3
      <3>2. CASE ~Applies(change[o].op, change[o].key)
        <4>1. change' = [change EXCEPT ![o] = d]
          BY <3>2, <1>2 DEF Commit
        <4>2. d \in ChangeRecords
          BY <1>2 DEF ChangeRecords
        <4>3. /\ d.process = change[o].process /\ d.key = change[o].key
              /\ d.op = change[o].op /\ d.overlapped = change[o].overlapped
          BY <1>2 DEF ChangeRecords
        <4> QED
          BY <4>1, <4>2, <4>3
      <3> QED
        BY <3>1, <3>2
    <2>3. change'[o] = c /\ \A s \in Operators \ {o} : change'[s] = change[s]
      BY <1>2, <2>2
    <2> QED
      BY <1>2, <2>1, <2>2, <2>3
  <1>4. \A k \in Keys : /\ Version(k) \in Nat /\ Version(k)' \in Nat
                        /\ Version(k) <= Version(k)'
    BY SeenTypes, VersionGrows
  <1>5. \A i, j : InFlight(i, j)' = InFlight(i, j)
    BY <1>1 DEF InFlight
  <1>6. ChangesSeen'
    BY <1>1, <1>3, <1>5 DEF Seen, ChangesSeen
  <1>7. ASSUME NEW r \in Requests
        PROVE  /\ request[r].step = "query" =>
                      request[r].floor <= Version(request[r].key)'
    <2>1. /\ request[r].floor \in Nat
          /\ request[r].step # "idle" => request[r].key \in Keys
      BY SeenTypes
    <2> QED
      BY <1>1, <1>4, <2>1 DEF Seen, LookupsSeen
  <1>8. LookupsSeen'
    BY <1>1, <1>7 DEF Seen, LookupsSeen, IsAnswered, Version
  <1> QED
    BY <1>1, <1>6, <1>8 DEF Seen, EntriesSeen

LEMMA FinishSees ==
    ASSUME ~OverlappedToo, IInv, Seen, NEW o \in Operators, Finish(o)
    PROVE  Seen'
  <1> DEFINE p == change[o].process
             k == change[o].key
             v == change[o].version
  <1>1. /\ change[o].step = "done"
        /\ change' = [change EXCEPT ![o] = NoChange]
        /\ cache' = IF change[o].op # "revoke" /\ v > 0 THEN Evicted(p, k) ELSE cache
        /\ settled' = IF ~change[o].overlapped
                      THEN [settled EXCEPT ![p][k] = Later(v, @)] ELSE settled
        /\ UNCHANGED <<rows, request, now>>
    BY DEF Finish, Known
  <1>2. p \in Processes /\ k \in Keys /\ v \in Nat
    BY <1>1, SeenTypes
  <1>3. ~change[o].overlapped => /\ InFlight(p, k) = {}
                                 /\ change[o].op = "revoke" => cache[p][k].expiresAt <= now
    BY <1>1 DEF Seen, ChangesSeen
  <1>4. \A i \in Processes, j \in Keys :
            /\ cache'[i][j].expiresAt > now => cache'[i][j] = cache[i][j]
            /\ cache[i][j].expiresAt <= now => cache'[i][j].expiresAt <= now
    BY <1>1, <1>2, EvictedSees
  <1>5. \A i \in Processes, j \in Keys :
            settled'[i][j] # settled[i][j] =>
                /\ i = p /\ j = k /\ ~change[o].overlapped /\ v > settled[p][k]
    <2>1. settled \in [Processes -> [Keys -> Versions]]
      BY DEF IInv, TypeOK, Shapes
    <2>2. \A i \in Processes, j \in Keys :
              settled'[i][j] # settled[i][j] =>
                  i = p /\ j = k /\ ~change[o].overlapped
      BY <1>1, <2>1
    <2>3. settled'[p][k] = settled[p][k] \/ settled'[p][k] = Later(v, settled[p][k])
      BY <1>1, <1>2, <2>1
    <2> QED
      BY <1>2, <2>2, <2>3, SeenTypes DEF Later
  <1>6. EntriesSeen'
    <2>1. ASSUME ~change[o].overlapped, v > 0
          PROVE  cache'[p][k].expiresAt <= now
      BY <1>1, <1>2, <1>3, <2>1, EvictedSees
    <2>2. ASSUME NEW i \in Processes, NEW j \in Keys, cache'[i][j].expiresAt > now
          PROVE  settled'[i][j] = settled[i][j]
      BY <1>2, <1>4, <1>5, <2>1, <2>2, SeenTypes
    <2> QED
      BY <1>1, <1>4, <2>2 DEF Seen, EntriesSeen
  <1>7. LookupsSeen'
    <2>1. ASSUME NEW r \in Requests, request[r].step = "reply"
          PROVE  settled'[ProcessOf[r]][request[r].key]
                     = settled[ProcessOf[r]][request[r].key]
      <3>1. ProcessOf[r] \in Processes /\ request[r].key \in Keys
        BY <2>1, SeenTypes
      <3>2. r \in InFlight(ProcessOf[r], request[r].key)
        BY <2>1 DEF InFlight
      <3> QED
        BY <1>3, <1>5, <3>1, <3>2
    <2> QED
      BY <1>1, <2>1 DEF Seen, LookupsSeen, IsAnswered, Version
  <1>8. ChangesSeen'
    <2>1. change'[o] = NoChange /\ \A s \in Operators \ {o} : change'[s] = change[s]
      BY <1>1 DEF IInv, TypeOK, Shapes
    <2>2. \A s \in Operators : change'[s].step # "idle" => s # o /\ change'[s] = change[s]
      BY <2>1 DEF NoChange
    <2>3. \A i, j : InFlight(i, j)' = InFlight(i, j)
      BY <1>1 DEF InFlight
    <2>4. ASSUME NEW s \in Operators, change'[s].step # "idle", ~change'[s].overlapped
          PROVE  /\ InFlight(change'[s].process, change'[s].key) = {}
                 /\ change'[s].op = "revoke" =>
                        cache'[change'[s].process][change'[s].key].expiresAt <= now
      <3>1. change[s].process \in Processes /\ change[s].key \in Keys
        BY <2>2, <2>4, SeenTypes
      <3> QED
        BY <1>4, <2>2, <2>4, <3>1 DEF Seen, ChangesSeen
    <2> QED
      BY <1>1, <2>3, <2>4 DEF ChangesSeen
  <1> QED
    BY <1>6, <1>7, <1>8 DEF Seen

LEMMA AbortSees ==
    ASSUME IInv, Seen, NEW o \in Operators, Abort(o)
    PROVE  Seen'
  <1>1. /\ change' = [change EXCEPT ![o] = NoChange]
        /\ UNCHANGED <<rows, cache, request, settled, now>>
    BY DEF Abort
  <1>2. \A s \in Operators : change'[s].step # "idle" => change'[s] = change[s]
    BY <1>1 DEF IInv, TypeOK, Shapes, NoChange
  <1>3. ChangesSeen'
    BY <1>1, <1>2 DEF Seen, ChangesSeen, InFlight
  <1> QED
    BY <1>1, <1>3 DEF Seen, EntriesSeen, LookupsSeen, IsAnswered, Version

(* Entries only expire as the clock moves.                                 *)
LEMMA TickSees ==
    ASSUME IInv, Seen, Tick
    PROVE  Seen'
  <1>1. now' = now + 1 /\ UNCHANGED <<rows, cache, request, change, settled>>
    BY DEF Tick
  <1>2. EntriesSeen'
    BY <1>1, SeenTypes DEF Seen, EntriesSeen
  <1>3. LookupsSeen'
    BY <1>1 DEF Seen, LookupsSeen, IsAnswered, Version
  <1>4. ASSUME NEW o \in Operators, change[o].step # "idle", ~change[o].overlapped
        PROVE  /\ InFlight(change[o].process, change[o].key)' = {}
               /\ change[o].op = "revoke" =>
                      cache[change[o].process][change[o].key].expiresAt <= now + 1
    <2>1. /\ InFlight(change[o].process, change[o].key) = {}
          /\ change[o].op = "revoke" =>
                 cache[change[o].process][change[o].key].expiresAt <= now
      BY <1>4 DEF Seen, ChangesSeen
    <2>2. InFlight(change[o].process, change[o].key)' = {}
      BY <1>1, <2>1 DEF InFlight
    <2>3. /\ now \in Nat
          /\ cache[change[o].process][change[o].key].expiresAt \in Nat
      BY <1>4, SeenTypes
    <2> QED
      BY <2>1, <2>2, <2>3
  <1>5. ChangesSeen'
    BY <1>1, <1>4 DEF ChangesSeen
  <1> QED
    BY <1>2, <1>3, <1>5 DEF Seen

(* A change that no lookup of its key overlapped on its process is seen by *)
(* every request that the process authenticates after it was answered      *)
(* (auth/tenants.ts:173-174, 217, 232), whatever else goes on in this and  *)
(* in the other processes.                                                 *)
THEOREM ChangesAreSeen ==
    ASSUME ~OverlappedToo
    PROVE  Spec => []ChangeIsSeenAtOnce
  <1>1. Init => IInv /\ Seen
    BY InitHolds
    DEF Init, Seen, EntriesSeen, LookupsSeen, ChangesSeen, IsAnswered, NoEntry,
        NoRequest, NoChange
  <1>2. IInv /\ Seen /\ [Next]_vars => IInv' /\ Seen'
    <2> SUFFICES ASSUME IInv, Seen, [Next]_vars PROVE IInv' /\ Seen'
      OBVIOUS
    <2>1. IInv'
      BY Inductive
    <2>2. CASE UNCHANGED vars
      BY <2>1, <2>2
      DEF vars, Seen, EntriesSeen, LookupsSeen, ChangesSeen, IsAnswered, Version, InFlight
    <2>3. CASE \E r \in Requests, k \in Keys : CacheHit(r, k) \/ CacheMiss(r, k)
      BY <2>1, <2>3, CacheHitSees, CacheMissSees
    <2>4. CASE \E r \in Requests :
                  Select(r) \/ getTenantByHash(r) \/ Unavailable(r) \/ Leave(r)
      BY <2>1, <2>4, SelectSees, getTenantByHashSees, LeaveSees
    <2>5. CASE \E o \in Operators, p \in Processes, op \in Ops, k \in Keys :
                  Begin(o, p, op, k)
      BY <2>1, <2>5, BeginSees
    <2>6. CASE \E o \in Operators : Commit(o) \/ Finish(o) \/ Abort(o)
      BY <2>1, <2>6, CommitSees, FinishSees, AbortSees
    <2>7. CASE Tick
      BY <2>1, <2>7, TickSees
    <2> QED
      BY <2>1, <2>2, <2>3, <2>4, <2>5, <2>6, <2>7 DEF Next
  <1>3. Seen => ChangeIsSeenAtOnce
    BY DEF Seen, LookupsSeen, ChangeIsSeenAtOnce
  <1> QED
    BY <1>1, <1>2, <1>3, PTL DEF Spec

=============================================================================
