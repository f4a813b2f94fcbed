------------------------------ MODULE Gateway ------------------------------
(***************************************************************************)
(* A web process of the OCR API (http/routes.ts, http/middleware, index.ts)*)
(* from the arrival of a request to its answer: authentication,            *)
(* authorisation, the rate limiter over Redis, the upload, the choice      *)
(* between the queue and the request itself; and the drain of the process  *)
(* when it is told to stop.  A step is what runs between two awaits.       *)
(***************************************************************************)
EXTENDS Naturals, FiniteSets

CONSTANTS
    Requests,           \* requests that may arrive
    Calls,              \* what they ask: [tenant, function, body]
    Tenants,            \* the tenants with a valid key
    FnDef,        \* key -> definition of a function (Catalog)
    AllowedFunctions,   \* tenant -> the functions of its key; {} is all
    RateLimit,          \* tenant -> requests per window
    Window,             \* RATE_LIMIT_WINDOW_SECONDS, in ticks
    MaxTime,            \* bound: the last tick
    MaxOutages          \* bound: how often Redis becomes unreachable

VARIABLES
    request,    \* request -> where it is and its answer
    counter,    \* tenant, bucket -> the key "ratelimit:<tenant>:<bucket>"
    jobs,       \* request -> the jobs put in the queue for it
    redis,      \* whether Redis is reachable
    outages,    \* bounds the outages (history)
    server,     \* where the process is between serving and its exit
    now,        \* Date.now()
    passed      \* tenant, bucket -> the requests counted within that bucket's
                \* time and let through (history)

vars == <<request, counter, jobs, redis, outages, server, now, passed>>

Functions == DOMAIN FnDef
Buckets == {t \div Window : t \in 0..MaxTime}
Never == MaxTime + Window + 1

ASSUME GatewayAssumption ==
    /\ Window \in Nat \ {0} /\ MaxTime \in Nat /\ MaxOutages \in Nat
    /\ RateLimit \in [Tenants -> Nat]
    /\ "none" \notin Tenants
    /\ {"unknown", "jobs"} \cap Functions = {}
    /\ Calls \subseteq [tenant : Tenants \cup {"none"},
                        function : Functions \cup {"unknown", "jobs"},
                        body : {"small", "large"}]

NoCall == [tenant |-> "none", function |-> "unknown", body |-> "small"]
NoRequest == [step |-> "idle", call |-> NoCall, bucket |-> 0, timely |-> FALSE,
              noStore |-> FALSE, answer |-> "none"]

Init ==
    /\ request = [r \in Requests |-> NoRequest]
    /\ counter = [t \in Tenants |-> [b \in Buckets |-> [count |-> 0, expires |-> Never]]]
    /\ jobs = [r \in Requests |-> 0]
    /\ redis = "up"
    /\ outages = 0
    /\ server = "up"
    /\ now = 0
    /\ passed = [t \in Tenants |-> [b \in Buckets |-> 0]]

InFlight(r) == request[r].step \notin {"idle", "answered"}
Exited == server \in {"exit 0", "exit 1"}

(* Request r, at a step of its own in a process that runs, goes on as q. *)
At(r, step) == request[r].step = step /\ ~Exited
Becomes(r, q) == request' = [request EXCEPT ![r] = q]

Answered(q, code) == [q EXCEPT !.step = "answered", !.answer = code,
                               !.bucket = 0, !.timely = FALSE]

(* A mutant of Refused: the handler does not return after next(err). *)
RefusedInPlace(q, code) == [q EXCEPT !.answer = code]

(* errorHandler answers with the code, and nothing of the request. *)
Refused(q, code) == [NoRequest EXCEPT !.step = "answered", !.answer = code]

Known(q) == q.call.function \in Functions
Standard(q) == FnDef[q.call.function].sensitivity = "standard"

-----------------------------------------------------------------------------
(* auth, authorizeFunction and the start of rateLimit.                     *)

(* The status route has no such check. *)
authorizeFunction(t, f) ==
    f = "jobs" \/ AllowedFunctions[t] = {} \/ f \in AllowedFunctions[t]

(* The lookup of the key (module TenantRegistry) finds its tenant or none, *)
(* or fails closed because Postgres does not answer.                       *)
auth(r, call) ==
    LET q == [NoRequest EXCEPT !.call = call] IN
    /\ request[r].step = "idle"
    /\ server = "up"
    /\ \/ /\ call.tenant = "none"
          /\ Becomes(r, Refused(q, "UNAUTHORIZED"))
       \/ /\ call.tenant # "none"
          /\ ~authorizeFunction(call.tenant, call.function)
          /\ Becomes(r, Refused(q, "FORBIDDEN"))
       \/ /\ call.tenant # "none"
          /\ authorizeFunction(call.tenant, call.function)
          /\ Becomes(r, [q EXCEPT !.step = "incr", !.bucket = now \div Window])
       \/ Becomes(r, Refused(q, "PROVIDER_UNAVAILABLE"))
    /\ UNCHANGED <<counter, jobs, redis, outages, server, now, passed>>

-----------------------------------------------------------------------------
(* rateLimit and underLimit.                                               *)

Count(t, b) == IF counter[t][b].expires <= now THEN 0 ELSE counter[t][b].count

(* INCR, which leaves the TTL of a key that is there and gives none to one *)
(* that it makes.                                                          *)
Incremented(t, b) ==
    [counter EXCEPT ![t][b] =
        [count |-> Count(t, b) + 1,
         expires |-> IF Count(t, b) = 0 THEN Never ELSE @.expires]]

(* sensitivity sets its header and the upload begins; the status of a job  *)
(* is looked up.                                                           *)
Admitted(q) ==
    IF q.call.function = "jobs"
    THEN [q EXCEPT !.step = "status"]
    ELSE [q EXCEPT !.step = "upload", !.noStore = Known(q) /\ ~Standard(q)]

Limited(q, count) ==
    IF count <= RateLimit[q.call.tenant] THEN Admitted(q) ELSE Refused(q, "RATE_LIMITED")

(* The history of a request that was counted, with the counter at count. *)
Counted(q, count) ==
    passed' = IF q.timely /\ count <= RateLimit[q.call.tenant]
              THEN [passed EXCEPT ![q.call.tenant][q.bucket] = @ + 1]
              ELSE passed

incr(r) ==
    LET t == request[r].call.tenant
        b == request[r].bucket
        q == [request[r] EXCEPT !.timely = (now \div Window = b)]
        count == Count(t, b) + 1
    IN
    /\ At(r, "incr")
    /\ redis = "up"
    /\ counter' = Incremented(t, b)
    /\ IF count = 1
       THEN Becomes(r, [q EXCEPT !.step = "expire"]) /\ UNCHANGED passed
       ELSE Becomes(r, Limited(q, count)) /\ Counted(q, count)
    /\ UNCHANGED <<jobs, redis, outages, server, now>>

(* A mutant of Expiring: the TTL is a tick short. *)
ExpiringEarly(t, b) == [counter EXCEPT ![t][b].expires = now + Window - 1]

Expiring(t, b) == [counter EXCEPT ![t][b].expires = now + Window]

(* EXPIRE of a key that has expired meanwhile does nothing; this key has   *)
(* no TTL yet, or that of another request that also found it absent.       *)
WithTTL(t, b) == IF Count(t, b) = 0 THEN counter ELSE Expiring(t, b)

expire(r) ==
    LET q == request[r] IN
    /\ At(r, "expire")
    /\ redis = "up"
    /\ counter' = WithTTL(q.call.tenant, q.bucket)
    /\ Becomes(r, Limited(q, 1))
    /\ Counted(q, 1)
    /\ UNCHANGED <<jobs, redis, outages, server, now>>

(* A mutant of LimiterFails: the limiter waits for Redis as the queue does. *)
LimiterFailsWhenUp(r) ==
    /\ At(r, "incr") \/ At(r, "expire")
    /\ redis = "up"
    /\ Becomes(r, Admitted(request[r]))
    /\ UNCHANGED <<counter, jobs, redis, outages, server, now, passed>>

(* The command fails, at once when Redis is unreachable, and may have been *)
(* done when it is not: fail open.                                         *)
LimiterFails(r) ==
    LET q == request[r]
        done == IF q.step = "incr" THEN Incremented(q.call.tenant, q.bucket)
                ELSE WithTTL(q.call.tenant, q.bucket)
    IN
    /\ At(r, "incr") \/ At(r, "expire")
    /\ counter' = counter \/ (redis = "up" /\ counter' = done)
    /\ Becomes(r, Admitted(q))
    /\ UNCHANGED <<jobs, redis, outages, server, now, passed>>

-----------------------------------------------------------------------------
(* The upload, then the handler of POST /:function up to its next await.   *)

(* By its bytes, or its pages if it is a PDF. *)
shouldRunAsync(q) == q.call.body = "large"

Dispatch(q) ==
    [q EXCEPT !.step = IF Standard(q) /\ shouldRunAsync(q) THEN "enqueue" ELSE "run"]

(* A file over the size limit is an error of multer's, which errorHandler  *)
(* answers as it does any unknown error; the function may be unknown, the  *)
(* file missing or the arguments no JSON.                                  *)
upload(r) ==
    LET q == request[r] IN
    /\ At(r, "upload")
    /\ \/ Becomes(r, Refused(q, "EXTRACTION_FAILED"))
       \/ Becomes(r, Refused(q, "INVALID_ARGS"))
       \/ Known(q) /\ Becomes(r, Dispatch(q))
    /\ UNCHANGED <<counter, jobs, redis, outages, server, now, passed>>

(* A mutant of enqueue: the failure of the queue is not waited for. *)
enqueueUnawaited(r) ==
    /\ At(r, "enqueue")
    /\ jobs' = [jobs EXCEPT ![r] = IF redis = "up" THEN @ + 1 ELSE @]
    /\ Becomes(r, Answered(request[r], "ACCEPTED"))
    /\ UNCHANGED <<counter, redis, outages, server, now, passed>>

(* Redis adds the job, once the queue's own connection can send it the     *)
(* command: until then the handler waits.  Redis may still do so just      *)
(* after the process has exited, which leaves the same behind.             *)
enqueue(r) ==
    /\ At(r, "enqueue")
    /\ redis = "up"
    /\ jobs' = [jobs EXCEPT ![r] = @ + 1]
    /\ Becomes(r, [request[r] EXCEPT !.step = "added"])
    /\ UNCHANGED <<counter, redis, outages, server, now, passed>>

(* The reply arrives and the handler goes on. *)
sendAccepted(r) ==
    /\ At(r, "added")
    /\ Becomes(r, Answered(request[r], "ACCEPTED"))
    /\ UNCHANGED <<counter, jobs, redis, outages, server, now, passed>>

(* The connection was lost with the reply: it will send the command again. *)
ReplyLost(r) ==
    /\ At(r, "added")
    /\ redis = "down"
    /\ Becomes(r, [request[r] EXCEPT !.step = "enqueue"])
    /\ UNCHANGED <<counter, jobs, redis, outages, server, now, passed>>

EnqueueFails(r) ==
    /\ At(r, "enqueue")
    /\ redis = "up"
    /\ Becomes(r, Refused(request[r], "PROVIDER_UNAVAILABLE"))
    /\ UNCHANGED <<counter, jobs, redis, outages, server, now, passed>>

(* runPipeline returns or throws an OcrError of some code. *)
runPipeline(r) ==
    /\ At(r, "run")
    /\ \/ Becomes(r, Answered(request[r], "OK"))
       \/ Becomes(r, Refused(request[r], "EXTRACTION_FAILED"))
    /\ UNCHANGED <<counter, jobs, redis, outages, server, now, passed>>

(* GET /jobs/:id finds a record of the tenant's or none, or fails.  It     *)
(* asks over the connection of the queue, so it waits for Redis too.       *)
getStatus(r) ==
    /\ At(r, "status")
    /\ redis = "up"
    /\ \/ Becomes(r, Answered(request[r], "OK"))
       \/ Becomes(r, Refused(request[r], "NOT_FOUND"))
       \/ Becomes(r, Refused(request[r], "EXTRACTION_FAILED"))
    /\ UNCHANGED <<counter, jobs, redis, outages, server, now, passed>>

-----------------------------------------------------------------------------
(* The shutdown of the process (index.ts).                                 *)

Moves(from, to) ==
    /\ server = from
    /\ server' = to
    /\ UNCHANGED <<request, counter, jobs, redis, outages, now, passed>>

(* A second signal finds shuttingDown and changes nothing. *)
shutdown == Moves("up", "draining")

(* server.close calls back when the last request is answered. *)
Drained == (\A r \in Requests : ~InFlight(r)) /\ Moves("draining", "closing")

(* shutdownTracing, closeDb and closeRedis; quit is sent to Redis or fails *)
(* at once, and any of the three may throw.                                *)
closeStores ==
    \/ redis = "up" /\ Moves("closing", "exit 0")
    \/ Moves("closing", "exit 1")

(* A mutant of Forced: the timer waits for the requests as well. *)
ForcedWhenIdle ==
    /\ \A r \in Requests : ~InFlight(r)
    /\ \E from \in {"draining", "closing"} :
          Moves(from, "exit 1")

(* The timer of SHUTDOWN_TIMEOUT_MS, whenever that is. *)
Forced ==
    \E from \in {"draining", "closing"} :
        Moves(from, "exit 1")

-----------------------------------------------------------------------------
(* Redis and the clock, while there is a process to see them.              *)

RedisDown ==
    /\ redis = "up" /\ outages < MaxOutages /\ ~Exited
    /\ redis' = "down"
    /\ outages' = outages + 1
    /\ UNCHANGED <<request, counter, jobs, server, now, passed>>

RedisUp ==
    /\ redis = "down" /\ ~Exited
    /\ redis' = "up"
    /\ UNCHANGED <<request, counter, jobs, outages, server, now, passed>>

Tick ==
    /\ now < MaxTime /\ ~Exited
    /\ now' = now + 1
    /\ UNCHANGED <<request, counter, jobs, redis, outages, server, passed>>

-----------------------------------------------------------------------------

(* The steps of request r once it has arrived. *)
Handle(r) ==
    \/ incr(r) \/ expire(r) \/ LimiterFails(r)
    \/ upload(r)
    \/ enqueue(r) \/ sendAccepted(r) \/ ReplyLost(r) \/ EnqueueFails(r)
    \/ runPipeline(r) \/ getStatus(r)

Next ==
    \/ \E r \in Requests, call \in Calls : auth(r, call)
    \/ \E r \in Requests : Handle(r)
    \/ shutdown \/ Drained \/ closeStores \/ Forced
    \/ RedisDown \/ RedisUp \/ Tick

(* Some await of a request settles, but one that waits for Redis, as long  *)
(* as there is any; and the timer fires.  Nothing else has to happen.      *)
Fairness == WF_vars(\E r \in Requests : Handle(r)) /\ WF_vars(Forced)

Spec == Init /\ [][Next]_vars /\ Fairness

-----------------------------------------------------------------------------

Steps == {"idle", "incr", "expire", "status", "upload", "enqueue", "added",
          "run", "answered"}
Answers == {"none", "OK", "ACCEPTED", "UNAUTHORIZED", "FORBIDDEN", "RATE_LIMITED",
            "INVALID_ARGS", "NOT_FOUND", "PROVIDER_UNAVAILABLE", "EXTRACTION_FAILED"}

(* The state is well typed, a request that is answered is done, and what   *)
(* runs or is queued is a function there is.                               *)
TypeOK ==
    /\ request \in [Requests -> [step : Steps, call : Calls \cup {NoCall}, bucket : Buckets,
                                 timely : BOOLEAN, noStore : BOOLEAN, answer : Answers]]
    /\ counter \in [Tenants -> [Buckets -> [count : Nat, expires : Nat]]]
    /\ jobs \in [Requests -> Nat]
    /\ redis \in {"up", "down"} /\ outages \in 0..MaxOutages
    /\ server \in {"up", "draining", "closing", "exit 0", "exit 1"}
    /\ now \in 0..MaxTime
    /\ passed \in [Tenants -> [Buckets -> Nat]]
    /\ \A r \in Requests : LET q == request[r] IN
          /\ q.answer # "none" <=> q.step = "answered"
          /\ q.step \in {"enqueue", "added", "run"} => Known(q)

(* In each window a tenant gets no more requests through than its limit    *)
(* (http/middleware/rate-limit.ts:43-54), but for those that passed while  *)
(* the limiter failed, though Redis may have counted them, and those that  *)
(* were counted after their window.                                        *)
WithinLimit == \A t \in Tenants, b \in Buckets : passed[t][b] <= RateLimit[t]

(* What a client is told and what is left behind agree.  What is personal  *)
(* is never put in the queue (http/routes.ts:68-70) and its answer is not  *)
(* to be stored on its way (http/middleware/sensitivity.ts).  A request    *)
(* that was accepted has a job.  One that was not, or not yet, has one     *)
(* only while the reply of the queue is under way, or if Redis was lost    *)
(* with a reply (jobs/queue.ts:42), which also is what gives a request a   *)
(* second job.  The stores are closed, and the process ends well, only     *)
(* when no request is left that needs them (docs/runbook.md:113): so a job *)
(* nobody will be told of is left, outages aside, by a forced exit alone   *)
(* (index.ts:41-44).                                                       *)
LeftAsTold ==
    \A r \in Requests : LET q == request[r] IN
        /\ Known(q) /\ ~Standard(q) =>
              jobs[r] = 0 /\ (q.answer = "OK" => q.noStore)
        /\ q.answer = "ACCEPTED" => jobs[r] \in 1..(1 + outages)
        /\ jobs[r] > 0 /\ q.answer # "ACCEPTED" =>
              \/ q.step = "added" /\ jobs[r] <= 1 + outages
              \/ /\ q.step = "enqueue" \/ q.answer = "PROVIDER_UNAVAILABLE"
                 /\ jobs[r] <= outages
        /\ server \in {"closing", "exit 0"} => ~InFlight(r)

(* A signal ends the process, whatever its requests wait for.              *)
DrainEnds == server = "draining" ~> Exited

(* Redis being away keeps no request waiting but those that ask something  *)
(* of the queue, to add a job or to look one up: the limiter fails fast    *)
(* (redis.ts:10-12).                                                       *)
OnlyTheQueueWaits ==
    LET waiting == \E r \in Requests :
                      InFlight(r) /\ request[r].step \notin {"enqueue", "status"}
    IN  waiting ~> ~waiting \/ Exited

=============================================================================
