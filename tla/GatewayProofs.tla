---------------------------- MODULE GatewayProofs ----------------------------
(***************************************************************************)
(* Proofs about a web process, for every set of requests, calls, tenants   *)
(* and functions, every limit and window and any number of outages.        *)
(***************************************************************************)
EXTENDS Gateway, TLAPS

Requested == [step : Steps, call : Calls \cup {NoCall}, bucket : Buckets,
              timely : BOOLEAN, noStore : BOOLEAN, answer : Answers]
Counters == [count : Nat, expires : Nat]

-----------------------------------------------------------------------------
(* Buckets of the clock.                                                   *)

LEMMA NowHasBucket ==
    ASSUME now \in 0..MaxTime
    PROVE  now \div Window \in Buckets
  BY DEF Buckets

LEMMA FirstBucket == 0 \in Buckets
  <1>1. 0 \div Window = 0
    BY GatewayAssumption
  <1>2. 0 \in 0..MaxTime
    BY GatewayAssumption
  <1> QED
    BY <1>1, <1>2 DEF Buckets

(* A window that started in a bucket outlasts every time of that bucket.   *)
LEMMA WindowOutlasts ==
    ASSUME NEW m \in Nat, NEW n \in Nat, m \div Window = n \div Window
    PROVE  n < m + Window
  <1> DEFINE w == Window
  <1>1. w \in Nat \ {0}
    BY GatewayAssumption
  <1> HIDE DEF w
  <1>2. /\ m = w * (m \div w) + (m % w)
        /\ n = w * (n \div w) + (n % w)
        /\ (m % w) \in 0..(w - 1) /\ (n % w) \in 0..(w - 1)
        /\ m \div w \in Nat
    BY <1>1
  <1>3. m \div w = n \div w
    BY DEF w
  <1> DEFINE x == w * (m \div w)
  <1>4. x \in Nat /\ m = x + (m % w) /\ n = x + (n % w)
    BY <1>1, <1>2, <1>3
  <1> HIDE DEF x
  <1>5. n < m + w
    BY <1>1, <1>2, <1>4
  <1> QED
    BY <1>5 DEF w

-----------------------------------------------------------------------------
(* The inductive invariant.  A request in flight is of a tenant; what it   *)
(* will leave behind follows from where it is and from the outages so far. *)

RequestOK(q) ==
    /\ q.answer # "none" <=> q.step = "answered"
    /\ q.step \in {"enqueue", "added", "run"} => Known(q)
    /\ q.step \notin {"idle", "answered"} => q.call.tenant \in Tenants

LeftOK(q, n, o) ==
    /\ q.step \in {"enqueue", "added"} => Known(q) /\ Standard(q)
    /\ q.step = "enqueue" => n <= o
    /\ q.step = "added" => n \in 1..(1 + o)
    /\ q.answer = "ACCEPTED" => n \in 1..(1 + o) /\ (Known(q) => Standard(q))
    /\ q.answer = "PROVIDER_UNAVAILABLE" => n <= o /\ ~Known(q)
    /\ /\ q.step \notin {"enqueue", "added"}
       /\ q.answer \notin {"ACCEPTED", "PROVIDER_UNAVAILABLE"}
       => n = 0
    /\ q.step = "status" => ~Known(q)
    /\ q.step \in {"upload", "run"} \/ q.answer = "OK" =>
          (Known(q) /\ ~Standard(q) => q.noStore)

Quiet == server \in {"closing", "exit 0"} => \A r \in Requests : ~InFlight(r)

(* A reply that may be lost is one that the present outage may have taken. *)
Losable ==
    redis = "down" => \A r \in Requests : request[r].step = "added" => jobs[r] <= outages

Left ==
    /\ \A r \in Requests : LeftOK(request[r], jobs[r], outages)
    /\ Losable
    /\ Quiet

Shapes ==
    /\ request \in [Requests -> Requested]
    /\ counter \in [Tenants -> [Buckets -> Counters]]
    /\ jobs \in [Requests -> Nat]
    /\ redis \in {"up", "down"} /\ outages \in 0..MaxOutages
    /\ server \in {"up", "draining", "closing", "exit 0", "exit 1"}
    /\ now \in 0..MaxTime
    /\ passed \in [Tenants -> [Buckets -> Nat]]
    /\ \A r \in Requests : RequestOK(request[r])

IInv == Shapes /\ Left

-----------------------------------------------------------------------------
(* What a request becomes.                                                 *)

LEMMA RefusedType ==
    ASSUME NEW q, NEW code \in Answers \ {"none", "OK", "ACCEPTED"}
    PROVE  /\ Refused(q, code) \in Requested
           /\ RequestOK(Refused(q, code))
           /\ Refused(q, code).step = "answered"
           /\ Refused(q, code).answer = code
           /\ ~Known(Refused(q, code))
  BY FirstBucket, GatewayAssumption
  DEF Refused, NoRequest, NoCall, Requested, RequestOK, Steps, Known

LEMMA AnsweredType ==
    ASSUME NEW q \in Requested, NEW code \in {"OK", "ACCEPTED"}
    PROVE  /\ Answered(q, code) \in Requested
           /\ RequestOK(Answered(q, code))
           /\ Answered(q, code).step = "answered"
           /\ Answered(q, code).answer = code
           /\ Answered(q, code).call = q.call
           /\ Answered(q, code).noStore = q.noStore
  BY FirstBucket DEF Answered, Requested, RequestOK, Steps, Answers

LEMMA AdmittedType ==
    ASSUME NEW q \in Requested, q.answer = "none", q.call.tenant \in Tenants
    PROVE  /\ Admitted(q) \in Requested
           /\ RequestOK(Admitted(q))
           /\ Admitted(q).answer = "none"
           /\ LeftOK(Admitted(q), 0, 0)
           /\ Admitted(q).step \in {"status", "upload"}
  BY GatewayAssumption
  DEF Admitted, Requested, RequestOK, Steps, Answers, LeftOK, Known, Standard

LEMMA LimitedType ==
    ASSUME NEW q \in Requested, q.answer = "none", q.call.tenant \in Tenants, NEW count
    PROVE  /\ Limited(q, count) \in Requested
           /\ RequestOK(Limited(q, count))
           /\ LeftOK(Limited(q, count), 0, 0)
           /\ Limited(q, count).step \in {"status", "upload", "answered"}
  <1>1. CASE count <= RateLimit[q.call.tenant]
    BY <1>1, AdmittedType DEF Limited
  <1>2. CASE ~(count <= RateLimit[q.call.tenant])
    <2>1. Limited(q, count) = Refused(q, "RATE_LIMITED")
      BY <1>2 DEF Limited
    <2> QED
      BY <2>1, RefusedType DEF Answers, LeftOK
  <1> QED
    BY <1>1, <1>2

LEMMA DispatchType ==
    ASSUME NEW q \in Requested, q.answer = "none", q.call.tenant \in Tenants,
           Known(q), q.step = "upload", LeftOK(q, 0, 0)
    PROVE  /\ Dispatch(q) \in Requested
           /\ RequestOK(Dispatch(q))
           /\ LeftOK(Dispatch(q), 0, 0)
           /\ Dispatch(q).step \in {"enqueue", "run"}
  BY DEF Dispatch, Requested, RequestOK, LeftOK, Known, Standard, Steps, Answers

(* What was left behind by fewer outages is allowed after more.            *)
LEMMA LeftGrows ==
    ASSUME NEW q, NEW n \in Nat, NEW o \in Nat, NEW p \in Nat, o <= p, LeftOK(q, n, o)
    PROVE  LeftOK(q, n, p)
  BY DEF LeftOK

-----------------------------------------------------------------------------
(* The steps.                                                              *)

LEMMA NothingLeft ==
    ASSUME NEW q, NEW o \in Nat, LeftOK(q, 0, 0)
    PROVE  LeftOK(q, 0, o)
  BY DEF LeftOK

LEMMA Numbers ==
    ASSUME Shapes
    PROVE  /\ outages \in Nat /\ now \in Nat /\ Never \in Nat /\ now + Window \in Nat
           /\ \A r \in Requests : jobs[r] \in Nat /\ (jobs[r] > 0 => jobs[r] # 0)
  <1>1. Window \in Nat /\ MaxTime \in Nat /\ MaxOutages \in Nat
    BY GatewayAssumption
  <1>2. now \in 0..MaxTime /\ outages \in 0..MaxOutages /\ jobs \in [Requests -> Nat]
    BY DEF Shapes
  <1>3. now \in Nat /\ outages \in Nat
    BY <1>1, <1>2
  <1> QED
    BY <1>1, <1>2, <1>3 DEF Never

LEMMA UpTo ==
    /\ ~(0 \in 1..(1 + 0))
    /\ \A n \in Nat, o \in Nat : n \in 1..(1 + o) => n <= 1 + o
  OBVIOUS

(* A request in flight, of a process that is not done with its requests.   *)
LEMMA Serving ==
    ASSUME IInv, NEW r \in Requests, InFlight(r)
    PROVE  server \notin {"closing", "exit 0"}
  BY DEF IInv, Left, Quiet

(* A step that makes q of request r, whose jobs are then n.                *)
LEMMA RequestStep ==
    ASSUME IInv, NEW r \in Requests, NEW q \in Requested, RequestOK(q), Becomes(r, q),
           NEW n \in Nat, jobs' = [jobs EXCEPT ![r] = n], LeftOK(q, n, outages),
           q.step = "added" => redis = "up",
           UNCHANGED <<redis, outages, server>>, server \notin {"closing", "exit 0"}
    PROVE  /\ request' \in [Requests -> Requested]
           /\ jobs' \in [Requests -> Nat]
           /\ \A s \in Requests : RequestOK(request'[s])
           /\ Left'
  <1>1. /\ request'[r] = q /\ jobs'[r] = n
        /\ \A s \in Requests \ {r} : request'[s] = request[s] /\ jobs'[s] = jobs[s]
    BY DEF IInv, Shapes, Becomes
  <1>2. request' \in [Requests -> Requested] /\ jobs' \in [Requests -> Nat]
    BY DEF IInv, Shapes, Becomes
  <1>3. \A s \in Requests : RequestOK(request'[s])
    BY <1>1 DEF IInv, Shapes
  <1>4. \A s \in Requests : LeftOK(request'[s], jobs'[s], outages)
    BY <1>1 DEF IInv, Left
  <1>5. Quiet'
    BY DEF Quiet
  <1>6. Losable'
    BY <1>1 DEF IInv, Left, Losable
  <1> QED
    BY <1>2, <1>3, <1>4, <1>5, <1>6 DEF Left

(* The same for a request that has put nothing in the queue.               *)
LEMMA PlainStep ==
    ASSUME IInv, NEW r \in Requests, NEW q \in Requested, RequestOK(q), Becomes(r, q),
           UNCHANGED jobs, LeftOK(q, 0, 0), UNCHANGED <<redis, outages, server>>,
           request[r].step \notin {"enqueue", "added", "answered"},
           server \notin {"closing", "exit 0"}
    PROVE  /\ request' \in [Requests -> Requested]
           /\ jobs' \in [Requests -> Nat]
           /\ \A s \in Requests : RequestOK(request'[s])
           /\ Left'
  <1>1. jobs[r] = 0 /\ jobs[r] \in Nat
    BY DEF IInv, Shapes, Left, RequestOK, LeftOK
  <1>2. jobs' = [jobs EXCEPT ![r] = 0]
    BY <1>1 DEF IInv, Shapes
  <1>3. outages \in Nat
    BY Numbers DEF IInv
  <1>4. LeftOK(q, 0, outages)
    BY <1>3, NothingLeft
  <1>5. q.step # "added"
    <2>1. q.step = "added" => 0 \in 1..(1 + 0)
      BY Zenon DEF LeftOK
    <2> QED
      BY <2>1, UpTo, Zenon
  <1> QED
    BY <1>2, <1>4, <1>5, RequestStep

LEMMA CounterType ==
    ASSUME Shapes, NEW t \in Tenants, NEW b \in Buckets
    PROVE  /\ Count(t, b) \in Nat
           /\ Incremented(t, b) \in [Tenants -> [Buckets -> Counters]]
           /\ WithTTL(t, b) \in [Tenants -> [Buckets -> Counters]]
  <1>1. counter[t][b] \in Counters
    BY DEF Shapes
  <1>2. Count(t, b) \in Nat /\ Never \in Nat /\ now + Window \in Nat
    BY <1>1, Numbers DEF Count, Counters
  <1>3. counter \in [Tenants -> [Buckets -> Counters]]
    BY DEF Shapes
  <1>4. Incremented(t, b) \in [Tenants -> [Buckets -> Counters]]
    <2> DEFINE c == [count |-> Count(t, b) + 1,
                     expires |-> IF Count(t, b) = 0 THEN Never ELSE counter[t][b].expires]
    <2>1. c \in Counters
      BY <1>1, <1>2 DEF Counters
    <2>2. Incremented(t, b) = [counter EXCEPT ![t][b] = c]
      BY DEF Incremented
    <2> HIDE DEF c
    <2> QED
      BY <1>3, <2>1, <2>2
  <1>5. Expiring(t, b) \in [Tenants -> [Buckets -> Counters]]
    BY <1>1, <1>2, <1>3 DEF Expiring, Counters
  <1> QED
    BY <1>2, <1>3, <1>4, <1>5 DEF WithTTL

LEMMA CountedType ==
    ASSUME Shapes, NEW q \in Requested, q.call.tenant \in Tenants, NEW count,
           Counted(q, count)
    PROVE  passed' \in [Tenants -> [Buckets -> Nat]]
  <1>1. q.bucket \in Buckets /\ passed \in [Tenants -> [Buckets -> Nat]]
    BY DEF Requested, Shapes
  <1>2. passed[q.call.tenant][q.bucket] + 1 \in Nat
    BY <1>1
  <1> QED
    BY <1>1, <1>2 DEF Counted

LEMMA IInvStep ==
    ASSUME IInv, [Next]_vars
    PROVE  IInv'
  <1> USE DEF At
  <1>1. ASSUME NEW r \in Requests, NEW call \in Calls, auth(r, call)
        PROVE  IInv'
    <2> DEFINE q == [NoRequest EXCEPT !.call = call]
               asked == [q EXCEPT !.step = "incr", !.bucket = now \div Window]
    <2>1. now \div Window \in Buckets
      BY NowHasBucket DEF IInv, Shapes
    <2>2. \E next \in Requested :
             Becomes(r, next) /\ RequestOK(next) /\ LeftOK(next, 0, 0)
      <3>1. CASE \E code \in {"UNAUTHORIZED", "FORBIDDEN", "PROVIDER_UNAVAILABLE"} :
                    Becomes(r, Refused(q, code))
        BY <3>1, RefusedType DEF LeftOK, Answers
      <3>2. CASE call.tenant # "none" /\ Becomes(r, asked)
        <4>1. asked \in Requested
          BY <2>1 DEF NoRequest, Requested, Steps, Answers
        <4>2. RequestOK(asked) /\ LeftOK(asked, 0, 0)
          BY <3>2, GatewayAssumption DEF NoRequest, RequestOK, LeftOK
        <4> QED
          BY <3>2, <4>1, <4>2
      <3> QED
        BY <1>1, <3>1, <3>2 DEF auth
    <2>3. request[r].step = "idle" /\ server = "up"
      BY <1>1 DEF auth
    <2> QED
      BY <1>1, <2>2, <2>3, PlainStep DEF auth, IInv, Shapes
  <1>2. ASSUME NEW r \in Requests, incr(r)
        PROVE  IInv'
    <2> DEFINE t == request[r].call.tenant
               b == request[r].bucket
               q == [request[r] EXCEPT !.timely = (now \div Window = b)]
               count == Count(t, b) + 1
               waits == [q EXCEPT !.step = "expire"]
    <2>1. /\ request[r] \in Requested /\ request[r].step = "incr" /\ InFlight(r)
          /\ request[r].answer = "none" /\ t \in Tenants /\ b \in Buckets
      BY <1>2 DEF incr, IInv, Shapes, RequestOK, Requested, InFlight
    <2>2. q \in Requested /\ q.answer = "none" /\ q.call.tenant = t /\ q.bucket = b
      BY <2>1 DEF Requested
    <2>3. \E next \in Requested :
             Becomes(r, next) /\ RequestOK(next) /\ LeftOK(next, 0, 0)
      <3>1. CASE Becomes(r, waits)
        <4>1. waits \in Requested /\ waits.step = "expire" /\ waits.answer = "none"
              /\ waits.call.tenant = t
          BY <2>1, <2>2 DEF Requested, Steps
        <4> HIDE DEF waits
        <4>2. RequestOK(waits) /\ LeftOK(waits, 0, 0)
          BY <2>1, <2>2, <4>1 DEF RequestOK, LeftOK, Steps
        <4> QED
          BY <3>1, <4>1, <4>2
      <3>2. CASE Becomes(r, Limited(q, count))
        BY <2>1, <2>2, <3>2, LimitedType
      <3> QED
        BY <1>2, <3>1, <3>2 DEF incr
    <2>4. passed' \in [Tenants -> [Buckets -> Nat]]
      BY <1>2, <2>1, <2>2, CountedType DEF incr, IInv, Shapes
    <2>5. counter' \in [Tenants -> [Buckets -> Counters]]
      BY <1>2, <2>1, CounterType DEF incr, IInv
    <2> QED
      BY <1>2, <2>1, <2>3, <2>4, <2>5, PlainStep, Serving DEF incr, IInv, Shapes
  <1>3. ASSUME NEW r \in Requests, expire(r)
        PROVE  IInv'
    <2>1. /\ request[r] \in Requested /\ request[r].step = "expire" /\ InFlight(r)
          /\ request[r].answer = "none" /\ request[r].call.tenant \in Tenants
          /\ request[r].bucket \in Buckets
      BY <1>3 DEF expire, IInv, Shapes, RequestOK, Requested, InFlight
    <2>2. \E next \in Requested :
             Becomes(r, next) /\ RequestOK(next) /\ LeftOK(next, 0, 0)
      BY <1>3, <2>1, LimitedType DEF expire
    <2>3. passed' \in [Tenants -> [Buckets -> Nat]]
      BY <1>3, <2>1, CountedType DEF expire, IInv
    <2>4. counter' \in [Tenants -> [Buckets -> Counters]]
      BY <1>3, <2>1, CounterType DEF expire, IInv
    <2> QED
      BY <1>3, <2>1, <2>2, <2>3, <2>4, PlainStep, Serving DEF expire, IInv, Shapes
  <1>4. ASSUME NEW r \in Requests, LimiterFails(r)
        PROVE  IInv'
    <2>1. /\ request[r] \in Requested /\ request[r].step \in {"incr", "expire"} /\ InFlight(r)
          /\ request[r].answer = "none" /\ request[r].call.tenant \in Tenants
          /\ request[r].bucket \in Buckets
      BY <1>4 DEF LimiterFails, IInv, Shapes, RequestOK, Requested, InFlight
    <2>2. \E next \in Requested :
             Becomes(r, next) /\ RequestOK(next) /\ LeftOK(next, 0, 0)
      BY <1>4, <2>1, AdmittedType DEF LimiterFails
    <2>3. counter' \in [Tenants -> [Buckets -> Counters]]
      <3>1. \/ counter' = counter
            \/ counter' = Incremented(request[r].call.tenant, request[r].bucket)
            \/ counter' = WithTTL(request[r].call.tenant, request[r].bucket)
        BY <1>4 DEF LimiterFails
      <3>2. counter \in [Tenants -> [Buckets -> Counters]]
        BY DEF IInv, Shapes
      <3>3. /\ Incremented(request[r].call.tenant, request[r].bucket)
                  \in [Tenants -> [Buckets -> Counters]]
            /\ WithTTL(request[r].call.tenant, request[r].bucket)
                  \in [Tenants -> [Buckets -> Counters]]
        BY <2>1, CounterType DEF IInv
      <3> QED
        BY <3>1, <3>2, <3>3
    <2> QED
      BY <1>4, <2>1, <2>2, <2>3, PlainStep, Serving DEF LimiterFails, IInv, Shapes
  <1>5. ASSUME NEW r \in Requests, upload(r)
        PROVE  IInv'
    <2>1. /\ request[r] \in Requested /\ request[r].step = "upload" /\ InFlight(r)
          /\ request[r].answer = "none" /\ request[r].call.tenant \in Tenants
          /\ LeftOK(request[r], jobs[r], outages)
      BY <1>5 DEF upload, IInv, Left, Shapes, RequestOK, InFlight
    <2>2. LeftOK(request[r], 0, 0)
      BY <2>1 DEF LeftOK
    <2>3. \E next \in Requested :
             Becomes(r, next) /\ RequestOK(next) /\ LeftOK(next, 0, 0)
      <3>1. CASE \E code \in {"EXTRACTION_FAILED", "INVALID_ARGS"} :
                    Becomes(r, Refused(request[r], code))
        BY <3>1, RefusedType DEF LeftOK, Answers
      <3>2. CASE Known(request[r]) /\ Becomes(r, Dispatch(request[r]))
        BY <2>1, <2>2, <3>2, DispatchType
      <3> QED
        BY <1>5, <3>1, <3>2 DEF upload
    <2> QED
      BY <1>5, <2>1, <2>3, PlainStep, Serving DEF upload, IInv, Shapes
  <1>6. ASSUME NEW r \in Requests, enqueue(r)
        PROVE  IInv'
    <2> DEFINE q == [request[r] EXCEPT !.step = "added"]
    <2>1. /\ request[r] \in Requested /\ request[r].step = "enqueue" /\ InFlight(r)
          /\ request[r].answer = "none" /\ request[r].call.tenant \in Tenants
          /\ LeftOK(request[r], jobs[r], outages) /\ jobs[r] \in Nat /\ outages \in Nat
      BY <1>6, Numbers DEF enqueue, IInv, Left, Shapes, InFlight, RequestOK
    <2>2. /\ q \in Requested /\ q.answer = "none" /\ q.step = "added"
          /\ q.call = request[r].call
      BY <2>1 DEF Requested, Steps
    <2> HIDE DEF q
    <2>3. RequestOK(q) /\ LeftOK(q, jobs[r] + 1, outages)
      BY <2>1, <2>2 DEF LeftOK, RequestOK, Known, Standard
    <2>4. jobs[r] + 1 \in Nat /\ jobs' = [jobs EXCEPT ![r] = jobs[r] + 1]
      BY <1>6, <2>1 DEF enqueue
    <2>5. /\ Becomes(r, q) /\ redis = "up"
          /\ UNCHANGED <<counter, redis, outages, server, now, passed>>
      BY <1>6 DEF enqueue, q
    <2>6. /\ request' \in [Requests -> Requested] /\ jobs' \in [Requests -> Nat]
          /\ \A s \in Requests : RequestOK(request'[s])
          /\ Left'
      BY <2>1, <2>2, <2>3, <2>4, <2>5, RequestStep, Serving
    <2> QED
      BY <2>5, <2>6 DEF IInv, Shapes
  <1>7. ASSUME NEW r \in Requests, sendAccepted(r) \/ ReplyLost(r)
        PROVE  IInv'
    <2> DEFINE told == Answered(request[r], "ACCEPTED")
               again == [request[r] EXCEPT !.step = "enqueue"]
    <2>1. /\ request[r] \in Requested /\ request[r].step = "added" /\ InFlight(r)
          /\ request[r].answer = "none" /\ request[r].call.tenant \in Tenants
          /\ LeftOK(request[r], jobs[r], outages) /\ jobs[r] \in Nat /\ outages \in Nat
      BY <1>7, Numbers
      DEF sendAccepted, ReplyLost, IInv, Left, Shapes, InFlight, RequestOK
    <2>2. UNCHANGED <<counter, jobs, redis, outages, server, now, passed>>
      BY <1>7 DEF sendAccepted, ReplyLost
    <2>3. jobs' = [jobs EXCEPT ![r] = jobs[r]]
      BY <2>2 DEF IInv, Shapes
    <2>4. \E next \in Requested : /\ Becomes(r, next) /\ RequestOK(next)
                                  /\ LeftOK(next, jobs[r], outages) /\ next.step # "added"
      <3>1. CASE Becomes(r, told)
        <4>1. /\ told \in Requested /\ RequestOK(told) /\ told.answer = "ACCEPTED"
              /\ told.step = "answered" /\ told.call = request[r].call
          BY <2>1, AnsweredType
        <4> HIDE DEF told
        <4>2. LeftOK(told, jobs[r], outages)
          BY <2>1, <4>1 DEF LeftOK, Known, Standard
        <4> QED
          BY <3>1, <4>1, <4>2
      <3>2. CASE redis = "down" /\ Becomes(r, again)
        <4>1. /\ again \in Requested /\ again.answer = "none" /\ again.step = "enqueue"
              /\ again.call = request[r].call
          BY <2>1 DEF Requested, Steps
        <4>2. jobs[r] <= outages
          BY <2>1, <3>2 DEF IInv, Left, Losable
        <4> HIDE DEF again
        <4>3. RequestOK(again) /\ LeftOK(again, jobs[r], outages)
          BY <2>1, <4>1, <4>2 DEF LeftOK, RequestOK, Known, Standard
        <4> QED
          BY <3>2, <4>1, <4>3
      <3> QED
        BY <1>7, <3>1, <3>2 DEF sendAccepted, ReplyLost
    <2>5. /\ request' \in [Requests -> Requested] /\ jobs' \in [Requests -> Nat]
          /\ \A s \in Requests : RequestOK(request'[s])
          /\ Left'
      BY <2>1, <2>2, <2>3, <2>4, RequestStep, Serving
    <2> QED
      BY <2>2, <2>5 DEF IInv, Shapes
  <1>8. ASSUME NEW r \in Requests, EnqueueFails(r)
        PROVE  IInv'
    <2> DEFINE q == Refused(request[r], "PROVIDER_UNAVAILABLE")
    <2>1. /\ request[r].step = "enqueue" /\ InFlight(r) /\ request[r].answer = "none"
          /\ LeftOK(request[r], jobs[r], outages) /\ jobs[r] \in Nat
      BY <1>8 DEF EnqueueFails, IInv, Left, Shapes, InFlight, RequestOK
    <2>2. /\ q \in Requested /\ RequestOK(q) /\ q.answer = "PROVIDER_UNAVAILABLE"
          /\ q.step = "answered" /\ ~Known(q)
      BY RefusedType DEF Answers
    <2> HIDE DEF q
    <2>3. LeftOK(q, jobs[r], outages)
      BY <2>1, <2>2 DEF LeftOK
    <2>4. jobs' = [jobs EXCEPT ![r] = jobs[r]]
      BY <1>8 DEF EnqueueFails, IInv, Shapes
    <2>5. /\ request' \in [Requests -> Requested] /\ jobs' \in [Requests -> Nat]
          /\ \A s \in Requests : RequestOK(request'[s])
          /\ Left'
      BY <1>8, <2>1, <2>2, <2>3, <2>4, RequestStep, Serving DEF EnqueueFails, q
    <2> QED
      BY <1>8, <2>5 DEF EnqueueFails, IInv, Shapes
  <1>9. ASSUME NEW r \in Requests, runPipeline(r) \/ getStatus(r)
        PROVE  IInv'
    <2> DEFINE ok == Answered(request[r], "OK")
    <2>1. /\ request[r] \in Requested /\ request[r].step \in {"run", "status"} /\ InFlight(r)
          /\ LeftOK(request[r], jobs[r], outages)
      BY <1>9 DEF runPipeline, getStatus, IInv, Left, Shapes, InFlight
    <2>2. /\ ok \in Requested /\ RequestOK(ok) /\ ok.answer = "OK" /\ ok.step = "answered"
          /\ ok.call = request[r].call /\ ok.noStore = request[r].noStore
      BY <2>1, AnsweredType
    <2> HIDE DEF ok
    <2>3. LeftOK(ok, 0, 0)
      BY <2>1, <2>2 DEF LeftOK, Known, Standard
    <2>4. \E next \in Requested :
             Becomes(r, next) /\ RequestOK(next) /\ LeftOK(next, 0, 0)
      <3>1. CASE Becomes(r, ok)
        BY <2>2, <2>3, <3>1
      <3>2. CASE \E code \in {"EXTRACTION_FAILED", "NOT_FOUND"} :
                    Becomes(r, Refused(request[r], code))
        BY <3>2, RefusedType DEF LeftOK, Answers
      <3> QED
        BY <1>9, <3>1, <3>2 DEF runPipeline, getStatus, ok
    <2>5. UNCHANGED <<counter, jobs, redis, outages, server, now, passed>>
      BY <1>9 DEF runPipeline, getStatus
    <2>6. request[r].step \notin {"enqueue", "added", "answered"}
      BY <2>1
    <2>7. /\ request' \in [Requests -> Requested] /\ jobs' \in [Requests -> Nat]
          /\ \A s \in Requests : RequestOK(request'[s])
          /\ Left'
      BY <2>1, <2>4, <2>5, <2>6, PlainStep, Serving
    <2> QED
      BY <2>5, <2>7 DEF IInv, Shapes
  <1>10. CASE shutdown \/ Drained \/ closeStores \/ Forced
    BY <1>10
    DEF shutdown, Drained, closeStores, Forced, Moves, IInv, Shapes, Left, Losable, Quiet,
        InFlight
  <1>11. CASE RedisDown
    <2>1. \A r \in Requests : LeftOK(request[r], jobs[r], outages + 1)
      BY LeftGrows, Numbers DEF IInv, Left
    <2>2. outages' \in 0..MaxOutages
      BY <1>11, Numbers, GatewayAssumption DEF RedisDown, IInv
    <2>3. \A r \in Requests : request[r].step = "added" => jobs[r] <= outages + 1
      <3>1. \A r \in Requests : request[r].step = "added" => jobs[r] \in 1..(1 + outages)
        BY DEF IInv, Left, LeftOK
      <3> QED
        BY <3>1, Numbers DEF IInv
    <2>4. Left'
      BY <1>11, <2>1, <2>3 DEF RedisDown, IInv, Left, Losable, Quiet, InFlight
    <2> QED
      BY <1>11, <2>2, <2>4 DEF RedisDown, IInv, Shapes
  <1>12. CASE RedisUp \/ Tick
    <2>1. now \in Nat /\ now \in 0..MaxTime
      BY Numbers DEF IInv, Shapes
    <2>2. now' \in 0..MaxTime
      BY <1>12, <2>1, GatewayAssumption DEF RedisUp, Tick
    <2> QED
      BY <1>12, <2>2 DEF RedisUp, Tick, IInv, Shapes, Left, Losable, Quiet, InFlight
  <1>13. CASE UNCHANGED vars
    BY <1>13 DEF vars, IInv, Shapes, Left, Losable, Quiet, InFlight
  <1> QED
    BY <1>1, <1>2, <1>3, <1>4, <1>5, <1>6, <1>7, <1>8, <1>9, <1>10, <1>11, <1>12, <1>13
    DEF Next, Handle

LEMMA IInvInit ==
    ASSUME Init
    PROVE  IInv
  <1>1. NoRequest \in Requested /\ RequestOK(NoRequest) /\ LeftOK(NoRequest, 0, 0)
    BY FirstBucket, GatewayAssumption
    DEF NoRequest, Requested, RequestOK, LeftOK, NoCall, Steps, Answers, Known
  <1>2. Never \in Nat
    BY GatewayAssumption DEF Never
  <1> QED
    BY <1>1, <1>2, GatewayAssumption DEF Init, IInv, Shapes, Left, Losable, Quiet,
        InFlight, Counters

LEMMA IInvImplies ==
    ASSUME IInv
    PROVE  TypeOK /\ LeftAsTold
  <1>1. TypeOK
    BY DEF IInv, Shapes, TypeOK, Requested, Counters, RequestOK
  <1>2. LeftAsTold
    <2> SUFFICES ASSUME NEW r \in Requests
                 PROVE  /\ Known(request[r]) /\ ~Standard(request[r]) =>
                              jobs[r] = 0 /\ (request[r].answer = "OK" => request[r].noStore)
                        /\ request[r].answer = "ACCEPTED" => jobs[r] \in 1..(1 + outages)
                        /\ jobs[r] > 0 /\ request[r].answer # "ACCEPTED" =>
                              \/ request[r].step = "added" /\ jobs[r] <= 1 + outages
                              \/ /\ \/ request[r].step = "enqueue"
                                    \/ request[r].answer = "PROVIDER_UNAVAILABLE"
                                 /\ jobs[r] <= outages
                        /\ server \in {"closing", "exit 0"} => ~InFlight(r)
      BY DEF LeftAsTold
    <2>1. /\ LeftOK(request[r], jobs[r], outages) /\ RequestOK(request[r])
          /\ jobs[r] \in Nat /\ outages \in Nat
          /\ server \in {"closing", "exit 0"} => ~InFlight(r)
      BY Numbers DEF IInv, Shapes, Left, Quiet
    <2>2. jobs[r] > 0 => jobs[r] # 0
      BY Numbers DEF IInv
    <2>3. request[r].step = "added" => jobs[r] <= 1 + outages
      <3>1. request[r].step = "added" => jobs[r] \in 1..(1 + outages)
        BY <2>1, Zenon DEF LeftOK
      <3> QED
        BY <2>1, <3>1, UpTo, Zenon
    <2>4. request[r].step = "enqueue" \/ request[r].answer = "PROVIDER_UNAVAILABLE"
          => jobs[r] <= outages
      BY <2>1 DEF LeftOK
    <2>5. jobs[r] > 0 /\ request[r].answer # "ACCEPTED" =>
             \/ request[r].step = "added"
             \/ request[r].step = "enqueue" \/ request[r].answer = "PROVIDER_UNAVAILABLE"
      BY <2>1, <2>2, Zenon DEF LeftOK
    <2>6. request[r].answer = "ACCEPTED" => jobs[r] \in 1..(1 + outages)
      BY <2>1 DEF LeftOK
    <2>7. Known(request[r]) /\ ~Standard(request[r]) =>
             jobs[r] = 0 /\ (request[r].answer = "OK" => request[r].noStore)
      BY <2>1, Zenon DEF LeftOK
    <2> QED
      BY <2>1, <2>3, <2>4, <2>5, <2>6, <2>7
  <1> QED
    BY <1>1, <1>2

(* Requests, counters and jobs keep their shapes, for any number of them.  *)
THEOREM TypeCorrect == Spec => []TypeOK
  <1>1. Init => IInv
    BY IInvInit
  <1>2. IInv /\ [Next]_vars => IInv'
    BY IInvStep
  <1>3. IInv => TypeOK
    BY IInvImplies
  <1> QED
    BY <1>1, <1>2, <1>3, PTL DEF Spec

(* What a client is told and what is left behind agree, for any number of  *)
(* requests and outages.                                                   *)
THEOREM LeftAsToldAlways == Spec => []LeftAsTold
  <1>1. Init => IInv
    BY IInvInit
  <1>2. IInv /\ [Next]_vars => IInv'
    BY IInvStep
  <1>3. IInv => LeftAsTold
    BY IInvImplies
  <1> QED
    BY <1>1, <1>2, <1>3, PTL DEF Spec

-----------------------------------------------------------------------------
(* Why the limiter keeps to the limit.  Only the first increment of a key  *)
(* is let through after a second command, the one that sets its TTL; at    *)
(* most one such request that is in time holds a place for itself.  While  *)
(* the time of a bucket lasts its key does not expire, so its count is at  *)
(* least what has passed and what holds a place.                           *)

InBucket(n, b) == n \div Window = b

Holders(t, b) ==
    {r \in Requests : /\ request[r].step = "expire" /\ request[r].timely
                      /\ request[r].call.tenant = t /\ request[r].bucket = b}

Lasts(from, b) == \E n \in from..MaxTime : InBucket(n, b)

Fits(limit, p, c, holders, from, b) ==
    /\ p <= limit
    /\ holders # {} /\ limit # 0 => p < limit
    /\ \A r, s \in holders : r = s
    /\ Lasts(from, b) =>
          /\ p <= c.count
          /\ holders # {} => p < c.count
          /\ \A m \in 0..MaxTime : InBucket(m, b) => m < c.expires

Timed ==
    \A r \in Requests : request[r].step \in {"incr", "expire"} =>
        \E m \in 0..now : InBucket(m, request[r].bucket)

AllFit ==
    \A t \in Tenants, b \in Buckets :
        Fits(RateLimit[t], passed[t][b], counter[t][b], Holders(t, b), now, b)

LInv == IInv /\ Timed /\ AllFit

(* Time passes and a place is given up: what fitted fits.                  *)
LEMMA FitsLater ==
    ASSUME NEW l \in Nat, NEW p \in Nat, NEW c \in Counters, NEW hs, NEW gs, gs \subseteq hs,
           NEW from \in Nat, NEW later \in Nat, from <= later, NEW b,
           Fits(l, p, c, hs, from, b)
    PROVE  Fits(l, p, c, gs, later, b)
  <1>1. Lasts(later, b) => Lasts(from, b)
    BY GatewayAssumption DEF Lasts
  <1>2. gs # {} => hs # {}
    OBVIOUS
  <1> QED
    BY <1>1, <1>2 DEF Fits

(* The holder of a place takes it.                                         *)
LEMMA FitsTaken ==
    ASSUME NEW l \in Nat, NEW p \in Nat, NEW c \in Counters, NEW hs, NEW r \in hs,
           NEW from \in Nat, NEW b, Fits(l, p, c, hs, from, b)
    PROVE  Fits(l, IF 1 <= l THEN p + 1 ELSE p, c, hs \ {r}, from, b)
  <1>1. hs # {} /\ hs \ {r} = {}
    BY DEF Fits
  <1>2. p <= l /\ (l # 0 => p < l)
    BY <1>1 DEF Fits
  <1>3. Lasts(from, b) => p < c.count /\ c.count \in Nat
    BY <1>1 DEF Fits, Counters
  <1> QED
    BY <1>1, <1>2, <1>3 DEF Fits, Counters

(* A TTL is set at a time the bucket has reached.                          *)
LEMMA FitsTTL ==
    ASSUME NEW l \in Nat, NEW p \in Nat, NEW c \in Counters, NEW hs, NEW b,
           NEW at \in Nat, \E m \in 0..at : InBucket(m, b),
           Fits(l, p, c, hs, at, b)
    PROVE  Fits(l, p, [c EXCEPT !.expires = at + Window], hs, at, b)
  <1>1. Window \in Nat /\ MaxTime \in Nat
    BY GatewayAssumption
  <1>2. ASSUME NEW n \in 0..MaxTime, InBucket(n, b)
        PROVE  n < at + Window
    <2>1. PICK m \in 0..at : InBucket(m, b)
      OBVIOUS
    <2>2. m \in Nat /\ n \in Nat /\ m <= at
      BY <1>1
    <2>3. n < m + Window
      BY <1>2, <2>1, <2>2, WindowOutlasts DEF InBucket
    <2> QED
      BY <1>1, <2>2, <2>3
  <1> DEFINE d == [c EXCEPT !.expires = at + Window]
  <1>3. d.count = c.count /\ d.expires = at + Window
    BY DEF Counters
  <1> HIDE DEF d
  <1>4. Fits(l, p, d, hs, at, b)
    BY <1>2, <1>3 DEF Fits
  <1> QED
    BY <1>4 DEF d

(* An increment at a time the bucket still lasts finds its key alive.      *)
LEMMA Alive ==
    ASSUME Shapes, NEW t \in Tenants, NEW b \in Buckets, NEW l \in Nat, NEW p \in Nat, NEW hs,
           Fits(l, p, counter[t][b], hs, now, b), Lasts(now, b)
    PROVE  Count(t, b) = counter[t][b].count
  <1>0. counter[t][b] \in Counters
    BY DEF Shapes
  <1>1. now \in Nat /\ MaxTime \in Nat /\ counter[t][b] \in Counters
    BY <1>0, Numbers, GatewayAssumption
  <1>2. PICK n \in now..MaxTime : InBucket(n, b)
    BY DEF Lasts
  <1>3. n \in 0..MaxTime /\ now <= n /\ n \in Nat
    BY <1>1
  <1>4. n < counter[t][b].expires
    BY <1>2, <1>3 DEF Fits
  <1> QED
    BY <1>1, <1>3, <1>4 DEF Count, Counters

LEMMA IncrementedFits ==
    ASSUME Shapes, NEW t \in Tenants, NEW b \in Buckets, NEW l \in Nat, NEW p \in Nat, NEW hs,
           Fits(l, p, counter[t][b], hs, now, b)
    PROVE  LET c == Incremented(t, b)[t][b] IN
           /\ Fits(l, p, c, hs, now, b)
           /\ InBucket(now, b) /\ Count(t, b) = 0 =>
                 hs = {} /\ \A r : Fits(l, p, c, {r}, now, b)
           /\ InBucket(now, b) /\ Count(t, b) # 0 /\ Count(t, b) + 1 <= l =>
                 Fits(l, p + 1, c, hs, now, b)
  <1> DEFINE old == counter[t][b]
             c == Incremented(t, b)[t][b]
             k == Count(t, b)
  <1>1. old \in Counters /\ now \in Nat /\ Never \in Nat /\ k \in Nat
    BY Numbers, CounterType DEF Shapes
  <1>2. c.count = k + 1 /\ c.expires = IF k = 0 THEN Never ELSE old.expires
    BY DEF Incremented, Shapes
  <1>3. Lasts(now, b) => k = old.count
    BY Alive
  <1>4. \A m \in 0..MaxTime : m < Never
    BY GatewayAssumption DEF Never
  <1>5. InBucket(now, b) => Lasts(now, b)
    <2>1. now \in 0..MaxTime /\ MaxTime \in Nat
      BY GatewayAssumption DEF Shapes
    <2>2. now \in now..MaxTime
      BY <2>1
    <2> QED
      BY <2>2 DEF Lasts
  <1>6. Lasts(now, b) => /\ p <= k /\ (hs # {} => p < k)
                         /\ \A m \in 0..MaxTime : InBucket(m, b) => m < c.expires
    BY <1>2, <1>3, <1>4 DEF Fits
  <1> HIDE DEF old, c, k
  <1>7. Fits(l, p, c, hs, now, b)
    BY <1>1, <1>2, <1>6 DEF Fits
  <1>8. ASSUME InBucket(now, b), k = 0
        PROVE  hs = {} /\ \A r : Fits(l, p, c, {r}, now, b)
    <2>1. p = 0 /\ hs = {}
      BY <1>5, <1>6, <1>8
    <2> QED
      BY <1>1, <1>2, <1>6, <1>8, <2>1 DEF Fits
  <1>9. ASSUME InBucket(now, b), k # 0, k + 1 <= l
        PROVE  Fits(l, p + 1, c, hs, now, b)
    <2>1. p <= k /\ (hs # {} => p < k)
      BY <1>5, <1>6, <1>9
    <2> QED
      BY <1>1, <1>2, <1>6, <1>9, <2>1 DEF Fits
  <1> QED
    BY <1>7, <1>8, <1>9 DEF c, k

-----------------------------------------------------------------------------
(* The steps, as far as the limiter sees them.                             *)

LEMMA PairFits ==
    ASSUME LInv, NEW t \in Tenants, NEW b \in Buckets
    PROVE  /\ RateLimit[t] \in Nat /\ passed[t][b] \in Nat /\ counter[t][b] \in Counters
           /\ now \in Nat
           /\ Fits(RateLimit[t], passed[t][b], counter[t][b], Holders(t, b), now, b)
  <1>1. RateLimit[t] \in Nat
    BY GatewayAssumption
  <1>2. passed[t][b] \in Nat /\ counter[t][b] \in Counters
    BY DEF LInv, IInv, Shapes
  <1>3. now \in Nat
    BY Numbers DEF LInv, IInv
  <1> QED
    BY <1>1, <1>2, <1>3 DEF LInv, AllFit

(* A step that is not one of the limiter's on r's own key.                 *)
LEMMA AsideFits ==
    ASSUME LInv, NEW t \in Tenants, NEW b \in Buckets,
           now' \in Nat, now <= now',
           counter'[t][b] = counter[t][b], passed'[t][b] = passed[t][b],
           Holders(t, b)' \subseteq Holders(t, b)
    PROVE  Fits(RateLimit[t], passed'[t][b], counter'[t][b], Holders(t, b)', now', b)
  BY PairFits, FitsLater

(* A request that is not waiting for its TTL after its step holds nothing. *)
LEMMA HoldsNothing ==
    ASSUME IInv, NEW r \in Requests, NEW q, Becomes(r, q), q.step # "expire",
           NEW t, NEW b
    PROVE  Holders(t, b)' = Holders(t, b) \ {r}
  <1>1. request'[r] = q /\ \A s \in Requests \ {r} : request'[s] = request[s]
    BY DEF Becomes, IInv, Shapes
  <1> QED
    BY <1>1 DEF Holders

(* The places of keys that are not the request's own.                      *)
LEMMA HoldsElsewhere ==
    ASSUME IInv, NEW r \in Requests, NEW q \in Requested, Becomes(r, q),
           NEW t, NEW b, q.call.tenant # t \/ q.bucket # b
    PROVE  Holders(t, b)' \subseteq Holders(t, b)
  <1>1. request'[r] = q /\ \A s \in Requests \ {r} : request'[s] = request[s]
    BY DEF Becomes, IInv, Shapes
  <1> QED
    BY <1>1 DEF Holders

LEMMA TimedStep ==
    ASSUME IInv, Timed, NEW r \in Requests, NEW q, Becomes(r, q), now' = now,
           q.step \in {"incr", "expire"} => \E m \in 0..now : InBucket(m, q.bucket)
    PROVE  Timed'
  <1>1. request'[r] = q /\ \A s \in Requests \ {r} : request'[s] = request[s]
    BY DEF Becomes, IInv, Shapes
  <1> QED
    BY <1>1 DEF Timed

LEMMA CounterElsewhere ==
    ASSUME Shapes, NEW t \in Tenants, NEW b \in Buckets, NEW u \in Tenants, NEW c \in Buckets,
           t # u \/ b # c
    PROVE  /\ Incremented(t, b)[u][c] = counter[u][c]
           /\ WithTTL(t, b)[u][c] = counter[u][c]
  BY DEF Incremented, WithTTL, Expiring, Shapes

LEMMA WithTTLFits ==
    ASSUME LInv, NEW r \in Requests, request[r].step = "expire", NEW hs, NEW p \in Nat,
           NEW t \in Tenants, NEW b \in Buckets, b = request[r].bucket,
           Fits(RateLimit[t], p, counter[t][b], hs, now, b)
    PROVE  Fits(RateLimit[t], p, WithTTL(t, b)[t][b], hs, now, b)
  <1>1. CASE Count(t, b) = 0
    BY <1>1 DEF WithTTL
  <1>2. CASE Count(t, b) # 0
    <2>1. \E m \in 0..now : InBucket(m, b)
      BY DEF LInv, Timed
    <2>2. Fits(RateLimit[t], p, [counter[t][b] EXCEPT !.expires = now + Window], hs, now, b)
      BY <2>1, PairFits, FitsTTL
    <2>3. WithTTL(t, b)[t][b] = [counter[t][b] EXCEPT !.expires = now + Window]
      BY <1>2 DEF WithTTL, Expiring, LInv, IInv, Shapes
    <2> QED
      BY <2>2, <2>3
  <1> QED
    BY <1>1, <1>2

LEMMA LimitedHoldsNothing ==
    ASSUME NEW q \in Requested, q.answer = "none", q.call.tenant \in Tenants
    PROVE  /\ Admitted(q).step \notin {"incr", "expire"}
           /\ \A count : Limited(q, count).step \notin {"incr", "expire"}
  BY LimitedType, AdmittedType

(* A step of a request that leaves the keys alone.                         *)
LEMMA QuietStep ==
    ASSUME LInv, NEW r \in Requests, NEW q, Becomes(r, q), q.step # "expire",
           q.step = "incr" => InBucket(now, q.bucket),
           UNCHANGED <<counter, passed, now>>
    PROVE  Timed' /\ AllFit'
  <1>1. now \in Nat /\ now \in 0..now
    BY Numbers DEF LInv, IInv
  <1>2. q.step = "incr" => \E m \in 0..now : InBucket(m, q.bucket)
    BY <1>1
  <1>3. Timed'
    BY <1>2, TimedStep DEF LInv
  <1>4. ASSUME NEW t \in Tenants, NEW b \in Buckets
        PROVE  Fits(RateLimit[t], passed'[t][b], counter'[t][b], Holders(t, b)', now', b)
    <2>1. Holders(t, b)' \subseteq Holders(t, b)
      BY HoldsNothing DEF LInv
    <2>2. now' \in Nat /\ now <= now'
      BY <1>1
    <2> QED
      BY <2>1, <2>2, AsideFits
  <1> QED
    BY <1>3, <1>4 DEF AllFit

(* A step that changes no request.                                         *)
LEMMA ClockStep ==
    ASSUME LInv, UNCHANGED <<request, counter, passed>>, now' \in Nat, now <= now'
    PROVE  Timed' /\ AllFit'
  <1>1. now \in Nat
    BY Numbers DEF LInv, IInv
  <1>2. Timed'
    <2>1. \A m \in 0..now : m \in 0..now'
      BY <1>1
    <2> QED
      BY <2>1 DEF Timed, LInv
  <1>3. ASSUME NEW t \in Tenants, NEW b \in Buckets
        PROVE  Fits(RateLimit[t], passed'[t][b], counter'[t][b], Holders(t, b)', now', b)
    <2>1. Holders(t, b)' \subseteq Holders(t, b)
      BY DEF Holders
    <2> QED
      BY <2>1, AsideFits
  <1> QED
    BY <1>2, <1>3 DEF AllFit

LEMMA CountedElsewhere ==
    ASSUME Shapes, NEW q, NEW count, Counted(q, count), NEW u \in Tenants, NEW c \in Buckets,
           q.call.tenant # u \/ q.bucket # c
    PROVE  passed'[u][c] = passed[u][c]
  <1>1. CASE passed' = passed
    BY <1>1
  <1>2. CASE passed' = [passed EXCEPT ![q.call.tenant][q.bucket] = @ + 1]
    <2>1. passed \in [Tenants -> [Buckets -> Nat]]
      BY DEF Shapes
    <2> QED
      BY <1>2, <2>1
  <1> QED
    BY <1>1, <1>2 DEF Counted

LEMMA IncrStep ==
    ASSUME LInv, NEW r \in Requests, incr(r), NEW t \in Tenants, NEW b \in Buckets,
           t = request[r].call.tenant, b = request[r].bucket
    PROVE  Timed' /\ AllFit'
  <1> DEFINE q == [request[r] EXCEPT !.timely = (now \div Window = b)]
             k == Count(t, b)
             waits == [q EXCEPT !.step = "expire"]
             held == Holders(t, b)
             l == RateLimit[t]
             p == passed[t][b]
  <1>1. /\ request[r] \in Requested /\ request[r].step = "incr"
        /\ request[r].answer = "none"
        /\ \E m \in 0..now : InBucket(m, b)
    BY DEF incr, At, LInv, IInv, Shapes, RequestOK, Requested, Timed
  <1>2. /\ q \in Requested /\ q.answer = "none" /\ q.call.tenant = t /\ q.bucket = b
        /\ waits \in Requested /\ waits.call.tenant = t /\ waits.bucket = b
        /\ waits.step = "expire" /\ waits.timely = InBucket(now, b)
        /\ q.timely = InBucket(now, b)
    BY <1>1 DEF Requested, Steps, InBucket
  <1>3. /\ counter' = Incremented(t, b) /\ now' = now
        /\ \/ k + 1 = 1 /\ Becomes(r, waits) /\ passed' = passed
           \/ k + 1 # 1 /\ Becomes(r, Limited(q, k + 1)) /\ Counted(q, k + 1)
    BY DEF incr
  <1>4. now \in Nat /\ k \in Nat /\ Shapes
    BY <1>1, Numbers, CounterType DEF LInv, IInv
  <1> HIDE DEF q, waits, k
  <1>5. r \notin held
    BY <1>1 DEF Holders
  <1>6. Limited(q, k + 1).step \notin {"incr", "expire"}
    BY <1>1, <1>2, LimitedHoldsNothing
  <1>7. Timed'
    <2>1. CASE Becomes(r, waits)
      BY <1>1, <1>2, <1>3, <2>1, TimedStep DEF LInv
    <2>2. CASE Becomes(r, Limited(q, k + 1))
      BY <1>3, <1>6, <2>2, TimedStep DEF LInv
    <2> QED
      BY <1>3, <2>1, <2>2
  <1>8. ASSUME NEW u \in Tenants, NEW c \in Buckets, u # t \/ c # b
        PROVE  Fits(RateLimit[u], passed'[u][c], counter'[u][c], Holders(u, c)', now', c)
    <2>1. Holders(u, c)' \subseteq Holders(u, c)
      <3>1. CASE Becomes(r, waits)
        BY <1>2, <1>8, <3>1, HoldsElsewhere DEF LInv
      <3>2. CASE Becomes(r, Limited(q, k + 1))
        BY <1>6, <3>2, HoldsNothing DEF LInv
      <3> QED
        BY <1>3, <3>1, <3>2
    <2>2. counter'[u][c] = counter[u][c]
      BY <1>1, <1>3, <1>4, <1>8, CounterElsewhere
    <2>3. passed'[u][c] = passed[u][c]
      BY <1>2, <1>3, <1>8, CountedElsewhere DEF LInv, IInv
    <2>4. now' \in Nat /\ now <= now'
      BY <1>3, <1>4
    <2> QED
      BY <2>1, <2>2, <2>3, <2>4, AsideFits
  <1>9. /\ l \in Nat /\ p \in Nat
        /\ Fits(l, p, Incremented(t, b)[t][b], held, now, b)
        /\ InBucket(now, b) /\ k = 0 =>
              held = {} /\ Fits(l, p, Incremented(t, b)[t][b], {r}, now, b)
        /\ InBucket(now, b) /\ k # 0 /\ k + 1 <= l =>
              Fits(l, p + 1, Incremented(t, b)[t][b], held, now, b)
    <2>1. l \in Nat /\ p \in Nat /\ Fits(l, p, counter[t][b], held, now, b)
      BY PairFits
    <2> HIDE DEF l, p, held
    <2> QED
      BY <1>4, <2>1, IncrementedFits DEF k
  <1>10. Fits(l, passed'[t][b], counter'[t][b], Holders(t, b)', now', b)
    <2>1. CASE k + 1 = 1 /\ Becomes(r, waits) /\ passed' = passed
      <3>1. request'[r] = waits /\ \A s \in Requests \ {r} : request'[s] = request[s]
        BY <1>4, <2>1 DEF Becomes, Shapes
      <3>2. Holders(t, b)' = IF InBucket(now, b) THEN held \cup {r} ELSE held
        BY <1>2, <1>5, <3>1 DEF Holders
      <3>3. k = 0
        BY <1>4, <2>1
      <3>4. Fits(l, p, Incremented(t, b)[t][b], Holders(t, b)', now, b)
        <4>1. CASE InBucket(now, b)
          <5>1. Holders(t, b)' = {r}
            BY <1>9, <3>2, <3>3, <4>1
          <5> QED
            BY <1>9, <3>3, <4>1, <5>1
        <4>2. CASE ~InBucket(now, b)
          BY <1>9, <3>2, <4>2
        <4> QED
          BY <4>1, <4>2
      <3> QED
        BY <1>3, <2>1, <3>4
    <2>2. CASE k + 1 # 1 /\ Becomes(r, Limited(q, k + 1)) /\ Counted(q, k + 1)
      <3>1. Holders(t, b)' = held
        <4>1. Holders(t, b)' = held \ {r}
          BY <1>6, <2>2, HoldsNothing DEF LInv
        <4> QED
          BY <1>5, <4>1
      <3>2. k # 0
        BY <2>2
      <3>3. CASE InBucket(now, b) /\ k + 1 <= l
        <4>1. passed'[t][b] = p + 1
          BY <1>1, <1>2, <1>4, <2>2, <3>3 DEF Counted, Shapes
        <4> QED
          BY <1>3, <1>9, <3>1, <3>2, <3>3, <4>1
      <3>4. CASE ~(InBucket(now, b) /\ k + 1 <= l)
        <4>1. passed' = passed
          BY <1>2, <2>2, <3>4 DEF Counted
        <4> QED
          BY <1>3, <1>9, <3>1, <4>1
      <3> QED
        BY <3>3, <3>4
    <2> QED
      BY <1>3, <2>1, <2>2
  <1> QED
    BY <1>7, <1>8, <1>10 DEF AllFit

LEMMA ExpireStep ==
    ASSUME LInv, NEW r \in Requests, expire(r), NEW t \in Tenants, NEW b \in Buckets,
           t = request[r].call.tenant, b = request[r].bucket
    PROVE  Timed' /\ AllFit'
  <1> DEFINE q == request[r]
             held == Holders(t, b)
             l == RateLimit[t]
             p == passed[t][b]
  <1>1. q \in Requested /\ q.step = "expire" /\ q.answer = "none"
    BY DEF expire, At, LInv, IInv, Shapes, RequestOK, Requested
  <1>2. /\ counter' = WithTTL(t, b) /\ now' = now
        /\ Becomes(r, Limited(q, 1)) /\ Counted(q, 1)
    BY DEF expire
  <1>3. now \in Nat /\ Shapes
    BY Numbers DEF LInv, IInv
  <1>4. Limited(q, 1).step \notin {"incr", "expire"}
    BY <1>1, LimitedHoldsNothing
  <1>5. Timed'
    BY <1>2, <1>4, TimedStep DEF LInv
  <1>6. \A u, c : Holders(u, c)' = Holders(u, c) \ {r}
    BY <1>2, <1>4, HoldsNothing DEF LInv
  <1>7. ASSUME NEW u \in Tenants, NEW c \in Buckets, u # t \/ c # b
        PROVE  Fits(RateLimit[u], passed'[u][c], counter'[u][c], Holders(u, c)', now', c)
    <2>1. counter'[u][c] = counter[u][c]
      BY <1>1, <1>2, <1>3, <1>7, CounterElsewhere
    <2>2. passed'[u][c] = passed[u][c]
      BY <1>1, <1>2, <1>7, CountedElsewhere DEF LInv, IInv
    <2>3. now' \in Nat /\ now <= now' /\ Holders(u, c)' \subseteq Holders(u, c)
      BY <1>2, <1>3, <1>6
    <2> QED
      BY <2>1, <2>2, <2>3, AsideFits
  <1>8. /\ l \in Nat /\ p \in Nat /\ counter[t][b] \in Counters
        /\ Fits(l, p, counter[t][b], held, now, b)
    BY <1>1, PairFits
  <1>9. /\ WithTTL(t, b)[t][b] \in Counters
        /\ Fits(l, p, WithTTL(t, b)[t][b], held, now, b)
    <2>1. WithTTL(t, b)[t][b] \in Counters
      BY <1>3, CounterType
    <2>2. Fits(l, p, WithTTL(t, b)[t][b], held, now, b)
      BY <1>1, <1>8, WithTTLFits
    <2> QED
      BY <2>1, <2>2
  <1>10. Fits(l, passed'[t][b], counter'[t][b], Holders(t, b)', now', b)
    <2>1. CASE q.timely
      <3>1. r \in held
        BY <1>1, <2>1 DEF Holders
      <3>2. passed'[t][b] = IF 1 <= l THEN p + 1 ELSE p
        BY <1>1, <1>2, <1>3, <2>1 DEF Counted, Shapes
      <3>3. Fits(l, IF 1 <= l THEN p + 1 ELSE p, WithTTL(t, b)[t][b], held \ {r}, now, b)
        BY <1>3, <1>8, <1>9, <3>1, FitsTaken
      <3> QED
        BY <1>2, <1>6, <3>2, <3>3
    <2>2. CASE ~q.timely
      <3>1. passed' = passed
        BY <1>2, <2>2 DEF Counted
      <3>2. Holders(t, b)' = held
        <4>1. r \notin held
          BY <2>2 DEF Holders
        <4> QED
          BY <1>6, <4>1
      <3> QED
        BY <1>2, <1>9, <3>1, <3>2
    <2> QED
      BY <2>1, <2>2
  <1> QED
    BY <1>5, <1>7, <1>10 DEF AllFit

LEMMA LimiterFailsStep ==
    ASSUME LInv, NEW r \in Requests, LimiterFails(r), NEW t \in Tenants, NEW b \in Buckets,
           t = request[r].call.tenant, b = request[r].bucket
    PROVE  Timed' /\ AllFit'
  <1> DEFINE q == request[r]
  <1>1. q \in Requested /\ q.answer = "none"
    BY DEF LimiterFails, At, LInv, IInv, Shapes, RequestOK, Requested
  <1>2. /\ \/ counter' = counter
           \/ counter' = Incremented(t, b)
           \/ q.step = "expire" /\ counter' = WithTTL(t, b)
        /\ passed' = passed /\ now' = now /\ Becomes(r, Admitted(q))
    BY DEF LimiterFails, At
  <1>3. now \in Nat /\ Shapes
    BY Numbers DEF LInv, IInv
  <1>4. Admitted(q).step \notin {"incr", "expire"}
    BY <1>1, LimitedHoldsNothing
  <1>5. Timed'
    BY <1>2, <1>4, TimedStep DEF LInv
  <1>6. \A u, c : Holders(u, c)' \subseteq Holders(u, c)
    BY <1>2, <1>4, HoldsNothing DEF LInv
  <1>7. ASSUME NEW u \in Tenants, NEW c \in Buckets, u # t \/ c # b
        PROVE  Fits(RateLimit[u], passed'[u][c], counter'[u][c], Holders(u, c)', now', c)
    <2>1. counter'[u][c] = counter[u][c]
      BY <1>1, <1>2, <1>3, <1>7, CounterElsewhere
    <2>2. now' \in Nat /\ now <= now' /\ passed'[u][c] = passed[u][c]
      BY <1>2, <1>3
    <2> QED
      BY <1>6, <2>1, <2>2, AsideFits
  <1>8. /\ RateLimit[t] \in Nat /\ passed[t][b] \in Nat /\ counter[t][b] \in Counters
        /\ Fits(RateLimit[t], passed[t][b], counter[t][b], Holders(t, b), now, b)
    BY <1>1, PairFits
  <1>9. /\ counter'[t][b] \in Counters
        /\ Fits(RateLimit[t], passed[t][b], counter'[t][b], Holders(t, b), now, b)
    <2>1. CASE counter' = counter
      BY <1>8, <2>1
    <2>2. CASE counter' = Incremented(t, b)
      <3>1. Incremented(t, b)[t][b] \in Counters
        BY <1>3, CounterType
      <3>2. Fits(RateLimit[t], passed[t][b], Incremented(t, b)[t][b], Holders(t, b), now, b)
        BY <1>3, <1>8, IncrementedFits
      <3> QED
        BY <2>2, <3>1, <3>2
    <2>3. CASE q.step = "expire" /\ counter' = WithTTL(t, b)
      <3>1. WithTTL(t, b)[t][b] \in Counters
        BY <1>3, CounterType
      <3>2. Fits(RateLimit[t], passed[t][b], WithTTL(t, b)[t][b], Holders(t, b), now, b)
        BY <1>8, <2>3, WithTTLFits
      <3> QED
        BY <2>3, <3>1, <3>2
    <2> QED
      BY <1>2, <2>1, <2>2, <2>3
  <1>10. Fits(RateLimit[t], passed'[t][b], counter'[t][b], Holders(t, b)', now', b)
    <2> DEFINE l == RateLimit[t]
               p == passed[t][b]
               c == counter'[t][b]
               held == Holders(t, b)
               kept == Holders(t, b)'
    <2>1. /\ l \in Nat /\ p \in Nat /\ c \in Counters /\ kept \subseteq held
          /\ Fits(l, p, c, held, now, b)
      BY <1>6, <1>8, <1>9
    <2>2. now \in Nat /\ now <= now
      BY <1>3
    <2>3. passed'[t][b] = p /\ now' = now
      BY <1>2
    <2> HIDE DEF l, p, c, held, kept
    <2>4. Fits(l, p, c, kept, now, b)
      BY <2>1, <2>2, FitsLater
    <2> QED
      BY <2>3, <2>4 DEF l, c, kept
  <1> QED
    BY <1>5, <1>7, <1>10 DEF AllFit

LEMMA Leaves ==
    /\ \A q, code : Refused(q, code).step = "answered"
    /\ \A q \in Requested : \A code :
          /\ Answered(q, code).step = "answered"
          /\ Dispatch(q).step \in {"enqueue", "run"}
  BY DEF Refused, NoRequest, Answered, Dispatch, Requested

LEMMA LimitStep ==
    ASSUME LInv, [Next]_vars
    PROVE  Timed' /\ AllFit'
  <1> USE DEF At
  <1>1. ASSUME NEW r \in Requests, NEW call \in Calls, auth(r, call)
        PROVE  Timed' /\ AllFit'
    <2>1. UNCHANGED <<counter, passed, now>>
      BY <1>1 DEF auth
    <2> DEFINE asked == [NoRequest EXCEPT !.call = call, !.step = "incr",
                                          !.bucket = now \div Window]
    <2>2. \E q : /\ Becomes(r, q) /\ q.step # "expire"
                 /\ q.step = "incr" => InBucket(now, q.bucket)
      <3>1. CASE \E q, code : Becomes(r, Refused(q, code))
        BY <3>1, Leaves
      <3>2. CASE Becomes(r, asked)
        <4>1. asked.step = "incr" /\ asked.bucket = now \div Window
          BY DEF NoRequest
        <4> QED
          BY <3>2, <4>1 DEF InBucket
      <3> QED
        BY <1>1, <3>1, <3>2 DEF auth
    <2> QED
      BY <2>1, <2>2, QuietStep
  <1>2. ASSUME NEW r \in Requests, upload(r) \/ enqueue(r) \/ sendAccepted(r)
                                   \/ ReplyLost(r) \/ EnqueueFails(r) \/ runPipeline(r)
                                   \/ getStatus(r)
        PROVE  Timed' /\ AllFit'
    <2>1. UNCHANGED <<counter, passed, now>>
      BY <1>2
      DEF upload, enqueue, sendAccepted, ReplyLost, EnqueueFails, runPipeline, getStatus
    <2>2. request[r] \in Requested
      BY DEF LInv, IInv, Shapes
    <2>3. \E q : Becomes(r, q) /\ q.step \notin {"incr", "expire"}
      BY <1>2, <2>2, Leaves
      DEF upload, enqueue, sendAccepted, ReplyLost, EnqueueFails, runPipeline, getStatus,
          Requested
    <2> QED
      BY <2>1, <2>3, QuietStep
  <1>4. CASE \/ shutdown \/ Drained \/ closeStores \/ Forced
             \/ RedisDown \/ RedisUp \/ UNCHANGED vars
    <2>1. UNCHANGED <<request, counter, passed, now>>
      BY <1>4
      DEF shutdown, Drained, closeStores, Forced, Moves, RedisDown, RedisUp, vars
    <2>2. now \in Nat
      BY Numbers DEF LInv, IInv
    <2>3. now' \in Nat /\ now <= now'
      BY <2>1, <2>2
    <2> QED
      BY <2>1, <2>3, ClockStep
  <1>5. CASE Tick
    <2>1. now \in Nat /\ now' = now + 1 /\ UNCHANGED <<request, counter, passed>>
      BY <1>5, Numbers DEF Tick, LInv, IInv
    <2>2. now' \in Nat /\ now <= now'
      BY <2>1
    <2> QED
      BY <2>1, <2>2, ClockStep
  <1>6. ASSUME NEW r \in Requests, incr(r) \/ expire(r) \/ LimiterFails(r)
        PROVE  Timed' /\ AllFit'
    <2>1. /\ request[r] \in Requested /\ request[r].step \in {"incr", "expire"}
          /\ request[r].call.tenant \in Tenants
      BY <1>6 DEF incr, expire, LimiterFails, LInv, IInv, Shapes, RequestOK
    <2>2. PICK t \in Tenants, b \in Buckets :
              t = request[r].call.tenant /\ b = request[r].bucket
      BY <2>1 DEF Requested
    <2> QED
      BY <1>6, <2>2, IncrStep, ExpireStep, LimiterFailsStep
  <1> QED
    BY <1>1, <1>2, <1>4, <1>5, <1>6 DEF Next, Handle

(* In each window a tenant gets no more requests through than its limit,   *)
(* whatever its requests, the clock and Redis do.                          *)
THEOREM NeverOverTheLimit == Spec => []WithinLimit
  <1>1. Init => LInv
    <2> SUFFICES ASSUME Init PROVE LInv
      OBVIOUS
    <2>1. IInv
      BY IInvInit
    <2>2. Timed /\ \A t, b : Holders(t, b) = {}
      BY DEF Init, Timed, Holders, NoRequest
    <2>3. \A m \in 0..MaxTime : m < Never
      BY GatewayAssumption DEF Never
    <2>4. ASSUME NEW t \in Tenants, NEW b \in Buckets
          PROVE  Fits(RateLimit[t], passed[t][b], counter[t][b], Holders(t, b), now, b)
      <3>1. passed[t][b] = 0 /\ counter[t][b] = [count |-> 0, expires |-> Never]
        BY DEF Init
      <3>2. RateLimit[t] \in Nat
        BY GatewayAssumption
      <3> QED
        BY <2>2, <2>3, <3>1, <3>2 DEF Fits
    <2> QED
      BY <2>1, <2>2, <2>4 DEF LInv, AllFit
  <1>2. LInv /\ [Next]_vars => LInv'
    BY IInvStep, LimitStep DEF LInv
  <1>3. LInv => WithinLimit
    BY DEF LInv, AllFit, Fits, WithinLimit
  <1> QED
    BY <1>1, <1>2, <1>3, PTL DEF Spec

=============================================================================
