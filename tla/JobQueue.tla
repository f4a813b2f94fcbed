------------------------------ MODULE JobQueue ------------------------------
(***************************************************************************)
(* The asynchronous path: the web process adds jobs to a BullMQ queue and  *)
(* reads their status (jobs/queue.ts), worker processes take and run them  *)
(* (jobs/worker.ts, worker.ts).  BullMQ over Redis is modelled from how    *)
(* the code uses it: it delivers a job to one worker at a time under a     *)
(* lock that expires when its worker crashed or did not renew it; a check  *)
(* the workers make from time to time finds the active jobs without a lock *)
(* and delivers them again, or fails those it found more than              *)
(* MaxStalledCount times.                                                  *)
(***************************************************************************)
EXTENDS Naturals, FiniteSets

CONSTANTS
    Jobs,
    Workers,            \* worker processes
    Pollers,            \* status requests under way
    Tenants,
    JobTenant,          \* job -> the tenant that submitted it
    OcrErrorCode,       \* the typed codes a run may throw
    Concurrency,        \* WORKER_CONCURRENCY
    MaxStalledCount,    \* BullMQ's default: the code sets none
    MaxCrashes,         \* bound: worker crashes in a behaviour
    MaxSignals          \* bound: SIGTERMs in a behaviour

VARIABLES
    job,        \* job -> its hash and state in Redis
    lock,       \* job -> the delivery that holds its lock, 0 if none does
    running,    \* the executions a worker holds: [job, token, worker]
    worker,     \* worker -> "up", "closing" or "down"
    poll,       \* poller -> the status request it makes
    outcome,    \* job, token -> what the run of that delivery came to, "none"
                \* before it settles, "dropped" once the queue refused or
                \* forgot it (history)
    crashes,    \* bounds the crashes (history)
    signals     \* bounds the signals (history)

vars == <<job, lock, running, worker, poll, outcome, crashes, signals>>

ASSUME JobQueueAssumption ==
    /\ Concurrency \in Nat \ {0}
    /\ MaxStalledCount \in Nat
    /\ MaxCrashes \in Nat
    /\ MaxSignals \in Nat
    /\ "EXTRACTION_FAILED" \in OcrErrorCode
    /\ OcrErrorCode \subseteq STRING
    /\ {"none", "raw", "untyped", "result", "dropped"} \cap OcrErrorCode = {}
    /\ JobTenant \in [Jobs -> Tenants]

(* A delivery of a job carries a token, which its worker puts in the lock  *)
(* of the job.  Its run has not settled ("none"), returned a result, threw *)
(* an OcrError of some code, or threw another error ("untyped").           *)
Token == 1..(MaxStalledCount + 1)
Executions == [job : Jobs, token : Token, worker : Workers]
Settled == OcrErrorCode \cup {"untyped", "result"}

NewJob == [state |-> "absent", token |-> 0, stalls |-> 0,
           returnvalue |-> "none", failedReason |-> "none"]

-----------------------------------------------------------------------------
(* The error code across the queue.  A job keeps a message only: "CODE:    *)
(* text", which stands here for its code, or "raw", one with no code in    *)
(* it.  A message without a known code, and a missing one, decode to       *)
(* EXTRACTION_FAILED.                                                      *)

(* A mutant of failureOf: the error is rethrown as it is. *)
failureOfRaw(thrown) == "raw"

(* The message of the error the processor throws: encodeJobError's for an  *)
(* OcrError.                                                               *)
failureOf(thrown) == IF thrown \in OcrErrorCode THEN thrown ELSE "raw"

decodeJobError(reason) ==
    IF reason \in OcrErrorCode THEN reason ELSE "EXTRACTION_FAILED"

toStatus(state) ==
    IF state \in {"completed", "failed", "active"} THEN state ELSE "queued"

-----------------------------------------------------------------------------

NoRecord == [status |-> "none", result |-> "none", error |-> "none"]
NotFound == [NoRecord EXCEPT !.status = "NOT_FOUND"]
Idle == [step |-> "idle", tenant |-> "none", job |-> "none", hash |-> NewJob,
         record |-> NoRecord]

Init ==
    /\ job = [j \in Jobs |-> NewJob]
    /\ lock = [j \in Jobs |-> 0]
    /\ running = {}
    /\ worker = [w \in Workers |-> "up"]
    /\ poll = [p \in Pollers |-> Idle]
    /\ outcome = [j \in Jobs |-> [t \in Token |-> "none"]]
    /\ crashes = 0
    /\ signals = 0

enqueue(j) ==
    /\ job[j].state = "absent"
    /\ job' = [job EXCEPT ![j].state = "waiting"]
    /\ UNCHANGED <<lock, running, worker, poll, outcome, crashes, signals>>

(* BullMQ hands a waiting job, and its lock, to a worker with a free slot, *)
(* which calls processJob.                                                 *)
Take(w, j) ==
    /\ worker[w] = "up"
    /\ Cardinality({e \in running : e.worker = w}) < Concurrency
    /\ job[j].state = "waiting"
    /\ job' = [job EXCEPT ![j].state = "active", ![j].token = @ + 1]
    /\ lock' = [lock EXCEPT ![j] = job[j].token + 1]
    /\ running' = running \cup
                    {[job |-> j, token |-> job[j].token + 1, worker |-> w]}
    /\ UNCHANGED <<worker, poll, outcome, crashes, signals>>

(* runPipeline returns or throws. *)
processJob(e) ==
    /\ outcome[e.job][e.token] = "none"
    /\ \E o \in Settled : outcome' = [outcome EXCEPT ![e.job][e.token] = o]
    /\ UNCHANGED <<job, lock, running, worker, poll, crashes, signals>>

HoldsLock(e) == lock[e.job] = e.token

(* A mutant of Ended: a job that failed is tried again. *)
EndedOrRetried(hash, o) ==
    IF o = "result"
    THEN [hash EXCEPT !.state = "completed", !.returnvalue = "result"]
    ELSE [hash EXCEPT !.state = "waiting"]

(* The hash of a job that ends with outcome o. *)
Ended(hash, o) ==
    IF o = "result"
    THEN [hash EXCEPT !.state = "completed", !.returnvalue = "result"]
    ELSE [hash EXCEPT !.state = "failed", !.failedReason = failureOf(o)]

(* A mutant of Report: the lock is not checked. *)
ReportAnyway(e) ==
    /\ outcome[e.job][e.token] # "none"
    /\ job' = [job EXCEPT ![e.job] = Ended(@, outcome[e.job][e.token])]
    /\ lock' = [lock EXCEPT ![e.job] = 0]
    /\ running' = running \ {e}
    /\ UNCHANGED <<worker, poll, outcome, crashes, signals>>

(* A mutant of Report: a worker that lost the lock keeps its slot. *)
ReportIfHeld(e) ==
    /\ outcome[e.job][e.token] # "none"
    /\ HoldsLock(e)
    /\ job' = [job EXCEPT ![e.job] = Ended(@, outcome[e.job][e.token])]
    /\ lock' = [lock EXCEPT ![e.job] = 0]
    /\ running' = running \ {e}
    /\ UNCHANGED <<worker, poll, outcome, crashes, signals>>

(* BullMQ stores the outcome if the worker still holds the job's lock and  *)
(* frees the lock.  Otherwise it refuses the update: the outcome is        *)
(* dropped, and a job no other worker has taken stays active, run by none. *)
Report(e) ==
    /\ outcome[e.job][e.token] # "none"
    /\ IF HoldsLock(e)
       THEN /\ job' = [job EXCEPT ![e.job] = Ended(@, outcome[e.job][e.token])]
            /\ lock' = [lock EXCEPT ![e.job] = 0]
            /\ UNCHANGED outcome
       ELSE /\ outcome' = [outcome EXCEPT ![e.job][e.token] = "dropped"]
            /\ UNCHANGED <<job, lock>>
    /\ running' = running \ {e}
    /\ UNCHANGED <<worker, poll, crashes, signals>>

(* The hash of a job found stalled: delivered again, or failed. *)
Stalled(hash) ==
    IF hash.stalls < MaxStalledCount
    THEN [hash EXCEPT !.stalls = @ + 1, !.state = "waiting"]
    ELSE [hash EXCEPT !.stalls = @ + 1, !.state = "failed", !.failedReason = "raw"]

(* The lock outlives lockDuration, because its worker is gone or too busy  *)
(* to renew it.  A worker that renews it too late is refused.              *)
LockExpires(j) ==
    /\ lock[j] # 0
    /\ lock' = [lock EXCEPT ![j] = 0]
    /\ UNCHANGED <<job, running, worker, poll, outcome, crashes, signals>>

IsStalled(j) ==
    /\ job[j].state = "active"
    /\ lock[j] = 0
    /\ \E w \in Workers : worker[w] = "up"

(* A mutant of Stall: a stalled job is delivered again without end. *)
StallWithoutEnd(j) ==
    /\ IsStalled(j)
    /\ job' = [job EXCEPT ![j].stalls = @ + 1, ![j].state = "waiting"]
    /\ UNCHANGED <<lock, running, worker, poll, outcome, crashes, signals>>

(* The stalled check, which a worker makes until it closes, finds an       *)
(* active job without a lock.                                              *)
Stall(j) ==
    /\ IsStalled(j)
    /\ job' = [job EXCEPT ![j] = Stalled(@)]
    /\ UNCHANGED <<lock, running, worker, poll, outcome, crashes, signals>>

(* removeOnComplete and removeOnFail: by age, or by number of jobs. *)
Remove(j) ==
    /\ job[j].state \in {"completed", "failed"}
    /\ job' = [job EXCEPT ![j] = [NewJob EXCEPT !.state = "removed"]]
    /\ outcome' = [outcome EXCEPT ![j] =
                      [t \in Token |-> IF @[t] = "none" THEN "none" ELSE "dropped"]]
    /\ UNCHANGED <<lock, running, worker, poll, crashes, signals>>

Crash(w) ==
    /\ worker[w] # "down"
    /\ crashes < MaxCrashes
    /\ crashes' = crashes + 1
    /\ worker' = [worker EXCEPT ![w] = "down"]
    /\ running' = {e \in running : e.worker # w}
    /\ UNCHANGED <<job, lock, poll, outcome, signals>>

Restart(w) ==
    /\ worker[w] = "down"
    /\ worker' = [worker EXCEPT ![w] = "up"]
    /\ UNCHANGED <<job, lock, running, poll, outcome, crashes, signals>>

(* SIGTERM or SIGINT: worker.close() takes no more jobs. *)
shutdown(w) ==
    /\ worker[w] = "up"
    /\ signals < MaxSignals
    /\ signals' = signals + 1
    /\ worker' = [worker EXCEPT ![w] = "closing"]
    /\ UNCHANGED <<job, lock, running, poll, outcome, crashes>>

(* A mutant of exit: the process does not wait for its jobs. *)
exitAtOnce(w) ==
    /\ worker[w] = "closing"
    /\ worker' = [worker EXCEPT ![w] = "down"]
    /\ running' = {e \in running : e.worker # w}
    /\ UNCHANGED <<job, lock, poll, outcome, crashes, signals>>

(* worker.close() resolves once its jobs are done, and the process exits. *)
exit(w) ==
    /\ worker[w] = "closing"
    /\ \A e \in running : e.worker # w
    /\ worker' = [worker EXCEPT ![w] = "down"]
    /\ UNCHANGED <<job, lock, running, poll, outcome, crashes, signals>>

-----------------------------------------------------------------------------
(* GET /jobs/:id.  getStatus awaits the job's hash, then its state.        *)

Exists(j) == job[j].state \notin {"absent", "removed"}

(* The request of a tenant for a job, and request q answered with a record. *)
Asked(t, j) == [Idle EXCEPT !.tenant = t, !.job = j]

Answered(q, record) ==
    [q EXCEPT !.step = "answered", !.hash = NewJob, !.record = record]

getJob(p) ==
    /\ poll[p].step = "idle"
    /\ \E t \in Tenants, j \in {k \in Jobs : job[k].state # "absent"} :
          poll' = [poll EXCEPT ![p] =
                      IF Exists(j)
                      THEN [Asked(t, j) EXCEPT !.step = "state", !.hash = job[j]]
                      ELSE Answered(Asked(t, j), NotFound)]
    /\ UNCHANGED <<job, lock, running, worker, outcome, crashes, signals>>

(* The record made of the hash read before and the state read now. *)
recordOf(hash, state) ==
    LET status == toStatus(state) IN
    [status |-> status,
     result |-> IF status = "completed" THEN hash.returnvalue ELSE "none",
     error  |-> IF status = "failed" THEN decodeJobError(hash.failedReason) ELSE "none"]

(* A mutant of getState: the route does not compare the tenants. *)
getStateAnyTenant(p) ==
    LET j == poll[p].job IN
    /\ poll[p].step = "state"
    /\ poll' = [poll EXCEPT
                   ![p] = Answered(poll[p], recordOf(poll[p].hash, job[j].state))]
    /\ UNCHANGED <<job, lock, running, worker, outcome, crashes, signals>>

(* The route hides the record of another tenant's job. *)
getState(p) ==
    LET j == poll[p].job IN
    /\ poll[p].step = "state"
    /\ poll' = [poll EXCEPT
                   ![p] = Answered(poll[p], IF JobTenant[j] = poll[p].tenant
                                            THEN recordOf(poll[p].hash, job[j].state)
                                            ELSE NotFound)]
    /\ UNCHANGED <<job, lock, running, worker, outcome, crashes, signals>>

-----------------------------------------------------------------------------

Next ==
    \/ \E j \in Jobs : enqueue(j) \/ LockExpires(j) \/ Stall(j) \/ Remove(j)
    \/ \E w \in Workers, j \in Jobs : Take(w, j)
    \/ \E e \in running : processJob(e) \/ Report(e)
    \/ \E w \in Workers : Crash(w) \/ Restart(w) \/ shutdown(w) \/ exit(w)
    \/ \E p \in Pollers : getJob(p) \/ getState(p)

(* No worker runs the last delivery of an active job. *)
Orphaned(j) ==
    /\ job[j].state = "active"
    /\ \A e \in running : e.job # j \/ e.token # job[j].token

(* A process that is down is started again and one that drained exits; a   *)
(* waiting job is taken, a run ends, its outcome is stored or refused, the *)
(* lock of a job that no worker runs expires, and BullMQ's stalled check   *)
(* finds the job.                                                          *)
Fairness ==
    /\ \A w \in Workers : WF_vars(Restart(w)) /\ WF_vars(exit(w))
    /\ \A e \in Executions :
          /\ WF_vars(e \in running /\ processJob(e))
          /\ WF_vars(e \in running /\ Report(e))
    /\ \A j \in Jobs :
          /\ WF_vars(\E w \in Workers : Take(w, j))
          /\ WF_vars(Orphaned(j) /\ LockExpires(j))
          /\ WF_vars(Stall(j))

Spec == Init /\ [][Next]_vars /\ Fairness

-----------------------------------------------------------------------------

Reasons == OcrErrorCode \cup {"none", "raw"}
Hashes == [state : {"absent", "waiting", "active", "completed", "failed", "removed"},
           token : {0} \cup Token,
           stalls : {0} \cup Token,
           returnvalue : {"none", "result"},
           failedReason : Reasons]
Records == [status : {"queued", "active", "completed", "failed"},
            result : {"none", "result"},
            error : {"none"} \cup OcrErrorCode]

(* A job is delivered at most once more than it may stall, and a poller is *)
(* told one of the four statuses of jobs/queue.ts.                         *)
TypeOK ==
    /\ job \in [Jobs -> Hashes]
    /\ lock \in [Jobs -> {0} \cup Token]
    /\ running \subseteq Executions
    /\ worker \in [Workers -> {"up", "closing", "down"}]
    /\ \A p \in Pollers :
          /\ poll[p].step \in {"idle", "state", "answered"}
          /\ poll[p].hash \in Hashes
          /\ poll[p].record \in Records \cup {NoRecord, NotFound}
    /\ outcome \in [Jobs -> [Token -> Settled \cup {"none", "dropped"}]]
    /\ crashes \in 0..MaxCrashes
    /\ signals \in 0..MaxSignals

(* A job ends as the run of its last delivery did, with the code that run  *)
(* threw, whatever the workers that lost its lock came to; only a job      *)
(* given up as stalled failed without its run throwing.                    *)
EndsAsItsLastDelivery ==
    \A j \in Jobs :
        LET o == outcome[j][job[j].token] IN
        /\ job[j].state = "completed" => o = "result"
        /\ job[j].state = "failed" /\ job[j].stalls <= MaxStalledCount =>
              /\ o \in Settled \ {"result"}
              /\ o \in OcrErrorCode => decodeJobError(job[j].failedReason) = o

(* The pipeline, and with it the metrics and the tenant's usage row, counts *)
(* a job once per delivery: a job that never stalled is counted exactly    *)
(* once when it ends, and one that did at most once more for each stall,   *)
(* also if the run that stalled had settled (pipeline.ts:149, 166).        *)
CountedOncePerDelivery ==
    \A j \in Jobs : job[j].state \notin {"absent", "removed"} =>
        LET counted == {t \in Token : outcome[j][t] # "none"} IN
        /\ Cardinality(counted) <= job[j].stalls + 1
        /\ job[j].state \in {"completed", "failed"} =>
              counted # {} \/ job[j].stalls > MaxStalledCount

(* Stopping a worker process with a signal takes no run from its job: an   *)
(* active job has nobody running it only after a crash, or when its run    *)
(* did end but reported it after the lock had expired and before a stalled *)
(* check; that job has no lock, so the next check finds it, but the worker *)
(* that ran it may drain and exit first (worker.ts:24, docs/runbook.md:115 *)
(* "The worker drains its active jobs").                                   *)
OrphanedByCrashOrLateReport ==
    \A j \in Jobs : Orphaned(j) =>
        \/ crashes > 0
        \/ outcome[j][job[j].token] = "dropped" /\ lock[j] = 0

IsTold(p) == poll[p].step = "state" /\ poll'[p].step = "answered"

(* What a poller is told of a job's end is true and of its own tenant's    *)
(* job: one told "completed" did complete, one told "failed" did fail, a   *)
(* result is of a completed job and a typed code the one it failed with.   *)
(* Whether the result and the code are told is not claimed.                *)
PolledEndIsTrue ==
    [][\A p \in Pollers : IsTold(p) /\ poll'[p].record # NotFound =>
          LET record == poll'[p].record
              hash == job[poll[p].job]
          IN  /\ JobTenant[poll[p].job] = poll[p].tenant
              /\ record.status = "completed" => hash.returnvalue = "result"
              /\ record.status = "failed" => hash.failedReason # "none"
              /\ record.result # "none" => hash.returnvalue = record.result
              /\ record.error \notin {"none", "EXTRACTION_FAILED"} =>
                    record.error = hash.failedReason]_vars

(* The code a poller is told is the one the job failed with                *)
(* (docs/runbook.md:108-109).                                              *)
PolledFailureIsTyped ==
    [][\A p \in Pollers : IsTold(p) /\ poll'[p].record.status = "failed" =>
          poll'[p].record.error = decodeJobError(job[poll[p].job].failedReason)]_vars

(* A submitted job ends, whatever workers crash or are stopped: the slots  *)
(* of lost deliveries come free and orphaned jobs are found.  A worker's   *)
(* drain ends too, though nothing forces it (worker.ts:24): the runs it    *)
(* waits for do, those whose lock it lost included.                        *)
EveryJobEnds ==
    /\ \A j \in Jobs : job[j].state = "waiting" ~>
                           job[j].state \in {"completed", "failed", "removed"}
    /\ \A w \in Workers : worker[w] = "closing" ~> worker[w] # "closing"

(* The queue implements the job contract: a job ends once and how it ended *)
(* is never changed by a worker that lost its lock.                        *)
PhaseOf(state) ==
    CASE state = "absent" -> "none"
      [] state = "waiting" -> "queued"
      [] state = "active" -> "active"
      [] state \in {"completed", "failed"} -> "ended"
      [] state = "removed" -> "gone"

EndingOf(hash) ==
    CASE hash.returnvalue # "none" -> hash.returnvalue
      [] hash.failedReason # "none" -> decodeJobError(hash.failedReason)
      [] OTHER -> "none"

Phase == [j \in Jobs |-> PhaseOf(job[j].state)]
Ending == [j \in Jobs |-> EndingOf(job[j])]

Contract == INSTANCE JobContract WITH
    Answers <- OcrErrorCode \cup {"result"}, phase <- Phase, answer <- Ending

ImplementsContract == Contract!Spec

=============================================================================
