--------------------------- MODULE JobQueueProofs ---------------------------
(***************************************************************************)
(* Proofs about the queue and its workers, for every set of jobs, workers  *)
(* and pollers and any number of stalls, crashes and signals.              *)
(***************************************************************************)
EXTENDS JobQueue, FiniteSetTheorems, TLAPS

Told == Records \cup {NoRecord, NotFound}
Polls == [step : {"idle", "state", "answered"}, tenant : Tenants \cup {"none"},
          job : Jobs \cup {"none"}, hash : Hashes, record : Told]

(* A job is delivered once more for each stall.                            *)
HashOK(h) ==
    /\ h.state \in {"absent", "removed"} => h = [NewJob EXCEPT !.state = h.state]
    /\ h.state = "waiting" => h.token = h.stalls /\ h.stalls <= MaxStalledCount
    /\ h.state = "active" => h.token = h.stalls + 1 /\ h.stalls <= MaxStalledCount
    /\ h.state = "completed" => h.token = h.stalls + 1 /\ h.stalls <= MaxStalledCount
    /\ h.state = "failed" =>
          \/ h.token = h.stalls + 1 /\ h.stalls <= MaxStalledCount
          \/ h.token = h.stalls /\ h.stalls = MaxStalledCount + 1
    /\ h.returnvalue = IF h.state = "completed" THEN "result" ELSE "none"
    /\ h.failedReason # "none" <=> h.state = "failed"

Shapes ==
    /\ job \in [Jobs -> Hashes]
    /\ \A j \in Jobs : HashOK(job[j])
    /\ lock \in [Jobs -> {0} \cup Token]
    /\ running \subseteq Executions
    /\ worker \in [Workers -> {"up", "closing", "down"}]
    /\ poll \in [Pollers -> Polls]
    /\ outcome \in [Jobs -> [Token -> Settled \cup {"none", "dropped"}]]
    /\ crashes \in 0..MaxCrashes
    /\ signals \in 0..MaxSignals

(* The deliveries there were of a job that is not gone are those up to its *)
(* token, and each is run by one worker at most.                           *)
Forgotten(j) == job[j].state = "removed"

Deliveries ==
    /\ \A e \in running :
          /\ job[e.job].state # "absent"
          /\ ~Forgotten(e.job) => e.token <= job[e.job].token
    /\ \A e, f \in running : e.job = f.job /\ e.token = f.token => e = f
    /\ \A j \in Jobs, t \in Token : outcome[j][t] # "none" =>
          /\ job[j].state # "absent"
          /\ ~Forgotten(j) => t <= job[j].token
    /\ \A j \in Jobs : lock[j] # 0 => outcome[j][lock[j]] # "dropped"

(* The lock of a job is its last delivery's, and the job is active while   *)
(* it is held.                                                             *)
Locks ==
    \A j \in Jobs : lock[j] # 0 => job[j].state = "active" /\ lock[j] = job[j].token

(* A job that its worker ended has no delivery left that could end it.     *)
EndedByRun(j) ==
    \/ job[j].state = "completed"
    \/ job[j].state = "failed" /\ job[j].stalls <= MaxStalledCount

AsItsRun(h, o) ==
    /\ h.state = "completed" => o = "result"
    /\ h.state = "failed" => o \in Settled \ {"result"} /\ h.failedReason = failureOf(o)

Ends ==
    \A j \in Jobs : EndedByRun(j) =>
        /\ \A e \in running : e.job = j => e.token # job[j].token
        /\ AsItsRun(job[j], outcome[j][job[j].token])

(* Without a crash, a job that nobody runs is one whose last run reported  *)
(* after the lock had expired.                                             *)
Refused(j) == outcome[j][job[j].token] = "dropped" /\ lock[j] = 0

Held == crashes = 0 => \A j \in Jobs : Orphaned(j) => Refused(j)

(* How a job had ended when a poller read its hash is how it ended.        *)
Read ==
    \A p \in Pollers : poll[p].step = "state" =>
        /\ poll[p].job \in Jobs
        /\ job[poll[p].job].state # "absent"
        /\ poll[p].hash.failedReason # "none" /\ ~Forgotten(poll[p].job) =>
              job[poll[p].job].failedReason = poll[p].hash.failedReason

IInv == Shapes /\ Deliveries /\ Locks /\ Ends /\ Held /\ Read

-----------------------------------------------------------------------------
(* The hash of a job through its life.                                     *)

LEMMA Constants ==
    /\ MaxStalledCount \in Nat
    /\ \A o \in OcrErrorCode : o \notin {"none", "raw", "untyped", "result", "dropped"}
    /\ "EXTRACTION_FAILED" \in OcrErrorCode
  BY JobQueueAssumption

LEMMA HashNumbers ==
    ASSUME NEW h \in Hashes
    PROVE  h.token \in Nat /\ h.stalls \in Nat /\ h.token <= MaxStalledCount + 1
  BY Constants DEF Hashes, Token

LEMMA LiveToken ==
    ASSUME NEW h \in Hashes, HashOK(h),
           \/ h.state \in {"active", "completed"}
           \/ h.state = "failed" /\ h.stalls <= MaxStalledCount
    PROVE  h.token \in Token /\ h.token = h.stalls + 1
  BY HashNumbers, Constants DEF HashOK, Token

LEMMA TokenBound ==
    ASSUME NEW h \in Hashes, HashOK(h), h.state \notin {"absent", "removed"}
    PROVE  h.token <= h.stalls + 1
  BY HashNumbers DEF HashOK, Hashes

LEMMA FreshHash ==
    /\ NewJob \in Hashes /\ HashOK(NewJob)
    /\ LET gone == [NewJob EXCEPT !.state = "removed"] IN
       gone \in Hashes /\ HashOK(gone) /\ gone.state = "removed"
  BY Constants DEF NewJob, Hashes, HashOK, Reasons

LEMMA QueuedHash ==
    ASSUME NEW h \in Hashes, HashOK(h), h.state = "absent"
    PROVE  LET q == [h EXCEPT !.state = "waiting"] IN q \in Hashes /\ HashOK(q)
  BY Constants DEF Hashes, HashOK, NewJob

LEMMA TakenHash ==
    ASSUME NEW h \in Hashes, HashOK(h), h.state = "waiting"
    PROVE  /\ h.token + 1 \in Token
           /\ LET q == [h EXCEPT !.state = "active", !.token = @ + 1] IN
              q \in Hashes /\ HashOK(q) /\ q.state = "active" /\ q.token = h.token + 1
  <1>1. h.token \in Nat /\ h.stalls \in Nat /\ h.token = h.stalls /\ h.stalls <= MaxStalledCount
    BY HashNumbers DEF HashOK
  <1>2. h.token + 1 \in Token
    BY <1>1, Constants DEF Token
  <1> QED
    BY <1>1, <1>2, Constants DEF Hashes, HashOK

LEMMA EndedHash ==
    ASSUME NEW h \in Hashes, HashOK(h), h.state = "active", NEW o \in Settled
    PROVE  /\ Ended(h, o) \in Hashes /\ HashOK(Ended(h, o))
           /\ Ended(h, o).token = h.token /\ Ended(h, o).stalls = h.stalls
           /\ h.stalls <= MaxStalledCount
           /\ Ended(h, o).state \in {"completed", "failed"}
           /\ AsItsRun(Ended(h, o), o)
  BY Constants DEF Hashes, HashOK, Ended, failureOf, Settled, Reasons, AsItsRun

LEMMA StalledHashOK ==
    ASSUME NEW h \in Hashes, HashOK(h), h.state = "active"
    PROVE  /\ Stalled(h) \in Hashes /\ HashOK(Stalled(h))
           /\ Stalled(h).token = h.token
           /\ Stalled(h).state \in {"waiting", "failed"}
           /\ Stalled(h).state = "failed" => Stalled(h).stalls > MaxStalledCount
  <1>1. h.token \in Nat /\ h.stalls \in Nat /\ h.token = h.stalls + 1 /\ h.stalls <= MaxStalledCount
    BY HashNumbers DEF HashOK
  <1>2. h.stalls + 1 \in {0} \cup Token
    BY <1>1, Constants DEF Token
  <1>3. h.returnvalue = "none" /\ h.failedReason = "none"
    BY DEF HashOK, Hashes, Reasons
  <1> DEFINE s == Stalled(h)
  <1>4. CASE h.stalls < MaxStalledCount
    <2>1. /\ s \in Hashes /\ s.state = "waiting" /\ s.token = h.token
          /\ s.stalls = h.stalls + 1 /\ s.returnvalue = "none" /\ s.failedReason = "none"
      BY <1>2, <1>3, <1>4 DEF Stalled, Hashes
    <2> HIDE DEF s
    <2>2. HashOK(s)
      BY <1>1, <1>4, <2>1, Constants DEF HashOK
    <2> QED
      BY <2>1, <2>2 DEF s
  <1>5. CASE ~(h.stalls < MaxStalledCount)
    <2>1. /\ s \in Hashes /\ s.state = "failed" /\ s.token = h.token
          /\ s.stalls = h.stalls + 1 /\ s.returnvalue = "none" /\ s.failedReason = "raw"
      BY <1>2, <1>3, <1>5 DEF Stalled, Hashes, Reasons
    <2> HIDE DEF s
    <2>2. h.stalls = MaxStalledCount
      BY <1>1, <1>5, Constants
    <2>3. HashOK(s)
      BY <1>1, <2>1, <2>2, Constants DEF HashOK
    <2>4. s.stalls > MaxStalledCount
      BY <2>1, <2>2, Constants
    <2> QED
      BY <2>1, <2>3, <2>4 DEF s
  <1> QED
    BY <1>4, <1>5

-----------------------------------------------------------------------------
(* The steps.                                                              *)

LEMMA JobStep ==
    ASSUME Shapes, NEW j \in Jobs, NEW h \in Hashes, HashOK(h), job' = [job EXCEPT ![j] = h]
    PROVE  /\ job' \in [Jobs -> Hashes] /\ \A k \in Jobs : HashOK(job'[k])
           /\ job'[j] = h /\ \A k \in Jobs \ {j} : job'[k] = job[k]
  <1>1. job'[j] = h /\ \A k \in Jobs \ {j} : job'[k] = job[k]
    BY DEF Shapes
  <1>2. job' \in [Jobs -> Hashes]
    BY DEF Shapes
  <1>3. \A k \in Jobs : HashOK(job'[k])
    BY <1>1 DEF Shapes
  <1> QED
    BY <1>1, <1>2, <1>3

LEMMA Typed ==
    ASSUME Shapes, NEW j \in Jobs
    PROVE  /\ job[j] \in Hashes /\ HashOK(job[j])
           /\ job[j].token \in Nat /\ job[j].stalls \in Nat
           /\ \A t \in Token : outcome[j][t] \in Settled \cup {"none", "dropped"}
  BY HashNumbers DEF Shapes

LEMMA LockType ==
    ASSUME IInv, NEW k \in Jobs, lock[k] # 0
    PROVE  lock[k] \in Token /\ outcome[k][lock[k]] # "dropped"
  BY DEF IInv, Shapes, Deliveries

LEMMA EnqueueStep ==
    ASSUME IInv, NEW j \in Jobs, enqueue(j)
    PROVE  IInv'
  <1> DEFINE h == [job[j] EXCEPT !.state = "waiting"]
  <1>1. h \in Hashes /\ HashOK(h) /\ h.state = "waiting" /\ job[j].state = "absent"
    BY Typed, QueuedHash DEF IInv, enqueue, Hashes
  <1>2. job' = [job EXCEPT ![j] = h]
    BY DEF enqueue
  <1> HIDE DEF h
  <1>3. /\ job' \in [Jobs -> Hashes] /\ \A k \in Jobs : HashOK(job'[k])
        /\ job'[j] = h /\ \A k \in Jobs \ {j} : job'[k] = job[k]
    BY <1>1, <1>2, JobStep DEF IInv
  <1>4. UNCHANGED <<lock, running, worker, poll, outcome, crashes, signals>>
    BY DEF enqueue
  <1>5. Shapes'
    BY <1>3, <1>4 DEF IInv, Shapes
  <1>6. /\ \A e \in running : e.job \in Jobs \ {j}
        /\ \A t \in Token : outcome[j][t] = "none"
    BY <1>1 DEF IInv, Shapes, Deliveries, Executions
  <1>7. Deliveries'
    BY <1>1, <1>3, <1>4, <1>6 DEF IInv, Deliveries, Forgotten
  <1>8. Locks' /\ Ends' /\ Held'
    <2>1. Locks'
      BY <1>1, <1>3, <1>4 DEF IInv, Locks
    <2>2. Ends' /\ Held'
      BY <1>1, <1>3, <1>4 DEF IInv, Ends, Held, EndedByRun, AsItsRun, Orphaned, Refused
    <2> QED
      BY <2>1, <2>2
  <1>9. Read'
    BY <1>1, <1>3, <1>4 DEF IInv, Read, Forgotten
  <1> QED
    BY <1>5, <1>7, <1>8, <1>9 DEF IInv

LEMMA TakeStep ==
    ASSUME IInv, NEW w \in Workers, NEW j \in Jobs, Take(w, j)
    PROVE  IInv'
  <1> DEFINE h == [job[j] EXCEPT !.state = "active", !.token = @ + 1]
             x == [job |-> j, token |-> job[j].token + 1, worker |-> w]
  <1>1. /\ h \in Hashes /\ HashOK(h) /\ h.state = "active" /\ h.token = job[j].token + 1
        /\ job[j].token + 1 \in Token /\ job[j].token \in Nat
        /\ h.failedReason = job[j].failedReason
        /\ job[j].state = "waiting"
    <2>1. job[j] \in Hashes /\ HashOK(job[j]) /\ job[j].state = "waiting"
          /\ job[j].token \in Nat
      BY Typed DEF IInv, Take
    <2>2. h.failedReason = job[j].failedReason
      BY <2>1 DEF Hashes
    <2> QED
      BY <2>1, <2>2, TakenHash
  <1>2. /\ job' = [job EXCEPT ![j] = h] /\ running' = running \cup {x}
        /\ lock' = [lock EXCEPT ![j] = h.token]
    <2>1. job' = [job EXCEPT ![j].state = "active", ![j].token = @ + 1]
      BY DEF Take
    <2>2. job \in [Jobs -> Hashes]
      BY DEF IInv, Shapes
    <2>3. job' = [job EXCEPT ![j] = h]
      BY <2>1, <2>2
    <2>4. h.token = job[j].token + 1
      BY <1>1
    <2> QED
      BY <2>3, <2>4 DEF Take
  <1>3. x \in Executions /\ x.job = j /\ x.token = h.token
    BY <1>1 DEF Executions
  <1> HIDE DEF h, x
  <1>4. /\ job' \in [Jobs -> Hashes] /\ \A k \in Jobs : HashOK(job'[k])
        /\ job'[j] = h /\ \A k \in Jobs \ {j} : job'[k] = job[k]
    BY <1>1, <1>2, JobStep DEF IInv
  <1>5. UNCHANGED <<worker, poll, outcome, crashes, signals>>
    BY DEF Take
  <1>13. /\ lock' \in [Jobs -> {0} \cup Token] /\ lock'[j] = h.token
         /\ \A k \in Jobs \ {j} : lock'[k] = lock[k]
    BY <1>1, <1>2 DEF IInv, Shapes
  <1>6. Shapes'
    BY <1>2, <1>3, <1>4, <1>5, <1>13 DEF IInv, Shapes
  <1>7. \A e \in running : /\ e.job \in Jobs /\ e.token \in Nat
                           /\ e.job = j => e.token <= job[j].token /\ e.token # h.token
                                           /\ e.token <= h.token
    <2>1. \A e \in running : e.job \in Jobs /\ e.token \in Nat
      BY Constants DEF IInv, Shapes, Executions, Token
    <2>2. \A e \in running : e.job = j => e.token <= job[j].token
      BY <1>1 DEF IInv, Deliveries, Forgotten
    <2> QED
      BY <1>1, <2>1, <2>2
  <1>8. /\ \A t \in Token : outcome[j][t] # "none" => t <= h.token
        /\ outcome[j][h.token] = "none"
    <2>1. \A t \in Token : t \in Nat
      BY Constants DEF Token
    <2>2. \A t \in Token : outcome[j][t] # "none" => t <= job[j].token
      BY <1>1 DEF IInv, Deliveries, Forgotten
    <2> QED
      BY <1>1, <2>1, <2>2
  <1>9. Deliveries'
    <2>1. \A e \in running' : /\ job'[e.job].state # "absent"
                              /\ ~Forgotten(e.job)' => e.token <= job'[e.job].token
      BY <1>1, <1>2, <1>3, <1>4, <1>7 DEF IInv, Deliveries, Forgotten
    <2>2. \A e, f \in running' : e.job = f.job /\ e.token = f.token => e = f
      BY <1>2, <1>3, <1>7 DEF IInv, Deliveries
    <2>3. \A k \in Jobs, t \in Token : outcome'[k][t] # "none" =>
              /\ job'[k].state # "absent"
              /\ ~Forgotten(k)' => t <= job'[k].token
      BY <1>1, <1>4, <1>5, <1>8 DEF IInv, Deliveries, Forgotten
    <2>4. \A k \in Jobs : lock'[k] # 0 => outcome'[k][lock'[k]] # "dropped"
      BY <1>5, <1>8, <1>13 DEF IInv, Deliveries
    <2> QED
      BY <2>1, <2>2, <2>3, <2>4 DEF Deliveries
  <1>10. Ends'
    <2>1. ~EndedByRun(j)'
      BY <1>1, <1>4 DEF EndedByRun
    <2> QED
      BY <1>2, <1>3, <1>4, <1>5, <2>1 DEF IInv, Ends, EndedByRun, AsItsRun
  <1>11. Held'
    <2>1. ~Orphaned(j)'
      BY <1>2, <1>3, <1>4 DEF Orphaned
    <2>2. \A k \in Jobs \ {j} : Orphaned(k)' => Orphaned(k)
      BY <1>2, <1>4 DEF Orphaned
    <2>3. \A k \in Jobs \ {j} : Refused(k) => Refused(k)'
      BY <1>4, <1>5, <1>13 DEF Refused
    <2> QED
      BY <1>5, <2>1, <2>2, <2>3 DEF IInv, Held
  <1>12. Read'
    BY <1>1, <1>4, <1>5 DEF IInv, Read, Forgotten
  <1> QED
    <2>1. Locks'
      BY <1>1, <1>4, <1>13 DEF IInv, Locks
    <2> QED
      BY <1>6, <1>9, <1>10, <1>11, <1>12, <2>1 DEF IInv

(* A step that only tells what a delivery came to, or ends one, keeps the   *)
(* shapes.                                                                 *)
LEMMA OutcomeShapes ==
    ASSUME Shapes, running' \subseteq running,
           UNCHANGED <<job, lock, worker, poll, crashes, signals>>,
           outcome' \in [Jobs -> [Token -> Settled \cup {"none", "dropped"}]]
    PROVE  Shapes'
  <1>1. job' = job /\ lock' = lock /\ worker' = worker /\ poll' = poll
    OBVIOUS
  <1>2. crashes' = crashes /\ signals' = signals
    OBVIOUS
  <1>3. running' \subseteq Executions
    BY DEF Shapes
  <1> QED
    BY <1>1, <1>2, <1>3 DEF Shapes

LEMMA OutcomeDeliveries ==
    ASSUME Deliveries, running' \subseteq running, job' = job, lock' = lock,
           \A k \in Jobs, t \in Token : outcome'[k][t] # "none" =>
               job[k].state # "absent" /\ (~Forgotten(k) => t <= job[k].token),
           \A k \in Jobs : lock[k] # 0 => outcome'[k][lock[k]] # "dropped"
    PROVE  Deliveries'
  <1>1. \A e \in running' : /\ job'[e.job].state # "absent"
                            /\ ~Forgotten(e.job)' => e.token <= job'[e.job].token
    BY DEF Deliveries, Forgotten
  <1>2. \A e, f \in running' : e.job = f.job /\ e.token = f.token => e = f
    BY DEF Deliveries
  <1>3. \A k \in Jobs, t \in Token : outcome'[k][t] # "none" =>
            /\ job'[k].state # "absent"
            /\ ~Forgotten(k)' => t <= job'[k].token
    BY DEF Forgotten
  <1>4. \A k \in Jobs : lock'[k] # 0 => outcome'[k][lock'[k]] # "dropped"
    OBVIOUS
  <1> QED
    BY <1>1, <1>2, <1>3, <1>4 DEF Deliveries

LEMMA ProcessStep ==
    ASSUME IInv, NEW e \in running, processJob(e)
    PROVE  IInv'
  <1>1. /\ e.job \in Jobs /\ e.token \in Token /\ outcome[e.job][e.token] = "none"
        /\ UNCHANGED <<job, lock, running, worker, poll, crashes, signals>>
    BY DEF IInv, Shapes, Executions, processJob
  <1>2. PICK o \in Settled : outcome' = [outcome EXCEPT ![e.job][e.token] = o]
    BY DEF processJob
  <1>3. o # "dropped" /\ o \in Settled \cup {"dropped"}
    BY Constants DEF Settled
  <1>4. /\ outcome' \in [Jobs -> [Token -> Settled \cup {"none", "dropped"}]]
        /\ outcome'[e.job][e.token] = o
        /\ \A k \in Jobs, u \in Token :
              k # e.job \/ u # e.token => outcome'[k][u] = outcome[k][u]
    <2>1. outcome \in [Jobs -> [Token -> Settled \cup {"none", "dropped"}]]
      BY DEF IInv, Shapes
    <2>2. e.job \in Jobs /\ e.token \in Token
      BY <1>1
    <2> QED
      BY <2>1, <2>2, <1>2
  <1>5. Shapes'
    <2>1. Shapes
      BY DEF IInv
    <2>2. running' \subseteq running
      BY <1>1
    <2>3. outcome' \in [Jobs -> [Token -> Settled \cup {"none", "dropped"}]]
      BY <1>4
    <2>4. UNCHANGED <<job, lock, worker, poll, crashes, signals>>
      BY <1>1
    <2> QED
      BY <2>1, <2>2, <2>3, <2>4, OutcomeShapes, Zenon
  <1>6. \A k \in Jobs : EndedByRun(k) \/ job[k].state = "active" =>
            job[k].token \in Token
    BY Typed, LiveToken DEF IInv, EndedByRun
  <1>7. Deliveries'
    <2>1. \A k \in Jobs, t \in Token : outcome'[k][t] # "none" =>
              job[k].state # "absent" /\ (~Forgotten(k) => t <= job[k].token)
      BY <1>1, <1>4 DEF IInv, Deliveries
    <2>2. \A k \in Jobs : lock[k] # 0 => outcome'[k][lock[k]] # "dropped"
      <3>1. ASSUME NEW k \in Jobs, lock[k] # 0
            PROVE  outcome'[k][lock[k]] \in {o, outcome[k][lock[k]]}
        BY <1>4, <3>1, LockType
      <3> QED
        BY <1>3, <3>1, LockType
    <2> QED
      <3>1. Deliveries /\ running' \subseteq running /\ job' = job /\ lock' = lock
        BY <1>1 DEF IInv
      <3> QED
        BY <2>1, <2>2, <3>1, OutcomeDeliveries
  <1>8. Ends'
    <2>1. \A k \in Jobs : EndedByRun(k) => outcome'[k][job[k].token] = outcome[k][job[k].token]
      BY <1>1, <1>4, <1>6 DEF IInv, Ends
    <2> QED
      BY <1>1, <2>1 DEF IInv, Ends, EndedByRun, AsItsRun
  <1>9. Held'
    <2>1. ASSUME NEW k \in Jobs, Orphaned(k)', crashes = 0
          PROVE  Refused(k)'
      <3>1. Orphaned(k)
        BY <1>1, <2>1 DEF Orphaned
      <3>2. Refused(k)
        BY <2>1, <3>1 DEF IInv, Held
      <3>3. job[k].token \in Token /\ (k # e.job \/ e.token # job[k].token)
        BY <1>6, <3>1 DEF Orphaned
      <3> QED
        BY <1>1, <1>4, <3>2, <3>3 DEF Refused
    <2> QED
      BY <1>1, <2>1 DEF Held
  <1>10. Locks' /\ Read'
    BY <1>1 DEF IInv, Locks, Read, Forgotten
  <1> QED
    BY <1>5, <1>7, <1>8, <1>9, <1>10 DEF IInv

LEMMA ReportStep ==
    ASSUME IInv, NEW e \in running, Report(e)
    PROVE  IInv'
  <1> DEFINE j == e.job
             o == outcome[e.job][e.token]
  <1>1. j \in Jobs /\ e.token \in Token /\ e \in Executions /\ o # "none"
        /\ o \in Settled \cup {"none", "dropped"}
    BY Typed DEF IInv, Shapes, Executions, Report
  <1>2. /\ running' = running \ {e}
        /\ UNCHANGED <<worker, poll, crashes, signals>>
    BY DEF Report
  <1>3. CASE HoldsLock(e)
    <2> DEFINE h == Ended(job[j], o)
    <2>1. job[j].state = "active" /\ job[j].token = e.token
      <3>1. lock[j] = e.token /\ lock[j] # 0
        BY <1>1, <1>3, Constants DEF HoldsLock, Token
      <3> QED
        BY <1>1, <3>1 DEF IInv, Locks
    <2>2. o \in Settled
      <3>1. lock[j] = e.token /\ lock[j] # 0
        BY <1>1, <1>3, Constants DEF HoldsLock, Token
      <3> QED
        BY <1>1, <3>1 DEF IInv, Deliveries
    <2>3. /\ h \in Hashes /\ HashOK(h) /\ h.token = e.token
          /\ h.state \in {"completed", "failed"} /\ AsItsRun(h, o)
      BY <1>1, <2>1, <2>2, Typed, EndedHash DEF IInv
    <2>4. job' = [job EXCEPT ![j] = h] /\ outcome' = outcome
      BY <1>3 DEF Report
    <2>12. /\ lock' \in [Jobs -> {0} \cup Token] /\ lock'[j] = 0
           /\ \A k \in Jobs \ {j} : lock'[k] = lock[k]
      <3>1. lock' = [lock EXCEPT ![j] = 0]
        BY <1>3 DEF Report
      <3> QED
        BY <1>1, <3>1 DEF IInv, Shapes
    <2> HIDE DEF h
    <2>5. /\ job' \in [Jobs -> Hashes] /\ \A k \in Jobs : HashOK(job'[k])
          /\ job'[j] = h /\ \A k \in Jobs \ {j} : job'[k] = job[k]
      BY <1>1, <2>3, <2>4, JobStep DEF IInv
    <2>6. Shapes'
      BY <1>2, <2>4, <2>5, <2>12 DEF IInv, Shapes
    <2>7. \A f \in running' : f \in running /\ (f.job = j => f.token # e.token)
      BY <1>2 DEF IInv, Deliveries
    <2>8. Deliveries'
      <3>1. \A f \in running' : /\ job'[f.job].state # "absent"
                                /\ ~Forgotten(f.job)' => f.token <= job'[f.job].token
        <4>1. \A f \in running' : f.job \in Jobs
          BY <2>7 DEF IInv, Shapes, Executions
        <4> QED
          BY <1>1, <2>1, <2>3, <2>5, <2>7, <4>1 DEF IInv, Deliveries, Forgotten
      <3>2. \A f, g \in running' : f.job = g.job /\ f.token = g.token => f = g
        BY <2>7 DEF IInv, Deliveries
      <3>3. \A k \in Jobs, t \in Token : outcome'[k][t] # "none" =>
                /\ job'[k].state # "absent"
                /\ ~Forgotten(k)' => t <= job'[k].token
        BY <1>1, <2>1, <2>3, <2>4, <2>5 DEF IInv, Deliveries, Forgotten
      <3>4. \A k \in Jobs : lock'[k] # 0 => outcome'[k][lock'[k]] # "dropped"
        BY <2>4, <2>12 DEF IInv, Deliveries
      <3> QED
        BY <3>1, <3>2, <3>3, <3>4 DEF Deliveries
    <2>9. Ends'
      <3>1. /\ \A f \in running' : f.job = j => f.token # job'[j].token
            /\ AsItsRun(job'[j], outcome'[j][job'[j].token])
        BY <2>3, <2>4, <2>5, <2>7
      <3>2. ASSUME NEW k \in Jobs \ {j}, EndedByRun(k)'
            PROVE  /\ \A f \in running' : f.job = k => f.token # job'[k].token
                   /\ AsItsRun(job'[k], outcome'[k][job'[k].token])
        BY <2>4, <2>5, <2>7, <3>2 DEF IInv, Ends, EndedByRun
      <3> QED
        BY <3>1, <3>2 DEF Ends
    <2>10. Held'
      <3>1. ~Orphaned(j)'
        BY <2>3, <2>5 DEF Orphaned
      <3>2. \A k \in Jobs \ {j} : Orphaned(k)' => Orphaned(k)
        BY <1>2, <2>5 DEF Orphaned
      <3>3. \A k \in Jobs \ {j} : Refused(k) => Refused(k)'
        BY <2>4, <2>5, <2>12 DEF Refused
      <3> QED
        BY <1>2, <3>1, <3>2, <3>3 DEF IInv, Held
    <2>11. Read'
      <3>1. job[j].failedReason = "none"
        BY <1>1, <2>1, Typed DEF IInv, HashOK
      <3> QED
        BY <1>2, <2>1, <2>3, <2>5, <3>1 DEF IInv, Read, Forgotten
    <2>13. Locks'
      BY <2>5, <2>12 DEF IInv, Locks
    <2> QED
      BY <2>6, <2>8, <2>9, <2>10, <2>11, <2>13 DEF IInv
  <1>4. CASE ~HoldsLock(e)
    <2>1. job' = job /\ lock' = lock /\ outcome' = [outcome EXCEPT ![j][e.token] = "dropped"]
      BY <1>4 DEF Report
    <2>2. /\ outcome' \in [Jobs -> [Token -> Settled \cup {"none", "dropped"}]]
          /\ outcome'[j][e.token] = "dropped"
          /\ \A k \in Jobs, u \in Token :
                k # j \/ u # e.token => outcome'[k][u] = outcome[k][u]
      <3>1. /\ outcome \in [Jobs -> [Token -> Settled \cup {"none", "dropped"}]]
            /\ j \in Jobs /\ e.token \in Token
        BY <1>1 DEF IInv, Shapes
      <3>2. "dropped" \in Settled \cup {"dropped"}
        OBVIOUS
      <3>3. outcome' = [outcome EXCEPT ![j][e.token] = "dropped"]
        BY <2>1
      <3> HIDE DEF j, o
      <3> QED
        BY <3>1, <3>2, <3>3
    <2>3. Shapes'
      <3>1. Shapes
        BY DEF IInv
      <3>2. running' \subseteq running
        BY <1>2
      <3>3. outcome' \in [Jobs -> [Token -> Settled \cup {"none", "dropped"}]]
        BY <2>2
      <3>4. UNCHANGED <<job, lock, worker, poll, crashes, signals>>
        BY <1>2, <2>1
      <3> QED
        BY <3>1, <3>2, <3>3, <3>4, OutcomeShapes, Zenon
    <2>4. \A k \in Jobs : EndedByRun(k) \/ job[k].state = "active" => job[k].token \in Token
      BY Typed, LiveToken DEF IInv, EndedByRun
    <2>5. Deliveries'
      <3>1. \A k \in Jobs, t \in Token : outcome'[k][t] # "none" =>
                job[k].state # "absent" /\ (~Forgotten(k) => t <= job[k].token)
        BY <1>1, <2>2 DEF IInv, Deliveries
      <3>2. \A k \in Jobs : lock[k] # 0 => outcome'[k][lock[k]] # "dropped"
        <4>1. lock[j] # e.token
          BY <1>4 DEF HoldsLock
        <4> QED
          BY <2>2, <4>1, LockType
      <3> QED
        <4>1. Deliveries /\ running' \subseteq running /\ job' = job /\ lock' = lock
          BY <1>2, <2>1 DEF IInv
        <4> QED
          BY <3>1, <3>2, <4>1, OutcomeDeliveries
    <2>6. Ends'
      <3>1. EndedByRun(j) => job[j].token # e.token
        BY <1>1 DEF IInv, Ends
      <3>2. \A k \in Jobs : EndedByRun(k) =>
                outcome'[k][job[k].token] = outcome[k][job[k].token]
        BY <1>1, <2>2, <2>4, <3>1
      <3> QED
        BY <1>2, <2>1, <3>2 DEF IInv, Ends, EndedByRun
    <2>7. Held'
      <3>1. ASSUME NEW k \in Jobs, Orphaned(k)', crashes = 0
            PROVE  Refused(k)'
        <4>1. job[k].state = "active" /\ job[k].token \in Token
          BY <2>1, <2>4, <3>1 DEF Orphaned
        <4>2. CASE k = j /\ e.token = job[k].token
          <5>1. lock[k] = 0
            BY <1>4, <4>1, <4>2 DEF IInv, Locks, HoldsLock
          <5> QED
            BY <2>1, <2>2, <4>2, <5>1 DEF Refused
        <4>3. CASE ~(k = j /\ e.token = job[k].token)
          <5>1. Orphaned(k)
            BY <1>2, <2>1, <3>1, <4>3 DEF Orphaned
          <5>2. Refused(k)
            BY <3>1, <5>1 DEF IInv, Held
          <5> QED
            BY <1>1, <2>1, <2>2, <4>1, <4>3, <5>2 DEF Refused
        <4> QED
          BY <4>2, <4>3
      <3> QED
        BY <1>2, <3>1 DEF Held
    <2>8. Locks' /\ Read'
      BY <1>2, <2>1 DEF IInv, Locks, Read, Forgotten
    <2> QED
      BY <2>3, <2>5, <2>6, <2>7, <2>8 DEF IInv
  <1> QED
    BY <1>3, <1>4

LEMMA ExpiryStep ==
    ASSUME IInv, NEW j \in Jobs, LockExpires(j)
    PROVE  IInv'
  <1>1. UNCHANGED <<job, running, worker, poll, outcome, crashes, signals>>
    BY DEF LockExpires
  <1>2. /\ lock' \in [Jobs -> {0} \cup Token] /\ lock'[j] = 0
        /\ \A k \in Jobs \ {j} : lock'[k] = lock[k]
    BY DEF IInv, Shapes, LockExpires
  <1>3. Shapes'
    BY <1>1, <1>2 DEF IInv, Shapes
  <1>4. Deliveries'
    BY <1>1, <1>2 DEF IInv, Deliveries, Forgotten
  <1>5. Locks'
    BY <1>1, <1>2 DEF IInv, Locks
  <1>6. Ends' /\ Read'
    BY <1>1 DEF IInv, Ends, EndedByRun, Read, Forgotten
  <1>7. Held'
    BY <1>1, <1>2 DEF IInv, Held, Orphaned, Refused
  <1> QED
    BY <1>3, <1>4, <1>5, <1>6, <1>7 DEF IInv

LEMMA StallStep ==
    ASSUME IInv, NEW j \in Jobs, Stall(j)
    PROVE  IInv'
  <1> DEFINE h == Stalled(job[j])
  <1>1. /\ h \in Hashes /\ HashOK(h) /\ h.token = job[j].token
        /\ h.state \in {"waiting", "failed"}
        /\ h.state = "failed" => h.stalls > MaxStalledCount
        /\ job[j].state = "active" /\ job[j].failedReason = "none"
    BY Typed, StalledHashOK DEF IInv, Stall, IsStalled, HashOK
  <1>2. job' = [job EXCEPT ![j] = h]
    BY DEF Stall
  <1> HIDE DEF h
  <1>3. /\ job' \in [Jobs -> Hashes] /\ \A k \in Jobs : HashOK(job'[k])
        /\ job'[j] = h /\ \A k \in Jobs \ {j} : job'[k] = job[k]
    BY <1>1, <1>2, JobStep DEF IInv
  <1>4. lock[j] = 0 /\ UNCHANGED <<lock, running, worker, poll, outcome, crashes, signals>>
    BY DEF Stall, IsStalled
  <1>5. Shapes'
    BY <1>3, <1>4 DEF IInv, Shapes
  <1>6. Deliveries'
    <2>1. \A k \in Jobs : /\ job'[k].token = job[k].token
                          /\ job'[k].state = "absent" <=> job[k].state = "absent"
                          /\ job'[k].state = "removed" <=> job[k].state = "removed"
                          /\ job'[k].state = "active" => job[k].state = "active"
      BY <1>1, <1>3
    <2>2. \A e \in running : e.job \in Jobs
      BY DEF IInv, Shapes, Executions
    <2> QED
      BY <1>4, <2>1, <2>2 DEF IInv, Deliveries, Forgotten
  <1>7. Ends'
    <2>1. ~EndedByRun(j)'
      <3>1. h.state = "failed" => ~(h.stalls <= MaxStalledCount)
        BY <1>1, HashNumbers, Constants
      <3> QED
        BY <1>1, <1>3, <3>1 DEF EndedByRun
    <2>2. \A k \in Jobs \ {j} : EndedByRun(k)' => EndedByRun(k)
      BY <1>3 DEF EndedByRun
    <2> QED
      BY <1>3, <1>4, <2>1, <2>2 DEF IInv, Ends
  <1>8. Locks' /\ Held'
    <2>1. Locks'
      BY <1>3, <1>4 DEF IInv, Locks
    <2>2. Held'
      BY <1>1, <1>3, <1>4 DEF IInv, Held, Orphaned, Refused
    <2> QED
      BY <2>1, <2>2
  <1>9. Read'
    BY <1>1, <1>3, <1>4 DEF IInv, Read, Forgotten
  <1> QED
    BY <1>5, <1>6, <1>7, <1>8, <1>9 DEF IInv

LEMMA RemoveStep ==
    ASSUME IInv, NEW j \in Jobs, Remove(j)
    PROVE  IInv'
  <1> DEFINE h == [NewJob EXCEPT !.state = "removed"]
  <1>1. h \in Hashes /\ HashOK(h) /\ h.state = "removed"
    BY FreshHash
  <1>2. job' = [job EXCEPT ![j] = h] /\ job[j].state \in {"completed", "failed"}
    BY DEF Remove
  <1> HIDE DEF h
  <1>3. /\ job' \in [Jobs -> Hashes] /\ \A k \in Jobs : HashOK(job'[k])
        /\ job'[j] = h /\ \A k \in Jobs \ {j} : job'[k] = job[k]
    BY <1>1, <1>2, JobStep DEF IInv
  <1>4. UNCHANGED <<lock, running, worker, poll, crashes, signals>>
    BY DEF Remove
  <1>5. /\ outcome' \in [Jobs -> [Token -> Settled \cup {"none", "dropped"}]]
        /\ \A k \in Jobs \ {j} : outcome'[k] = outcome[k]
    <2> DEFINE gone == [t \in Token |-> IF outcome[j][t] = "none" THEN "none" ELSE "dropped"]
    <2>1. outcome' = [outcome EXCEPT ![j] = gone]
      BY DEF Remove
    <2>2. gone \in [Token -> Settled \cup {"none", "dropped"}]
      OBVIOUS
    <2> HIDE DEF gone
    <2> QED
      BY <2>1, <2>2 DEF IInv, Shapes
  <1>6. Shapes'
    BY <1>3, <1>4, <1>5 DEF IInv, Shapes
  <1>11. lock[j] = 0
    BY <1>2 DEF IInv, Locks
  <1>7. Deliveries'
    BY <1>1, <1>2, <1>3, <1>4, <1>5, <1>11 DEF IInv, Deliveries, Forgotten
  <1>8. Ends'
    BY <1>1, <1>3, <1>4, <1>5 DEF IInv, Ends, EndedByRun
  <1>9. Locks' /\ Held'
    <2>1. Locks'
      BY <1>3, <1>4, <1>11 DEF IInv, Locks
    <2>2. Held'
      BY <1>1, <1>3, <1>4, <1>5 DEF IInv, Held, Orphaned, Refused
    <2> QED
      BY <2>1, <2>2
  <1>10. Read'
    BY <1>1, <1>3, <1>4 DEF IInv, Read, Forgotten
  <1> QED
    BY <1>6, <1>7, <1>8, <1>9, <1>10 DEF IInv

LEMMA WorkerStep ==
    ASSUME IInv, NEW w \in Workers, Crash(w) \/ Restart(w) \/ shutdown(w) \/ exit(w)
    PROVE  IInv'
  <1>1. UNCHANGED <<job, lock, outcome, poll>> /\ running' \subseteq running
    BY DEF Crash, Restart, shutdown, exit
  <1>2. worker' \in [Workers -> {"up", "closing", "down"}]
    BY DEF IInv, Shapes, Crash, Restart, shutdown, exit
  <1>3. /\ crashes' \in 0..MaxCrashes /\ signals' \in 0..MaxSignals
        /\ (running' = running /\ crashes' = crashes) \/ crashes' # 0
    <2>1. MaxCrashes \in Nat /\ MaxSignals \in Nat
      BY JobQueueAssumption
    <2>2. crashes \in 0..MaxCrashes /\ signals \in 0..MaxSignals
      BY DEF IInv, Shapes
    <2> QED
      BY <2>1, <2>2 DEF Crash, Restart, shutdown, exit
  <1>4. Shapes'
    BY <1>1, <1>2, <1>3 DEF IInv, Shapes
  <1>5. Deliveries' /\ Ends'
    BY <1>1 DEF IInv, Deliveries, Ends, Forgotten, EndedByRun
  <1>6. Held'
    BY <1>1, <1>3 DEF IInv, Held, Orphaned, Refused
  <1>7. Locks' /\ Read'
    BY <1>1 DEF IInv, Locks, Read, Forgotten
  <1> QED
    BY <1>4, <1>5, <1>6, <1>7 DEF IInv

(* What a poller is told is a record.                                      *)
LEMMA RecordType ==
    ASSUME NEW h \in Hashes, NEW s \in {"absent", "waiting", "active", "completed",
                                        "failed", "removed"}
    PROVE  recordOf(h, s) \in Records
  BY JobQueueAssumption
  DEF recordOf, toStatus, decodeJobError, Hashes, Records, Reasons

LEMMA PollStep ==
    ASSUME IInv, NEW p \in Pollers, getJob(p) \/ getState(p)
    PROVE  IInv'
  <1>1. UNCHANGED <<job, lock, running, worker, outcome, crashes, signals>>
    BY DEF getJob, getState
  <1>2. Idle \in Polls
    BY FreshHash DEF Idle, Polls, Told
  <1>3. \E q \in Polls :
           /\ poll' = [poll EXCEPT ![p] = q]
           /\ q.step = "state" => /\ q.job \in Jobs /\ job[q.job].state # "absent"
                                  /\ job[q.job].failedReason = q.hash.failedReason
    <2>1. CASE getJob(p)
      <3>1. PICK t \in Tenants, j \in Jobs :
                /\ job[j].state # "absent"
                /\ poll' = [poll EXCEPT ![p] =
                      IF Exists(j)
                      THEN [Asked(t, j) EXCEPT !.step = "state", !.hash = job[j]]
                      ELSE Answered(Asked(t, j), NotFound)]
        BY <2>1 DEF getJob
      <3> DEFINE q == [Asked(t, j) EXCEPT !.step = "state", !.hash = job[j]]
                 a == Answered(Asked(t, j), NotFound)
      <3>2. job[j] \in Hashes
        BY Typed DEF IInv
      <3>3. q \in Polls /\ q.job = j /\ q.hash = job[j]
        BY <1>2, <3>2 DEF Polls, Asked, Idle
      <3>4. a \in Polls /\ a.step = "answered"
        BY <1>2, FreshHash DEF Polls, Answered, Asked, Idle, Told
      <3> QED
        BY <3>1, <3>3, <3>4
    <2>2. CASE getState(p)
      <3> DEFINE j == poll[p].job
                 r == IF JobTenant[j] = poll[p].tenant
                      THEN recordOf(poll[p].hash, job[j].state) ELSE NotFound
      <3>1. poll' = [poll EXCEPT ![p] = Answered(poll[p], r)] /\ poll[p].step = "state"
        BY <2>2 DEF getState
      <3>2. j \in Jobs /\ poll[p].hash \in Hashes
        BY <3>1 DEF IInv, Shapes, Read, Polls
      <3>3. job[j] \in Hashes
        BY <3>2, Typed DEF IInv
      <3>4. r \in Told
        BY <3>2, <3>3, RecordType DEF Told, Hashes
      <3> HIDE DEF r
      <3>5. Answered(poll[p], r) \in Polls /\ Answered(poll[p], r).step = "answered"
        BY <3>4, FreshHash DEF IInv, Shapes, Polls, Answered
      <3> QED
        BY <3>1, <3>5
    <2> QED
      BY <2>1, <2>2
  <1>4. PICK q \in Polls :
           /\ poll' = [poll EXCEPT ![p] = q]
           /\ q.step = "state" => /\ q.job \in Jobs /\ job[q.job].state # "absent"
                                  /\ job[q.job].failedReason = q.hash.failedReason
    BY <1>3
  <1>5. /\ poll' \in [Pollers -> Polls] /\ poll'[p] = q
        /\ \A r \in Pollers \ {p} : poll'[r] = poll[r]
    BY <1>4 DEF IInv, Shapes
  <1>6. Shapes'
    BY <1>1, <1>5 DEF IInv, Shapes
  <1>7. Deliveries' /\ Locks' /\ Ends' /\ Held'
    BY <1>1 DEF IInv, Deliveries, Locks, Ends, Held, Forgotten, EndedByRun, Orphaned, Refused
  <1>8. Read'
    BY <1>1, <1>4, <1>5 DEF IInv, Read, Forgotten
  <1> QED
    BY <1>6, <1>7, <1>8 DEF IInv

LEMMA IInvStep ==
    ASSUME IInv, [Next]_vars
    PROVE  IInv'
  <1>1. CASE UNCHANGED vars
    BY <1>1 DEF vars, IInv, Shapes, Deliveries, Locks, Ends, Held, Read, Forgotten,
                EndedByRun, Orphaned, Refused
  <1> QED
    BY <1>1, EnqueueStep, TakeStep, ProcessStep, ReportStep, ExpiryStep, StallStep, RemoveStep,
       WorkerStep, PollStep
    DEF Next

LEMMA IInvInit ==
    ASSUME Init
    PROVE  IInv
  <1>1. NewJob \in Hashes /\ HashOK(NewJob) /\ NewJob.state = "absent"
    BY FreshHash DEF NewJob
  <1>2. Idle \in Polls /\ Idle.step = "idle"
    BY FreshHash DEF Idle, Polls, Told
  <1>3. Shapes
    BY <1>1, <1>2, JobQueueAssumption DEF Init, Shapes
  <1>4. Deliveries /\ Locks /\ Ends /\ Held /\ Read
    BY <1>1, <1>2 DEF Init, Deliveries, Locks, Ends, Held, Read, EndedByRun, Orphaned
  <1> QED
    BY <1>3, <1>4 DEF IInv

(* In every state each delivery, each job and each worker's hold agree as  *)
(* jobs/queue.ts and worker.ts need: the inductive invariant.              *)
THEOREM Inductive == Spec => []IInv
  BY IInvInit, IInvStep, PTL DEF Spec

-----------------------------------------------------------------------------
(* What follows from the invariant.                                        *)

(* The state of the queue is well typed, whatever stalls and crashes.      *)
THEOREM TypeCorrect == Spec => []TypeOK
  <1>1. IInv => TypeOK
    BY DEF IInv, Shapes, TypeOK, Polls, Told
  <1> QED
    BY <1>1, Inductive, PTL

(* A job ends as its last delivery's run did, whatever the workers that    *)
(* lost its lock came to.                                                  *)
THEOREM EndsAsItsRunDid == Spec => []EndsAsItsLastDelivery
  <1>1. IInv => EndsAsItsLastDelivery
    <2> SUFFICES ASSUME IInv, NEW j \in Jobs
                 PROVE  LET o == outcome[j][job[j].token] IN
                        /\ job[j].state = "completed" => o = "result"
                        /\ job[j].state = "failed" /\ job[j].stalls <= MaxStalledCount =>
                              /\ o \in Settled \ {"result"}
                              /\ o \in OcrErrorCode => decodeJobError(job[j].failedReason) = o
      BY DEF EndsAsItsLastDelivery
    <2>1. EndedByRun(j) => AsItsRun(job[j], outcome[j][job[j].token])
      BY DEF IInv, Ends
    <2> QED
      BY <2>1 DEF EndedByRun, AsItsRun, failureOf, decodeJobError
  <1> QED
    BY <1>1, Inductive, PTL

(* An active job has nobody running it only after a crash, or when its     *)
(* last run reported after its lock had expired; no drain leaves one.      *)
THEOREM OrphansAreExplained == Spec => []OrphanedByCrashOrLateReport
  <1>1. IInv => OrphanedByCrashOrLateReport
    <2>1. IInv => crashes \in Nat
      BY JobQueueAssumption DEF IInv, Shapes
    <2>2. crashes \in Nat /\ crashes # 0 => crashes > 0
      OBVIOUS
    <2> QED
      BY <2>1, <2>2 DEF IInv, Held, Refused, OrphanedByCrashOrLateReport
  <1> QED
    BY <1>1, Inductive, PTL

(* A job is counted at most once per delivery, and is delivered at most    *)
(* once more than it stalled.                                              *)
LEMMA CountedTokens ==
    ASSUME IInv, NEW j \in Jobs, job[j].state \notin {"absent", "removed"}
    PROVE  Cardinality({t \in Token : outcome[j][t] # "none"}) <= job[j].stalls + 1
  <1> DEFINE counted == {t \in Token : outcome[j][t] # "none"}
             n == job[j].token
  <1>1. n \in Nat /\ job[j].stalls \in Nat /\ n <= job[j].stalls + 1
    BY Typed, TokenBound DEF IInv
  <1>2. counted \subseteq 1..n
    <2>1. \A t \in Token : t \in Nat /\ 1 <= t
      BY Constants DEF Token
    <2>2. \A t \in counted : t <= n
      BY DEF IInv, Deliveries, Forgotten
    <2> QED
      BY <1>1, <2>1, <2>2
  <1>3. IsFiniteSet(1..n) /\ Cardinality(1..n) = n
    <2>1. 1 \in Int /\ n \in Int
      BY <1>1
    <2>2. IsFiniteSet(1..n) /\ Cardinality(1..n) = IF 1 > n THEN 0 ELSE n - 1 + 1
      BY <2>1, FS_Interval
    <2> QED
      BY <1>1, <2>2
  <1>4. IsFiniteSet(counted) /\ Cardinality(counted) <= n
    BY <1>2, <1>3, FS_Subset
  <1>5. Cardinality(counted) \in Nat
    BY <1>4, FS_CardinalityType
  <1> QED
    BY <1>1, <1>4, <1>5

(* A job is counted at most once per delivery, so at most once more than   *)
(* it stalled, and when it ends at least once, unless it ended by stalling *)
(* (pipeline.ts:149, jobs/worker.ts).                                      *)
THEOREM AlwaysCountedOnce == Spec => []CountedOncePerDelivery
  <1>1. IInv => CountedOncePerDelivery
    <2> SUFFICES ASSUME IInv, NEW j \in Jobs, job[j].state \notin {"absent", "removed"}
                 PROVE  LET counted == {t \in Token : outcome[j][t] # "none"} IN
                        /\ Cardinality(counted) <= job[j].stalls + 1
                        /\ job[j].state \in {"completed", "failed"} =>
                              counted # {} \/ job[j].stalls > MaxStalledCount
      BY DEF CountedOncePerDelivery
    <2>1. ASSUME job[j].state \in {"completed", "failed"}, ~(job[j].stalls > MaxStalledCount)
          PROVE  {t \in Token : outcome[j][t] # "none"} # {}
      <3>1. /\ job[j] \in Hashes /\ HashOK(job[j]) /\ job[j].stalls <= MaxStalledCount
        BY <2>1, Typed, Constants DEF IInv
      <3>2. job[j].token \in Token
        BY <2>1, <3>1, LiveToken
      <3>3. AsItsRun(job[j], outcome[j][job[j].token])
        BY <2>1, <3>1 DEF IInv, Ends, EndedByRun
      <3>4. outcome[j][job[j].token] # "none"
        BY <2>1, <3>3, Constants DEF AsItsRun, Settled
      <3> QED
        BY <3>2, <3>4
    <2> QED
      BY <2>1, CountedTokens
  <1> QED
    BY <1>1, Inductive, PTL

(* What a poller is told of a job's end is true, though its hash and its   *)
(* state are read apart.                                                   *)
LEMMA PollIsTrue ==
    ASSUME IInv, Next, NEW p \in Pollers, IsTold(p), poll'[p].record # NotFound
    PROVE  LET record == poll'[p].record
               hash == job[poll[p].job]
           IN  /\ JobTenant[poll[p].job] = poll[p].tenant
               /\ record.status = "completed" => hash.returnvalue = "result"
               /\ record.status = "failed" => hash.failedReason # "none"
               /\ record.result # "none" => hash.returnvalue = record.result
               /\ record.error \notin {"none", "EXTRACTION_FAILED"} =>
                     record.error = hash.failedReason
  <1> DEFINE j == poll[p].job
             h == poll[p].hash
             record == poll'[p].record
  <1>1. poll[p].step = "state" /\ poll'[p].step = "answered"
    BY DEF IsTold
  <1>2. poll \in [Pollers -> Polls]
    BY DEF IInv, Shapes
  <1>3. getState(p)
    <2>1. poll' # poll
      BY <1>1
    <2>2. PICK q \in Pollers : getJob(q) \/ getState(q)
      BY <2>1
      DEF Next, vars, enqueue, LockExpires, Stall, Remove, Take, processJob, Report, Crash, Restart,
          shutdown, exit
    <2>3. q = p
      <3>1. \E x : poll' = [poll EXCEPT ![q] = x]
        BY <2>2 DEF getJob, getState
      <3> QED
        BY <1>1, <1>2, <3>1
    <2> QED
      BY <1>1, <2>2, <2>3 DEF getJob
  <1>4. /\ j \in Jobs /\ h \in Hashes /\ job[j] \in Hashes /\ HashOK(job[j])
        /\ h.failedReason # "none" /\ ~Forgotten(j) => job[j].failedReason = h.failedReason
    BY <1>1, <1>2, Typed DEF IInv, Read, Polls
  <1>5. JobTenant[j] = poll[p].tenant /\ record = recordOf(h, job[j].state)
    <2> DEFINE told == IF JobTenant[j] = poll[p].tenant
                       THEN recordOf(h, job[j].state) ELSE NotFound
    <2>1. poll'[p] = Answered(poll[p], told)
      BY <1>2, <1>3 DEF getState
    <2>2. record = told
      BY <1>2, <2>1 DEF Answered, Polls
    <2> QED
      BY <2>2
  <1>6. /\ record.status = toStatus(job[j].state)
        /\ record.result = IF record.status = "completed" THEN h.returnvalue ELSE "none"
        /\ record.error = IF record.status = "failed"
                          THEN decodeJobError(h.failedReason) ELSE "none"
    BY <1>5 DEF recordOf
  <1> HIDE DEF record
  <1>7. /\ record.status = "completed" => job[j].state = "completed"
        /\ record.status = "failed" => job[j].state = "failed"
    BY <1>6 DEF toStatus
  <1>8. /\ record.status = "completed" => job[j].returnvalue = "result"
        /\ record.status = "failed" => job[j].failedReason # "none"
    BY <1>4, <1>7 DEF HashOK
  <1>9. record.result # "none" => job[j].returnvalue = record.result
    BY <1>4, <1>6, <1>8 DEF Hashes
  <1>10. record.error \notin {"none", "EXTRACTION_FAILED"} =>
            record.error = job[j].failedReason
    <2> SUFFICES ASSUME record.error \notin {"none", "EXTRACTION_FAILED"}
                 PROVE  record.error = job[j].failedReason
      OBVIOUS
    <2>1. /\ record.status = "failed" /\ h.failedReason \in OcrErrorCode
          /\ record.error = h.failedReason
      BY <1>6 DEF decodeJobError
    <2>2. h.failedReason # "none" /\ ~Forgotten(j)
      BY <1>7, <2>1, Constants DEF Forgotten
    <2> QED
      BY <1>4, <2>1, <2>2
  <1> QED
    BY <1>5, <1>8, <1>9, <1>10 DEF record

(* What a poller is told of a job's end is true, though its hash and its   *)
(* state are read apart.                                                   *)
THEOREM PolledEndsAreTrue == Spec => PolledEndIsTrue
  <1> DEFINE A == \A p \in Pollers : IsTold(p) /\ poll'[p].record # NotFound =>
          LET record == poll'[p].record
              hash == job[poll[p].job]
          IN  /\ JobTenant[poll[p].job] = poll[p].tenant
              /\ record.status = "completed" => hash.returnvalue = "result"
              /\ record.status = "failed" => hash.failedReason # "none"
              /\ record.result # "none" => hash.returnvalue = record.result
              /\ record.error \notin {"none", "EXTRACTION_FAILED"} =>
                    record.error = hash.failedReason
  <1>1. IInv /\ [Next]_vars => [A]_vars
    BY PollIsTrue
  <1> QED
    BY <1>1, Inductive, PTL DEF Spec, PolledEndIsTrue

-----------------------------------------------------------------------------
(* The queue implements the job contract.                                  *)

LEMMA MoveStep ==
    ASSUME NEW j \in Jobs, NEW from, NEW to,
           PhaseOf(job[j].state) = from, PhaseOf(job'[j].state) = to,
           \A k \in Jobs \ {j} : job'[k] = job[k]
    PROVE  Contract!Move(j, from, to)
  <1>1. Phase[j] = from
    BY DEF Phase
  <1>2. Phase' = [Phase EXCEPT ![j] = to]
    BY DEF Phase
  <1> QED
    BY <1>1, <1>2 DEF Contract!Move

LEMMA EndingStep ==
    ASSUME NEW j \in Jobs, NEW a, EndingOf(job'[j]) = a,
           \A k \in Jobs \ {j} : job'[k] = job[k]
    PROVE  Ending' = [Ending EXCEPT ![j] = a]
  BY DEF Ending

LEMMA SameEnding ==
    ASSUME NEW j \in Jobs, EndingOf(job'[j]) = EndingOf(job[j]),
           \A k \in Jobs \ {j} : job'[k] = job[k]
    PROVE  Ending' = Ending
  BY DEF Ending

(* How a job that has not ended, or has, is seen by the contract.          *)
LEMMA SeenAs ==
    ASSUME NEW h \in Hashes, HashOK(h)
    PROVE  /\ h.state \notin {"completed", "failed"} => EndingOf(h) = "none"
           /\ h.state = "completed" => EndingOf(h) = "result"
           /\ h.state = "failed" => EndingOf(h) \in OcrErrorCode
           /\ h.state = "absent" => PhaseOf(h.state) = "none"
           /\ h.state = "waiting" => PhaseOf(h.state) = "queued"
           /\ h.state = "active" => PhaseOf(h.state) = "active"
           /\ h.state \in {"completed", "failed"} => PhaseOf(h.state) = "ended"
           /\ h.state = "removed" => PhaseOf(h.state) = "gone"
  BY Constants DEF HashOK, Hashes, EndingOf, PhaseOf, decodeJobError

(* A step on one job, from one hash to another.                            *)
LEMMA ContractStep ==
    ASSUME NEW j \in Jobs, job[j] \in Hashes, HashOK(job[j]),
           job'[j] \in Hashes, HashOK(job'[j]),
           \A k \in Jobs \ {j} : job'[k] = job[k],
           <<job[j].state, job'[j].state>> \in
               {<<"absent", "waiting">>, <<"waiting", "active">>, <<"active", "waiting">>,
                <<"active", "completed">>, <<"active", "failed">>,
                <<"completed", "removed">>, <<"failed", "removed">>}
    PROVE  Contract!Next
  <1> DEFINE from == job[j].state
             to == job'[j].state
  <1>1. CASE from = "absent" /\ to = "waiting"
    <2>1. Contract!Move(j, "none", "queued") /\ Ending' = Ending
      BY <1>1, SeenAs, MoveStep, SameEnding
    <2> QED
      BY <2>1 DEF Contract!Next, Contract!Submit
  <1>2. CASE from = "waiting" /\ to = "active"
    <2>1. Contract!Move(j, "queued", "active") /\ Ending' = Ending
      BY <1>2, SeenAs, MoveStep, SameEnding
    <2> QED
      BY <2>1 DEF Contract!Next, Contract!Begin
  <1>3. CASE from = "active" /\ to = "waiting"
    <2>1. Contract!Move(j, "active", "queued") /\ Ending' = Ending
      BY <1>3, SeenAs, MoveStep, SameEnding
    <2> QED
      BY <2>1 DEF Contract!Next, Contract!Redeliver
  <1>4. CASE from = "active" /\ to \in {"completed", "failed"}
    <2>1. Contract!Move(j, "active", "ended")
      BY <1>4, SeenAs, MoveStep
    <2>2. \E a \in OcrErrorCode \cup {"result"} : Ending' = [Ending EXCEPT ![j] = a]
      BY <1>4, SeenAs, EndingStep
    <2> QED
      BY <2>1, <2>2 DEF Contract!Next, Contract!End
  <1>5. CASE from \in {"completed", "failed"} /\ to = "removed"
    <2>1. Contract!Move(j, "ended", "gone") /\ Ending' = [Ending EXCEPT ![j] = "none"]
      BY <1>5, SeenAs, MoveStep, EndingStep
    <2> QED
      BY <2>1 DEF Contract!Next, Contract!Forget
  <1> QED
    BY <1>1, <1>2, <1>3, <1>4, <1>5

(* Every step of the queue is a step of the contract or leaves it alone.   *)
LEMMA StepImplements ==
    ASSUME IInv, IInv', [Next]_vars
    PROVE  [Contract!Next]_(Contract!vars)
  <1>1. CASE job' = job
    <2>1. Phase' = Phase /\ Ending' = Ending
      BY <1>1 DEF Phase, Ending
    <2> QED
      BY <2>1 DEF Contract!vars
  <1>2. ASSUME NEW j \in Jobs, NEW h, job' = [job EXCEPT ![j] = h],
               <<job[j].state, h.state>> \in
                   {<<"absent", "waiting">>, <<"waiting", "active">>, <<"active", "waiting">>,
                    <<"active", "completed">>, <<"active", "failed">>,
                    <<"completed", "removed">>, <<"failed", "removed">>}
        PROVE  Contract!Next
    <2>1. job'[j] = h /\ \A k \in Jobs \ {j} : job'[k] = job[k]
      BY <1>2 DEF IInv, Shapes
    <2>2. /\ job[j] \in Hashes /\ HashOK(job[j]) /\ job'[j] \in Hashes /\ HashOK(job'[j])
      BY DEF IInv, Shapes
    <2> QED
      BY <1>2, <2>1, <2>2, ContractStep
  <1>3. ASSUME NEW j \in Jobs, enqueue(j) \/ Remove(j) \/ Stall(j)
        PROVE  Contract!Next
    <2>1. job[j] \in Hashes /\ HashOK(job[j])
      BY Typed DEF IInv
    <2>2. CASE enqueue(j)
      BY <1>2, <2>1, <2>2 DEF enqueue, Hashes
    <2>3. CASE Remove(j)
      BY <1>2, <2>3 DEF Remove, NewJob
    <2>4. CASE Stall(j)
      BY <1>2, <2>1, <2>4, StalledHashOK DEF Stall, IsStalled
    <2> QED
      BY <1>3, <2>2, <2>3, <2>4
  <1>4. ASSUME NEW w \in Workers, NEW j \in Jobs, Take(w, j)
        PROVE  Contract!Next
    <2>1. job[j] \in Hashes /\ HashOK(job[j]) /\ job[j].state = "waiting"
      BY <1>4, Typed DEF IInv, Take
    <2>2. job' = [job EXCEPT ![j] = [job[j] EXCEPT !.state = "active", !.token = @ + 1]]
      <3>1. job' = [job EXCEPT ![j].state = "active", ![j].token = @ + 1]
        BY <1>4 DEF Take
      <3>2. job \in [Jobs -> Hashes]
        BY DEF IInv, Shapes
      <3> QED
        BY <3>1, <3>2
    <2>3. [job[j] EXCEPT !.state = "active", !.token = @ + 1].state = "active"
      BY <2>1, TakenHash
    <2> QED
      BY <1>2, <2>1, <2>2, <2>3
  <1>5. ASSUME NEW e \in running, Report(e), HoldsLock(e)
        PROVE  Contract!Next
    <2> DEFINE o == outcome[e.job][e.token]
    <2>1. /\ e.job \in Jobs /\ e.token \in Token /\ lock[e.job] = e.token
          /\ job[e.job].state = "active" /\ job[e.job].token = e.token
      <3>1. e.job \in Jobs /\ e.token \in Token /\ lock[e.job] = e.token
        BY <1>5 DEF IInv, Shapes, Executions, HoldsLock
      <3>2. e.token # 0
        BY <3>1, Constants DEF Token
      <3> QED
        BY <3>1, <3>2 DEF IInv, Locks
    <2>2. o \in Settled /\ job' = [job EXCEPT ![e.job] = Ended(job[e.job], o)]
      <3>1. e.token # 0
        BY <2>1, Constants DEF Token
      <3>2. o \in Settled \cup {"none", "dropped"} /\ o # "none"
        BY <1>5, <2>1, Typed DEF IInv, Report
      <3>3. o # "dropped"
        BY <2>1, <3>1 DEF IInv, Deliveries
      <3> QED
        BY <1>5, <3>2, <3>3 DEF Report
    <2>3. Ended(job[e.job], o).state \in {"completed", "failed"}
      BY <2>1, <2>2, Typed, EndedHash DEF IInv
    <2> QED
      BY <1>2, <2>1, <2>2, <2>3
  <1>6. ASSUME NEW e \in running, processJob(e) \/ (Report(e) /\ ~HoldsLock(e))
        PROVE  job' = job
    BY <1>6 DEF processJob, Report
  <1>7. ASSUME NEW w \in Workers, Crash(w) \/ Restart(w) \/ shutdown(w) \/ exit(w)
        PROVE  job' = job
    BY <1>7 DEF Crash, Restart, shutdown, exit
  <1>10. ASSUME NEW j \in Jobs, LockExpires(j)
         PROVE  job' = job
    BY <1>10 DEF LockExpires
  <1>8. ASSUME NEW p \in Pollers, getJob(p) \/ getState(p)
        PROVE  job' = job
    BY <1>8 DEF getJob, getState
  <1>9. CASE UNCHANGED vars
    BY <1>1, <1>9 DEF vars
  <1> QED
    BY <1>1, <1>3, <1>4, <1>5, <1>6, <1>7, <1>8, <1>9, <1>10 DEF Next

(* The queue implements the job contract, whatever crashes, stalls and     *)
(* signals there are: a job ends once and never otherwise afterwards.      *)
THEOREM QueueKeepsTheContract == Spec => ImplementsContract
  <1>1. Init => Contract!Init
    BY DEF Init, Contract!Init, Phase, Ending, PhaseOf, EndingOf, NewJob
  <1>2. IInv /\ IInv' /\ [Next]_vars => [Contract!Next]_(Contract!vars)
    BY StepImplements
  <1> QED
    BY <1>1, <1>2, Inductive, PTL DEF Spec, ImplementsContract, Contract!Spec

=============================================================================
