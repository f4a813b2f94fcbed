----------------------------- MODULE MCJobQueue -----------------------------
(* One job that may be delivered twice, two workers of one slot, which its *)
(* two deliveries may hold both, and a request for its status, of its      *)
(* tenant or of another.                                                   *)
EXTENDS JobQueue

CONSTANTS j1, w1, w2, p1

MCJobs == {j1}
MCWorkers == {w1, w2}
MCPollers == {p1}
MCTenants == {"t1", "t2"}
MCCodes == {"EXTRACTION_FAILED", "PAGE_LIMIT_EXCEEDED"}
MCJobTenant == [j \in Jobs |-> "t1"]

=============================================================================
