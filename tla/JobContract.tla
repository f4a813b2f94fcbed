----------------------------- MODULE JobContract -----------------------------
(***************************************************************************)
(* What the asynchronous path promises: a submitted job ends once, with a  *)
(* result or with an error code, whatever number of times the pipeline was *)
(* run for it; how it ended never changes until the job is forgotten.      *)
(***************************************************************************)

CONSTANTS Jobs, Answers

VARIABLES
    phase,      \* job -> "none", "queued", "active", "ended" or "gone"
    answer      \* job -> how it ended, "none" before

vars == <<phase, answer>>

Init ==
    /\ phase = [j \in Jobs |-> "none"]
    /\ answer = [j \in Jobs |-> "none"]

Move(j, from, to) ==
    /\ phase[j] = from
    /\ phase' = [phase EXCEPT ![j] = to]

Submit(j) == Move(j, "none", "queued") /\ UNCHANGED answer
Begin(j) == Move(j, "queued", "active") /\ UNCHANGED answer
Redeliver(j) == Move(j, "active", "queued") /\ UNCHANGED answer

End(j) ==
    /\ Move(j, "active", "ended")
    /\ \E a \in Answers : answer' = [answer EXCEPT ![j] = a]

Forget(j) ==
    /\ Move(j, "ended", "gone")
    /\ answer' = [answer EXCEPT ![j] = "none"]

Next ==
    \E j \in Jobs : Submit(j) \/ Begin(j) \/ Redeliver(j) \/ End(j) \/ Forget(j)

Spec == Init /\ [][Next]_vars

=============================================================================
