-------------------------- MODULE MCAdminRegistry --------------------------
(* Two logins, one of them the bootstrap one and with two ids to have one  *)
(* after the other; two requests, two sessions and two processes.          *)
EXTENDS AdminRegistry, TLC

CONSTANTS a1, a2, b1, t1, r1, r2, web1, web2

MCIds == {a1, a2, b1}
MCTokens == {t1}
MCRequests == {r1, r2}
MCProcesses == {web1, web2}
MCEmailOf == [i \in MCIds |-> IF i = b1 THEN "second" ELSE "first"]
MCRoles == {"viewer", "owner"}
MCPatches == {[Keep EXCEPT !.role = "viewer"], [Keep EXCEPT !.disabled = "yes"],
              [role |-> "owner", disabled |-> "no"]}
Anything == {"create", "delete"}
Alike == Permutations(MCRequests)
             \cup Permutations(MCProcesses)

=============================================================================
