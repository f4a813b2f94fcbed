-------------------------- MODULE MCTenantRegistry --------------------------
(* One key, two requests of one process, and an operator that changes the  *)
(* tenant on that process, on another or with the script.                  *)
EXTENDS TenantRegistry, TLC

CONSTANTS k1, web1, web2, cli, r1, r2, o1

MCKeys == {k1}
MCProcesses == {web1, web2, cli}
MCClis == {cli}
MCRequests == {r1, r2}
MCProcessOf == [r \in MCRequests |-> web1]
MCOperators == {o1}
RequestsAlike == Permutations(MCRequests)
MCOps == {"create", "touch", "enable", "disable", "revoke"}

=============================================================================
