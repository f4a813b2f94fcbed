----------------------------- MODULE MCGateway -----------------------------
(* Two requests out of every kind there is: of no tenant, of one that may  *)
(* not read identities, and of one whose limit is a single request, which  *)
(* asks for something personal, something large, nothing known and a job.  *)
(* The window is two of the three ticks there are.                         *)
EXTENDS Gateway, Catalog

CONSTANTS r1, r2

MCRequests == {r1, r2}
MCTenants == {"acme", "other"}
MCAllowedFunctions == "acme" :> {} @@ "other" :> {"TEXT_EXTRACTION"}
MCRateLimit == [t \in MCTenants |-> 1]
Call(t, f, b) == [tenant |-> t, function |-> f, body |-> b]
MCCalls ==
    {Call("none", "TEXT_EXTRACTION", "small"),
     Call("other", "ID_VERIFICATION", "small"),
     Call("acme", "ID_VERIFICATION", "large"),
     Call("acme", "TEXT_EXTRACTION", "large"),
     Call("acme", "unknown", "small"),
     Call("acme", "jobs", "small")}

=============================================================================
