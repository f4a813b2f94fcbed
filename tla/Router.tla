------------------------------- MODULE Router -------------------------------
(***************************************************************************)
(* The execution of one call of routeProvider (providers/router.ts): the   *)
(* names of the preference order, then those of the registry, are offered  *)
(* one at a time to "push", which keeps a satisfying provider it has not   *)
(* kept yet; the first kept is the provider, the others its fallbacks.     *)
(***************************************************************************)
EXTENDS Routing

CONSTANTS
    Registries,    \* the registries a process may be started with
    Groups         \* the mime groups a document may have

VARIABLES
    registry, fn, group,   \* the call's arguments
    next,                  \* index of the next name to offer
    ordered,               \* the providers kept so far
    decision               \* "none" until the call returns or throws

vars == <<registry, fn, group, next, ordered, decision>>

ASSUME RouterAssumption ==
    /\ Registries \subseteq Seq(DOMAIN ProviderDef)
    /\ \A f \in DOMAIN FnDef, g \in Groups : preferenceOrder(f, g) \in Seq(STRING)
    /\ DOMAIN ProviderDef \subseteq STRING

Names == Offered(registry, fn, group)
Kept == {ordered[i] : i \in DOMAIN ordered}

Init ==
    /\ registry \in Registries
    /\ fn \in DOMAIN FnDef
    /\ group \in Groups
    /\ next = 1
    /\ ordered = <<>>
    /\ decision = "none"

(* A mutant of push: it keeps at the front. *)
pushAtFront ==
    /\ next <= Len(Names)
    /\ ordered' = IF Names[next] \in Candidates(registry, fn, group) \ Kept
                  THEN <<Names[next]>> \o ordered
                  ELSE ordered
    /\ next' = next + 1
    /\ UNCHANGED <<registry, fn, group, decision>>

(* A mutant of push: it steps over the next name too. *)
pushAndSkip ==
    /\ next <= Len(Names)
    /\ ordered' = IF Names[next] \in Candidates(registry, fn, group) \ Kept
                  THEN Append(ordered, Names[next])
                  ELSE ordered
    /\ next' = next + 2
    /\ UNCHANGED <<registry, fn, group, decision>>

(* A name that is not registered resolves to undefined and is not kept. *)
push ==
    /\ next <= Len(Names)
    /\ ordered' = IF Names[next] \in Candidates(registry, fn, group) \ Kept
                  THEN Append(ordered, Names[next])
                  ELSE ordered
    /\ next' = next + 1
    /\ UNCHANGED <<registry, fn, group, decision>>

decide ==
    /\ next > Len(Names)
    /\ decision = "none"
    /\ decision' = IF ordered = <<>> THEN "throw" ELSE "chain"
    /\ UNCHANGED <<registry, fn, group, next, ordered>>

Next == push \/ decide

Spec == Init /\ [][Next]_vars

-----------------------------------------------------------------------------

TypeOK ==
    /\ registry \in Registries
    /\ fn \in DOMAIN FnDef
    /\ group \in Groups
    /\ next \in 1..(Len(Names) + 1)
    /\ ordered \in Seq(DOMAIN ProviderDef)
    /\ decision \in {"none", "throw", "chain"}

(* The chain a call returns holds every registered provider that accepts   *)
(* the format and has every required capability, holds no other, and holds *)
(* none twice (router.ts:8-9); the call throws only when there is none.    *)
ChainIsExactlyTheCapable ==
    decision # "none" =>
        /\ Kept = {p \in Registered(registry) :
                     /\ group \in ProviderDef[p].accepts
                     /\ FnDef[fn].requires \subseteq ProviderDef[p].capabilities}
        /\ \A i, j \in DOMAIN ordered : ordered[i] = ordered[j] => i = j
        /\ decision = "throw" <=> Kept = {}

(* Each provider of the chain is the first, in the order of the preference *)
(* list and then of the registry, of those from it to the end of the chain *)
(* (router.ts:41-42): the order by which module Extraction falls back.     *)
ChainFollowsPreference ==
    decision # "none" =>
        \A i \in DOMAIN ordered :
            IsFirst(ordered[i], {ordered[j] : j \in i..Len(ordered)},
                    registry, fn, group)

=============================================================================
