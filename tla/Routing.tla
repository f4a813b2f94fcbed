------------------------------ MODULE Routing ------------------------------
(***************************************************************************)
(* Which providers may serve a function on a document, and in which order  *)
(* (providers/router.ts, config/providers.ts).  The order is stated here   *)
(* by rank, so that other modules can reason about the fallback chain      *)
(* without computing it; module Router executes the loop of the code that  *)
(* builds the chain and is shown to produce this order.                    *)
(***************************************************************************)
EXTENDS Naturals, Sequences

CONSTANTS
    FnDef,         \* function key -> [accepts, requires, ...]
    ProviderDef,   \* provider name -> [accepts, capabilities, ...]
    Policy         \* [image, scannedPdf, overrides]

(* A mutant of providerSatisfies: some() in the place of every(). *)
ProviderSatisfiesSome(p, group, required) ==
    /\ group \in ProviderDef[p].accepts
    /\ required = {} \/ required \cap ProviderDef[p].capabilities # {}

providerSatisfies(p, group, required) ==
    /\ group \in ProviderDef[p].accepts
    /\ required \subseteq ProviderDef[p].capabilities

policyForFunction(fn) ==
    [chain \in {"image", "scannedPdf"} |->
        IF fn \in DOMAIN Policy.overrides /\ chain \in DOMAIN Policy.overrides[fn]
        THEN Policy.overrides[fn][chain]
        ELSE Policy[chain]]

preferenceOrder(fn, group) ==
    LET scanned == policyForFunction(fn)["scannedPdf"] IN
    CASE group = "docx"  -> <<"mammoth">>
      [] group = "text"  -> <<"plain-text">>
      [] group = "image" -> policyForFunction(fn)["image"]
      [] group = "pdf"   -> IF FnDef[fn].requires \subseteq {"text"}
                            THEN <<"pdf-text">> \o scanned
                            ELSE scanned

-----------------------------------------------------------------------------

Registered(registry) == {registry[i] : i \in DOMAIN registry}

(* The providers of the chain routeProvider returns, in no order. *)
Candidates(registry, fn, group) ==
    {p \in Registered(registry) : providerSatisfies(p, group, FnDef[fn].requires)}

(* The names the router offers, in turn: preferred first, then the rest. *)
Offered(registry, fn, group) == preferenceOrder(fn, group) \o registry

(* p is offered before q. *)
Before(p, q, registry, fn, group) ==
    LET names == Offered(registry, fn, group) IN
    \E i \in DOMAIN names :
        /\ names[i] = p
        /\ \A j \in 1..i : names[j] # q

(* p is the provider the router would try next among those of S. *)
IsFirst(p, S, registry, fn, group) ==
    p \in S /\ \A q \in S \ {p} : Before(p, q, registry, fn, group)

=============================================================================
