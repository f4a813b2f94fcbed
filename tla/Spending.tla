------------------------------ MODULE Spending ------------------------------
(***************************************************************************)
(* The runs of module Extraction with the tokens the models they call      *)
(* really consume, beside the tokens the service counts.                   *)
(***************************************************************************)
EXTENDS Extraction

CONSTANT LlmFunctions   \* the functions that ask the language model

VARIABLE spent          \* run -> the tokens consumed for it (history)

SpendingVars == <<vars, spent>>

SpendingInit == Init /\ spent = [r \in Runs |-> 0]

Spends(r, n) == spent' = [spent EXCEPT ![r] = @ + n]

(* All the pages of the document were answered. *)
RecognizeSpends(r) == Recognize(r) /\ Spends(r, doc'[r].tokensUsed)

(* One page has failed: others may have been answered before it, or the    *)
(* page itself with a body that was then lost.                             *)
ProviderFailsSpends(r) ==
    /\ ProviderFails(r)
    /\ \E p \in tried'[r] \ tried[r] :
          \E n \in {0} \cup (IF ProviderDef[p].metered THEN {1} ELSE {}) : Spends(r, n)

(* A completion that is refused, empty or not the JSON asked for consumes  *)
(* its tokens too; a call that gets no completion does not.                *)
InterpretSpends(r) ==
    /\ Interpret(r)
    /\ \E n \in IF req[r].fn \notin LlmFunctions THEN {0}
                 ELSE IF outcome'[r] = "success" THEN {1} ELSE {0, 1} : Spends(r, n)

SpendsNothing ==
    /\ \/ \E r \in Runs :
             \/ Start(r) \/ Reject(r) \/ SkipExtraction(r) \/ Route(r)
             \/ CacheHit(r) \/ CacheMiss(r) \/ Store(r)
       \/ \E k \in Keys : Expire(k)
    /\ UNCHANGED spent

SpendingNext ==
    \/ \E r \in Runs : RecognizeSpends(r) \/ ProviderFailsSpends(r) \/ InterpretSpends(r)
    \/ SpendsNothing

SpendingSpec == SpendingInit /\ [][SpendingNext]_SpendingVars

-----------------------------------------------------------------------------

Consumed == SumFunctionOnSet(spent, Runs)

(* Once the runs have ended, the counter of the "LLM tokens consumed"      *)
(* (observability/metrics.ts:73), which docs/runbook.md:68 takes for the   *)
(* LLM spend, holds the tokens consumed for them, each once: also those of *)
(* a recognition that failed and of a completion, and not again those of a *)
(* document that the cache gave.                                           *)
CountsWhatIsConsumed ==
    (\A r \in Runs : pc[r] \in {"idle", "settled"}) => metrics.tokens = Consumed
=============================================================================
