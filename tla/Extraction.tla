----------------------------- MODULE Extraction -----------------------------
(***************************************************************************)
(* Concurrent runs of the pipeline (pipeline.ts) over one Redis extraction *)
(* cache (cache.ts).  A run takes a step of its own wherever the code      *)
(* awaits the cache, a provider or the function: between two steps any     *)
(* other run, of this process or of another, may take its own.             *)
(***************************************************************************)
EXTENDS Routing, FiniteSets, Functions

CONSTANTS
    Runs,           \* the calls of runPipeline
    Shas,           \* the uploaded documents, by content hash
    GroupOf,        \* sha -> mime group, or "unknown" if sniff rejects it
    PagesOf,        \* sha -> number of pages
    Functions,      \* the functions called
    Registry,       \* the providers of the process, in order
    TenantOf,       \* run -> the tenant that asked
    RedisMayFail    \* TRUE if cache commands may fail

VARIABLES
    pc,         \* run -> where it is
    req,        \* run -> the function and the document it was called with
    tried,      \* run -> the providers that failed it
    doc,        \* run -> the document it holds
    cached,     \* run -> TRUE if that document came from the cache
    outcome,    \* run -> "none", "success" or an error code
    cache,      \* <<sha, provider>> -> the document stored under that key
    metrics,    \* the counters of observability/metrics.ts
    usage       \* tenant -> its row of tenant_usage

vars == <<pc, req, tried, doc, cached, outcome, cache, metrics, usage>>

Providers == Registered(Registry)
Tenants == {TenantOf[r] : r \in Runs}
Keys == Shas \X Providers

ASSUME ExtractionAssumption ==
    /\ IsFiniteSet(Runs)
    /\ Functions \subseteq DOMAIN FnDef
    /\ "none" \notin Providers \cup Functions
    /\ Registry \in Seq(STRING)
    /\ \A p \in Providers, fn \in Functions : \A group \in ProviderDef[p].accepts :
          preferenceOrder(fn, group) \in Seq(STRING)
    /\ GroupOf \in [Shas -> STRING]
    /\ PagesOf \in [Shas -> Nat]
    /\ RedisMayFail \in BOOLEAN

NoRun == [fn |-> "none", sha |-> "none"]

(* "by" is the function whose run recognised the document (history).       *)
NoDoc == [provider |-> "none", sha |-> "none", pageCount |-> 0,
          fellBackFrom |-> "none", tokensUsed |-> 0, by |-> "none"]

(* The placeholder given to a function that skips extraction. *)
emptyDocument == NoDoc

Documents ==
    [provider : Providers, sha : Shas, pageCount : Nat,
     fellBackFrom : Providers \cup {"none"}, tokensUsed : {0, 1}, by : Functions]

NoCounts == [success |-> 0, error |-> 0, tokens |-> 0]
NoUsage == [requests |-> 0, errors |-> 0, tokens |-> 0]

(* The codes a run can end with; "untyped" is an Error that is no OcrError. *)
ErrorCode ==
    {"INVALID_ARGS", "UNSUPPORTED_MEDIA_TYPE", "EXTRACTION_FAILED",
     "PAGE_LIMIT_EXCEEDED", "INTERPRETATION_FAILED",
     "SCHEMA_VALIDATION_FAILED", "untyped"}

-----------------------------------------------------------------------------

Def(r) == FnDef[req[r].fn]
Group(r) == GroupOf[req[r].sha]
Chain(r) == Candidates(Registry, req[r].fn, Group(r))

IsNext(p, r) == IsFirst(p, Chain(r) \ tried[r], Registry, req[r].fn, Group(r))
IsPrimary(p, r) == IsFirst(p, Chain(r), Registry, req[r].fn, Group(r))

(* A mutant of usesCache: only "restricted" is kept out of the cache. *)
usesCacheButRestricted(fn) == FnDef[fn].sensitivity # "restricted"

usesCache(fn) == FnDef[fn].sensitivity = "standard"

extractionCacheKey(sha, provider) == <<sha, provider>>

(* A mutant of StoreKey: the key of the lookup is used again. *)
StoreKeyPrimary(r) ==
    extractionCacheKey(req[r].sha, CHOOSE p \in Chain(r) : IsPrimary(p, r))

StoreKey(r) == extractionCacheKey(req[r].sha, doc[r].provider)

(* metrics.recordRequest *)
recordRequest(code, d) ==
    [success |-> metrics.success + IF code = "success" THEN 1 ELSE 0,
     error   |-> metrics.error + IF code = "success" THEN 0 ELSE 1,
     tokens  |-> metrics.tokens + d.tokensUsed]

(* The upsert is not awaited, and an error of the database is swallowed.   *)
(* No step reads the row, so one that lands late leads to a state that one *)
(* that lands at once leads to.                                            *)
recordTenantUsage(t, code, d) ==
    \/ usage' = [usage EXCEPT ![t] =
                    [requests |-> @.requests + 1,
                     errors   |-> @.errors + IF code = "success" THEN 0 ELSE 1,
                     tokens   |-> @.tokens + d.tokensUsed]]
    \/ UNCHANGED usage

Succeed(r, d) ==
    /\ pc' = [pc EXCEPT ![r] = "settled"]
    /\ outcome' = [outcome EXCEPT ![r] = "success"]
    /\ metrics' = recordRequest("success", d)
    /\ recordTenantUsage(TenantOf[r], "success", d)

(* A mutant of Fail: the catch block no longer sees the document. *)
FailWithoutDocument(r, code, d) ==
    /\ pc' = [pc EXCEPT ![r] = "settled"]
    /\ outcome' = [outcome EXCEPT ![r] = code]
    /\ metrics' = recordRequest(code, NoDoc)
    /\ recordTenantUsage(TenantOf[r], code, NoDoc)

(* A mutant of Fail: the catch block counts nothing. *)
FailUncounted(r, code, d) ==
    /\ pc' = [pc EXCEPT ![r] = "settled"]
    /\ outcome' = [outcome EXCEPT ![r] = code]
    /\ UNCHANGED <<metrics, usage>>

(* The catch block; d is the document the run held when it failed. *)
Fail(r, code, d) ==
    /\ pc' = [pc EXCEPT ![r] = "settled"]
    /\ outcome' = [outcome EXCEPT ![r] = code]
    /\ metrics' = recordRequest(code, d)
    /\ recordTenantUsage(TenantOf[r], code, d)

(* A mutant of AfterExtract: a code that http/errors.ts does not have. *)
AfterExtractNewCode(r, d) ==
    /\ doc' = [doc EXCEPT ![r] = d]
    /\ \/ /\ d.pageCount > Def(r).maxPages
          /\ Fail(r, "TOO_MANY_PAGES", d)
       \/ /\ d.pageCount <= Def(r).maxPages
          /\ pc' = [pc EXCEPT ![r] = "interpret"]
          /\ UNCHANGED <<outcome, metrics, usage>>

(* What follows extractDocument: the page limit is checked on the document *)
(* it returned, whether a provider or the cache gave it.                   *)
AfterExtract(r, d) ==
    /\ doc' = [doc EXCEPT ![r] = d]
    /\ \/ /\ d.pageCount > Def(r).maxPages
          /\ Fail(r, "PAGE_LIMIT_EXCEEDED", d)
       \/ /\ d.pageCount <= Def(r).maxPages
          /\ pc' = [pc EXCEPT ![r] = "interpret"]
          /\ UNCHANGED <<outcome, metrics, usage>>

-----------------------------------------------------------------------------

Init ==
    /\ pc = [r \in Runs |-> "idle"]
    /\ req = [r \in Runs |-> NoRun]
    /\ tried = [r \in Runs |-> {}]
    /\ doc = [r \in Runs |-> NoDoc]
    /\ cached = [r \in Runs |-> FALSE]
    /\ outcome = [r \in Runs |-> "none"]
    /\ cache = [k \in Keys |-> NoDoc]
    /\ metrics = NoCounts
    /\ usage = [t \in Tenants |-> NoUsage]

Start(r) ==
    /\ pc[r] = "idle"
    /\ pc' = [pc EXCEPT ![r] = "ingest"]
    /\ \E fn \in Functions, sha \in Shas :
          req' = [req EXCEPT ![r] = [fn |-> fn, sha |-> sha]]
    /\ UNCHANGED <<tried, doc, cached, outcome, cache, metrics, usage>>

(* parseArgs throws, sniff finds no supported type, the function does not  *)
(* accept the type, or routeProvider throws a plain Error.                 *)
Reject(r) ==
    /\ pc[r] = "ingest"
    /\ \/ Fail(r, "INVALID_ARGS", NoDoc)
       \/ /\ Group(r) \notin Def(r).accepts
          /\ Fail(r, "UNSUPPORTED_MEDIA_TYPE", NoDoc)
       \/ /\ Group(r) \in Def(r).accepts
          /\ ~Def(r).skipExtraction
          /\ Chain(r) = {}
          /\ Fail(r, "untyped", NoDoc)
    /\ UNCHANGED <<req, tried, doc, cached, cache>>

SkipExtraction(r) ==
    /\ pc[r] = "ingest"
    /\ Group(r) \in Def(r).accepts
    /\ Def(r).skipExtraction
    /\ AfterExtract(r, emptyDocument)
    /\ UNCHANGED <<req, tried, cached, cache>>

Route(r) ==
    /\ pc[r] = "ingest"
    /\ Group(r) \in Def(r).accepts
    /\ ~Def(r).skipExtraction
    /\ Chain(r) # {}
    /\ pc' = [pc EXCEPT ![r] = IF usesCache(req[r].fn) THEN "lookup" ELSE "recognize"]
    /\ UNCHANGED <<req, tried, doc, cached, outcome, cache, metrics, usage>>

CacheHit(r) ==
    /\ pc[r] = "lookup"
    /\ \E p \in Chain(r) :
          LET hit == cache[extractionCacheKey(req[r].sha, p)] IN
          /\ IsPrimary(p, r)
          /\ hit # NoDoc
          /\ AfterExtract(r, hit)
    /\ cached' = [cached EXCEPT ![r] = TRUE]
    /\ UNCHANGED <<req, tried, cache>>

(* RedisExtractionCache.get: an error of Redis is a miss. *)
CacheMiss(r) ==
    /\ pc[r] = "lookup"
    /\ \E p \in Chain(r) :
          /\ IsPrimary(p, r)
          /\ cache[extractionCacheKey(req[r].sha, p)] = NoDoc \/ RedisMayFail
    /\ pc' = [pc EXCEPT ![r] = "recognize"]
    /\ UNCHANGED <<req, tried, doc, cached, outcome, cache, metrics, usage>>

(* What provider p makes of the document of run r, whose primary is q. *)
Recognized(p, q, r) ==
    [provider     |-> p,
     sha          |-> req[r].sha,
     pageCount    |-> IF ProviderDef[p].paged THEN PagesOf[req[r].sha] ELSE 1,
     fellBackFrom |-> IF p = q THEN "none" ELSE q,
     tokensUsed   |-> IF ProviderDef[p].metered THEN 1 ELSE 0,
     by           |-> req[r].fn]

Recognize(r) ==
    /\ pc[r] = "recognize"
    /\ \E p, q \in Chain(r) :
          LET d == Recognized(p, q, r) IN
          /\ IsNext(p, r) /\ IsPrimary(q, r)
          /\ \/ /\ usesCache(req[r].fn)
                /\ doc' = [doc EXCEPT ![r] = d]
                /\ pc' = [pc EXCEPT ![r] = "store"]
                /\ UNCHANGED <<outcome, metrics, usage>>
             \/ /\ ~usesCache(req[r].fn)
                /\ AfterExtract(r, d)
    /\ UNCHANGED <<req, tried, cached, cache>>

(* A mutant of ProviderFails: the loop ends and nothing is thrown. *)
ProviderFailsSilently(r) ==
    /\ pc[r] = "recognize"
    /\ \E p \in Chain(r) :
          /\ IsNext(p, r)
          /\ tried' = [tried EXCEPT ![r] = @ \cup {p}]
    /\ UNCHANGED <<pc, outcome, metrics, usage, req, doc, cached, cache>>

(* A mutant of ProviderFails: the first failure is final. *)
ProviderFailsOnce(r) ==
    /\ pc[r] = "recognize"
    /\ \E p \in Chain(r) :
          /\ IsNext(p, r)
          /\ tried' = [tried EXCEPT ![r] = @ \cup {p}]
    /\ Fail(r, "EXTRACTION_FAILED", NoDoc)
    /\ UNCHANGED <<req, doc, cached, cache>>

(* The next provider throws; the last one's failure ends the run. *)
ProviderFails(r) ==
    /\ pc[r] = "recognize"
    /\ \E p \in Chain(r) :
          /\ IsNext(p, r)
          /\ tried' = [tried EXCEPT ![r] = @ \cup {p}]
          /\ \/ /\ tried[r] \cup {p} # Chain(r)
                /\ UNCHANGED <<pc, outcome, metrics, usage>>
             \/ /\ tried[r] \cup {p} = Chain(r)
                /\ Fail(r, "EXTRACTION_FAILED", NoDoc)
    /\ UNCHANGED <<req, doc, cached, cache>>

(* RedisExtractionCache.set: an error of Redis is swallowed. *)
Store(r) ==
    /\ pc[r] = "store"
    /\ \/ cache' = [cache EXCEPT ![StoreKey(r)] = doc[r]]
       \/ RedisMayFail /\ UNCHANGED cache
    /\ AfterExtract(r, doc[r])
    /\ UNCHANGED <<req, tried, cached>>

(* def.execute and the validation of its result. *)
Interpret(r) ==
    /\ pc[r] = "interpret"
    /\ \/ Succeed(r, doc[r])
       \/ \E code \in {"INTERPRETATION_FAILED", "SCHEMA_VALIDATION_FAILED"} :
             Fail(r, code, doc[r])
    /\ UNCHANGED <<req, tried, doc, cached, cache>>

(* The TTL of an entry elapses, or Redis evicts it. *)
Expire(k) ==
    /\ cache[k] # NoDoc
    /\ cache' = [cache EXCEPT ![k] = NoDoc]
    /\ UNCHANGED <<pc, req, tried, doc, cached, outcome, metrics, usage>>

Proceed(r) ==
    \/ Reject(r) \/ SkipExtraction(r) \/ Route(r)
    \/ CacheHit(r) \/ CacheMiss(r) \/ Recognize(r) \/ ProviderFails(r)
    \/ Store(r) \/ Interpret(r)

Next ==
    \/ \E r \in Runs : Start(r) \/ Proceed(r)
    \/ \E k \in Keys : Expire(k)

(* Every await of a run settles: the cache's commands fail fast, and a     *)
(* provider's call returns or throws.                                      *)
Spec == Init /\ [][Next]_vars /\ \A r \in Runs : WF_vars(Proceed(r))

-----------------------------------------------------------------------------

TypeOK ==
    /\ pc \in [Runs -> {"idle", "ingest", "lookup", "recognize", "store",
                        "interpret", "settled"}]
    /\ req \in [Runs -> [fn : Functions, sha : Shas] \cup {NoRun}]
    /\ tried \in [Runs -> SUBSET Providers]
    /\ doc \in [Runs -> Documents \cup {NoDoc}]
    /\ cached \in [Runs -> BOOLEAN]
    /\ outcome \in [Runs -> {"none", "success"} \cup ErrorCode]
    /\ cache \in [Keys -> Documents \cup {NoDoc}]
    /\ metrics \in [success : Nat, error : Nat, tokens : Nat]
    /\ usage \in [Tenants -> [requests : Nat, errors : Nat, tokens : Nat]]

(* The document a run holds, whether its first provider, a fallback or the *)
(* cache gave it, is of the bytes it was called with and from a provider   *)
(* that accepts their format and has every capability the function         *)
(* requires (router.ts:7-9), though the entries of the cache come from     *)
(* runs of other functions with other chains.                              *)
ServedByCapable ==
    \A r \in Runs : doc[r] # NoDoc =>
        /\ doc[r].sha = req[r].sha
        /\ doc[r].provider \in Providers
        /\ Group(r) \in ProviderDef[doc[r].provider].accepts
        /\ Def(r).requires \subseteq ProviderDef[doc[r].provider].capabilities

(* What a run of a "pii" or "restricted" function recognised is never in   *)
(* the cache, and such a run is never answered from it (cache.ts:8), even  *)
(* for a document that a "standard" function caches.                       *)
SensitiveStaysOutOfCache ==
    /\ \A k \in Keys :
          cache[k] # NoDoc => FnDef[cache[k].by].sensitivity = "standard"
    /\ \A r \in Runs : cached[r] => Def(r).sensitivity = "standard"

(* A run fails with EXTRACTION_FAILED only after every provider able to    *)
(* serve it failed, so no error of Redis is ever the reason (cache.ts:31); *)
(* it is recognised by a fallback only after every provider preferred to   *)
(* that one failed, and then names the first as fellBackFrom.  A document  *)
(* from the cache carries the fellBackFrom of the run that stored it       *)
(* (pipeline.ts:128): some run of that function on these bytes did see     *)
(* that provider fail.                                                     *)
FallbackOnlyAfterFailures ==
    \A r \in Runs :
        /\ outcome[r] = "EXTRACTION_FAILED" => tried[r] = Chain(r) /\ Chain(r) # {}
        /\ doc[r] # NoDoc /\ ~cached[r] =>
              /\ \A p \in Chain(r) : p \in tried[r] <=>
                    Before(p, doc[r].provider, Registry, req[r].fn, Group(r))
              /\ \A p \in Chain(r) : IsPrimary(p, r) =>
                    doc[r].fellBackFrom = IF tried[r] = {} THEN "none" ELSE p
        /\ cached[r] /\ doc[r].fellBackFrom # "none" =>
              \E s \in Runs \ {r} :
                    /\ req[s] = [fn |-> doc[r].by, sha |-> req[r].sha]
                    /\ doc[r].fellBackFrom \in tried[s]

(* Every run that settled is one success or one error of the metrics, and  *)
(* at most one request (and one error) of its tenant's usage row: a usage  *)
(* upsert may be lost but is never applied for a run that has not settled. *)
EveryRunCountedOnce ==
    LET Settled(S) == {r \in S : pc[r] = "settled"}
        Failed(S) == {r \in Settled(S) : outcome[r] # "success"} IN
    /\ metrics.success = Cardinality(Settled(Runs) \ Failed(Runs))
    /\ metrics.error = Cardinality(Failed(Runs))
    /\ \A t \in Tenants :
          LET own == {r \in Runs : TenantOf[r] = t} IN
          /\ usage[t].errors <= usage[t].requests
          /\ usage[t].requests <= Cardinality(Settled(own))
          /\ usage[t].errors <= Cardinality(Failed(own))

(* What the documents of the settled runs of S say was used for them. *)
Reported(S) ==
    SumFunctionOnSet([r \in Runs |-> doc[r].tokensUsed], {r \in S : pc[r] = "settled"})

(* The token counter holds what the documents of all the runs that settled *)
(* report, and a tenant's usage row never more than those of its own runs  *)
(* do (pipeline.ts:145-168): a document in hand counts too when the run    *)
(* then failed its page limit or its interpretation, and however the runs  *)
(* interleave none counts twice for a run or for another tenant.  That is  *)
(* not what was consumed: see module Spending.                             *)
CountedAsReported ==
    /\ metrics.tokens = Reported(Runs)
    /\ \A t \in Tenants : usage[t].tokens <= Reported({r \in Runs : TenantOf[r] = t})

-----------------------------------------------------------------------------

(* How a run has been answered, as its caller sees it. *)
Answer ==
    [r \in Runs |->
        [outcome  |-> outcome[r],
         provider |-> IF outcome[r] = "success" THEN doc[r].provider ELSE "none"]]

Service == INSTANCE OcrService WITH answer <- Answer

(* The pipeline, with its cache and its fallbacks, does what module        *)
(* OcrService promises: one answer per run, by a capable provider or with  *)
(* an error code, and an answer to every run.                              *)
ImplementsService == Service!Spec

=============================================================================
