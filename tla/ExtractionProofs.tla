-------------------------- MODULE ExtractionProofs --------------------------
(***************************************************************************)
(* Proofs about the pipeline, for every set of runs, documents, functions  *)
(* and providers and every policy.                                         *)
(***************************************************************************)
EXTENDS Extraction, FoldProofs

MaybeDocument == Documents \cup {NoDoc}
MaybeRequest == [fn : Functions, sha : Shas] \cup {NoRun}
Counts == [success : Nat, error : Nat, tokens : Nat]
Rows == [requests : Nat, errors : Nat, tokens : Nat]
Places == {"idle", "ingest", "lookup", "recognize", "store", "interpret", "settled"}
Outcomes == {"none", "success"} \cup ErrorCode

(* A run that was started has been called on a document.                   *)
Called ==
    \A r \in Runs : pc[r] # "idle" => req[r] \in [fn : Functions, sha : Shas]

-----------------------------------------------------------------------------
(* What the helpers the actions share do to the types.                     *)

LEMMA TokensNat ==
    ASSUME NEW d \in MaybeDocument
    PROVE  d.tokensUsed \in Nat /\ d.pageCount \in Nat
  BY DEF MaybeDocument, Documents, NoDoc

LEMMA CountedType ==
    ASSUME metrics \in Counts, NEW code, NEW d \in MaybeDocument
    PROVE  recordRequest(code, d) \in Counts
  BY TokensNat DEF Counts, recordRequest

LEMMA UsageType ==
    ASSUME usage \in [Tenants -> Rows], NEW t \in Tenants, NEW code,
           NEW d \in MaybeDocument, recordTenantUsage(t, code, d)
    PROVE  usage' \in [Tenants -> Rows]
  <1>1. CASE UNCHANGED usage
    BY <1>1
  <1>2. CASE usage' = [usage EXCEPT ![t] =
                    [requests |-> @.requests + 1,
                     errors   |-> @.errors + IF code = "success" THEN 0 ELSE 1,
                     tokens   |-> @.tokens + d.tokensUsed]]
    <2>1. [requests |-> usage[t].requests + 1,
           errors   |-> usage[t].errors + IF code = "success" THEN 0 ELSE 1,
           tokens   |-> usage[t].tokens + d.tokensUsed] \in Rows
      BY TokensNat DEF Rows
    <2> QED
      BY <1>2, <2>1
  <1> QED
    BY <1>1, <1>2 DEF recordTenantUsage

LEMMA FailType ==
    ASSUME TypeOK, NEW r \in Runs, NEW code \in ErrorCode,
           NEW d \in MaybeDocument, Fail(r, code, d)
    PROVE  /\ pc' \in [Runs -> Places]
           /\ outcome' \in [Runs -> Outcomes]
           /\ metrics' \in Counts
           /\ usage' \in [Tenants -> Rows]
  <1>1. pc' \in [Runs -> Places] /\ outcome' \in [Runs -> Outcomes]
    BY DEF TypeOK, Fail, Places, Outcomes
  <1>2. metrics' \in Counts
    BY CountedType DEF TypeOK, Fail, Counts
  <1>3. usage' \in [Tenants -> Rows]
    BY UsageType DEF TypeOK, Fail, Rows, Tenants
  <1> QED
    BY <1>1, <1>2, <1>3

LEMMA SucceedType ==
    ASSUME TypeOK, NEW r \in Runs, NEW d \in MaybeDocument, Succeed(r, d)
    PROVE  /\ pc' \in [Runs -> Places]
           /\ outcome' \in [Runs -> Outcomes]
           /\ metrics' \in Counts
           /\ usage' \in [Tenants -> Rows]
  <1>1. pc' \in [Runs -> Places] /\ outcome' \in [Runs -> Outcomes]
    BY DEF TypeOK, Succeed, Places, Outcomes
  <1>2. metrics' \in Counts
    BY CountedType DEF TypeOK, Succeed, Counts
  <1>3. usage' \in [Tenants -> Rows]
    BY UsageType DEF TypeOK, Succeed, Rows, Tenants
  <1> QED
    BY <1>1, <1>2, <1>3

LEMMA AfterExtractType ==
    ASSUME TypeOK, NEW r \in Runs, NEW d \in MaybeDocument, AfterExtract(r, d)
    PROVE  /\ doc' \in [Runs -> MaybeDocument]
           /\ pc' \in [Runs -> Places]
           /\ outcome' \in [Runs -> Outcomes]
           /\ metrics' \in Counts
           /\ usage' \in [Tenants -> Rows]
  <1>1. doc' \in [Runs -> MaybeDocument]
    BY DEF TypeOK, AfterExtract, MaybeDocument
  <1>2. CASE Fail(r, "PAGE_LIMIT_EXCEEDED", d)
    BY <1>1, <1>2, FailType DEF ErrorCode
  <1>3. CASE /\ pc' = [pc EXCEPT ![r] = "interpret"]
             /\ UNCHANGED <<outcome, metrics, usage>>
    BY <1>1, <1>3 DEF TypeOK, Places, Outcomes, Counts, Rows
  <1> QED
    BY <1>2, <1>3 DEF AfterExtract

LEMMA TypeStep ==
    ASSUME TypeOK, Called, [Next]_vars
    PROVE  TypeOK'
  <1> USE DEF MaybeDocument, MaybeRequest, Counts, Rows, Places, Outcomes
  <1>1. ASSUME NEW r \in Runs, Start(r)
        PROVE  TypeOK'
    BY <1>1 DEF TypeOK, Start
  <1>2. ASSUME NEW r \in Runs, Reject(r)
        PROVE  TypeOK'
    <2>1. \E code \in ErrorCode : Fail(r, code, NoDoc)
      BY <1>2 DEF Reject, ErrorCode
    <2> QED
      BY <1>2, <2>1, FailType DEF Reject, TypeOK
  <1>3. ASSUME NEW r \in Runs, SkipExtraction(r)
        PROVE  TypeOK'
    BY <1>3, AfterExtractType DEF SkipExtraction, emptyDocument, TypeOK
  <1>4. ASSUME NEW r \in Runs, Route(r)
        PROVE  TypeOK'
    BY <1>4 DEF TypeOK, Route
  <1>5. ASSUME NEW r \in Runs, CacheHit(r)
        PROVE  TypeOK'
    <2>1. PICK p \in Chain(r) :
              AfterExtract(r, cache[extractionCacheKey(req[r].sha, p)])
      BY <1>5 DEF CacheHit
    <2>2. p \in Providers /\ req[r].sha \in Shas
      BY <1>5 DEF Chain, Candidates, Providers, CacheHit, Called
    <2>3. cache[extractionCacheKey(req[r].sha, p)] \in MaybeDocument
      BY <2>2 DEF TypeOK, Keys, extractionCacheKey
    <2> QED
      BY <1>5, <2>1, <2>3, AfterExtractType DEF CacheHit, TypeOK
  <1>6. ASSUME NEW r \in Runs, CacheMiss(r)
        PROVE  TypeOK'
    BY <1>6 DEF TypeOK, CacheMiss
  <1>7. ASSUME NEW r \in Runs, Recognize(r)
        PROVE  TypeOK'
    <2>1. PICK p \in Chain(r), q \in Chain(r) :
              LET d == Recognized(p, q, r) IN
              \/ /\ doc' = [doc EXCEPT ![r] = d]
                 /\ pc' = [pc EXCEPT ![r] = "store"]
                 /\ UNCHANGED <<outcome, metrics, usage>>
              \/ AfterExtract(r, d)
      BY <1>7 DEF Recognize
    <2>2. Recognized(p, q, r) \in Documents
      <3>1. p \in Providers /\ q \in Providers
        BY DEF Chain, Candidates, Providers
      <3>2. req[r].sha \in Shas /\ req[r].fn \in Functions
        BY <1>7 DEF Called, Recognize
      <3>3. PagesOf[req[r].sha] \in Nat
        BY <3>2, ExtractionAssumption
      <3> QED
        BY <3>1, <3>2, <3>3 DEF Recognized, Documents
    <2>3. CASE AfterExtract(r, Recognized(p, q, r))
      BY <1>7, <2>2, <2>3, AfterExtractType DEF Recognize, TypeOK
    <2>4. CASE /\ doc' = [doc EXCEPT ![r] = Recognized(p, q, r)]
               /\ pc' = [pc EXCEPT ![r] = "store"]
               /\ UNCHANGED <<outcome, metrics, usage>>
      BY <1>7, <2>2, <2>4 DEF Recognize, TypeOK
    <2> QED
      BY <2>1, <2>3, <2>4
  <1>8. ASSUME NEW r \in Runs, ProviderFails(r)
        PROVE  TypeOK'
    <2>1. tried' \in [Runs -> SUBSET Providers]
      BY <1>8 DEF ProviderFails, TypeOK, Chain, Candidates, Providers
    <2>2. CASE Fail(r, "EXTRACTION_FAILED", NoDoc)
      BY <1>8, <2>1, <2>2, FailType DEF ProviderFails, TypeOK, ErrorCode
    <2>3. CASE UNCHANGED <<pc, outcome, metrics, usage>>
      BY <1>8, <2>1, <2>3 DEF ProviderFails, TypeOK
    <2> QED
      BY <1>8, <2>2, <2>3 DEF ProviderFails
  <1>9. ASSUME NEW r \in Runs, Store(r)
        PROVE  TypeOK'
    <2>1. doc[r] \in MaybeDocument
      BY DEF TypeOK
    <2>2. cache' \in [Keys -> MaybeDocument]
      BY <1>9, <2>1 DEF Store, TypeOK
    <2> QED
      BY <1>9, <2>1, <2>2, AfterExtractType DEF Store, TypeOK
  <1>10. ASSUME NEW r \in Runs, Interpret(r)
         PROVE  TypeOK'
    <2>1. doc[r] \in MaybeDocument
      BY DEF TypeOK
    <2>2. \/ Succeed(r, doc[r])
          \/ \E code \in ErrorCode : Fail(r, code, doc[r])
      BY <1>10 DEF Interpret, ErrorCode
    <2> QED
      BY <1>10, <2>1, <2>2, SucceedType, FailType DEF Interpret, TypeOK
  <1>11. ASSUME NEW k \in Keys, Expire(k)
         PROVE  TypeOK'
    BY <1>11 DEF Expire, TypeOK
  <1>12. CASE UNCHANGED vars
    BY <1>12 DEF vars, TypeOK
  <1> QED
    BY <1>1, <1>2, <1>3, <1>4, <1>5, <1>6, <1>7, <1>8, <1>9, <1>10, <1>11, <1>12
       DEF Next, Proceed

LEMMA CalledStep ==
    ASSUME TypeOK, Called, [Next]_vars
    PROVE  Called'
  <1>1. ASSUME NEW r \in Runs, Start(r)
        PROVE  Called'
    BY <1>1 DEF Start, Called, TypeOK
  <1>2. ASSUME NEW r \in Runs, Proceed(r)
        PROVE  Called'
    <2>1. req' = req /\ pc[r] # "idle"
      BY <1>2 DEF Proceed, Reject, SkipExtraction, Route, CacheHit, CacheMiss,
                  Recognize, ProviderFails, Store, Interpret
    <2>2. \A s \in Runs \ {r} : pc'[s] = pc[s]
      BY <1>2 DEF Proceed, Reject, SkipExtraction, Route, CacheHit, CacheMiss,
                  Recognize, ProviderFails, Store, Interpret, AfterExtract,
                  Fail, Succeed, TypeOK
    <2> QED
      BY <2>1, <2>2 DEF Called
  <1>3. ASSUME NEW k \in Keys, Expire(k)
        PROVE  Called'
    BY <1>3 DEF Expire, Called
  <1>4. CASE UNCHANGED vars
    BY <1>4 DEF vars, Called
  <1> QED
    BY <1>1, <1>2, <1>3, <1>4 DEF Next

(* TypeOK is not inductive alone: that a run holds a request when it asks  *)
(* for a document is what Called says.                                     *)
THEOREM TypeCorrect == Spec => [](TypeOK /\ Called)
  <1>1. Init => TypeOK /\ Called
    BY DEF Init, TypeOK, Called, NoCounts, NoUsage
  <1>2. (TypeOK /\ Called) /\ [Next]_vars => (TypeOK /\ Called)'
    BY TypeStep, CalledStep
  <1> QED
    BY <1>1, <1>2, PTL DEF Spec

-----------------------------------------------------------------------------
(* The inductive invariant behind ServedByCapable and                      *)
(* SensitiveStaysOutOfCache.  A hit is safe because the entry under a key  *)
(* is of the sha and the provider the key names, and the key of a lookup   *)
(* names a provider of the run's own chain.                                *)

HeldFromChain ==
    \A r \in Runs : doc[r] # NoDoc =>
        doc[r].sha = req[r].sha /\ doc[r].provider \in Chain(r)

KeyNamesEntry ==
    \A k \in Keys : cache[k] # NoDoc =>
        /\ k = <<cache[k].sha, cache[k].provider>>
        /\ usesCache(cache[k].by)

CacheUsers ==
    \A r \in Runs :
        /\ pc[r] = "idle" => doc[r] = NoDoc /\ ~cached[r]
        /\ pc[r] \in {"lookup", "store"} \/ cached[r] => usesCache(req[r].fn)
        /\ pc[r] = "store" => doc[r] # NoDoc /\ doc[r].by = req[r].fn

IInv == TypeOK /\ Called /\ HeldFromChain /\ KeyNamesEntry /\ CacheUsers

LEMMA AfterExtractMoves ==
    ASSUME TypeOK, NEW r \in Runs, NEW d, AfterExtract(r, d)
    PROVE  /\ doc' = [doc EXCEPT ![r] = d]
           /\ \E place \in {"interpret", "settled"} : pc' = [pc EXCEPT ![r] = place]
  BY DEF AfterExtract, Fail

(* A step that gives run r the document d, from its own chain or none.     *)
LEMMA HoldStep ==
    ASSUME IInv, NEW r \in Runs, NEW d, doc' = [doc EXCEPT ![r] = d], req' = req,
           d # NoDoc => d.sha = req[r].sha /\ d.provider \in Chain(r)
    PROVE  HeldFromChain'
  <1>1. \A s \in Runs : Chain(s)' = Chain(s)
    BY DEF Chain, Group
  <1>2. doc'[r] = d /\ \A s \in Runs \ {r} : doc'[s] = doc[s]
    BY DEF IInv, TypeOK
  <1> QED
    BY <1>1, <1>2 DEF IInv, HeldFromChain

(* A step of run r that takes it to an end or to its interpretation.       *)
LEMMA UserStep ==
    ASSUME IInv, NEW r \in Runs, NEW d, NEW place \in {"interpret", "settled"},
           pc[r] # "idle", req' = req,
           doc' = [doc EXCEPT ![r] = d], pc' = [pc EXCEPT ![r] = place],
           cached' = cached \/ (cached' = [cached EXCEPT ![r] = TRUE]
                                /\ usesCache(req[r].fn))
    PROVE  CacheUsers'
  BY DEF IInv, TypeOK, CacheUsers, usesCache

LEMMA SafeStep ==
    ASSUME IInv, [Next]_vars
    PROVE  HeldFromChain' /\ KeyNamesEntry' /\ CacheUsers'
  <1> USE DEF usesCache
  <1>1. ASSUME NEW r \in Runs, Start(r)
        PROVE  HeldFromChain' /\ KeyNamesEntry' /\ CacheUsers'
    <2>1. doc[r] = NoDoc /\ pc'[r] = "ingest" /\ doc' = doc /\ cached' = cached /\ cache' = cache
      BY <1>1 DEF Start, IInv, CacheUsers, TypeOK
    <2>2. \A s \in Runs \ {r} : req'[s] = req[s] /\ pc'[s] = pc[s]
      BY <1>1 DEF Start, IInv, TypeOK
    <2>3. \A s \in Runs \ {r} : Chain(s)' = Chain(s)
      BY <2>2 DEF Chain, Group
    <2>4. HeldFromChain'
      BY <2>1, <2>2, <2>3 DEF IInv, HeldFromChain
    <2>5. ~cached[r]
      BY <1>1 DEF Start, IInv, CacheUsers
    <2>6. CacheUsers'
      BY <2>1, <2>2, <2>5 DEF IInv, CacheUsers
    <2>7. KeyNamesEntry'
      BY <2>1 DEF IInv, KeyNamesEntry
    <2> QED
      BY <2>4, <2>6, <2>7
  <1>2. ASSUME NEW r \in Runs, Reject(r)
        PROVE  HeldFromChain' /\ KeyNamesEntry' /\ CacheUsers'
    <2>1. /\ pc' = [pc EXCEPT ![r] = "settled"]
          /\ UNCHANGED <<req, doc, cached, cache>>
      BY <1>2 DEF Reject, Fail
    <2> QED
      BY <2>1 DEF IInv, TypeOK, HeldFromChain, KeyNamesEntry, CacheUsers, Chain, Group
  <1>3. ASSUME NEW r \in Runs, SkipExtraction(r)
        PROVE  HeldFromChain' /\ KeyNamesEntry' /\ CacheUsers'
    <2>1. AfterExtract(r, NoDoc) /\ req' = req /\ cached' = cached /\ cache' = cache
          /\ pc[r] # "idle"
      BY <1>3 DEF SkipExtraction, emptyDocument
    <2>2. HeldFromChain' /\ CacheUsers'
      BY <2>1, AfterExtractMoves, HoldStep, UserStep DEF IInv
    <2> QED
      BY <2>1, <2>2 DEF IInv, KeyNamesEntry
  <1>4. ASSUME NEW r \in Runs, Route(r)
        PROVE  HeldFromChain' /\ KeyNamesEntry' /\ CacheUsers'
    BY <1>4 DEF Route, IInv, TypeOK, HeldFromChain, KeyNamesEntry, CacheUsers, Chain, Group
  <1>5. ASSUME NEW r \in Runs, CacheHit(r)
        PROVE  HeldFromChain' /\ KeyNamesEntry' /\ CacheUsers'
    <2>1. PICK p \in Chain(r) :
              /\ cache[<<req[r].sha, p>>] # NoDoc
              /\ AfterExtract(r, cache[<<req[r].sha, p>>])
      BY <1>5 DEF CacheHit, extractionCacheKey
    <2>2. <<req[r].sha, p>> \in Keys
      BY <1>5 DEF CacheHit, IInv, Called, Chain, Candidates, Providers, Keys
    <2>3. /\ cache[<<req[r].sha, p>>].sha = req[r].sha
          /\ cache[<<req[r].sha, p>>].provider = p
      BY <2>1, <2>2 DEF IInv, KeyNamesEntry
    <2>4. req' = req /\ cache' = cache /\ cached' = [cached EXCEPT ![r] = TRUE]
          /\ pc[r] = "lookup" /\ usesCache(req[r].fn)
      BY <1>5 DEF CacheHit, IInv, CacheUsers
    <2>5. PICK place \in {"interpret", "settled"} :
              /\ doc' = [doc EXCEPT ![r] = cache[<<req[r].sha, p>>]]
              /\ pc' = [pc EXCEPT ![r] = place]
      BY <2>1, AfterExtractMoves DEF IInv
    <2>6. HeldFromChain'
      BY <2>3, <2>4, <2>5, HoldStep
    <2>7. CacheUsers'
      BY <2>4, <2>5, UserStep
    <2> QED
      BY <2>4, <2>6, <2>7 DEF IInv, KeyNamesEntry
  <1>6. ASSUME NEW r \in Runs, CacheMiss(r)
        PROVE  HeldFromChain' /\ KeyNamesEntry' /\ CacheUsers'
    BY <1>6 DEF CacheMiss, IInv, TypeOK, HeldFromChain, KeyNamesEntry, CacheUsers, Chain, Group
  <1>7. ASSUME NEW r \in Runs, Recognize(r)
        PROVE  HeldFromChain' /\ KeyNamesEntry' /\ CacheUsers'
    <2>1. PICK p \in Chain(r), q \in Chain(r) :
              \/ /\ usesCache(req[r].fn)
                 /\ doc' = [doc EXCEPT ![r] = Recognized(p, q, r)]
                 /\ pc' = [pc EXCEPT ![r] = "store"]
              \/ AfterExtract(r, Recognized(p, q, r))
      BY <1>7 DEF Recognize
    <2>2. req' = req /\ cache' = cache /\ cached' = cached /\ pc[r] = "recognize"
      BY <1>7 DEF Recognize
    <2>3. Recognized(p, q, r).sha = req[r].sha /\ Recognized(p, q, r).provider \in Chain(r)
          /\ Recognized(p, q, r).by = req[r].fn
      BY DEF Recognized
    <2>4. Recognized(p, q, r).provider # "none"
      BY <2>3, ExtractionAssumption DEF Chain, Candidates, Providers
    <2>5. Recognized(p, q, r) # NoDoc
      BY <2>4 DEF NoDoc
    <2>6. HeldFromChain'
      BY <2>1, <2>2, <2>3, AfterExtractMoves, HoldStep DEF IInv
    <2>7. CASE AfterExtract(r, Recognized(p, q, r))
      <3>1. CacheUsers'
        BY <2>2, <2>7, AfterExtractMoves, UserStep DEF IInv
      <3> QED
        BY <2>2, <2>6, <3>1 DEF IInv, KeyNamesEntry
    <2>8. CASE /\ usesCache(req[r].fn)
               /\ doc' = [doc EXCEPT ![r] = Recognized(p, q, r)]
               /\ pc' = [pc EXCEPT ![r] = "store"]
      <3>1. doc'[r] = Recognized(p, q, r) /\ pc'[r] = "store"
        BY <2>8 DEF IInv, TypeOK
      <3>2. \A s \in Runs \ {r} : doc'[s] = doc[s] /\ pc'[s] = pc[s]
        BY <2>8 DEF IInv, TypeOK
      <3>3. CacheUsers'
        BY <2>2, <2>3, <2>5, <2>8, <3>1, <3>2 DEF IInv, CacheUsers
      <3> QED
        BY <2>2, <2>6, <3>3 DEF IInv, KeyNamesEntry
    <2> QED
      BY <2>1, <2>7, <2>8
  <1>8. ASSUME NEW r \in Runs, ProviderFails(r)
        PROVE  HeldFromChain' /\ KeyNamesEntry' /\ CacheUsers'
    <2>1. /\ pc' = pc \/ pc' = [pc EXCEPT ![r] = "settled"]
          /\ UNCHANGED <<req, doc, cached, cache>>
      BY <1>8 DEF ProviderFails, Fail
    <2>2. pc[r] = "recognize"
      BY <1>8 DEF ProviderFails
    <2> QED
      BY <2>1, <2>2 DEF IInv, TypeOK, HeldFromChain, KeyNamesEntry, CacheUsers, Chain, Group
  <1>9. ASSUME NEW r \in Runs, Store(r)
        PROVE  HeldFromChain' /\ KeyNamesEntry' /\ CacheUsers'
    <2>1. /\ AfterExtract(r, doc[r]) /\ req' = req /\ cached' = cached
          /\ pc[r] = "store"
          /\ cache' = cache \/ cache' = [cache EXCEPT ![<<req[r].sha, doc[r].provider>>] = doc[r]]
      BY <1>9 DEF Store, StoreKey, extractionCacheKey
    <2>2. /\ doc[r] # NoDoc /\ doc[r].sha = req[r].sha /\ doc[r].by = req[r].fn
          /\ doc[r].provider \in Chain(r) /\ usesCache(req[r].fn)
      BY <2>1 DEF IInv, CacheUsers, HeldFromChain
    <2>3. HeldFromChain' /\ CacheUsers'
      BY <2>1, <2>2, AfterExtractMoves, HoldStep, UserStep DEF IInv
    <2>4. KeyNamesEntry'
      BY <2>1, <2>2 DEF IInv, TypeOK, KeyNamesEntry
    <2> QED
      BY <2>3, <2>4
  <1>10. ASSUME NEW r \in Runs, Interpret(r)
         PROVE  HeldFromChain' /\ KeyNamesEntry' /\ CacheUsers'
    <2>1. /\ pc' = [pc EXCEPT ![r] = "settled"]
          /\ UNCHANGED <<req, doc, cached, cache>>
      BY <1>10 DEF Interpret, Fail, Succeed
    <2>2. pc[r] # "idle"
      BY <1>10 DEF Interpret
    <2> QED
      BY <2>1, <2>2 DEF IInv, TypeOK, HeldFromChain, KeyNamesEntry, CacheUsers, Chain, Group
  <1>11. ASSUME NEW k \in Keys, Expire(k)
         PROVE  HeldFromChain' /\ KeyNamesEntry' /\ CacheUsers'
    BY <1>11 DEF Expire, IInv, TypeOK, HeldFromChain, KeyNamesEntry, CacheUsers, Chain, Group
  <1>12. CASE UNCHANGED vars
    BY <1>12 DEF vars, IInv, HeldFromChain, KeyNamesEntry, CacheUsers, Chain, Group
  <1> QED
    BY <1>1, <1>2, <1>3, <1>4, <1>5, <1>6, <1>7, <1>8, <1>9, <1>10, <1>11, <1>12
       DEF Next, Proceed

(* In every state the cache holds, under each key, a document of the bytes *)
(* and the provider the key names (cache.ts), and a run holds one of its   *)
(* own chain (pipeline.ts).                                                *)
THEOREM Inductive == Spec => []IInv
  <1>1. Init => IInv
    BY DEF Init, IInv, TypeOK, Called, NoCounts, NoUsage,
           HeldFromChain, KeyNamesEntry, CacheUsers
  <1>2. IInv /\ [Next]_vars => IInv'
    BY TypeStep, CalledStep, SafeStep DEF IInv
  <1> QED
    BY <1>1, <1>2, PTL DEF Spec

(* A provider without a required capability never serves a function, with  *)
(* any registry and policy, any fallback and any sharing of the cache.     *)
THEOREM AlwaysServedByCapable == Spec => []ServedByCapable
  <1>1. IInv => ServedByCapable
    BY DEF IInv, HeldFromChain, ServedByCapable, Chain, Candidates,
           providerSatisfies, Providers, Def
  <1> QED
    BY <1>1, Inductive, PTL

(* What a sensitive function recognises never reaches the cache, and such  *)
(* a function is never answered from it.                                   *)
THEOREM AlwaysOutOfCache == Spec => []SensitiveStaysOutOfCache
  <1>1. IInv => SensitiveStaysOutOfCache
    BY DEF IInv, KeyNamesEntry, CacheUsers, SensitiveStaysOutOfCache, usesCache, Def
  <1> QED
    BY <1>1, Inductive, PTL

-----------------------------------------------------------------------------
(* The order of the chain: a name is offered where it first appears, so    *)
(* two providers are never each before the other.                          *)

Offers(r) == Offered(Registry, req[r].fn, Group(r))
Precedes(p, q, r) == Before(p, q, Registry, req[r].fn, Group(r))

LEMMA OffersAreNames ==
    ASSUME Called, NEW r \in Runs, pc[r] # "idle", Chain(r) # {}
    PROVE  Offers(r) \in Seq(STRING)
  <1>1. PICK p \in Chain(r) : TRUE
    OBVIOUS
  <1>2. /\ p \in Providers
        /\ Group(r) \in ProviderDef[p].accepts
        /\ req[r].fn \in Functions
    BY <1>1 DEF Called, Chain, Candidates, providerSatisfies, Providers
  <1>3. preferenceOrder(req[r].fn, Group(r)) \in Seq(STRING)
    BY <1>2, ExtractionAssumption
  <1> QED
    BY <1>3, ExtractionAssumption DEF Offers, Offered

LEMMA PrecedesIsStrict ==
    ASSUME Called, NEW r \in Runs, pc[r] # "idle", Chain(r) # {},
           NEW p, NEW q, Precedes(p, q, r)
    PROVE  p # q /\ ~Precedes(q, p, r)
  <1> DEFINE names == Offers(r)
  <1>1. names \in Seq(STRING)
    BY OffersAreNames
  <1> HIDE DEF names
  <1>2. PICK i \in 1..Len(names) : names[i] = p /\ \A j \in 1..i : names[j] # q
    BY <1>1 DEF Precedes, Before, Offers, names
  <1>3. p # q
    BY <1>1, <1>2
  <1>4. ASSUME Precedes(q, p, r)
        PROVE  FALSE
    <2>1. PICK k \in 1..Len(names) : names[k] = q /\ \A j \in 1..k : names[j] # p
      BY <1>1, <1>4 DEF Precedes, Before, Offers, names
    <2>2. i \in 1..k \/ k \in 1..i
      BY <1>1, <1>2, <2>1
    <2> QED
      BY <1>2, <2>1, <2>2
  <1> QED
    BY <1>3, <1>4

-----------------------------------------------------------------------------
(* The inductive invariant behind FallbackOnlyAfterFailures.  A document   *)
(* of the cache names in fellBackFrom a provider that failed another run,  *)
(* whose list of failures only grows, so the entry stays true.             *)

(* What a run has not come to is still empty.                              *)
NotYet(r) ==
    /\ pc[r] # "settled" => outcome[r] = "none"
    /\ pc[r] \in {"idle", "ingest", "lookup", "recognize"} =>
          doc[r] = NoDoc /\ ~cached[r]
    /\ pc[r] \in {"idle", "ingest", "lookup"} => tried[r] = {}
    /\ pc[r] = "store" => ~cached[r]

(* The providers that failed a run are the first ones of its chain.        *)
TriedFirst(r) ==
    /\ tried[r] \subseteq Chain(r)
    /\ \A p \in tried[r], q \in Chain(r) \ tried[r] : Precedes(p, q, r)

LastResort(r) ==
    outcome[r] = "EXTRACTION_FAILED" => tried[r] = Chain(r) /\ Chain(r) # {}

OwnDocument(r) ==
    doc[r] # NoDoc /\ ~cached[r] =>
        /\ \A p \in Chain(r) : p \in tried[r] <=> Precedes(p, doc[r].provider, r)
        /\ \A p \in Chain(r) : IsPrimary(p, r) =>
              doc[r].fellBackFrom = IF tried[r] = {} THEN "none" ELSE p
        /\ doc[r].fellBackFrom # "none" => doc[r].fellBackFrom \in tried[r]

(* Run s saw the failure that document d, of these bytes, reports.         *)
Saw(s, d, sha) ==
    /\ req[s] = [fn |-> d.by, sha |-> sha]
    /\ d.fellBackFrom \in tried[s]

HitWitnessed(r) ==
    cached[r] /\ doc[r].fellBackFrom # "none" =>
        \E s \in Runs \ {r} : Saw(s, doc[r], req[r].sha)

EntryWitnessed ==
    \A k \in Keys : cache[k] # NoDoc /\ cache[k].fellBackFrom # "none" =>
        \E s \in Runs : Saw(s, cache[k], cache[k].sha)

RunIsTrue(r) ==
    /\ NotYet(r) /\ TriedFirst(r) /\ LastResort(r)
    /\ OwnDocument(r) /\ HitWitnessed(r)

FInv == IInv /\ (\A r \in Runs : RunIsTrue(r)) /\ EntryWitnessed

-----------------------------------------------------------------------------

(* A step of one run leaves the others' state alone.                       *)
Same(s) ==
    /\ pc'[s] = pc[s] /\ req'[s] = req[s] /\ tried'[s] = tried[s]
    /\ doc'[s] = doc[s] /\ cached'[s] = cached[s] /\ outcome'[s] = outcome[s]

LEMMA OneRunMoves ==
    ASSUME TypeOK, NEW r \in Runs, Start(r) \/ Proceed(r)
    PROVE  \A s \in Runs \ {r} : Same(s)
  <1> USE DEF Same, TypeOK
  <1>1. CASE Start(r)
    BY <1>1 DEF Start
  <1>2. CASE Reject(r)
    BY <1>2 DEF Reject, Fail
  <1>3. CASE SkipExtraction(r)
    BY <1>3 DEF SkipExtraction, AfterExtract, Fail
  <1>4. CASE Route(r)
    BY <1>4 DEF Route
  <1>5. CASE CacheHit(r)
    BY <1>5 DEF CacheHit, AfterExtract, Fail
  <1>6. CASE CacheMiss(r)
    BY <1>6 DEF CacheMiss
  <1>7. CASE Recognize(r)
    BY <1>7 DEF Recognize, AfterExtract, Fail
  <1>8. CASE ProviderFails(r)
    BY <1>8 DEF ProviderFails, Fail
  <1>9. CASE Store(r)
    BY <1>9 DEF Store, AfterExtract, Fail
  <1>10. CASE Interpret(r)
    BY <1>10 DEF Interpret, Fail, Succeed
  <1> QED
    BY <1>1, <1>2, <1>3, <1>4, <1>5, <1>6, <1>7, <1>8, <1>9, <1>10 DEF Proceed

(* The part of a run's truth that rests on its own state.                  *)
OwnTruth(r) == NotYet(r) /\ TriedFirst(r) /\ LastResort(r) /\ OwnDocument(r)

LEMMA SameIsTrue ==
    ASSUME NEW s \in Runs, OwnTruth(s), Same(s)
    PROVE  OwnTruth(s)'
  <1>1. Chain(s)' = Chain(s) /\ \A p, q : Precedes(p, q, s)' = Precedes(p, q, s)
    BY DEF Same, Chain, Precedes, Group
  <1>2. \A p : IsPrimary(p, s)' <=> IsPrimary(p, s)
    BY DEF Same, IsPrimary, Chain, Group
  <1> QED
    BY <1>1, <1>2 DEF OwnTruth, NotYet, TriedFirst, LastResort, OwnDocument, Same

(* The request of a run stands once it is called, so its chain does.       *)
LEMMA ChainStands ==
    ASSUME NEW r \in Runs, req' = req
    PROVE  /\ Chain(r)' = Chain(r)
           /\ \A p, q : Precedes(p, q, r)' = Precedes(p, q, r)
           /\ \A p : IsPrimary(p, r)' = IsPrimary(p, r)
  BY DEF Chain, Precedes, Group, IsPrimary

(* What a run does after the page limit is checked.                        *)
LEMMA AfterExtractIsTrue ==
    ASSUME FInv, NEW r \in Runs, NEW d, AfterExtract(r, d),
           req' = req, tried' = tried,
           pc[r] # "settled", ~cached'[r] => OwnDocument(r)'
    PROVE  OwnTruth(r)'
  <1>1. /\ pc'[r] \in {"interpret", "settled"}
        /\ outcome'[r] \in {outcome[r], "PAGE_LIMIT_EXCEEDED"}
        /\ pc'[r] = "interpret" => outcome'[r] = outcome[r]
        /\ outcome[r] = "none"
    BY DEF AfterExtract, Fail, FInv, IInv, TypeOK, RunIsTrue, NotYet
  <1>2. NotYet(r)'
    BY <1>1 DEF NotYet
  <1>3. TriedFirst(r)'
    BY ChainStands DEF FInv, RunIsTrue, TriedFirst
  <1>4. LastResort(r)'
    BY <1>1 DEF LastResort
  <1>5. OwnDocument(r)'
    BY DEF OwnDocument
  <1> QED
    BY <1>2, <1>3, <1>4, <1>5 DEF OwnTruth

LEMMA RecognizeIsTrue ==
    ASSUME FInv, NEW r \in Runs, Recognize(r)
    PROVE  OwnTruth(r)'
  <1>1. PICK p \in Chain(r), q \in Chain(r) :
            /\ IsNext(p, r) /\ IsPrimary(q, r)
            /\ \/ /\ doc' = [doc EXCEPT ![r] = Recognized(p, q, r)]
                  /\ pc' = [pc EXCEPT ![r] = "store"]
                  /\ UNCHANGED outcome
               \/ AfterExtract(r, Recognized(p, q, r))
    BY DEF Recognize
  <1>2. /\ req' = req /\ tried' = tried /\ cached' = cached /\ pc[r] = "recognize"
        /\ Called /\ TypeOK /\ pc[r] # "idle" /\ Chain(r) # {}
        /\ outcome[r] = "none" /\ ~cached[r]
    BY DEF Recognize, FInv, IInv, RunIsTrue, NotYet
  <1>3. doc'[r] = Recognized(p, q, r)
    BY <1>1, <1>2 DEF AfterExtract, TypeOK
  <1>4. /\ p \notin tried[r]
        /\ \A x \in Chain(r) \ tried[r] : x = p \/ Precedes(p, x, r)
        /\ \A x \in Chain(r) : x = q \/ Precedes(q, x, r)
    BY <1>1 DEF IsNext, IsPrimary, IsFirst, Precedes
  <1>5. tried[r] \subseteq Chain(r) /\ \A x \in tried[r] : Precedes(x, p, r)
    BY <1>4, <1>1 DEF FInv, RunIsTrue, TriedFirst
  <1>6. \A x \in Chain(r) : x \in tried[r] <=> Precedes(x, p, r)
    BY <1>2, <1>4, <1>5, PrecedesIsStrict
  <1>7. \A x \in Chain(r) : IsPrimary(x, r) => x = q
    <2> SUFFICES ASSUME NEW x \in Chain(r), IsPrimary(x, r), x # q
                 PROVE  FALSE
      OBVIOUS
    <2>1. Precedes(x, q, r) /\ Precedes(q, x, r)
      BY <1>4 DEF IsPrimary, IsFirst, Precedes
    <2> QED
      BY <1>2, <2>1, PrecedesIsStrict
  <1>8. tried[r] = {} <=> p = q
    <2>1. ASSUME tried[r] = {}, p # q
          PROVE  FALSE
      <3>1. Precedes(p, q, r) /\ Precedes(q, p, r)
        BY <1>4, <2>1
      <3> QED
        BY <1>2, <3>1, PrecedesIsStrict
    <2>2. ASSUME NEW x \in tried[r], p = q
          PROVE  FALSE
      <3>1. Precedes(x, p, r) /\ Precedes(p, x, r)
        BY <1>4, <1>5, <2>2
      <3> QED
        BY <1>2, <3>1, PrecedesIsStrict
    <2> QED
      BY <2>1, <2>2
  <1>9. p # q => q \in tried[r]
    <2> SUFFICES ASSUME p # q, q \notin tried[r]
                 PROVE  FALSE
      OBVIOUS
    <2>1. Precedes(p, q, r) /\ Precedes(q, p, r)
      BY <1>4
    <2> QED
      BY <1>2, <2>1, PrecedesIsStrict
  <1>10. OwnDocument(r)'
    <2>1. doc'[r].provider = p /\ doc'[r].fellBackFrom = IF p = q THEN "none" ELSE q
      BY <1>3 DEF Recognized
    <2> HIDE DEF Precedes
    <2>2. /\ Chain(r)' = Chain(r)
          /\ \A x, y : Precedes(x, y, r)' = Precedes(x, y, r)
          /\ \A x : IsPrimary(x, r)' = IsPrimary(x, r)
      BY <1>2, ChainStands
    <2>3. \A x \in Chain(r) : x \in tried'[r] <=> Precedes(x, doc'[r].provider, r)
      BY <1>2, <1>6, <2>1
    <2>4. \A x \in Chain(r) : IsPrimary(x, r) =>
              doc'[r].fellBackFrom = IF tried'[r] = {} THEN "none" ELSE x
      BY <1>2, <1>7, <1>8, <2>1
    <2>5. doc'[r].fellBackFrom # "none" => doc'[r].fellBackFrom \in tried'[r]
      BY <1>2, <1>9, <2>1
    <2> QED
      BY <2>2, <2>3, <2>4, <2>5 DEF OwnDocument
  <1>11. CASE AfterExtract(r, Recognized(p, q, r))
    BY <1>2, <1>10, <1>11, AfterExtractIsTrue
  <1>12. CASE /\ pc' = [pc EXCEPT ![r] = "store"]
              /\ UNCHANGED outcome
    <2>1. pc'[r] = "store" /\ outcome'[r] = "none" /\ ~cached'[r]
      BY <1>2, <1>12 DEF TypeOK
    <2>2. TriedFirst(r)'
      BY <1>2, ChainStands DEF FInv, RunIsTrue, TriedFirst
    <2> QED
      BY <1>10, <2>1, <2>2 DEF OwnTruth, NotYet, LastResort
  <1> QED
    BY <1>1, <1>11, <1>12

LEMMA ProviderFailsIsTrue ==
    ASSUME FInv, NEW r \in Runs, ProviderFails(r)
    PROVE  OwnTruth(r)'
  <1>1. PICK p \in Chain(r) :
            /\ IsNext(p, r)
            /\ tried' = [tried EXCEPT ![r] = @ \cup {p}]
            /\ \/ UNCHANGED <<pc, outcome>>
               \/ /\ tried[r] \cup {p} = Chain(r)
                  /\ pc' = [pc EXCEPT ![r] = "settled"]
                  /\ outcome' = [outcome EXCEPT ![r] = "EXTRACTION_FAILED"]
    BY DEF ProviderFails, Fail
  <1>2. /\ req' = req /\ doc' = doc /\ cached' = cached /\ pc[r] = "recognize"
        /\ TypeOK /\ doc[r] = NoDoc /\ outcome[r] = "none" /\ ~cached[r]
    BY DEF ProviderFails, FInv, IInv, RunIsTrue, NotYet
  <1>3. tried'[r] = tried[r] \cup {p}
    BY <1>1, <1>2 DEF TypeOK
  <1>4. \/ pc'[r] = "recognize" /\ outcome'[r] = "none"
        \/ pc'[r] = "settled" /\ tried'[r] = Chain(r)
    BY <1>1, <1>2, <1>3 DEF TypeOK
  <1>5. NotYet(r)'
    BY <1>2, <1>4 DEF NotYet
  <1>6. TriedFirst(r)'
    <2>1. tried[r] \subseteq Chain(r)
          /\ \A x \in tried[r], y \in Chain(r) \ tried[r] : Precedes(x, y, r)
      BY DEF FInv, RunIsTrue, TriedFirst
    <2>2. \A y \in Chain(r) \ tried[r] : y = p \/ Precedes(p, y, r)
      BY <1>1 DEF IsNext, IsFirst, Precedes
    <2>3. \A x \in tried'[r], y \in Chain(r) \ tried'[r] : Precedes(x, y, r)
      BY <1>3, <2>1, <2>2
    <2> QED
      BY <1>2, <1>3, <2>1, <2>3, ChainStands DEF TriedFirst
  <1>7. LastResort(r)'
    BY <1>2, <1>4, ChainStands DEF LastResort
  <1>8. OwnDocument(r)'
    BY <1>2 DEF OwnDocument
  <1> QED
    BY <1>5, <1>6, <1>7, <1>8 DEF OwnTruth

LEMMA OwnStep ==
    ASSUME FInv, NEW r \in Runs, Start(r) \/ Proceed(r)
    PROVE  OwnTruth(r)'
  <1>0. TypeOK /\ NotYet(r) /\ TriedFirst(r) /\ LastResort(r) /\ OwnDocument(r)
    BY DEF FInv, IInv, RunIsTrue
  <1>1. CASE Start(r)
    BY <1>0, <1>1 DEF Start, TypeOK, OwnTruth, NotYet, TriedFirst, LastResort, OwnDocument
  <1>2. CASE Reject(r)
    <2>1. /\ req' = req /\ tried' = tried /\ doc' = doc /\ cached' = cached
          /\ pc[r] = "ingest" /\ pc'[r] = "settled"
          /\ outcome'[r] # "EXTRACTION_FAILED"
      BY <1>0, <1>2 DEF Reject, Fail, TypeOK
    <2> QED
      BY <1>0, <2>1, ChainStands
         DEF OwnTruth, NotYet, TriedFirst, LastResort, OwnDocument
  <1>3. CASE SkipExtraction(r)
    <2>1. /\ AfterExtract(r, NoDoc) /\ req' = req /\ tried' = tried
          /\ pc[r] = "ingest"
      BY <1>3 DEF SkipExtraction, emptyDocument
    <2>2. OwnDocument(r)'
      BY <1>0, <2>1 DEF AfterExtract, TypeOK, OwnDocument
    <2> QED
      BY <2>1, <2>2, AfterExtractIsTrue
  <1>4. CASE Route(r)
    <2>1. /\ UNCHANGED <<req, tried, doc, cached, outcome>>
          /\ pc[r] = "ingest" /\ pc'[r] \in {"lookup", "recognize"}
      BY <1>0, <1>4 DEF Route, TypeOK
    <2> QED
      BY <1>0, <2>1, ChainStands
         DEF OwnTruth, NotYet, TriedFirst, LastResort, OwnDocument
  <1>5. CASE CacheHit(r)
    <2>1. PICK p \in Chain(r) :
              AfterExtract(r, cache[extractionCacheKey(req[r].sha, p)])
      BY <1>5 DEF CacheHit
    <2>2. req' = req /\ tried' = tried /\ pc[r] = "lookup" /\ cached'[r]
      BY <1>0, <1>5 DEF CacheHit, TypeOK
    <2> QED
      BY <2>1, <2>2, AfterExtractIsTrue
  <1>6. CASE CacheMiss(r)
    <2>1. /\ UNCHANGED <<req, tried, doc, cached, outcome>>
          /\ pc[r] = "lookup" /\ pc'[r] = "recognize"
      BY <1>0, <1>6 DEF CacheMiss, TypeOK
    <2> QED
      BY <1>0, <2>1, ChainStands
         DEF OwnTruth, NotYet, TriedFirst, LastResort, OwnDocument
  <1>7. CASE Recognize(r)
    BY <1>7, RecognizeIsTrue
  <1>8. CASE ProviderFails(r)
    BY <1>8, ProviderFailsIsTrue
  <1>9. CASE Store(r)
    <2>1. /\ AfterExtract(r, doc[r]) /\ req' = req /\ tried' = tried
          /\ cached' = cached /\ pc[r] = "store"
      BY <1>9 DEF Store
    <2>2. doc' = doc
      BY <1>0, <2>1 DEF AfterExtract, TypeOK
    <2>3. OwnDocument(r)'
      BY <1>0, <2>1, <2>2, ChainStands DEF OwnDocument
    <2> QED
      BY <2>1, <2>3, AfterExtractIsTrue
  <1>10. CASE Interpret(r)
    <2>1. /\ req' = req /\ tried' = tried /\ doc' = doc /\ cached' = cached
          /\ pc[r] = "interpret" /\ pc'[r] = "settled"
          /\ outcome'[r] # "EXTRACTION_FAILED"
      BY <1>0, <1>10 DEF Interpret, Fail, Succeed, TypeOK
    <2> QED
      BY <1>0, <2>1, ChainStands
         DEF OwnTruth, NotYet, TriedFirst, LastResort, OwnDocument
  <1> QED
    BY <1>1, <1>2, <1>3, <1>4, <1>5, <1>6, <1>7, <1>8, <1>9, <1>10 DEF Proceed

(* What a run saw fail stays seen: its failures only grow and its request  *)
(* stands.                                                                 *)
LEMMA SawStays ==
    ASSUME FInv, [Next]_vars, NEW s \in Runs, NEW d, NEW sha, Saw(s, d, sha)
    PROVE  req'[s] = req[s] /\ tried[s] \subseteq tried'[s]
  <1>1. pc[s] # "idle" /\ TypeOK
    BY DEF Saw, FInv, IInv, RunIsTrue, NotYet
  <1>2. ASSUME NEW r \in Runs, Start(r)
        PROVE  req'[s] = req[s] /\ tried[s] \subseteq tried'[s]
    BY <1>1, <1>2 DEF Start, TypeOK
  <1>3. ASSUME NEW r \in Runs, Proceed(r)
        PROVE  req'[s] = req[s] /\ tried[s] \subseteq tried'[s]
    <2>1. req' = req
      BY <1>3 DEF Proceed, Reject, SkipExtraction, Route, CacheHit, CacheMiss,
                  Recognize, ProviderFails, Store, Interpret
    <2>2. tried' = tried \/ \E p \in Chain(r) : tried' = [tried EXCEPT ![r] = @ \cup {p}]
      BY <1>3 DEF Proceed, Reject, SkipExtraction, Route, CacheHit, CacheMiss,
                  Recognize, ProviderFails, Store, Interpret
    <2> QED
      BY <1>1, <2>1, <2>2 DEF TypeOK
  <1>4. ASSUME NEW k \in Keys, Expire(k)
        PROVE  req'[s] = req[s] /\ tried[s] \subseteq tried'[s]
    BY <1>4 DEF Expire
  <1>5. CASE UNCHANGED vars
    BY <1>5 DEF vars
  <1> QED
    BY <1>2, <1>3, <1>4, <1>5 DEF Next

(* What is stored was recognised by the run that stores it; nothing else   *)
(* adds to the cache.                                                      *)
LEMMA OnlyStoreAdds ==
    ASSUME FInv, [Next]_vars, NEW k \in Keys, cache'[k] # NoDoc, cache'[k] # cache[k]
    PROVE  \E r \in Runs : /\ pc[r] = "store" /\ req' = req /\ tried' = tried
                           /\ cache'[k] = doc[r] /\ doc[r] # NoDoc
                           /\ ~cached[r] /\ doc[r].by = req[r].fn
                           /\ doc[r].sha = req[r].sha
  <1>0. TypeOK
    BY DEF FInv, IInv
  <1>1. PICK r \in Runs : Store(r)
    BY <1>0 DEF Next, Proceed, Start, Reject, SkipExtraction, Route, CacheHit, CacheMiss,
           Recognize, ProviderFails, Interpret, Expire, vars, TypeOK
  <1>2. /\ pc[r] = "store" /\ req' = req /\ tried' = tried
        /\ cache' = cache \/ cache' = [cache EXCEPT ![StoreKey(r)] = doc[r]]
    BY <1>1 DEF Store
  <1>3. cache'[k] = doc[r]
    BY <1>0, <1>2 DEF TypeOK
  <1>4. doc[r] # NoDoc /\ ~cached[r] /\ doc[r].by = req[r].fn
        /\ doc[r].sha = req[r].sha
    BY <1>2 DEF FInv, IInv, CacheUsers, HeldFromChain, RunIsTrue, NotYet
  <1> QED
    BY <1>2, <1>3, <1>4

LEMMA EntryStep ==
    ASSUME FInv, [Next]_vars
    PROVE  EntryWitnessed'
  <1> SUFFICES ASSUME NEW k \in Keys, cache'[k] # NoDoc, cache'[k].fellBackFrom # "none"
               PROVE  \E s \in Runs :
                          /\ req'[s] = [fn |-> cache'[k].by, sha |-> cache'[k].sha]
                          /\ cache'[k].fellBackFrom \in tried'[s]
    BY DEF EntryWitnessed, Saw
  <1>1. CASE cache'[k] = cache[k]
    <2>1. PICK s \in Runs : Saw(s, cache[k], cache[k].sha)
      BY <1>1 DEF FInv, EntryWitnessed
    <2>2. req'[s] = req[s] /\ tried[s] \subseteq tried'[s]
      BY <2>1, SawStays
    <2> QED
      BY <1>1, <2>1, <2>2 DEF Saw
  <1>2. CASE cache'[k] # cache[k]
    <2>1. PICK r \in Runs : /\ pc[r] = "store" /\ req' = req /\ tried' = tried
                            /\ cache'[k] = doc[r] /\ doc[r] # NoDoc
                            /\ ~cached[r] /\ doc[r].by = req[r].fn
                            /\ doc[r].sha = req[r].sha
      BY <1>2, OnlyStoreAdds
    <2>2. doc[r].fellBackFrom \in tried[r]
      BY <2>1 DEF FInv, RunIsTrue, OwnDocument
    <2>3. req[r] = [fn |-> req[r].fn, sha |-> req[r].sha]
      BY <2>1 DEF FInv, IInv, Called
    <2> QED
      BY <2>1, <2>2, <2>3 DEF Saw
  <1> QED
    BY <1>1, <1>2

LEMMA HitStep ==
    ASSUME FInv, [Next]_vars, NEW r \in Runs
    PROVE  HitWitnessed(r)'
  <1> SUFFICES ASSUME cached'[r], doc'[r].fellBackFrom # "none"
               PROVE  \E s \in Runs \ {r} :
                          /\ req'[s] = [fn |-> doc'[r].by, sha |-> req'[r].sha]
                          /\ doc'[r].fellBackFrom \in tried'[s]
    BY DEF HitWitnessed, Saw
  <1>0. TypeOK /\ Called
    BY DEF FInv, IInv
  <1>1. \/ CacheHit(r)
        \/ doc'[r] = doc[r] /\ cached[r] /\ req'[r] = req[r]
    <2>1. CASE \E x \in Runs \ {r} : Start(x) \/ Proceed(x)
      BY <1>0, <2>1, OneRunMoves DEF Same
    <2>2. CASE Start(r)
      BY <1>0, <2>2 DEF Start, FInv, RunIsTrue, NotYet
    <2>3. CASE Proceed(r)
      <3>1. CacheHit(r) \/ (cached' = cached /\ req' = req /\ cached[r])
        BY <2>3 DEF Proceed, Reject, SkipExtraction, Route, CacheMiss, Recognize,
                    ProviderFails, Store, Interpret
      <3>2. CASE ~CacheHit(r)
        <4>1. pc[r] \in {"interpret", "settled"}
          BY <1>0, <3>1, <3>2 DEF FInv, RunIsTrue, NotYet, TypeOK
        <4>2. Interpret(r)
          BY <2>3, <3>2, <4>1 DEF Proceed, Reject, SkipExtraction, Route, CacheMiss,
                    Recognize, ProviderFails, Store
        <4> QED
          BY <3>1, <3>2, <4>2 DEF Interpret
      <3> QED
        BY <3>2
    <2>4. CASE \E k \in Keys : Expire(k)
      BY <2>4 DEF Expire
    <2>5. CASE UNCHANGED vars
      BY <2>5 DEF vars
    <2> QED
      BY <2>1, <2>2, <2>3, <2>4, <2>5 DEF Next
  <1>2. CASE CacheHit(r)
    <2>1. PICK p \in Chain(r) :
              /\ cache[extractionCacheKey(req[r].sha, p)] # NoDoc
              /\ AfterExtract(r, cache[extractionCacheKey(req[r].sha, p)])
      BY <1>2 DEF CacheHit
    <2>2. req' = req /\ pc[r] = "lookup"
      BY <1>2 DEF CacheHit
    <2> DEFINE k == extractionCacheKey(req[r].sha, p)
    <2>3. k \in Keys
      BY <1>0, <2>2 DEF Called, Chain, Candidates, Providers, Keys, extractionCacheKey
    <2>4. doc'[r] = cache[k] /\ cache[k] # NoDoc /\ cache[k].sha = req[r].sha
      BY <1>0, <2>1, <2>3 DEF AfterExtract, TypeOK, FInv, IInv, KeyNamesEntry,
                              extractionCacheKey
    <2> HIDE DEF k
    <2>5. PICK s \in Runs : Saw(s, cache[k], cache[k].sha)
      BY <2>3, <2>4 DEF FInv, EntryWitnessed
    <2>6. s # r
      BY <2>2, <2>5 DEF Saw, FInv, RunIsTrue, NotYet
    <2>7. req'[s] = req[s] /\ tried[s] \subseteq tried'[s]
      BY <2>5, SawStays
    <2> QED
      BY <2>2, <2>4, <2>5, <2>6, <2>7 DEF Saw
  <1>3. CASE doc'[r] = doc[r] /\ cached[r] /\ req'[r] = req[r]
    <2>1. PICK s \in Runs \ {r} : Saw(s, doc[r], req[r].sha)
      BY <1>3 DEF FInv, RunIsTrue, HitWitnessed
    <2>2. req'[s] = req[s] /\ tried[s] \subseteq tried'[s]
      BY <2>1, SawStays
    <2> QED
      BY <1>3, <2>1, <2>2 DEF Saw
  <1> QED
    BY <1>1, <1>2, <1>3

LEMMA TrueStep ==
    ASSUME FInv, [Next]_vars, NEW s \in Runs
    PROVE  OwnTruth(s)'
  <1>0. OwnTruth(s) /\ TypeOK
    BY DEF FInv, IInv, RunIsTrue, OwnTruth
  <1>1. CASE \E r \in Runs \ {s} : Start(r) \/ Proceed(r)
    BY <1>0, <1>1, OneRunMoves, SameIsTrue
  <1>2. CASE Start(s) \/ Proceed(s)
    BY <1>2, OwnStep
  <1>3. CASE \E k \in Keys : Expire(k)
    BY <1>0, <1>3, SameIsTrue DEF Expire, Same
  <1>4. CASE UNCHANGED vars
    BY <1>0, <1>4, SameIsTrue DEF vars, Same
  <1> QED
    BY <1>1, <1>2, <1>3, <1>4 DEF Next

LEMMA FInit ==
    ASSUME Init
    PROVE  FInv
  <1>1. IInv
    BY DEF Init, IInv, TypeOK, Called, NoCounts, NoUsage,
           HeldFromChain, KeyNamesEntry, CacheUsers
  <1>2. ASSUME NEW r \in Runs
        PROVE  RunIsTrue(r)
    BY DEF Init, RunIsTrue, NotYet, TriedFirst, LastResort, OwnDocument, HitWitnessed
  <1>3. EntryWitnessed
    BY DEF Init, EntryWitnessed
  <1> QED
    BY <1>1, <1>2, <1>3 DEF FInv

LEMMA FStep ==
    ASSUME FInv, [Next]_vars
    PROVE  FInv'
  <1>1. IInv'
    BY TypeStep, CalledStep, SafeStep DEF FInv, IInv
  <1>2. ASSUME NEW r \in Runs
        PROVE  RunIsTrue(r)'
    BY HitStep, TrueStep DEF RunIsTrue, OwnTruth
  <1>3. EntryWitnessed'
    BY EntryStep
  <1> QED
    BY <1>1, <1>2, <1>3 DEF FInv

(* Why a fallback was used is told truly, in every chain and through every *)
(* sharing of the cache.                                                   *)
THEOREM FallbackIsTold == Spec => []FallbackOnlyAfterFailures
  <1>1. FInv => FallbackOnlyAfterFailures
    BY DEF FInv, RunIsTrue, LastResort, OwnDocument, HitWitnessed, Saw, Precedes,
           FallbackOnlyAfterFailures
  <1> QED
    BY <1>1, FInit, FStep, PTL DEF Spec

-----------------------------------------------------------------------------
(* That every run is counted once: a run that has not settled is in no     *)
(* count, and the step that settles it adds it to each.                    *)

SettledOf(S) == {r \in S : pc[r] = "settled"}
FailedOf(S) == {r \in SettledOf(S) : outcome[r] # "success"}
RunsOf(t) == {r \in Runs : TenantOf[r] = t}

Counted ==
    /\ metrics.success = Cardinality(SettledOf(Runs) \ FailedOf(Runs))
    /\ metrics.error = Cardinality(FailedOf(Runs))
    /\ \A t \in Tenants :
          /\ usage[t].errors <= usage[t].requests
          /\ usage[t].requests <= Cardinality(SettledOf(RunsOf(t)))
          /\ usage[t].errors <= Cardinality(FailedOf(RunsOf(t)))

(* A step that ends run r, holding d, with a code or as a success.         *)
Ends(r, code, d) ==
    /\ pc[r] # "settled"
    /\ pc' = [pc EXCEPT ![r] = "settled"]
    /\ outcome' = [outcome EXCEPT ![r] = code]
    /\ metrics' = recordRequest(code, d)
    /\ recordTenantUsage(TenantOf[r], code, d)

(* A step that ends no run.                                                *)
EndsNone ==
    /\ UNCHANGED <<metrics, usage>>
    /\ \A s \in Runs : /\ pc'[s] = "settled" <=> pc[s] = "settled"
                       /\ pc[s] = "settled" => outcome'[s] = outcome[s]

LEMMA AfterExtractEnds ==
    ASSUME TypeOK, NEW r \in Runs, NEW d \in MaybeDocument, AfterExtract(r, d),
           pc[r] # "settled"
    PROVE  EndsNone \/ Ends(r, "PAGE_LIMIT_EXCEEDED", d)
  BY DEF AfterExtract, Fail, Ends, EndsNone, TypeOK

LEMMA EndsOneOrNone ==
    ASSUME IInv, [Next]_vars
    PROVE  \/ EndsNone
           \/ \E r \in Runs, code \in Outcomes \ {"none"}, d \in MaybeDocument : Ends(r, code, d)
  <1>0. TypeOK
    BY DEF IInv
  <1>1. ASSUME NEW r \in Runs, NEW code \in Outcomes \ {"none"}, NEW d \in MaybeDocument, Ends(r, code, d)
        PROVE  \E x \in Runs, c \in Outcomes \ {"none"}, e \in MaybeDocument : Ends(x, c, e)
    BY <1>1
  <1>2. NoDoc \in MaybeDocument /\ \A r \in Runs : doc[r] \in MaybeDocument
    BY <1>0 DEF MaybeDocument, TypeOK
  <1>3. ErrorCode \subseteq Outcomes \ {"none"} /\ "success" \in Outcomes \ {"none"}
    BY DEF Outcomes, ErrorCode
  <1>4. "PAGE_LIMIT_EXCEEDED" \in ErrorCode /\ "EXTRACTION_FAILED" \in ErrorCode
    BY DEF ErrorCode
  <1>5. ASSUME NEW r \in Runs, Start(r) \/ Route(r) \/ CacheMiss(r)
        PROVE  EndsNone
    BY <1>0, <1>5 DEF Start, Route, CacheMiss, EndsNone, TypeOK
  <1>6. ASSUME NEW r \in Runs, Reject(r)
        PROVE  \E code \in ErrorCode : Ends(r, code, NoDoc)
    BY <1>6 DEF Reject, Fail, Ends, ErrorCode
  <1>7. ASSUME NEW r \in Runs, SkipExtraction(r)
        PROVE  EndsNone \/ Ends(r, "PAGE_LIMIT_EXCEEDED", NoDoc)
    BY <1>0, <1>2, <1>7, AfterExtractEnds DEF SkipExtraction, emptyDocument
  <1>8. ASSUME NEW r \in Runs, CacheHit(r)
        PROVE  \E d \in MaybeDocument : EndsNone \/ Ends(r, "PAGE_LIMIT_EXCEEDED", d)
    <2>1. PICK p \in Chain(r) : AfterExtract(r, cache[extractionCacheKey(req[r].sha, p)])
      BY <1>8 DEF CacheHit
    <2>2. pc[r] = "lookup"
      BY <1>8 DEF CacheHit
    <2>3. cache[extractionCacheKey(req[r].sha, p)] \in MaybeDocument
      BY <1>0, <2>2 DEF IInv, Called, Chain, Candidates, Providers, Keys, TypeOK,
                        extractionCacheKey, MaybeDocument
    <2> QED
      BY <1>0, <2>1, <2>2, <2>3, AfterExtractEnds
  <1>9. ASSUME NEW r \in Runs, Recognize(r)
        PROVE  \E d \in MaybeDocument : EndsNone \/ Ends(r, "PAGE_LIMIT_EXCEEDED", d)
    <2>1. PICK p \in Chain(r), q \in Chain(r) :
              \/ /\ pc' = [pc EXCEPT ![r] = "store"]
                 /\ UNCHANGED <<outcome, metrics, usage>>
              \/ AfterExtract(r, Recognized(p, q, r))
      BY <1>9 DEF Recognize
    <2>2. pc[r] = "recognize" /\ TypeOK'
      BY <1>9, TypeStep DEF IInv, Recognize, Next, Proceed
    <2>3. CASE AfterExtract(r, Recognized(p, q, r))
      <3>1. doc'[r] = Recognized(p, q, r)
        BY <1>0, <2>3 DEF AfterExtract, TypeOK
      <3>2. Recognized(p, q, r) \in MaybeDocument
        BY <2>2, <3>1 DEF TypeOK, MaybeDocument
      <3> QED
        BY <1>0, <2>2, <2>3, <3>2, AfterExtractEnds
    <2>4. CASE /\ pc' = [pc EXCEPT ![r] = "store"]
               /\ UNCHANGED <<outcome, metrics, usage>>
      BY <1>0, <1>2, <2>2, <2>4 DEF EndsNone, TypeOK
    <2> QED
      BY <2>1, <2>3, <2>4
  <1>10. ASSUME NEW r \in Runs, ProviderFails(r)
         PROVE  EndsNone \/ Ends(r, "EXTRACTION_FAILED", NoDoc)
    BY <1>0, <1>10 DEF ProviderFails, Fail, Ends, EndsNone, TypeOK
  <1>11. ASSUME NEW r \in Runs, Store(r)
         PROVE  EndsNone \/ Ends(r, "PAGE_LIMIT_EXCEEDED", doc[r])
    BY <1>0, <1>2, <1>11, AfterExtractEnds DEF Store
  <1>12. ASSUME NEW r \in Runs, Interpret(r)
         PROVE  \E code \in ErrorCode \cup {"success"} : Ends(r, code, doc[r])
    BY <1>12 DEF Interpret, Succeed, Fail, Ends, ErrorCode
  <1>13. ASSUME NEW k \in Keys, Expire(k)
         PROVE  EndsNone
    BY <1>13 DEF Expire, EndsNone
  <1>14. CASE UNCHANGED vars
    BY <1>14 DEF vars, EndsNone
  <1>15. ASSUME NEW r \in Runs, Start(r) \/ Proceed(r)
         PROVE  EndsNone \/ \E code \in ErrorCode \cup {"success"}, d \in MaybeDocument :
                                Ends(r, code, d)
    BY <1>2, <1>4, <1>5, <1>6, <1>7, <1>8, <1>9, <1>10, <1>11, <1>12, <1>15 DEF Proceed
  <1>16. CASE \E r \in Runs : Start(r) \/ Proceed(r)
    BY <1>1, <1>3, <1>15, <1>16
  <1> QED
    BY <1>13, <1>14, <1>16 DEF Next

(* What the end of run r adds to the runs of S that have settled.          *)
LEMMA EndJoins ==
    ASSUME TypeOK, NEW r \in Runs, NEW code, NEW d, Ends(r, code, d), NEW S \in SUBSET Runs
    PROVE  /\ SettledOf(S)' = IF r \in S THEN SettledOf(S) \cup {r} ELSE SettledOf(S)
           /\ FailedOf(S)' = IF r \in S /\ code # "success"
                             THEN FailedOf(S) \cup {r} ELSE FailedOf(S)
           /\ r \notin SettledOf(S) /\ r \notin FailedOf(S)
           /\ IsFiniteSet(SettledOf(S)) /\ IsFiniteSet(FailedOf(S))
  <1>1. /\ pc'[r] = "settled" /\ outcome'[r] = code /\ pc[r] # "settled"
        /\ \A s \in Runs \ {r} : pc'[s] = pc[s] /\ outcome'[s] = outcome[s]
    BY DEF Ends, TypeOK
  <1>2. SettledOf(S) \in SUBSET Runs /\ FailedOf(S) \in SUBSET Runs /\ IsFiniteSet(Runs)
    BY ExtractionAssumption DEF SettledOf, FailedOf
  <1>3. IsFiniteSet(SettledOf(S)) /\ IsFiniteSet(FailedOf(S))
    BY <1>2, FS_Subset
  <1> QED
    BY <1>1, <1>3 DEF SettledOf, FailedOf

LEMMA CountsGrow ==
    ASSUME TypeOK, NEW r \in Runs, NEW code, NEW d, Ends(r, code, d), NEW S \in SUBSET Runs
    PROVE  /\ Cardinality(SettledOf(S)') =
                  Cardinality(SettledOf(S)) + IF r \in S THEN 1 ELSE 0
           /\ Cardinality(FailedOf(S)') =
                  Cardinality(FailedOf(S)) + IF r \in S /\ code # "success" THEN 1 ELSE 0
           /\ Cardinality(SettledOf(S)) \in Nat /\ Cardinality(FailedOf(S)) \in Nat
  BY EndJoins, FS_AddElement, FS_CardinalityType

LEMMA CountStep ==
    ASSUME IInv, Counted, [Next]_vars
    PROVE  Counted'
  <1>0. TypeOK
    BY DEF IInv
  <1>1. CASE EndsNone
    <2>1. \A S \in SUBSET Runs : SettledOf(S)' = SettledOf(S) /\ FailedOf(S)' = FailedOf(S)
      BY <1>1 DEF EndsNone, SettledOf, FailedOf
    <2>2. \A t : RunsOf(t) \in SUBSET Runs
      BY DEF RunsOf
    <2> QED
      BY <1>1, <2>1, <2>2 DEF EndsNone, Counted, RunsOf
  <1>2. ASSUME NEW r \in Runs, NEW code, NEW d \in MaybeDocument, Ends(r, code, d)
        PROVE  Counted'
    <2> DEFINE one == IF code = "success" THEN 1 ELSE 0
               bad == IF code = "success" THEN 0 ELSE 1
    <2>1. /\ metrics'.success = metrics.success + one
          /\ metrics'.error = metrics.error + bad
      BY <1>2 DEF Ends, recordRequest
    <2>2. Cardinality(FailedOf(Runs)') = Cardinality(FailedOf(Runs)) + bad
      BY <1>0, <1>2, CountsGrow
    <2>3. Cardinality((SettledOf(Runs) \ FailedOf(Runs))') =
              Cardinality(SettledOf(Runs) \ FailedOf(Runs)) + one
      <3>1. (SettledOf(Runs) \ FailedOf(Runs))' =
                IF code = "success"
                THEN (SettledOf(Runs) \ FailedOf(Runs)) \cup {r}
                ELSE SettledOf(Runs) \ FailedOf(Runs)
        BY <1>0, <1>2, EndJoins
      <3>2. /\ r \notin SettledOf(Runs) /\ IsFiniteSet(SettledOf(Runs))
            /\ SettledOf(Runs) \ FailedOf(Runs) \in SUBSET SettledOf(Runs)
        BY <1>0, <1>2, EndJoins
      <3>3. IsFiniteSet(SettledOf(Runs) \ FailedOf(Runs))
        BY <3>2, FS_Subset
      <3>4. Cardinality(SettledOf(Runs) \ FailedOf(Runs)) \in Nat
        BY <3>3, FS_CardinalityType
      <3>5. /\ r \notin SettledOf(Runs) \ FailedOf(Runs)
            /\ Cardinality((SettledOf(Runs) \ FailedOf(Runs)) \cup {r}) =
                   Cardinality(SettledOf(Runs) \ FailedOf(Runs)) + 1
        BY <3>2, <3>3, FS_AddElement
      <3>6. CASE code = "success"
        BY <3>1, <3>5, <3>6
      <3>7. CASE code # "success"
        BY <3>1, <3>4, <3>7
      <3> QED
        BY <3>6, <3>7
    <2>4. ASSUME NEW t \in Tenants
          PROVE  /\ usage'[t].errors <= usage'[t].requests
                 /\ usage'[t].requests <= Cardinality(SettledOf(RunsOf(t))')
                 /\ usage'[t].errors <= Cardinality(FailedOf(RunsOf(t))')
      <3> DEFINE own == RunsOf(t)
      <3>1. own \in SUBSET Runs /\ (r \in own <=> TenantOf[r] = t)
        BY DEF RunsOf
      <3>2. /\ Cardinality(SettledOf(own)') =
                  Cardinality(SettledOf(own)) + IF r \in own THEN 1 ELSE 0
            /\ Cardinality(FailedOf(own)') =
                  Cardinality(FailedOf(own)) + IF r \in own /\ code # "success" THEN 1 ELSE 0
            /\ Cardinality(SettledOf(own)) \in Nat /\ Cardinality(FailedOf(own)) \in Nat
        BY <1>0, <1>2, <3>1, CountsGrow
      <3>3. /\ usage[t].requests \in Nat /\ usage[t].errors \in Nat
            /\ usage[t].errors <= usage[t].requests
            /\ usage[t].requests <= Cardinality(SettledOf(own))
            /\ usage[t].errors <= Cardinality(FailedOf(own))
        BY <1>0 DEF TypeOK, Counted
      <3>4. \/ usage'[t] = usage[t]
            \/ /\ r \in own
               /\ usage'[t].requests = usage[t].requests + 1
               /\ usage'[t].errors = usage[t].errors + bad
        BY <1>0, <1>2, <3>1 DEF Ends, recordTenantUsage, TypeOK, Tenants
      <3> HIDE DEF own
      <3>5. CASE usage'[t] = usage[t]
        BY <3>2, <3>3, <3>5 DEF own
      <3>6. CASE /\ r \in own
                 /\ usage'[t].requests = usage[t].requests + 1
                 /\ usage'[t].errors = usage[t].errors + bad
        BY <3>2, <3>3, <3>6 DEF own
      <3> QED
        BY <3>4, <3>5, <3>6
    <2> QED
      BY <2>1, <2>2, <2>3, <2>4 DEF Counted, RunsOf
  <1> QED
    BY <1>1, <1>2, EndsOneOrNone

(* However the runs interleave and whatever fails, each run that settled   *)
(* is one success or one error, and at most one request of its tenant.     *)
THEOREM AlwaysCounted == Spec => []EveryRunCountedOnce
  <1>1. Init => IInv /\ Counted
    <2>1. Init => IInv
      BY DEF Init, IInv, TypeOK, Called, NoCounts, NoUsage,
             HeldFromChain, KeyNamesEntry, CacheUsers
    <2>2. Init => \A S \in SUBSET Runs : SettledOf(S) = {} /\ FailedOf(S) = {}
      BY DEF Init, SettledOf, FailedOf
    <2>3. \A t : RunsOf(t) \in SUBSET Runs
      BY DEF RunsOf
    <2>4. Cardinality({}) = 0
      BY FS_EmptySet
    <2>5. Init => Cardinality(SettledOf(Runs) \ FailedOf(Runs)) = 0
      <3>1. Init => SettledOf(Runs) \ FailedOf(Runs) = {}
        BY <2>2
      <3> QED
        BY <2>4, <3>1
    <2>6. ASSUME Init
          PROVE  Counted
      <3>1. Cardinality(FailedOf(Runs)) = 0
        BY <2>2, <2>4, <2>6
      <3>2. ASSUME NEW t \in Tenants
            PROVE  /\ Cardinality(SettledOf(RunsOf(t))) = 0
                   /\ Cardinality(FailedOf(RunsOf(t))) = 0
                   /\ usage[t].requests = 0 /\ usage[t].errors = 0
        BY <2>2, <2>3, <2>4, <2>6 DEF Init, NoUsage
      <3>3. metrics.success = 0 /\ metrics.error = 0
        BY <2>6 DEF Init, NoCounts
      <3> QED
        BY <2>5, <2>6, <3>1, <3>2, <3>3 DEF Counted
    <2> QED
      BY <2>1, <2>6
  <1>2. (IInv /\ Counted) /\ [Next]_vars => (IInv /\ Counted)'
    BY TypeStep, CalledStep, SafeStep, CountStep DEF IInv
  <1>3. Counted => EveryRunCountedOnce
    BY DEF Counted, SettledOf, FailedOf, RunsOf, EveryRunCountedOnce
  <1> QED
    BY <1>1, <1>2, <1>3, PTL DEF Spec

-----------------------------------------------------------------------------
(* That the tokens are counted as reported: a run that ends is counted     *)
(* with the document it holds.                                             *)

Tokens == [r \in Runs |-> doc[r].tokensUsed]

CountedTokens ==
    /\ metrics.tokens = Reported(Runs)
    /\ \A t \in Tenants : usage[t].tokens <= Reported(RunsOf(t))

PInv == FInv /\ CountedTokens

LEMMA TokensType ==
    ASSUME TypeOK
    PROVE  Tokens \in [Runs -> Nat]
  <1>1. ASSUME NEW r \in Runs
        PROVE  doc[r].tokensUsed \in Nat
    <2>1. doc[r] \in MaybeDocument
      BY DEF TypeOK, MaybeDocument
    <2> QED
      BY <2>1, TokensNat
  <1> QED
    BY <1>1 DEF Tokens

EndsAsReported(r) ==
    \E code \in Outcomes, d \in MaybeDocument :
        Ends(r, code, d) /\ d.tokensUsed = doc'[r].tokensUsed

LEMMA AfterExtractReported ==
    ASSUME TypeOK, NEW r \in Runs, NEW d \in MaybeDocument, AfterExtract(r, d),
           pc[r] # "settled"
    PROVE  EndsNone \/ EndsAsReported(r)
  <1>1. doc'[r] = d
    BY DEF AfterExtract, TypeOK
  <1>2. EndsNone \/ Ends(r, "PAGE_LIMIT_EXCEEDED", d)
    BY DEF AfterExtract, Fail, Ends, EndsNone, TypeOK
  <1>3. "PAGE_LIMIT_EXCEEDED" \in Outcomes
    BY DEF Outcomes, ErrorCode
  <1> QED
    BY <1>1, <1>2, <1>3 DEF EndsAsReported

LEMMA ReportedMove ==
    ASSUME PInv, NEW r \in Runs, Start(r) \/ Proceed(r)
    PROVE  EndsNone \/ EndsAsReported(r)
  <1>0. TypeOK /\ IInv /\ NotYet(r) /\ doc[r] \in MaybeDocument
    BY DEF PInv, FInv, IInv, RunIsTrue, TypeOK, MaybeDocument
  <1>1. NoDoc \in MaybeDocument /\ NoDoc.tokensUsed = 0
    BY DEF MaybeDocument, NoDoc
  <1>2. ErrorCode \cup {"success"} \subseteq Outcomes
    BY DEF Outcomes
  <1>3. CASE Start(r)
    BY <1>0, <1>3 DEF Start, EndsNone, TypeOK
  <1>4. CASE Reject(r)
    <2>1. PICK code \in ErrorCode : Fail(r, code, NoDoc)
      BY <1>4 DEF Reject, ErrorCode
    <2>2. Ends(r, code, NoDoc) /\ doc'[r] = NoDoc
      BY <1>0, <1>4, <2>1 DEF Reject, Fail, Ends, TypeOK, NotYet
    <2> QED
      BY <1>1, <1>2, <2>2 DEF EndsAsReported
  <1>5. CASE SkipExtraction(r)
    <2>1. AfterExtract(r, NoDoc) /\ pc[r] # "settled"
      BY <1>5 DEF SkipExtraction, emptyDocument
    <2> QED
      BY <1>0, <1>1, <2>1, AfterExtractReported
  <1>6. CASE Route(r)
    BY <1>0, <1>6 DEF Route, EndsNone, TypeOK
  <1>7. CASE CacheHit(r)
    <2>1. PICK p \in Chain(r) : AfterExtract(r, cache[extractionCacheKey(req[r].sha, p)])
      BY <1>7 DEF CacheHit
    <2> DEFINE hit == cache[extractionCacheKey(req[r].sha, p)]
    <2>2. hit \in MaybeDocument
      BY <1>0, <1>7 DEF CacheHit, IInv, Called, Chain, Candidates, Providers, Keys,
                        TypeOK, extractionCacheKey, MaybeDocument
    <2>3. pc[r] # "settled"
      BY <1>7 DEF CacheHit
    <2> HIDE DEF hit
    <2> QED
      BY <1>0, <2>1, <2>2, <2>3, AfterExtractReported DEF hit
  <1>8. CASE CacheMiss(r)
    BY <1>0, <1>8 DEF CacheMiss, EndsNone, TypeOK
  <1>9. CASE Recognize(r)
    <2>1. PICK p \in Chain(r), q \in Chain(r) :
              \/ /\ doc' = [doc EXCEPT ![r] = Recognized(p, q, r)]
                 /\ pc' = [pc EXCEPT ![r] = "store"]
                 /\ UNCHANGED <<outcome, metrics, usage>>
              \/ AfterExtract(r, Recognized(p, q, r))
      BY <1>9 DEF Recognize
    <2> DEFINE d == Recognized(p, q, r)
    <2>2. pc[r] = "recognize"
      BY <1>9 DEF Recognize
    <2>3. doc'[r] = d
      BY <1>0, <2>1 DEF AfterExtract, TypeOK
    <2>4. d \in MaybeDocument
      <3>1. TypeOK'
        BY <1>0, <1>9, TypeStep DEF IInv, Next, Proceed
      <3> QED
        BY <2>3, <3>1 DEF TypeOK, MaybeDocument
    <2> HIDE DEF d
    <2>5. CASE AfterExtract(r, d)
      BY <1>0, <2>2, <2>4, <2>5, AfterExtractReported
    <2>6. CASE /\ pc' = [pc EXCEPT ![r] = "store"]
               /\ UNCHANGED <<outcome, metrics, usage>>
      BY <1>0, <2>2, <2>6 DEF EndsNone, TypeOK
    <2> QED
      BY <2>1, <2>5, <2>6 DEF d
  <1>10. CASE ProviderFails(r)
    <2>1. pc[r] = "recognize" /\ doc'[r] = NoDoc
      BY <1>0, <1>10 DEF ProviderFails, NotYet
    <2>2. "EXTRACTION_FAILED" \in Outcomes
      BY DEF Outcomes, ErrorCode
    <2>3. \/ UNCHANGED <<pc, outcome, metrics, usage>>
          \/ Fail(r, "EXTRACTION_FAILED", NoDoc)
      BY <1>10 DEF ProviderFails
    <2>4. EndsNone \/ Ends(r, "EXTRACTION_FAILED", NoDoc)
      BY <1>0, <2>1, <2>3 DEF Fail, Ends, EndsNone, TypeOK
    <2> QED
      BY <1>1, <2>1, <2>2, <2>4 DEF EndsAsReported
  <1>11. CASE Store(r)
    <2>1. AfterExtract(r, doc[r]) /\ pc[r] # "settled"
      BY <1>11 DEF Store
    <2> QED
      BY <1>0, <2>1, AfterExtractReported
  <1>12. CASE Interpret(r)
    <2>1. \E code \in ErrorCode \cup {"success"} : Ends(r, code, doc[r])
      BY <1>0, <1>12 DEF Interpret, Succeed, Fail, Ends, ErrorCode, TypeOK
    <2>2. doc'[r] = doc[r]
      BY <1>12 DEF Interpret
    <2> QED
      BY <1>0, <1>2, <2>1, <2>2 DEF EndsAsReported
  <1> QED
    BY <1>3, <1>4, <1>5, <1>6, <1>7, <1>8, <1>9, <1>10, <1>11, <1>12 DEF Proceed

(* The tokens of the run that ends join the sum of those it is among.      *)
LEMMA ReportJoins ==
    ASSUME TypeOK, TypeOK', NEW r \in Runs, NEW code, NEW d, Ends(r, code, d),
           \A s \in Runs \ {r} : doc'[s] = doc[s], NEW S \in SUBSET Runs
    PROVE  /\ Reported(S) \in Int
           /\ Reported(S)' = Reported(S) + IF r \in S THEN doc'[r].tokensUsed ELSE 0
  <1> DEFINE T == SettledOf(S)
  <1>1. /\ SettledOf(S)' = IF r \in S THEN T \cup {r} ELSE T
        /\ r \notin T /\ IsFiniteSet(T) /\ T \subseteq Runs
    BY EndJoins DEF SettledOf
  <1>2. Tokens \in [Runs -> Nat] /\ Tokens' \in [Runs -> Nat]
    <2>1. (Tokens \in [Runs -> Nat])'
      BY TokensType, PTL
    <2> QED
      BY <2>1, TokensType
  <1>3. Reported(S) = SumFunctionOnSet(Tokens, T)
    BY DEF Reported, Tokens, SettledOf
  <1>4. Reported(S)' = SumFunctionOnSet(Tokens', SettledOf(S)')
    BY DEF Reported, Tokens, SettledOf
  <1>5. Tokens'[r] = doc'[r].tokensUsed /\ \A s \in T : Tokens'[s] = Tokens[s]
    BY <1>1 DEF Tokens
  <1> HIDE DEF T
  <1>6. Summable(Tokens, T) /\ Summable(Tokens', T) /\ Summable(Tokens', T \cup {r})
    <2>1. IsFiniteSet(T \cup {r})
      BY <1>1, FS_AddElement
    <2> QED
      BY <1>1, <1>2, <2>1 DEF Summable
  <1>7. SumFunctionOnSet(Tokens', T) = SumFunctionOnSet(Tokens, T)
    BY <1>5, <1>6, SumSame
  <1>8. SumFunctionOnSet(Tokens', T \cup {r}) =
            SumFunctionOnSet(Tokens', T) + Tokens'[r]
    BY <1>1, <1>6, SumAdd
  <1>9. SumFunctionOnSet(Tokens, T) \in Int
    BY <1>6, SumType
  <1> QED
    BY <1>1, <1>3, <1>4, <1>5, <1>7, <1>8, <1>9

LEMMA TokensStep ==
    ASSUME PInv, [Next]_vars
    PROVE  PInv'
  <1>0. TypeOK /\ FInv /\ FInv' /\ TypeOK'
    BY FStep DEF PInv, FInv, IInv
  <1>1. ASSUME NEW r \in Runs, Start(r) \/ Proceed(r), NEW s \in Runs \ {r}
        PROVE  doc'[s] = doc[s]
    BY <1>0, <1>1, OneRunMoves DEF Same
  <1>2. ASSUME EndsNone, \A s \in Runs : pc[s] = "settled" => doc'[s] = doc[s]
        PROVE  CountedTokens'
    <2>1. ASSUME NEW S \in SUBSET Runs
          PROVE  Reported(S)' = Reported(S)
      <3> DEFINE T == SettledOf(S)
      <3>1. SettledOf(S)' = T /\ T \subseteq Runs /\ IsFiniteSet(T)
        <4>1. SettledOf(S)' = T /\ T \subseteq Runs
          BY <1>2 DEF EndsNone, SettledOf
        <4> QED
          BY <4>1, FS_Subset, ExtractionAssumption
      <3>2. Tokens \in [Runs -> Nat]
        BY <1>0, TokensType
      <3>3. Summable(Tokens, T)
        BY <3>1, <3>2 DEF Summable
      <3>4. \A s \in T : Tokens'[s] = Tokens[s]
        BY <1>2 DEF Tokens, SettledOf
      <3>5. Reported(S) = SumFunctionOnSet(Tokens, T)
        BY DEF Reported, Tokens, SettledOf
      <3>6. Reported(S)' = SumFunctionOnSet(Tokens', SettledOf(S)')
        BY DEF Reported, Tokens, SettledOf
      <3> HIDE DEF T
      <3> QED
        BY <3>1, <3>3, <3>4, <3>5, <3>6, SumSame
    <2>2. \A t : RunsOf(t) \in SUBSET Runs /\ RunsOf(t)' = RunsOf(t)
      BY DEF RunsOf
    <2>3. metrics' = metrics /\ usage' = usage
      BY <1>2 DEF EndsNone
    <2>4. CountedTokens
      BY DEF PInv
    <2> QED
      BY <2>1, <2>2, <2>3, <2>4 DEF CountedTokens
  <1>3. ASSUME NEW r \in Runs, EndsAsReported(r),
               \A s \in Runs \ {r} : doc'[s] = doc[s]
        PROVE  CountedTokens'
    <2>1. PICK code \in Outcomes, d \in MaybeDocument :
              Ends(r, code, d) /\ d.tokensUsed = doc'[r].tokensUsed
      BY <1>3 DEF EndsAsReported
    <2>2. d.tokensUsed \in Nat
      BY TokensNat
    <2>3. ASSUME NEW S \in SUBSET Runs
          PROVE  /\ Reported(S) \in Int
                 /\ Reported(S)' = Reported(S) + IF r \in S THEN d.tokensUsed ELSE 0
      BY <1>0, <1>3, <2>1, ReportJoins
    <2>4. metrics'.tokens = metrics.tokens + d.tokensUsed
      BY <2>1 DEF Ends, recordRequest
    <2>5. metrics'.tokens = Reported(Runs)'
      BY <2>3, <2>4 DEF PInv, CountedTokens
    <2>6. ASSUME NEW t \in Tenants
          PROVE  usage'[t].tokens <= Reported(RunsOf(t))'
      <3>1. /\ RunsOf(t) \in SUBSET Runs /\ RunsOf(t)' = RunsOf(t)
            /\ r \in RunsOf(t) <=> TenantOf[r] = t
        BY DEF RunsOf
      <3>2. \/ usage'[t] = usage[t]
            \/ r \in RunsOf(t) /\ usage'[t].tokens = usage[t].tokens + d.tokensUsed
        BY <1>0, <2>1, <3>1 DEF Ends, recordTenantUsage, TypeOK, Tenants
      <3>3. usage[t].tokens \in Nat /\ usage[t].tokens <= Reported(RunsOf(t))
        BY <1>0 DEF TypeOK, PInv, CountedTokens
      <3>4. /\ Reported(RunsOf(t)) \in Int
            /\ Reported(RunsOf(t))' = Reported(RunsOf(t)) +
                   IF r \in RunsOf(t) THEN d.tokensUsed ELSE 0
        <4>1. /\ Reported(RunsOf(t)) \in Int
              /\ (Reported(RunsOf(t)))' = Reported(RunsOf(t)) +
                     IF r \in RunsOf(t) THEN d.tokensUsed ELSE 0
          BY <2>3, <3>1
        <4> QED
          BY <3>1, <4>1
      <3> QED
        BY <2>2, <3>2, <3>3, <3>4
    <2> QED
      BY <2>5, <2>6 DEF CountedTokens
  <1>4. ASSUME NEW r \in Runs, Start(r) \/ Proceed(r)
        PROVE  PInv'
    <2>1. EndsNone \/ EndsAsReported(r)
      BY <1>4, ReportedMove
    <2>2. \A s \in Runs \ {r} : doc'[s] = doc[s]
      BY <1>1, <1>4
    <2>3. CASE EndsNone
      <3>1. ASSUME pc[r] = "settled"
            PROVE  FALSE
        BY <1>4, <3>1 DEF Start, Proceed, Reject, SkipExtraction, Route, CacheHit,
                          CacheMiss, Recognize, ProviderFails, Store, Interpret
      <3>2. CountedTokens'
        BY <1>2, <2>2, <2>3, <3>1
      <3> QED
        BY <1>0, <3>2 DEF PInv
    <2>4. CASE EndsAsReported(r)
      <3>1. CountedTokens'
        BY <1>3, <2>2, <2>4
      <3> QED
        BY <1>0, <3>1 DEF PInv
    <2> QED
      BY <2>1, <2>3, <2>4
  <1>5. ASSUME UNCHANGED vars \/ \E k \in Keys : Expire(k)
        PROVE  PInv'
    <2>1. UNCHANGED <<pc, doc, outcome, metrics, usage>>
      BY <1>5 DEF vars, Expire
    <2>2. EndsNone
      BY <2>1 DEF EndsNone
    <2> QED
      BY <1>0, <1>2, <2>1, <2>2 DEF PInv
  <1> QED
    BY <1>4, <1>5 DEF Next

(* The token counter holds exactly what the documents of the settled runs  *)
(* report, whatever interleaves, falls back, fails or is answered from the *)
(* cache, and no tenant's row more than those of its own runs.             *)
THEOREM TokensAreAsReported == Spec => []CountedAsReported
  <1>1. Init => PInv
    <2> SUFFICES ASSUME Init
                 PROVE  PInv
      OBVIOUS
    <2>1. FInv
      BY FInit
    <2>2. ASSUME NEW S \in SUBSET Runs
          PROVE  Reported(S) = 0
      <3>1. {r \in S : pc[r] = "settled"} = {}
        BY DEF Init
      <3> QED
        BY <3>1, SumOfNone DEF Reported
    <2>3. \A t : RunsOf(t) \in SUBSET Runs
      BY DEF RunsOf
    <2>4. CountedTokens
      BY <2>2, <2>3 DEF Init, CountedTokens, NoCounts, NoUsage
    <2> QED
      BY <2>1, <2>4 DEF PInv
  <1>2. PInv /\ [Next]_vars => PInv'
    BY TokensStep
  <1>3. PInv => CountedAsReported
    BY DEF PInv, CountedTokens, CountedAsReported, RunsOf
  <1> QED
    BY <1>1, <1>2, <1>3, PTL DEF Spec

-----------------------------------------------------------------------------
(* The safety half of the refinement: the steps of the pipeline are steps  *)
(* of OcrService, or change nothing its caller sees.                       *)

(* Where a run is says what it found out about its function.               *)
OnItsWay(r) ==
    /\ pc[r] = "idle" => req[r] = NoRun
    /\ pc[r] \in {"lookup", "recognize", "store", "interpret"} =>
          Group(r) \in Def(r).accepts
    /\ pc[r] \in {"lookup", "recognize", "store"} => ~Def(r).skipExtraction
    /\ pc[r] = "interpret" => (Def(r).skipExtraction <=> doc[r] = NoDoc)

SInv == FInv /\ \A r \in Runs : OnItsWay(r)

LEMMA WayStep ==
    ASSUME SInv, [Next]_vars
    PROVE  SInv'
  <1>0. TypeOK /\ FInv
    BY DEF SInv, FInv, IInv
  <1>1. ASSUME NEW s \in Runs, Same(s)
        PROVE  OnItsWay(s)'
    <2>1. Group(s)' = Group(s) /\ Def(s)' = Def(s)
      BY <1>1 DEF Same, Group, Def
    <2> QED
      BY <1>1, <2>1 DEF Same, SInv, OnItsWay
  <1>2. ASSUME NEW r \in Runs, Start(r)
        PROVE  OnItsWay(r)'
    BY <1>0, <1>2 DEF Start, OnItsWay, TypeOK
  <1>3. ASSUME NEW r \in Runs, Proceed(r)
        PROVE  OnItsWay(r)'
    <2>0. req' = req
      BY <1>3 DEF Proceed, Reject, SkipExtraction, Route, CacheHit, CacheMiss,
                  Recognize, ProviderFails, Store, Interpret
    <2>1. Group(r)' = Group(r) /\ Def(r)' = Def(r)
      BY <2>0 DEF Group, Def
    <2>2. OnItsWay(r)
      BY DEF SInv
    <2>3. CASE Reject(r) \/ Interpret(r)
      <3>1. pc'[r] = "settled"
        BY <1>0, <2>3 DEF Reject, Interpret, Fail, Succeed, TypeOK
      <3> QED
        BY <3>1 DEF OnItsWay
    <2>4. CASE Route(r)
      <3>1. /\ pc'[r] \in {"lookup", "recognize"}
            /\ Group(r) \in Def(r).accepts /\ ~Def(r).skipExtraction
        BY <1>0, <2>4 DEF Route, TypeOK
      <3> QED
        BY <2>1, <3>1 DEF OnItsWay
    <2>5. CASE CacheMiss(r) \/ ProviderFails(r)
      <3>1. /\ pc'[r] \in {"recognize", "settled"}
            /\ pc[r] \in {"lookup", "recognize"}
        BY <1>0, <2>5 DEF CacheMiss, ProviderFails, Fail, TypeOK
      <3> QED
        BY <2>1, <2>2, <3>1 DEF OnItsWay
    <2>6. CASE SkipExtraction(r)
      <3>1. /\ pc'[r] \in {"interpret", "settled"} /\ doc'[r] = NoDoc
            /\ Group(r) \in Def(r).accepts /\ Def(r).skipExtraction
        BY <1>0, <2>6 DEF SkipExtraction, AfterExtract, Fail, emptyDocument, TypeOK
      <3> QED
        BY <2>1, <3>1 DEF OnItsWay
    <2>7. CASE CacheHit(r)
      <3>1. /\ pc'[r] \in {"interpret", "settled"} /\ doc'[r] # NoDoc
            /\ pc[r] = "lookup"
        BY <1>0, <2>7 DEF CacheHit, AfterExtract, Fail, TypeOK
      <3> QED
        BY <2>1, <2>2, <3>1 DEF OnItsWay
    <2>8. CASE Recognize(r)
      <3>1. PICK p \in Chain(r), q \in Chain(r) :
                \/ /\ doc' = [doc EXCEPT ![r] = Recognized(p, q, r)]
                   /\ pc' = [pc EXCEPT ![r] = "store"]
                \/ AfterExtract(r, Recognized(p, q, r))
        BY <2>8 DEF Recognize
      <3>2. /\ pc'[r] \in {"store", "interpret", "settled"}
            /\ pc[r] = "recognize" /\ doc'[r] = Recognized(p, q, r)
        BY <1>0, <2>8, <3>1 DEF Recognize, AfterExtract, Fail, TypeOK
      <3>3. Recognized(p, q, r).provider # "none"
        BY ExtractionAssumption DEF Recognized, Chain, Candidates, Providers
      <3>4. doc'[r] # NoDoc
        BY <3>2, <3>3 DEF NoDoc
      <3> QED
        BY <2>1, <2>2, <3>2, <3>4 DEF OnItsWay
    <2>9. CASE Store(r)
      <3>1. /\ pc'[r] \in {"interpret", "settled"} /\ doc'[r] = doc[r]
            /\ pc[r] = "store"
        BY <1>0, <2>9 DEF Store, AfterExtract, Fail, TypeOK
      <3>2. doc[r] # NoDoc
        BY <3>1 DEF SInv, FInv, IInv, CacheUsers
      <3> QED
        BY <2>1, <2>2, <3>1, <3>2 DEF OnItsWay
    <2> QED
      BY <1>3, <2>3, <2>4, <2>5, <2>6, <2>7, <2>8, <2>9 DEF Proceed
  <1>4. CASE \E r \in Runs : Start(r) \/ Proceed(r)
    BY <1>0, <1>1, <1>2, <1>3, <1>4, OneRunMoves, FStep DEF SInv
  <1>5. CASE \E k \in Keys : Expire(k)
    BY <1>0, <1>1, <1>5, FStep DEF Expire, Same, SInv
  <1>6. CASE UNCHANGED vars
    BY <1>0, <1>1, <1>6, FStep DEF vars, Same, SInv
  <1> QED
    BY <1>4, <1>5, <1>6 DEF Next

(* What the caller of run r sees when it ends.                             *)
AnswerOf(code, provider) == [outcome |-> code, provider |-> provider]

(* A run that ends gives its answer, and no other run's changes.           *)
LEMMA EndAnswers ==
    ASSUME SInv, NEW r \in Runs, NEW code, NEW d, Ends(r, code, d),
           \A s \in Runs \ {r} : doc'[s] = doc[s]
    PROVE  Answer' = [Answer EXCEPT ![r] =
                         AnswerOf(code, IF code = "success" THEN doc'[r].provider ELSE "none")]
  <1>1. /\ outcome'[r] = code
        /\ \A s \in Runs \ {r} : outcome'[s] = outcome[s]
    BY DEF Ends, SInv, FInv, IInv, TypeOK
  <1> QED
    BY <1>1 DEF Answer, AnswerOf

LEMMA NoEndNoAnswer ==
    ASSUME SInv, EndsNone, \A s \in Runs : pc[s] = "settled" => doc'[s] = doc[s], SInv'
    PROVE  Answer' = Answer
  <1> SUFFICES ASSUME NEW s \in Runs
               PROVE  /\ outcome'[s] = outcome[s]
                      /\ outcome[s] = "success" => doc'[s] = doc[s]
    BY DEF Answer
  <1>1. CASE pc[s] = "settled"
    BY <1>1 DEF EndsNone
  <1>2. CASE pc[s] # "settled"
    <2>1. pc'[s] # "settled"
      BY <1>2 DEF EndsNone
    <2>2. outcome[s] = "none" /\ outcome'[s] = "none"
      BY <1>2, <2>1 DEF SInv, FInv, RunIsTrue, NotYet
    <2> QED
      BY <2>2
  <1> QED
    BY <1>1, <1>2

(* A run that is under way has asked and is not answered.                  *)
LEMMA UnderWay ==
    ASSUME SInv, NEW r \in Runs, pc[r] \notin {"idle", "settled"}
    PROVE  /\ req[r] # Service!NoRun
           /\ Answer[r] = Service!NoAnswer
  <1>1. req[r].fn \in Functions /\ outcome[r] = "none"
    BY DEF SInv, FInv, IInv, Called, RunIsTrue, NotYet
  <1>2. req[r].fn # "none"
    BY <1>1, ExtractionAssumption
  <1> QED
    BY <1>1, <1>2 DEF Service!NoRun, Service!NoAnswer, Answer

LEMMA StepOfService ==
    ASSUME SInv, [Next]_vars
    PROVE  Service!Next \/ UNCHANGED Service!vars
  <1>0. TypeOK /\ SInv'
    BY WayStep DEF SInv, FInv, IInv
  <1>1. ASSUME NEW r \in Runs, Start(r)
        PROVE  Service!Ask(r)
    <2>1. req[r] = NoRun /\ Answer' = Answer
      BY <1>1 DEF Start, SInv, OnItsWay, Answer
    <2> QED
      BY <1>1, <2>1 DEF Start, Service!Ask, Service!NoRun, NoRun
  <1>2. ASSUME NEW r \in Runs, NEW code \in ErrorCode, NEW d, Ends(r, code, d), Proceed(r),
               req' = req, code = "untyped" => Chain(r) = {}, pc[r] # "idle"
        PROVE  Service!Refuse(r)
    <2>1. \A s \in Runs \ {r} : doc'[s] = doc[s]
      BY <1>0, <1>2, OneRunMoves DEF Same
    <2>2. Answer' = [Answer EXCEPT ![r] = AnswerOf(code, "none")]
      BY <1>2, <2>1, EndAnswers DEF ErrorCode
    <2>3. code \in Service!ErrorCode
      BY DEF ErrorCode, Service!ErrorCode
    <2>4. pc[r] \notin {"idle", "settled"}
      BY <1>2 DEF Ends
    <2>5. Service!Capable(req[r].fn, req[r].sha) = Chain(r)
      BY DEF Service!Capable, Service!Candidates, Service!Registered,
             Service!providerSatisfies, Chain, Candidates, Registered, providerSatisfies, Group
    <2> QED
      BY <1>2, <2>2, <2>3, <2>4, <2>5, UnderWay DEF Service!Refuse, AnswerOf
  <1>3. ASSUME NEW r \in Runs, Interpret(r), Succeed(r, doc[r])
        PROVE  Service!Serve(r)
    <2>1. /\ Ends(r, "success", doc[r]) /\ doc' = doc /\ req' = req
          /\ pc[r] = "interpret"
      BY <1>3 DEF Interpret, Succeed, Ends
    <2>2. Answer' = [Answer EXCEPT ![r] = AnswerOf("success", doc[r].provider)]
      BY <2>1, EndAnswers
    <2>3. /\ Group(r) \in Def(r).accepts
          /\ Def(r).skipExtraction <=> doc[r] = NoDoc
      BY <2>1 DEF SInv, OnItsWay
    <2>4. doc[r] # NoDoc => doc[r].provider \in Chain(r)
      BY DEF SInv, FInv, IInv, HeldFromChain
    <2>5. Service!Capable(req[r].fn, req[r].sha) = Chain(r)
      BY DEF Service!Capable, Service!Candidates, Service!Registered,
             Service!providerSatisfies, Chain, Candidates, Registered, providerSatisfies, Group
    <2>6. doc[r].provider \in IF FnDef[req[r].fn].skipExtraction
                              THEN {"none"}
                              ELSE Service!Capable(req[r].fn, req[r].sha)
      BY <2>3, <2>4, <2>5 DEF Def, NoDoc
    <2> QED
      BY <2>1, <2>2, <2>3, <2>6, UnderWay DEF Service!Serve, AnswerOf, Group, Def
  <1>4. ASSUME EndsNone, \A s \in Runs : pc[s] = "settled" => doc'[s] = doc[s], req' = req
        PROVE  UNCHANGED Service!vars
    BY <1>0, <1>4, NoEndNoAnswer DEF Service!vars
  <1>5. ASSUME NEW r \in Runs, Proceed(r)
        PROVE  Service!Next \/ UNCHANGED Service!vars
    <2>0. /\ req' = req /\ pc[r] \notin {"idle", "settled"}
          /\ \A s \in Runs : pc[s] = "settled" => doc'[s] = doc[s]
      <3>1. req' = req /\ pc[r] \notin {"idle", "settled"}
        BY <1>5 DEF Proceed, Reject, SkipExtraction, Route, CacheHit, CacheMiss,
                    Recognize, ProviderFails, Store, Interpret
      <3> QED
        BY <1>0, <1>5, <3>1, OneRunMoves DEF Same
    <2>1. CASE Reject(r)
      <3>1. PICK code \in ErrorCode :
                Ends(r, code, NoDoc) /\ (code = "untyped" => Chain(r) = {})
        BY <2>1 DEF Reject, Fail, Ends, ErrorCode
      <3> QED
        BY <1>2, <1>5, <2>0, <3>1 DEF Service!Next
    <2>2. CASE Interpret(r)
      <3>1. CASE Succeed(r, doc[r])
        BY <1>3, <2>2, <3>1 DEF Service!Next
      <3>2. CASE \E code \in {"INTERPRETATION_FAILED", "SCHEMA_VALIDATION_FAILED"} :
                     Fail(r, code, doc[r])
        <4>1. PICK code \in ErrorCode : Ends(r, code, doc[r]) /\ code # "untyped"
          BY <2>2, <3>2 DEF Interpret, Fail, Ends, ErrorCode
        <4> QED
          BY <1>2, <1>5, <2>0, <4>1 DEF Service!Next
      <3> QED
        BY <2>2, <3>1, <3>2 DEF Interpret
    <2>3. CASE ~Reject(r) /\ ~Interpret(r)
      <3>1. EndsNone \/ \E code \in {"EXTRACTION_FAILED", "PAGE_LIMIT_EXCEEDED"} :
                            \E d : Ends(r, code, d)
        BY <1>0, <1>5, <2>0, <2>3
           DEF Proceed, SkipExtraction, Route, CacheHit, CacheMiss, Recognize,
               ProviderFails, Store, AfterExtract, Fail, Ends, EndsNone, TypeOK
      <3>2. CASE EndsNone
        BY <1>4, <2>0, <3>2
      <3>3. CASE \E code \in {"EXTRACTION_FAILED", "PAGE_LIMIT_EXCEEDED"} :
                     \E d : Ends(r, code, d)
        BY <1>2, <1>5, <2>0, <3>3 DEF ErrorCode, Service!Next
      <3> QED
        BY <3>1, <3>2, <3>3
    <2> QED
      BY <2>1, <2>2, <2>3
  <1>6. ASSUME NEW k \in Keys, Expire(k)
        PROVE  UNCHANGED Service!vars
    BY <1>6 DEF Expire, Service!vars, Answer
  <1>7. CASE UNCHANGED vars
    BY <1>7 DEF vars, Service!vars, Answer
  <1> QED
    BY <1>1, <1>5, <1>6, <1>7 DEF Next, Service!Next

(* Every behaviour of the pipeline, cache and fallbacks included, takes    *)
(* only steps that OcrService allows: each run is answered at most once,   *)
(* by a provider able to serve it or with a code of http/errors.ts.        *)
THEOREM StepsOfTheService == Spec => Service!Init /\ [][Service!Next]_(Service!vars)
  <1>1. Init => SInv
    <2>1. Init => FInv
      BY FInit
    <2> QED
      BY <2>1 DEF Init, SInv, OnItsWay
  <1>2. Init => Service!Init
    BY DEF Init, Service!Init, Service!NoRun, Service!NoAnswer, NoRun, Answer
  <1>3. SInv /\ [Next]_vars => SInv'
    BY WayStep
  <1>4. SInv /\ [Next]_vars => [Service!Next]_(Service!vars)
    BY StepOfService
  <1> QED
    BY <1>1, <1>2, <1>3, <1>4, PTL DEF Spec

=============================================================================
