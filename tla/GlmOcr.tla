------------------------------- MODULE GlmOcr -------------------------------
(***************************************************************************)
(* One recognition by GLM-OCR (providers/glm): the file is split into page *)
(* images, each page is sent in a call of its own, at most Concurrency at  *)
(* a time, a call is retried while its failures are transient, and the     *)
(* responses are merged in page order.  Promise.all answers at the first   *)
(* call that fails; the others are not cancelled.  p-limit and the API are *)
(* external.  The pipeline gives neither a page range nor an abort signal. *)
(***************************************************************************)
EXTENDS Naturals, FiniteSets, Functions, GlmMapper

CONSTANTS
    MaxPages,        \* bound: pages of the file
    Concurrency,     \* GLM_CONCURRENCY
    maxRetries,      \* GlmClientOptions.maxRetries
    ResponsesOf      \* page -> the bodies the API may send for its image

VARIABLES
    mimeGroup,  \* of the file: "pdf" or "image"
    pages,      \* how many page images were made of it, 0 before the split
    call,       \* page -> its layoutParsing
    answer      \* recognize: "none", "pending", "recognized" or "failed"

glmVars == <<mimeGroup, pages, call, answer>>

(* What stands for the body of a call that has none.                       *)
NoBody == [markdown |-> [of |-> 0, text |-> ""], dims |-> 0, layout |-> <<>>, tokens |-> 0]

ASSUME GlmAssumption ==
    /\ MaxPages \in Nat \ {0}
    /\ Concurrency \in Nat
    /\ maxRetries \in Nat
    /\ \A p \in 1..MaxPages :
          /\ NoBody \notin ResponsesOf[p]
          /\ ResponsesOf[p] \subseteq LayoutParsingResponse
          /\ \A body \in ResponsesOf[p] : \A k \in DOMAIN body.layout :
                \A d \in DOMAIN body.layout[k] : body.layout[k][d].content.of = p

Page == 1..MaxPages
None == "none"

(* A call waits for a slot of p-limit, has a request at the API, waits out *)
(* a backoff, reads the body of a 200, or has settled.  attempt counts     *)
(* from 0 as in the code; failure tells why a call failed (history).       *)
Active == {"sent", "backoff", "reading"}
Settled == {"parsed", "failed"}
Failure == {"transient", "refused", "body"}

NewCall == [pc |-> "unsent", attempt |-> 0, body |-> NoBody, failure |-> None]

Sent == 1..pages
InFlight == {p \in Sent : call[p].pc \in Active}

TypeOK ==
    /\ mimeGroup \in {"pdf", "image"}
    /\ pages \in 0..MaxPages
    /\ answer \in {"none", "pending", "recognized", "failed"}
    /\ call \in [Page -> [pc : {"unsent", "queued"} \cup Active \cup Settled,
                          attempt : 0..maxRetries,
                          body : {NoBody} \cup UNION {ResponsesOf[p] : p \in Page},
                          failure : {None} \cup Failure]]
    /\ \A p \in Page : /\ call[p].pc = "parsed" <=> call[p].body # NoBody
                       /\ call[p].pc = "failed" <=> call[p].failure # None

GlmInit ==
    /\ mimeGroup \in {"pdf", "image"}
    /\ pages = 0
    /\ call = [p \in Page |-> NewCall]
    /\ answer = "none"

-----------------------------------------------------------------------------
(* Every page is rasterised before the first is sent.  An image is a page. *)
splitPdfToPageImages(n) ==
    /\ answer = "none"
    /\ mimeGroup = "image" => n = 1
    /\ pages' = n
    /\ call' = [p \in Page |-> IF p <= n THEN [NewCall EXCEPT !.pc = "queued"] ELSE NewCall]
    /\ answer' = "pending"
    /\ UNCHANGED mimeGroup

(* The PDF cannot be rendered.                                             *)
SplitFails ==
    /\ answer = "none"
    /\ mimeGroup = "pdf"
    /\ answer' = "failed"
    /\ UNCHANGED <<mimeGroup, pages, call>>

(* p-limit: the slots, and the pages that a call is waiting for, in order. *)
limit == IF Concurrency = 0 THEN 1 ELSE Concurrency

(* Mutant: a call that failed keeps its slot.                              *)
OccupiedByFailed == InFlight \cup {p \in Sent : call[p].pc = "failed"}

Occupied == InFlight

mapWithConcurrency(p) ==
    /\ p \in Sent
    /\ call[p].pc = "queued"
    /\ \A q \in Sent : call[q].pc = "queued" => p <= q
    /\ Cardinality(Occupied) < limit
    /\ call' = [call EXCEPT ![p].pc = "sent"]
    /\ UNCHANGED <<mimeGroup, pages, answer>>

(* A call settles: the first that fails answers, and the last that parsed. *)
Settle(p, c) ==
    /\ call' = [call EXCEPT ![p] = c]
    /\ answer' = IF answer = "pending" /\ c.pc = "failed" THEN "failed"
                 ELSE IF answer = "pending" /\ \A q \in Sent : call'[q].pc = "parsed"
                 THEN "recognized"
                 ELSE answer
    /\ UNCHANGED <<mimeGroup, pages>>

FailedCall(p, why) == [call[p] EXCEPT !.pc = "failed", !.failure = why]

(* Mutant: the first attempt is counted as a retry.                        *)
AttemptLeftCountsFirst(c) == c.attempt + 1 < maxRetries

(* The request gets a network error, its timeout, or a status of           *)
(* RETRYABLE_STATUS: it is sent again after a backoff, if an attempt is    *)
(* left.                                                                   *)
AttemptLeft(c) == c.attempt < maxRetries

TransientFailure(p) ==
    /\ p \in Sent
    /\ call[p].pc = "sent"
    /\ IF AttemptLeft(call[p])
       THEN /\ call' = [call EXCEPT ![p].pc = "backoff"]
            /\ UNCHANGED <<mimeGroup, pages, answer>>
       ELSE Settle(p, FailedCall(p, "transient"))

backedOff(p) ==
    /\ p \in Sent
    /\ call[p].pc = "backoff"
    /\ call' = [call EXCEPT ![p].pc = "sent", ![p].attempt = @ + 1]
    /\ UNCHANGED <<mimeGroup, pages, answer>>

(* Another status: the call fails at once.                                 *)
Refused(p) ==
    /\ p \in Sent
    /\ call[p].pc = "sent"
    /\ Settle(p, FailedCall(p, "refused"))

ok(p) ==
    /\ p \in Sent
    /\ call[p].pc = "sent"
    /\ call' = [call EXCEPT ![p].pc = "reading"]
    /\ UNCHANGED <<mimeGroup, pages, answer>>

(* The body is awaited outside the try: it parses, or the call fails,      *)
(* whatever attempts are left.                                             *)
json(p) ==
    /\ p \in Sent
    /\ call[p].pc = "reading"
    /\ \E body \in ResponsesOf[p] :
           Settle(p, [call[p] EXCEPT !.pc = "parsed", !.body = body])

BodyLost(p) ==
    /\ p \in Sent
    /\ call[p].pc = "reading"
    /\ Settle(p, FailedCall(p, "body"))

layoutParsing(p) ==
    \/ TransientFailure(p)
    \/ backedOff(p)
    \/ Refused(p)
    \/ ok(p)
    \/ json(p)
    \/ BodyLost(p)

recognize ==
    \/ \E n \in Page : splitPdfToPageImages(n)
    \/ SplitFails
    \/ \E p \in Page : mapWithConcurrency(p) \/ layoutParsing(p)

(* The document of a recognition that answered.                            *)
Responses == [p \in Sent |-> call[p].body]
Document == mapLayoutParsing(Responses)

-----------------------------------------------------------------------------
(* A given up document (client.ts:57-112, chunker.ts:46): some page was    *)
(* refused, lost the body of its 200, or failed maxRetries + 1 times.      *)
(* What is only transient never ends a call that has an attempt left.  A   *)
(* lost body does, although client.ts:89-90 says that network errors and   *)
(* timeouts are retried: it is read outside of the try.                    *)
GivenUpOnlyWhenSpent ==
    /\ answer = "failed" => pages = 0 \/ \E p \in Sent : call[p].pc = "failed"
    /\ \A p \in Sent : call[p].failure = "transient" => call[p].attempt = maxRetries

(* A recognition is answered and then leaves the API alone: the calls that *)
(* a failed page did not cancel end too, each in its slot (client.ts:72-75,*)
(* chunker.ts:45-46).                                                      *)
RecognitionSettles ==
    answer = "pending" ~> /\ answer # "pending"
                          /\ \A p \in Sent : call[p].pc \in Settled

(* The merge (mapper.ts:31-43) keeps every response once, in page order,   *)
(* whatever the order of the answers and however many pages a response     *)
(* tells of: the pages are numbered 1, 2, ..., the blocks 0, 1, ..., each  *)
(* block is on the page of its own response, and no token is lost.         *)
PagesBefore(p) ==
    SumFunctionOnSet([q \in Sent |-> pageCount(Responses[q])], {q \in Sent : q < p})

MergedInPageOrder ==
    answer = "recognized" =>
        LET doc == Document
            contentsOn(n) == LET on == Only(doc.blocks, {b \in Range(doc.blocks) : b.page = n})
                             IN [i \in DOMAIN on |-> on[i].content]
            contents(details) == [d \in DOMAIN details |-> details[d].content]
        IN /\ \A i \in 1..doc.pageCount : doc.pages[i].page = i
           /\ \A i \in DOMAIN doc.blocks : doc.blocks[i].index = i - 1
           /\ \A i \in 2..Len(doc.blocks) : doc.blocks[i-1].page <= doc.blocks[i].page
           /\ \A p \in Sent : \A k \in DOMAIN call[p].body.layout :
                  contentsOn(PagesBefore(p) + k) = contents(call[p].body.layout[k])
           /\ doc.pageCount = PagesBefore(pages + 1)
           /\ doc.tokensUsed = SumFunctionOnSet([p \in Sent |-> call[p].body.tokens], Sent)
=============================================================================
