----------------------------- MODULE DocumentProofs ----------------------------
(***************************************************************************)
(* Proofs about the calls of GLM-OCR, for every number of pages, limit,    *)
(* number of retries and set of bodies the API may send; and about what    *)
(* the functions make of a document, for every task and whatever the model *)
(* answers.                                                                *)
(***************************************************************************)
EXTENDS DocumentFunctions, FoldProofs

(* Never more pages at the API than GLM_CONCURRENCY lets (chunker.ts:45):  *)
(* a page in its backoff, and one whose document was given up, count.      *)
WithinSlots == Cardinality(InFlight) <= limit

(* A recognised document has the body of every page.                       *)
AllParsed == answer = "recognized" => \A p \in Sent : call[p].pc = "parsed"

Calls == [pc : {"unsent", "queued"} \cup Active \cup Settled,
          attempt : 0..maxRetries,
          body : {NoBody} \cup UNION {ResponsesOf[p] : p \in Page},
          failure : {None} \cup Failure]

Consistent(c) == /\ c.pc = "parsed" <=> c.body # NoBody
                 /\ c.pc = "failed" <=> c.failure # None

(* A call backs off only when it may try again: without this the attempts  *)
(* would not be known to stay in their range.                              *)
HasRetry(c) == c.pc = "backoff" => c.attempt < maxRetries
BackoffHasRetry == \A p \in Page : HasRetry(call[p])

(* Before the split there is no page, hence no call in a slot.             *)
IInv ==
    /\ TypeOK
    /\ BackoffHasRetry
    /\ answer = "none" => pages = 0
    /\ WithinSlots
    /\ AllParsed
    /\ GivenUpOnlyWhenSpent

-----------------------------------------------------------------------------
LEMMA TypeIs ==
    TypeOK <=> /\ mimeGroup \in {"pdf", "image"}
               /\ pages \in 0..MaxPages
               /\ answer \in {"none", "pending", "recognized", "failed"}
               /\ call \in [Page -> Calls]
               /\ \A p \in Page : Consistent(call[p])
  BY DEF TypeOK, Calls, Consistent

(* A call with two of its fields set, field by field.                      *)
LEMMA AttemptSet ==
    ASSUME NEW P, NEW A, NEW B, NEW F,
           NEW c \in [pc : P, attempt : A, body : B, failure : F], NEW x \in P, NEW y \in A
    PROVE  LET d == [c EXCEPT !.pc = x, !.attempt = y]
           IN /\ d \in [pc : P, attempt : A, body : B, failure : F]
              /\ d.pc = x /\ d.attempt = y /\ d.body = c.body /\ d.failure = c.failure
  OBVIOUS

LEMMA BodySet ==
    ASSUME NEW P, NEW A, NEW B, NEW F,
           NEW c \in [pc : P, attempt : A, body : B, failure : F], NEW x \in P, NEW y \in B
    PROVE  LET d == [c EXCEPT !.pc = x, !.body = y]
           IN /\ d \in [pc : P, attempt : A, body : B, failure : F]
              /\ d.pc = x /\ d.attempt = c.attempt /\ d.body = y /\ d.failure = c.failure
  OBVIOUS

LEMMA NewIsCall == NewCall \in Calls /\ Consistent(NewCall)
  BY GlmAssumption DEF NewCall, Calls, Consistent, Active, Settled, None, Failure

LEMMA SentArePages == ASSUME pages \in 0..MaxPages PROVE Sent \subseteq Page
  BY GlmAssumption DEF Sent, Page

LEMMA InFlightFinite ==
    ASSUME pages \in 0..MaxPages
    PROVE  IsFiniteSet(InFlight) /\ Cardinality(InFlight) \in Nat
  <1>1. IsFiniteSet(Sent)
    <2>1. pages \in Int
      BY GlmAssumption
    <2> QED
      BY <2>1, FS_Interval DEF Sent
  <1>2. InFlight \subseteq Sent
    BY DEF InFlight
  <1> QED
    BY <1>1, <1>2, FS_Subset, FS_CardinalityType

(* A step that puts no page in a slot keeps within the slots.              *)
LEMMA NoNewInFlight ==
    ASSUME pages \in 0..MaxPages, WithinSlots, InFlight' \subseteq InFlight
    PROVE  WithinSlots'
  <1>1. Cardinality(InFlight') <= Cardinality(InFlight)
    BY InFlightFinite, FS_Subset
  <1>2. IsFiniteSet(InFlight') /\ Cardinality(InFlight') \in Nat
    BY InFlightFinite, FS_Subset, FS_CardinalityType
  <1>3. limit \in Nat /\ limit' = limit
    BY GlmAssumption DEF limit
  <1> QED
    BY <1>1, <1>2, <1>3, InFlightFinite DEF WithinSlots

(* A page's call becomes another one; the answer stays.                    *)
LEMMA CallChanges ==
    ASSUME IInv, NEW p \in Sent, NEW c \in Calls, Consistent(c), HasRetry(c),
           c.pc \in Active, call[p].pc \in Active \cup {"queued"},
           call' = [call EXCEPT ![p] = c],
           UNCHANGED <<mimeGroup, pages, answer>>
    PROVE  /\ TypeOK' /\ AllParsed' /\ GivenUpOnlyWhenSpent' /\ BackoffHasRetry'
           /\ (answer = "none" => pages = 0)'
  <1>1. p \in Page /\ Sent' = Sent /\ Sent \subseteq Page
    BY SentArePages DEF IInv, TypeOK, Sent
  <1>2. call' \in [Page -> Calls] /\ \A q \in Page : Consistent(call'[q])
    BY <1>1, TypeIs DEF IInv
  <1>3. TypeOK'
    BY <1>2, TypeIs DEF IInv, TypeOK, Calls, Consistent
  <1>4. call'[p] = c /\ \A q \in Sent : q # p => call'[q] = call[q]
    BY <1>1, TypeIs DEF IInv
  <1>5. answer # "recognized"
    BY DEF IInv, AllParsed, Active
  <1>6. AllParsed'
    BY <1>5 DEF AllParsed
  <1>7. c.failure = None /\ call[p].pc # "failed"
    BY DEF Consistent, Active
  <1>8. GivenUpOnlyWhenSpent'
    BY <1>1, <1>4, <1>7 DEF IInv, GivenUpOnlyWhenSpent, None
  <1>9. BackoffHasRetry'
    BY <1>1, TypeIs DEF IInv, BackoffHasRetry, HasRetry
  <1> QED
    BY <1>3, <1>6, <1>8, <1>9 DEF IInv

(* A page's call settles, with all that follows from it.                   *)
LEMMA SettlePreserves ==
    ASSUME IInv, NEW p \in Sent, NEW c \in Calls, Consistent(c),
           c.pc \in Settled, call[p].pc \in Active,
           c.failure = "transient" => c.attempt = maxRetries,
           Settle(p, c)
    PROVE  IInv'
  <1>1. p \in Page /\ Sent' = Sent /\ Sent \subseteq Page
    BY SentArePages DEF IInv, TypeOK, Sent, Settle
  <1>2. call' = [call EXCEPT ![p] = c] /\ UNCHANGED <<mimeGroup, pages>>
    BY DEF Settle
  <1>3. call' \in [Page -> Calls] /\ \A q \in Page : Consistent(call'[q])
    BY <1>1, <1>2, TypeIs DEF IInv
  <1>4. answer' \in {"none", "pending", "recognized", "failed"}
    BY DEF IInv, TypeOK, Settle
  <1>5. TypeOK'
    BY <1>2, <1>3, <1>4, TypeIs DEF IInv, TypeOK, Calls, Consistent
  <1>6. call'[p] = c /\ \A q \in Sent : q # p => call'[q] = call[q]
    BY <1>1, <1>2, TypeIs DEF IInv
  <1>7. InFlight' \subseteq InFlight
    BY <1>1, <1>6 DEF InFlight, Settled, Active
  <1>8. WithinSlots'
    BY <1>7, NoNewInFlight DEF IInv, TypeOK
  <1>9. answer # "recognized"
    BY DEF IInv, AllParsed, Active
  <1>10. AllParsed'
    BY <1>1, <1>9 DEF AllParsed, Settle
  <1>11. GivenUpOnlyWhenSpent'
    <2>1. answer' = "failed" => pages = 0 \/ \E q \in Sent : call'[q].pc = "failed"
      <3>1. CASE answer = "pending" /\ c.pc = "failed"
        BY <1>6, <3>1
      <3>2. CASE ~(answer = "pending" /\ c.pc = "failed")
        <4>1. answer' = "failed" => answer = "failed"
          BY <3>2 DEF Settle
        <4>2. call[p].pc # "failed"
          BY DEF Active
        <4> QED
          BY <4>1, <4>2, <1>6 DEF IInv, GivenUpOnlyWhenSpent
      <3> QED
        BY <3>1, <3>2
    <2>2. \A q \in Sent : call'[q].failure = "transient" => call'[q].attempt = maxRetries
      BY <1>6 DEF IInv, GivenUpOnlyWhenSpent
    <2> QED
      BY <1>1, <1>2, <2>1, <2>2 DEF GivenUpOnlyWhenSpent
  <1>12. (answer = "none" => pages = 0)'
    BY <1>2 DEF IInv, Settle
  <1>13. BackoffHasRetry'
    BY <1>1, <1>2, TypeIs DEF IInv, BackoffHasRetry, HasRetry, Settled
  <1> QED
    BY <1>5, <1>8, <1>10, <1>11, <1>12, <1>13 DEF IInv

LEMMA SplitPreserves ==
    ASSUME IInv, NEW n \in Page, splitPdfToPageImages(n)
    PROVE  IInv'
  <1>1. call' = [p \in Page |-> IF p <= n THEN [NewCall EXCEPT !.pc = "queued"] ELSE NewCall]
        /\ pages' = n /\ answer' = "pending" /\ UNCHANGED mimeGroup
    BY DEF splitPdfToPageImages
  <1>2. [NewCall EXCEPT !.pc = "queued"] \in Calls
        /\ Consistent([NewCall EXCEPT !.pc = "queued"])
    BY GlmAssumption DEF NewCall, Calls, Consistent, Active, Settled, None, Failure
  <1>3. call' \in [Page -> Calls] /\ \A p \in Page : Consistent(call'[p])
    BY <1>1, <1>2, NewIsCall
  <1>4. TypeOK'
    <2>1. mimeGroup' \in {"pdf", "image"} /\ pages' \in 0..MaxPages /\ answer' = "pending"
      BY <1>1, TypeIs, GlmAssumption DEF IInv, Page
    <2> QED
      BY <1>3, <2>1 DEF TypeOK, Calls, Consistent
  <1>5. \A p \in Page : call'[p].pc \notin Active \cup Settled /\ call'[p].failure = None
    BY <1>1 DEF NewCall, Active, Settled
  <1>6. Sent' \subseteq Page
    BY <1>1, GlmAssumption DEF Sent, Page
  <1>7. InFlight' = {}
    BY <1>5, <1>6 DEF InFlight, Active
  <1>8. WithinSlots'
    BY <1>7, NoNewInFlight DEF IInv, TypeOK
  <1>9. AllParsed' /\ GivenUpOnlyWhenSpent'
    BY <1>1, <1>5, <1>6 DEF AllParsed, GivenUpOnlyWhenSpent, None
  <1>10. BackoffHasRetry'
    BY <1>5 DEF BackoffHasRetry, HasRetry, Active
  <1> QED
    BY <1>1, <1>4, <1>8, <1>9, <1>10 DEF IInv

LEMMA SplitFailsPreserves ==
    ASSUME IInv, SplitFails
    PROVE  IInv'
  <1>1. pages = 0 /\ answer' = "failed" /\ UNCHANGED <<mimeGroup, pages, call>>
    BY DEF IInv, SplitFails
  <1>2. TypeOK'
    BY <1>1 DEF IInv, TypeOK
  <1>3. WithinSlots'
    BY <1>1 DEF IInv, WithinSlots, InFlight, Sent, limit
  <1>4. AllParsed' /\ GivenUpOnlyWhenSpent'
    BY <1>1 DEF IInv, AllParsed, GivenUpOnlyWhenSpent, Sent
  <1> QED
    BY <1>1, <1>2, <1>3, <1>4 DEF IInv, BackoffHasRetry, HasRetry

(* A page takes a slot, and one was free.                                  *)
LEMMA SlotPreserves ==
    ASSUME IInv, NEW p \in Page, mapWithConcurrency(p)
    PROVE  IInv'
  <1> DEFINE c == [call[p] EXCEPT !.pc = "sent"]
  <1>1. p \in Sent /\ call[p].pc = "queued" /\ call[p] \in Calls /\ Consistent(call[p])
    BY TypeIs DEF IInv, mapWithConcurrency
  <1>2. c \in Calls /\ c.pc = "sent" /\ Consistent(c)
    BY <1>1 DEF Calls, Consistent, Active
  <1>3. call' = [call EXCEPT ![p] = c] /\ UNCHANGED <<mimeGroup, pages, answer>>
    BY DEF mapWithConcurrency
  <1>4. /\ TypeOK' /\ AllParsed' /\ GivenUpOnlyWhenSpent' /\ BackoffHasRetry'
        /\ (answer = "none" => pages = 0)'
    <2> HIDE DEF c
    <2>1. c.pc \in Active /\ HasRetry(c)
      BY <1>2 DEF Active, HasRetry
    <2> QED
      BY <1>1, <1>2, <1>3, <2>1, CallChanges
  <1>5. call'[p].pc = "sent" /\ \A q \in Sent : q # p => call'[q] = call[q]
    BY <1>1, <1>2, <1>3, TypeIs, SentArePages DEF IInv
  <1>6. InFlight' = InFlight \cup {p} /\ p \notin InFlight
    BY <1>1, <1>3, <1>5 DEF InFlight, Active, Sent
  <1>7. Cardinality(InFlight') = Cardinality(InFlight) + 1
    BY <1>6, InFlightFinite, FS_AddElement DEF IInv, TypeOK
  <1>8. Cardinality(InFlight) < limit
    BY DEF mapWithConcurrency, Occupied
  <1>9. WithinSlots'
    BY <1>7, <1>8, InFlightFinite, GlmAssumption DEF WithinSlots, limit, IInv, TypeOK
  <1> QED
    BY <1>4, <1>9 DEF IInv

(* A call goes on in its slot.                                             *)
LEMMA InSlotPreserves ==
    ASSUME IInv, NEW p \in Sent, NEW c \in Calls, Consistent(c), HasRetry(c),
           c.pc \in Active, call[p].pc \in Active,
           call' = [call EXCEPT ![p] = c],
           UNCHANGED <<mimeGroup, pages, answer>>
    PROVE  IInv'
  <1>1. /\ TypeOK' /\ AllParsed' /\ GivenUpOnlyWhenSpent' /\ BackoffHasRetry'
        /\ (answer = "none" => pages = 0)'
    BY CallChanges
  <1>2. p \in Page /\ Sent' = Sent /\ Sent \subseteq Page
    BY SentArePages DEF IInv, TypeOK, Sent
  <1>3. \A q \in Sent : q # p => call'[q] = call[q]
    BY <1>2, TypeIs DEF IInv
  <1>4. InFlight' \subseteq InFlight
    BY <1>2, <1>3 DEF InFlight
  <1>5. WithinSlots'
    BY <1>4, NoNewInFlight DEF IInv, TypeOK
  <1> QED
    BY <1>1, <1>5 DEF IInv

LEMMA FailedIsCall ==
    ASSUME NEW p, call[p] \in Calls, Consistent(call[p]), call[p].pc \in Active,
           NEW why \in Failure
    PROVE  /\ FailedCall(p, why) \in Calls /\ Consistent(FailedCall(p, why))
           /\ FailedCall(p, why).pc = "failed" /\ FailedCall(p, why).failure = why
           /\ FailedCall(p, why).attempt = call[p].attempt
  BY DEF FailedCall, Calls, Consistent, Active, Settled, Failure, None

LEMMA CallPreserves ==
    ASSUME IInv, NEW p \in Page, layoutParsing(p)
    PROVE  IInv'
  <1>1. p \in Sent /\ call[p].pc \in Active
    BY DEF layoutParsing, TransientFailure, backedOff, Refused, ok, json, BodyLost, Active
  <1>2. call[p] \in Calls /\ Consistent(call[p]) /\ call[p].failure = None
    BY <1>1, TypeIs DEF IInv, Consistent, Active
  <1>3. ASSUME NEW why \in Failure, Settle(p, FailedCall(p, why)),
               why = "transient" => call[p].attempt = maxRetries
        PROVE  IInv'
    <2>1. FailedCall(p, why).pc \in Settled
      BY <1>1, <1>2, FailedIsCall DEF Settled
    <2> QED
      BY <1>1, <1>2, <1>3, <2>1, FailedIsCall, SettlePreserves
  <1>4. CASE TransientFailure(p) /\ AttemptLeft(call[p])
    <2> DEFINE c == [call[p] EXCEPT !.pc = "backoff"]
    <2>1. c \in Calls /\ Consistent(c) /\ c.pc \in Active /\ HasRetry(c)
      BY <1>1, <1>2, <1>4 DEF Calls, Consistent, Active, HasRetry, AttemptLeft
    <2>2. call' = [call EXCEPT ![p] = c] /\ UNCHANGED <<mimeGroup, pages, answer>>
      BY <1>4 DEF TransientFailure
    <2> HIDE DEF c
    <2> QED
      BY <1>1, <2>1, <2>2, InSlotPreserves
  <1>5. CASE TransientFailure(p) /\ ~AttemptLeft(call[p])
    <2>1. Settle(p, FailedCall(p, "transient"))
      BY <1>5 DEF TransientFailure
    <2>2. call[p].attempt = maxRetries
      BY <1>2, <1>5, GlmAssumption DEF AttemptLeft, Calls
    <2> QED
      BY <1>3, <2>1, <2>2 DEF Failure
  <1>6. CASE backedOff(p)
    <2> DEFINE c == [call[p] EXCEPT !.pc = "sent", !.attempt = @ + 1]
    <2>1. call[p].attempt < maxRetries
      BY <1>6 DEF IInv, BackoffHasRetry, HasRetry, backedOff
    <2>2. call[p].attempt + 1 \in 0..maxRetries
      BY <1>2, <2>1, GlmAssumption DEF Calls
    <2>4. "sent" \in {"unsent", "queued"} \cup Active \cup Settled
      BY DEF Active
    <2>5. /\ c \in Calls
          /\ c.pc = "sent" /\ c.body = call[p].body /\ c.failure = call[p].failure
      BY <1>2, <2>2, <2>4, AttemptSet DEF Calls
    <2>6. Consistent(c) /\ c.pc \in Active /\ HasRetry(c)
      BY <1>1, <1>2, <2>5 DEF Consistent, Active, HasRetry
    <2>3. call' = [call EXCEPT ![p] = c] /\ UNCHANGED <<mimeGroup, pages, answer>>
      BY <1>6 DEF backedOff
    <2> HIDE DEF c
    <2> QED
      BY <1>1, <2>3, <2>5, <2>6, InSlotPreserves
  <1>7. CASE Refused(p)
    BY <1>3, <1>7 DEF Refused, Failure
  <1>8. CASE ok(p)
    <2> DEFINE c == [call[p] EXCEPT !.pc = "reading"]
    <2>1. c \in Calls /\ Consistent(c) /\ c.pc \in Active /\ HasRetry(c)
      BY <1>1, <1>2 DEF Calls, Consistent, Active, HasRetry
    <2>2. call' = [call EXCEPT ![p] = c] /\ UNCHANGED <<mimeGroup, pages, answer>>
      BY <1>8 DEF ok
    <2> HIDE DEF c
    <2> QED
      BY <1>1, <2>1, <2>2, InSlotPreserves
  <1>9. CASE json(p)
    <2>1. PICK body \in ResponsesOf[p] : Settle(p, [call[p] EXCEPT !.pc = "parsed", !.body = body])
      BY <1>9 DEF json
    <2> DEFINE c == [call[p] EXCEPT !.pc = "parsed", !.body = body]
    <2>2. body # NoBody
      BY <2>1, GlmAssumption DEF Page
    <2>3. "parsed" \in {"unsent", "queued"} \cup Active \cup Settled
      BY DEF Settled
    <2>4. body \in {NoBody} \cup UNION {ResponsesOf[q] : q \in Page}
      BY <2>1
    <2>5. /\ c \in Calls
          /\ c.pc = "parsed" /\ c.body = body /\ c.failure = None
      BY <1>2, <2>3, <2>4, BodySet DEF Calls
    <2>6. Consistent(c) /\ c.pc \in Settled /\ c.failure # "transient"
      BY <2>2, <2>5 DEF Consistent, Settled, None
    <2>7. Settle(p, c)
      BY <2>1
    <2> HIDE DEF c
    <2> QED
      BY <1>1, <2>5, <2>6, <2>7, SettlePreserves
  <1>10. CASE BodyLost(p)
    BY <1>3, <1>10 DEF BodyLost, Failure
  <1> QED
    BY <1>4, <1>5, <1>6, <1>7, <1>8, <1>9, <1>10 DEF layoutParsing

-----------------------------------------------------------------------------
LEMMA InitIInv == Init => IInv
  <1> SUFFICES ASSUME Init PROVE IInv
    OBVIOUS
  <1>1. /\ mimeGroup \in {"pdf", "image"} /\ pages = 0 /\ answer = "none"
        /\ call = [p \in Page |-> NewCall]
    BY DEF Init, GlmInit
  <1>2. TypeOK
    BY <1>1, NewIsCall, TypeIs, GlmAssumption
  <1>3. Sent = {} /\ InFlight = {}
    BY <1>1 DEF Sent, InFlight
  <1>4. WithinSlots
    BY <1>3, FS_EmptySet, GlmAssumption DEF WithinSlots, limit
  <1>5. BackoffHasRetry
    BY <1>1 DEF BackoffHasRetry, HasRetry, NewCall
  <1> QED
    BY <1>1, <1>2, <1>3, <1>4, <1>5 DEF IInv, AllParsed, GivenUpOnlyWhenSpent

LEMMA StepIInv == IInv /\ [Next]_vars => IInv'
  <1> SUFFICES ASSUME IInv, [Next]_vars PROVE IInv'
    OBVIOUS
  <1>1. CASE Recognize
    <2>1. CASE \E n \in Page : splitPdfToPageImages(n)
      BY <2>1, SplitPreserves
    <2>2. CASE SplitFails
      BY <2>2, SplitFailsPreserves
    <2>3. CASE \E p \in Page : mapWithConcurrency(p)
      BY <2>3, SlotPreserves
    <2>4. CASE \E p \in Page : layoutParsing(p)
      BY <2>4, CallPreserves
    <2> QED
      BY <1>1, <2>1, <2>2, <2>3, <2>4 DEF Recognize, recognize
  <1>2. CASE UNCHANGED <<mimeGroup, pages, call, answer>>
    BY <1>2 DEF IInv, TypeOK, BackoffHasRetry, HasRetry, WithinSlots, InFlight, Sent, limit,
                AllParsed, GivenUpOnlyWhenSpent
  <1> QED
    BY <1>1, <1>2 DEF Next, Execute, executeSigning, Compute, executeReceiptParsing,
                      Verify, FillForm, executeDocumentAuthenticity, Returns,
                      ModelFails, vars

(* The inductive invariant of the client's page slots and attempts holds in *)
(* every state (glm/client.ts, glm/chunker.ts).                            *)
THEOREM AlwaysIInv == Spec => []IInv
  BY InitIInv, StepIInv, PTL DEF Spec

(* The types of a recognition (index.ts, client.ts).                       *)
THEOREM TypeCorrect == Spec => []TypeOK
  <1>1. IInv => TypeOK
    BY DEF IInv
  <1> QED
    BY AlwaysIInv, <1>1, PTL

(* A document is given up only for a page that was refused, lost its body  *)
(* or spent its attempts (client.ts:72-113).                               *)
THEOREM NothingTransientGivesUp == Spec => []GivenUpOnlyWhenSpent
  <1>1. IInv => GivenUpOnlyWhenSpent
    BY DEF IInv
  <1> QED
    BY AlwaysIInv, <1>1, PTL

(* The API never has more pages of a document than the limit, even while   *)
(* pages back off and after the document was given up (chunker.ts:40-46).  *)
THEOREM PagesStayWithinSlots == Spec => []WithinSlots
  <1>1. IInv => WithinSlots
    BY DEF IInv
  <1> QED
    BY AlwaysIInv, <1>1, PTL

-----------------------------------------------------------------------------
(* The functions.  What a task that is done has for a result was computed  *)
(* of an answer that the model may give and of the task's own arguments.   *)
Outcome ==
    /\ task.fn = "RECEIPT_PARSING" => \E data \in Receipts : result = reconcileTotals(data)
    /\ task.fn = "ID_VERIFICATION" =>
           IsRead(read) /\ result = executeIdVerification(read, task.expected)
    /\ task.fn = "FORM_DATA_EXTRACTION" =>
           /\ \E data \in Answers : result = executeFormDataExtraction(task.args, data)
           /\ result.code = "success"
    /\ task.fn = "DOCUMENT_AUTHENTICITY" => result = analyzeTamper(task.file)

(* A document that was recognised stays as it is under a task.             *)
FnInv ==
    /\ task # NoTask => task \in Tasks
    /\ task = NoTask <=> status = "none"
    /\ status \in {"none", "running", "done", "failed"}
    /\ status \in {"none", "running"} => result = NoResult
    /\ task # NoTask => answer = IF task.fn \in OnLayout THEN "recognized" ELSE "none"
    /\ task.fn \in OnLayout => result = NoResult
    /\ read # NoIdentity => task.fn = "ID_VERIFICATION"
    /\ status = "done" => Outcome

LEMMA TaskKind ==
    ASSUME NEW t \in Tasks
    PROVE  /\ t # NoTask
           /\ t.fn = "FORM_DATA_EXTRACTION" => IsFormArgs(t.args)
           /\ t.fn = "DOCUMENT_AUTHENTICITY" => IsFile(t.file)
  <1>1. IsTask(t)
    BY FnAssumption
  <1>2. NoTask.fn = "none"
    BY DEF NoTask
  <1> QED
    BY <1>1, <1>2 DEF IsTask, OnLayout

LEMMA InitFnInv == Init => FnInv
  BY DEF Init, FnInv, NoTask, OnLayout

LEMMA StepFnInv == FnInv /\ [Next]_vars => FnInv'
  <1> SUFFICES ASSUME FnInv, [Next]_vars PROVE FnInv'
    OBVIOUS
  <1>1. CASE UNCHANGED vars
    BY <1>1 DEF FnInv, Outcome, vars
  <1>2. CASE Recognize
    BY <1>2 DEF FnInv, Outcome, Recognize, fnVars
  <1>3. ASSUME NEW t \in Tasks, Execute(t)
        PROVE  FnInv'
    BY <1>3, TaskKind DEF FnInv, Execute, NoTask
  <1>4. CASE executeSigning
    BY <1>4 DEF FnInv, Outcome, executeSigning
  <1>5. CASE Compute
    BY <1>5 DEF FnInv, Outcome, Compute
  <1>6. CASE executeReceiptParsing
    BY <1>6 DEF FnInv, Outcome, executeReceiptParsing, Returns, OnLayout
  <1>7. CASE Verify
    BY <1>7, FnAssumption DEF FnInv, Outcome, Verify, Returns, OnLayout
  <1>8. CASE FillForm
    BY <1>8 DEF FnInv, Outcome, FillForm, OnLayout
  <1>9. CASE executeDocumentAuthenticity
    BY <1>9 DEF FnInv, Outcome, executeDocumentAuthenticity, Returns, OnLayout
  <1>10. CASE ModelFails
    BY <1>10 DEF FnInv, ModelFails
  <1> QED
    BY <1>1, <1>2, <1>3, <1>4, <1>5, <1>6, <1>7, <1>8, <1>9, <1>10 DEF Next

LEMMA AlwaysFnInv == Spec => []FnInv
  BY InitFnInv, StepFnInv, PTL DEF Spec

-----------------------------------------------------------------------------
(* RECEIPT_PARSING.                                                        *)

AddAmount == [p \in Int \X Read |-> p[1] + Amount(p[2])]

LEMMA AmountType == \A a \in Read : Amount(a) \in Int
  BY DEF Amount, Read

LEMMA LineSumFolds ==
    ASSUME NEW r \in ReceiptData
    PROVE  FoldsTo(lineSum(r), r.lineItems, 0, AddAmount, Int)
  <1> DEFINE seq == r.lineItems
             n == Len(seq)
             F(g) == [s \in SUBSET DOMAIN seq |-> IF s = {} THEN 0 ELSE
                          g[s \ {Max(s)}] + Amount(seq[Max(s)])]
             i == CHOOSE it : it = F(it)
  <1>1. lineSum(r) = i[DOMAIN seq]
    BY DEF lineSum, FoldLeft, MapThenFoldSet
  <1>2. /\ seq \in Seq(Read) /\ n \in Nat /\ DOMAIN seq = 1..n
        /\ \A x \in 1..n : seq[x] \in Read
    BY DEF ReceiptData
  <1>3. /\ AddAmount \in [Int \X Read -> Int]
        /\ \A x \in Int, a \in Read : AddAmount[<<x, a>>] = x + Amount(a)
    BY AmountType DEF AddAmount
  <1> HIDE DEF seq, n
  <1>4. Loop(seq, Read, 0, AddAmount, Int)
    BY <1>2, <1>3 DEF Loop
  <1>5. PICK g \in [SUBSET (1..n) -> Int] : FoldTable(g, n, 0, AddAmount, seq)
    BY <1>4, FoldTableExists DEF n
  <1>6. g = F(g)
    <2>1. ASSUME NEW s \in SUBSET (1..n), s # {}
          PROVE  g[s] = g[s \ {Max(s)}] + Amount(seq[Max(s)])
      <3>1. Max(s) \in 1..n
        BY <1>2, <2>1, MaxOfSubset
      <3>2. seq[Max(s)] \in Read /\ g[s \ {Max(s)}] \in Int
        BY <1>2, <3>1
      <3> QED
        BY <1>3, <1>5, <2>1, <3>2 DEF FoldTable
    <2> QED
      BY <1>2, <1>5, <2>1 DEF FoldTable
  <1>7. i = F(i)
    <2> HIDE DEF F
    <2> QED
      BY <1>6
  <1>8. Alike(i, g, n)
    <2> HIDE DEF i
    <2> QED
      BY <1>2, <1>6, <1>7 DEF Alike
  <1>9. i[1..n] = g[1..n]
    <2> HIDE DEF i
    <2> QED
      BY <1>2, <1>8, SameTable
  <1>10. FoldsTo(g[1..n], seq, 0, AddAmount, Int)
    BY <1>4, <1>5, TableFolds DEF n
  <1> HIDE DEF i
  <1> QED
    BY <1>1, <1>2, <1>9, <1>10 DEF seq

LEMMA LineSumType ==
    ASSUME NEW r \in ReceiptData
    PROVE  lineSum(r) \in Int
  BY LineSumFolds, FoldsToType DEF ReceiptData

LEMMA SizeType == \A n \in Int : Size(n) \in Int /\ Tolerance(n) \in Int
  BY DEF Size, Tolerance

(* Two checks each within its tolerance bound what neither compares.       *)
LEMMA ChecksCompose ==
    ASSUME NEW l \in Int, NEW s \in Int, NEW x \in Int, NEW p \in Int, NEW t \in Int,
           approxEqual(l, s), approxEqual(s + x + p, t)
    PROVE  50 * Size(l + x + p - t) <= Tolerance(s) + Tolerance(t)
  <1>1. Size(l + x + p - t) <= Size(l - s) + Size(s + x + p - t)
    BY DEF Size
  <1>2. l - s \in Int /\ s + x + p - t \in Int /\ l + x + p - t \in Int
    OBVIOUS
  <1>3. /\ Size(l - s) \in Int /\ Size(s + x + p - t) \in Int
        /\ Size(l + x + p - t) \in Int
        /\ Tolerance(s) \in Int /\ Tolerance(t) \in Int
    BY <1>2, SizeType
  <1>4. 50 * Size(l - s) <= Tolerance(s) /\ 50 * Size(s + x + p - t) <= Tolerance(t)
    BY DEF approxEqual
  <1> QED
    BY <1>1, <1>3, <1>4

LEMMA ReceiptAddsUp ==
    ASSUME NEW data \in ReceiptData, NEW r, r = reconcileTotals(data),
           r.confidence = "high",
           <<>> \notin {r.subtotal, r.tax, r.tip, r.total},
           \E i \in DOMAIN r.lineItems : r.lineItems[i] # <<>>
    PROVE  50 * Size(lineSum(r) + r.tax[1] + r.tip[1] - r.total[1])
               <= Tolerance(r.subtotal[1]) + Tolerance(r.total[1])
  <1> DEFINE c == IF LinesDisagree(data) \/ PartsDisagree(data) THEN "low" ELSE "high"
  <1>0. r = [data EXCEPT !.confidence = c] /\ c \in {"high", "low"}
    BY DEF reconcileTotals
  <1>1. /\ r \in ReceiptData /\ r.lineItems = data.lineItems /\ r.subtotal = data.subtotal
        /\ r.tax = data.tax /\ r.tip = data.tip /\ r.total = data.total
        /\ ~LinesDisagree(data) /\ ~PartsDisagree(data)
    <2>1. c = "high"
      <3> HIDE DEF c
      <3> QED
        BY <1>0 DEF ReceiptData
    <2>2. ~LinesDisagree(data) /\ ~PartsDisagree(data)
      BY <2>1
    <2> HIDE DEF c
    <2> QED
      BY <1>0, <2>2 DEF ReceiptData
  <1>2. lineSum(r) = lineSum(data) /\ lineSum(r) \in Int
    BY <1>1, LineSumType DEF lineSum
  <1> DEFINE s == r.subtotal[1]
             x == r.tax[1]
             p == r.tip[1]
             t == r.total[1]
  <1>3. /\ s \in Int /\ x \in Int /\ p \in Int /\ t \in Int
        /\ Amount(r.subtotal) = s /\ Amount(r.tax) = x
        /\ Amount(r.tip) = p /\ Amount(r.total) = t
    BY <1>1 DEF ReceiptData, Read, Amount
  <1>4. approxEqual(lineSum(r), s)
    BY <1>1, <1>2, <1>3 DEF LinesDisagree
  <1>5. approxEqual(s + x + p, t)
    BY <1>1, <1>3 DEF PartsDisagree, composed
  <1> DEFINE l == lineSum(r)
  <1> HIDE DEF s, x, p, t
  <1>6. /\ l \in Int /\ s \in Int /\ x \in Int /\ p \in Int /\ t \in Int
        /\ approxEqual(l, s) /\ approxEqual(s + x + p, t)
    BY <1>2, <1>3, <1>4, <1>5
  <1> HIDE DEF l
  <1>7. 50 * Size(l + x + p - t) <= Tolerance(s) + Tolerance(t)
    BY <1>6, ChecksCompose
  <1> QED
    BY <1>7 DEF l, s, x, p, t

(* A receipt passed with high confidence adds up, within both tolerances,  *)
(* whatever amounts the model read off it (receipt-parsing/validate.ts).   *)
THEOREM ReceiptsAddUp == Spec => []HighConfidenceAddsUp
  <1>1. FnInv => HighConfidenceAddsUp
    BY FnAssumption, ReceiptAddsUp DEF FnInv, Outcome, HighConfidenceAddsUp
  <1> QED
    BY AlwaysFnInv, <1>1, PTL

-----------------------------------------------------------------------------
(* FORM_DATA_EXTRACTION.                                                   *)

LEMMA SuccessIsLetIn ==
    ASSUME NEW args, NEW given, executeFormDataExtraction(args, given).code = "success"
    PROVE  ~RefusedArgs(args)
  <1>1. RefusedArgs(args) => /\ parseFormArgs(args).fields = Missing
                             /\ parseFormArgs(args).schema = Missing
    BY DEF RefusedArgs
  <1>2. RefusedArgs(args) =>
            executeFormDataExtraction(args, given) = [code |-> "INVALID_ARGS"]
    BY <1>1 DEF executeFormDataExtraction
  <1> QED
    BY <1>2

LEMMA FilledByFields ==
    ASSUME NEW args, IsFormArgs(args), NEW given,
           args.fields # Missing, args.schema = Missing,
           NEW r, r = executeFormDataExtraction(args, given), r.code = "success"
    PROVE  /\ DOMAIN r.fields = Names(args.fields)
           /\ \A i \in DOMAIN args.fields :
                 \/ fieldToZod(args.fields[i], r.fields[args.fields[i].name])
                 \/ \E j \in DOMAIN args.fields :
                        j > i /\ args.fields[j].name = args.fields[i].name
  <1> DEFINE fields == args.fields
  <1>2. ~RefusedArgs(args)
    BY SuccessIsLetIn
  <1>1. parseFormArgs(args) = [fields |-> fields, schema |-> Missing]
    BY <1>2 DEF RefusedArgs, parseFormArgs
  <1>3. /\ r = [code |-> "success", fields |-> Restrict(given, Names(fields))]
        /\ buildFormResultSchema(fields, given)
    BY <1>1, <1>2 DEF executeFormDataExtraction
  <1>4. /\ DOMAIN r.fields = Names(fields)
        /\ \A name \in Names(fields) : r.fields[name] = given[name]
    BY <1>3 DEF Restrict
  <1>5. ASSUME NEW i \in DOMAIN fields
        PROVE  \/ fieldToZod(fields[i], r.fields[fields[i].name])
               \/ \E j \in DOMAIN fields : j > i /\ fields[j].name = fields[i].name
    <2> DEFINE name == fields[i].name
               same == {j \in DOMAIN fields : fields[j].name = name}
    <2>1. Len(fields) \in Nat /\ DOMAIN fields = 1..Len(fields)
      BY DEF IsFormArgs
    <2>2. same \in SUBSET (1..Len(fields)) /\ i \in same
      BY <2>1
    <2>3. Max(same) \in same /\ \A x \in same : x <= Max(same)
      <3> HIDE DEF same, fields
      <3> QED
        BY <2>1, <2>2, MaxOfSubset
    <2>4. name \in Names(fields) /\ r.fields[name] = given[name]
      BY <1>4 DEF Names
    <2>5. fieldToZod(fields[Max(same)], r.fields[name])
      BY <1>3, <2>4 DEF buildFormResultSchema, SpecOf
    <2>6. Max(same) \in DOMAIN fields /\ fields[Max(same)].name = name
          /\ (Max(same) = i \/ Max(same) > i)
      <3>1. Max(same) \in same /\ i <= Max(same)
        BY <2>2, <2>3
      <3>2. \A m \in same : m \in DOMAIN fields /\ fields[m].name = name
        OBVIOUS
      <3>3. \A m \in same : m \in Int
        BY <2>1
      <3> HIDE DEF same, fields
      <3> QED
        BY <2>1, <3>1, <3>2, <3>3
    <2> QED
      BY <2>5, <2>6
  <1> QED
    BY <1>4, <1>5

LEMMA FilledBySchema ==
    ASSUME NEW args, NEW given, args.fields = Missing,
           NEW r, r = executeFormDataExtraction(args, given), r.code = "success"
    PROVE  r.fields \in args.schema[1].accepts
  <1>1. ~RefusedArgs(args)
    BY SuccessIsLetIn
  <1>2. /\ args.schema # Missing
        /\ parseFormArgs(args) = [fields |-> Missing, schema |-> args.schema]
    BY <1>1 DEF RefusedArgs, parseFormArgs
  <1> QED
    BY <1>1, <1>2 DEF executeFormDataExtraction

(* A form asked for in one way is filled so, whatever the model answers    *)
(* (form-data-extraction/args.ts, result.ts, execute.ts).                  *)
THEOREM FormsFilledAsAsked == Spec => []FilledAsAsked
  <1>1. ASSUME FnInv PROVE FilledAsAsked
    <2> SUFFICES ASSUME status = "done", task.fn = "FORM_DATA_EXTRACTION"
                 PROVE  FilledAsAsked
      BY DEF FilledAsAsked
    <2>1. IsFormArgs(task.args) /\ result.code = "success"
      BY <1>1, TaskKind DEF FnInv, Outcome
    <2>2. PICK given \in Answers : result = executeFormDataExtraction(task.args, given)
      BY <1>1 DEF FnInv, Outcome
    <2> QED
      BY <2>1, <2>2, FilledByFields, FilledBySchema DEF FilledAsAsked
  <1> QED
    BY AlwaysFnInv, <1>1, PTL

-----------------------------------------------------------------------------
(* DOCUMENT_AUTHENTICITY.  The sizes are sums over the saves, the score is *)
(* what the signals leave.                                                 *)

AddBytes == [p \in Nat \X Save |-> p[1] + p[2].bytes]
BytesOf(saves) == FoldLeft(LAMBDA sum, s : sum + s.bytes, 0, saves)

LEMMA BytesFold ==
    ASSUME NEW saves \in Seq(Save)
    PROVE  FoldsTo(BytesOf(saves), saves, 0, AddBytes, Nat)
  <1> DEFINE seq == saves
             n == Len(seq)
             F(g) == [s \in SUBSET DOMAIN seq |-> IF s = {} THEN 0 ELSE
                          g[s \ {Max(s)}] + seq[Max(s)].bytes]
             i == CHOOSE it : it = F(it)
  <1>1. BytesOf(saves) = i[DOMAIN seq]
    BY DEF BytesOf, FoldLeft, MapThenFoldSet
  <1>2. /\ seq \in Seq(Save) /\ n \in Nat /\ DOMAIN seq = 1..n
        /\ \A x \in 1..n : seq[x] \in Save
    OBVIOUS
  <1>3. /\ AddBytes \in [Nat \X Save -> Nat] /\ 0 \in Nat
        /\ \A v \in Nat, e \in Save : AddBytes[<<v, e>>] = v + e.bytes
    BY DEF AddBytes, Save
  <1> HIDE DEF seq, n
  <1>4. Loop(seq, Save, 0, AddBytes, Nat)
    BY <1>2, <1>3 DEF Loop
  <1>5. PICK g \in [SUBSET (1..n) -> Nat] : FoldTable(g, n, 0, AddBytes, seq)
    BY <1>4, FoldTableExists DEF n
  <1>6. g = F(g)
    <2>1. ASSUME NEW s \in SUBSET (1..n), s # {}
          PROVE  g[s] = g[s \ {Max(s)}] + seq[Max(s)].bytes
      <3>1. Max(s) \in 1..n
        BY <1>2, <2>1, MaxOfSubset
      <3>2. seq[Max(s)] \in Save /\ g[s \ {Max(s)}] \in Nat
        BY <1>2, <3>1
      <3> QED
        BY <1>3, <1>5, <2>1, <3>2 DEF FoldTable
    <2> QED
      BY <1>2, <1>5, <2>1 DEF FoldTable
  <1>7. i = F(i)
    <2> HIDE DEF F
    <2> QED
      BY <1>6
  <1>8. Alike(i, g, n)
    <2> HIDE DEF i
    <2> QED
      BY <1>2, <1>6, <1>7 DEF Alike
  <1>9. i[1..n] = g[1..n]
    <2> HIDE DEF i
    <2> QED
      BY <1>2, <1>8, SameTable
  <1>10. FoldsTo(g[1..n], seq, 0, AddBytes, Nat)
    BY <1>4, <1>5, TableFolds DEF n
  <1> HIDE DEF i
  <1> QED
    BY <1>1, <1>2, <1>9, <1>10 DEF seq

LEMMA SizeStep ==
    ASSUME NEW saves \in Saves
    PROVE  /\ SizeAfter(saves, 0) = 0
           /\ \A k \in 1..Len(saves) :
                 /\ SizeAfter(saves, k - 1) \in Nat /\ SizeAfter(saves, k) \in Nat
                 /\ SizeAfter(saves, k) = SizeAfter(saves, k - 1) + saves[k].bytes
  <1>1. saves \in Seq(Save) /\ Len(saves) \in Nat
    BY DEF Saves
  <1>2. SizeAfter(saves, 0) = 0
    <2>1. SubSeq(saves, 1, 0) = <<>> /\ <<>> \in Seq(Save)
      BY <1>1
    <2>2. FoldsTo(BytesOf(<<>>), <<>>, 0, AddBytes, Nat)
      BY <2>1, BytesFold
    <2>3. BytesOf(<<>>) = 0
      BY <2>2, FoldsToNone
    <2> QED
      BY <2>1, <2>3 DEF SizeAfter, BytesOf
  <1>3. ASSUME NEW k \in 1..Len(saves)
        PROVE  /\ SizeAfter(saves, k - 1) \in Nat /\ SizeAfter(saves, k) \in Nat
               /\ SizeAfter(saves, k) = SizeAfter(saves, k - 1) + saves[k].bytes
    <2> DEFINE a == SubSeq(saves, 1, k - 1)
    <2>1. a \in Seq(Save) /\ saves[k] \in Save /\ Append(a, saves[k]) \in Seq(Save)
          /\ SubSeq(saves, 1, k) = Append(a, saves[k])
      BY <1>1
    <2> HIDE DEF a
    <2>2. /\ FoldsTo(BytesOf(a), a, 0, AddBytes, Nat)
          /\ FoldsTo(BytesOf(Append(a, saves[k])), Append(a, saves[k]), 0, AddBytes, Nat)
      BY <2>1, BytesFold
    <2>3. BytesOf(a) \in Nat
      BY <2>1, <2>2, FoldsToType
    <2>4. BytesOf(Append(a, saves[k])) = AddBytes[<<BytesOf(a), saves[k]>>]
      BY <2>1, <2>2, FoldsToAppend
    <2>5. AddBytes[<<BytesOf(a), saves[k]>>] = BytesOf(a) + saves[k].bytes
          /\ saves[k].bytes \in Nat
      BY <2>1, <2>3 DEF AddBytes, Save
    <2>6. SizeAfter(saves, k - 1) = BytesOf(a)
          /\ SizeAfter(saves, k) = BytesOf(Append(a, saves[k]))
      BY <2>1 DEF SizeAfter, BytesOf, a
    <2> QED
      BY <2>3, <2>4, <2>5, <2>6
  <1> QED
    BY <1>2, <1>3

(* What was saved after a save is more than five bytes.                    *)
LEMMA SizeGrows ==
    ASSUME NEW saves \in Saves
    PROVE  \A j, k \in 0..Len(saves) :
               /\ SizeAfter(saves, k) \in Nat
               /\ j < k => SizeAfter(saves, k) - SizeAfter(saves, j) > 5
  <1> DEFINE n == Len(saves)
             P == {k \in 0..n : /\ SizeAfter(saves, k) \in Nat
                                /\ \A j \in 0..(k - 1) :
                                      /\ SizeAfter(saves, j) \in Nat
                                      /\ SizeAfter(saves, k) - SizeAfter(saves, j) > 5}
  <1>1. n \in Nat /\ \A k \in 1..n : saves[k].bytes \in Nat /\ saves[k].bytes > 5
    <2>1. n \in Nat /\ \A k \in 1..n : saves[k] \in Save
      BY DEF Saves
    <2> HIDE DEF n
    <2> QED
      BY <2>1 DEF Save
  <1>2. 0 \in P
    BY <1>1, SizeStep
  <1>3. ASSUME NEW k \in 1..n, k - 1 \in P
        PROVE  k \in P
    <2>1. /\ SizeAfter(saves, k - 1) \in Nat /\ SizeAfter(saves, k) \in Nat
          /\ SizeAfter(saves, k) = SizeAfter(saves, k - 1) + saves[k].bytes
      BY SizeStep
    <2>2. ASSUME NEW j \in 0..(k - 1)
          PROVE  /\ SizeAfter(saves, j) \in Nat
                 /\ SizeAfter(saves, k) - SizeAfter(saves, j) > 5
      <3>1. CASE j = k - 1
        BY <1>1, <2>1, <3>1
      <3>2. CASE j # k - 1
        <4>1. j \in 0..((k - 1) - 1)
          BY <1>1, <3>2
        <4>2. SizeAfter(saves, j) \in Nat
              /\ SizeAfter(saves, k - 1) - SizeAfter(saves, j) > 5
          BY <1>3, <4>1
        <4> QED
          BY <1>1, <2>1, <4>2
      <3> QED
        BY <3>1, <3>2
    <2> HIDE DEF n
    <2> QED
      BY <1>1, <2>1, <2>2
  <1>4. 0..n \subseteq P
    <2> HIDE DEF P, n
    <2> QED
      BY <1>1, <1>2, <1>3, PrefixInduction
  <1>5. \A j, k \in 0..n : j < k => j \in 0..(k - 1)
    BY <1>1
  <1> QED
    BY <1>4, <1>5

LEMMA PostSignatureIs ==
    ASSUME NEW file, file.saves \in Saves, file.trailing \in Nat
    PROVE  PostSignature(file) <=>
               /\ \E i \in DOMAIN file.saves : file.saves[i].signs
               /\ file.trailing > 5 \/ ~file.saves[Len(file.saves)].signs
  <1> DEFINE saves == file.saves
             n == Len(saves)
             I == {i \in 1..n : saves[i].signs}
  <1>1. n \in Nat /\ DOMAIN saves = 1..n
    BY DEF Saves
  <1>2. lastByteRange(saves) = IF I # {} THEN Max(I) ELSE 0
    BY DEF lastByteRange, SelectLastInSeq
  <1>3. I = {} => ~PostSignature(file)
    BY <1>2 DEF PostSignature
  <1>5. PostSignature(file) <=>
            /\ lastByteRange(saves) # 0
            /\ (SizeAfter(saves, n) + file.trailing)
                   - SizeAfter(saves, lastByteRange(saves)) > 5
    BY DEF PostSignature, fileSize
  <1>4. ASSUME I # {}
        PROVE  PostSignature(file) <=> file.trailing > 5 \/ ~saves[n].signs
    <2> DEFINE m == Max(I)
    <2>1. m \in I /\ \A x \in I : x <= m
      <3>1. I \in SUBSET (1..n)
        OBVIOUS
      <3> HIDE DEF I, n
      <3> QED
        BY <1>1, <1>4, <3>1, MaxOfSubset
    <2>2. PostSignature(file) <=>
              (SizeAfter(saves, n) + file.trailing) - SizeAfter(saves, m) > 5
      <3>1. lastByteRange(saves) = m /\ m # 0
        BY <1>1, <1>2, <1>4, <2>1
      <3> HIDE DEF m
      <3> QED
        BY <1>5, <3>1
    <2>3. n \in 0..n /\ m \in 0..n /\ (saves[n].signs <=> m = n) /\ (m = n \/ m < n)
      <3>1. m \in 1..n /\ saves[m].signs
        BY <2>1
      <3>2. saves[n].signs /\ n \in 1..n => n \in I
        OBVIOUS
      <3> HIDE DEF m, n, I
      <3> QED
        BY <1>1, <2>1, <3>1, <3>2
    <2> HIDE DEF m, n, I
    <2>4. /\ SizeAfter(saves, n) \in Nat /\ SizeAfter(saves, m) \in Nat
          /\ m < n => SizeAfter(saves, n) - SizeAfter(saves, m) > 5
      BY <2>3, SizeGrows DEF n
    <2> QED
      BY <2>2, <2>3, <2>4
  <1> QED
    BY <1>1, <1>3, <1>4

(* What is left when a signal takes its share.                             *)
Severity == {"info", "low", "medium", "high"}
Code == {"PDF_HAS_FORM", "PDF_MULTIPLE_REVISIONS", "PDF_SIGNED", "PDF_POST_SIGNATURE_EDIT",
         "PDF_PRODUCER_CREATOR_MISMATCH", "PDF_MODIFIED_AFTER_CREATION",
         "IMAGE_EDITOR_SOFTWARE", "IMAGE_XMP_EDIT_HISTORY", "IMAGE_NO_METADATA"}
Sig == [code : Code, severity : Severity]
Left(left, severity) == (left * (100 - WEIGHT[severity])) \div 100
TakeShare == [p \in Nat \X Sig |-> Left(p[1], p[2].severity)]
CleanOf(signals) ==
    FoldLeft(LAMBDA left, s : (left * (100 - WEIGHT[s.severity])) \div 100, Whole, signals)

LEMMA WholeIsNat == Whole \in Nat
  BY SMT DEF Whole

LEMMA LeftIs ==
    ASSUME NEW left \in Nat
    PROVE  /\ \A severity \in Severity : Left(left, severity) \in Nat
           /\ Left(left, "info") = left
           /\ Left(left, "low") = (left * 85) \div 100
  <1>1. WEIGHT["info"] = 0 /\ WEIGHT["low"] = 15 /\ WEIGHT["medium"] = 40 /\ WEIGHT["high"] = 80
    BY DEF WEIGHT
  <1>2. Left(left, "info") = (left * 100) \div 100 /\ Left(left, "low") = (left * 85) \div 100
        /\ Left(left, "medium") = (left * 60) \div 100
        /\ Left(left, "high") = (left * 20) \div 100
    BY <1>1 DEF Left
  <1> QED
    BY <1>2 DEF Severity

LEMMA CleanFold ==
    ASSUME NEW signals \in Seq(Sig)
    PROVE  FoldsTo(CleanOf(signals), signals, Whole, TakeShare, Nat)
  <1> DEFINE seq == signals
             n == Len(seq)
             F(g) == [s \in SUBSET DOMAIN seq |-> IF s = {} THEN Whole ELSE
                          Left(g[s \ {Max(s)}], seq[Max(s)].severity)]
             i == CHOOSE it : it = F(it)
  <1>1. CleanOf(signals) = i[DOMAIN seq]
    BY DEF CleanOf, FoldLeft, MapThenFoldSet, Left
  <1>2. /\ seq \in Seq(Sig) /\ n \in Nat /\ DOMAIN seq = 1..n
        /\ \A x \in 1..n : seq[x] \in Sig
    OBVIOUS
  <1>3. /\ TakeShare \in [Nat \X Sig -> Nat] /\ Whole \in Nat
        /\ \A v \in Nat, e \in Sig : TakeShare[<<v, e>>] = Left(v, e.severity)
    BY LeftIs, WholeIsNat DEF TakeShare, Sig
  <1> HIDE DEF seq, n
  <1>4. Loop(seq, Sig, Whole, TakeShare, Nat)
    BY <1>2, <1>3 DEF Loop
  <1>5. PICK g \in [SUBSET (1..n) -> Nat] : FoldTable(g, n, Whole, TakeShare, seq)
    BY <1>4, FoldTableExists DEF n
  <1>6. g = F(g)
    <2>1. ASSUME NEW s \in SUBSET (1..n), s # {}
          PROVE  g[s] = Left(g[s \ {Max(s)}], seq[Max(s)].severity)
      <3>1. Max(s) \in 1..n
        BY <1>2, <2>1, MaxOfSubset
      <3>2. seq[Max(s)] \in Sig /\ g[s \ {Max(s)}] \in Nat
        BY <1>2, <3>1
      <3> QED
        BY <1>3, <1>5, <2>1, <3>2 DEF FoldTable
    <2> QED
      BY <1>2, <1>5, <2>1 DEF FoldTable
  <1>7. i = F(i)
    <2> HIDE DEF F
    <2> QED
      BY <1>6
  <1>8. Alike(i, g, n)
    <2> HIDE DEF i
    <2> QED
      BY <1>2, <1>6, <1>7 DEF Alike
  <1>9. i[1..n] = g[1..n]
    <2> HIDE DEF i
    <2> QED
      BY <1>2, <1>8, SameTable
  <1>10. FoldsTo(g[1..n], seq, Whole, TakeShare, Nat)
    BY <1>4, <1>5, TableFolds DEF n
  <1> HIDE DEF i
  <1> QED
    BY <1>1, <1>2, <1>9, <1>10 DEF seq

Severities(signals) == {signals[i].severity : i \in DOMAIN signals}

(* What signals come to: the severities that weigh, and the rest.          *)
Are(signals, severities, clean) ==
    /\ signals \in Seq(Sig)
    /\ Severities(signals) \ {"info"} = severities
    /\ CleanOf(signals) = clean

LEMMA NoSignals == Are(<<>>, {}, Whole)
  <1>1. <<>> \in Seq(Sig) /\ Severities(<<>>) = {}
    BY DEF Severities
  <1>2. FoldsTo(CleanOf(<<>>), <<>>, Whole, TakeShare, Nat)
    BY <1>1, CleanFold
  <1> QED
    BY <1>1, <1>2, FoldsToNone DEF Are

LEMMA CleanType ==
    ASSUME NEW signals \in Seq(Sig)
    PROVE  CleanOf(signals) \in Nat
  BY CleanFold, FoldsToType

LEMMA SignalJoins ==
    ASSUME NEW signals, NEW severities, NEW clean, Are(signals, severities, clean),
           NEW x \in Sig, NEW condition \in BOOLEAN
    PROVE  Are(signals \o When(condition, x),
               IF condition THEN severities \cup ({x.severity} \ {"info"}) ELSE severities,
               IF condition THEN Left(clean, x.severity) ELSE clean)
  <1>1. signals \in Seq(Sig) /\ clean \in Nat
    BY CleanType DEF Are
  <1>2. CASE ~condition
    <2>1. signals \o When(condition, x) = signals
      BY <1>1, <1>2 DEF When
    <2> QED
      BY <1>2, <2>1
  <1>3. CASE condition
    <2> DEFINE s == Append(signals, x)
    <2>1. signals \o When(condition, x) = s /\ s \in Seq(Sig)
      BY <1>1, <1>3 DEF When
    <2>2. Severities(s) = Severities(signals) \cup {x.severity}
      <3>1. /\ DOMAIN s = DOMAIN signals \cup {Len(signals) + 1}
            /\ s[Len(signals) + 1] = x
            /\ \A i \in DOMAIN signals : s[i] = signals[i]
        BY <1>1
      <3> HIDE DEF s
      <3> QED
        BY <3>1 DEF Severities
    <2>3. /\ FoldsTo(CleanOf(signals), signals, Whole, TakeShare, Nat)
          /\ FoldsTo(CleanOf(s), s, Whole, TakeShare, Nat)
      BY <1>1, <2>1, CleanFold
    <2>4. CleanOf(s) = TakeShare[<<clean, x>>]
      BY <1>1, <2>3, FoldsToAppend DEF Are
    <2>5. TakeShare[<<clean, x>>] = Left(clean, x.severity)
      BY <1>1 DEF TakeShare
    <2> HIDE DEF s
    <2> QED
      BY <1>3, <2>1, <2>2, <2>4, <2>5 DEF Are
  <1> QED
    BY <1>2, <1>3

LEMMA Codes ==
    /\ "PDF_HAS_FORM" \in Code /\ "PDF_MULTIPLE_REVISIONS" \in Code /\ "PDF_SIGNED" \in Code
    /\ "PDF_POST_SIGNATURE_EDIT" \in Code /\ "PDF_PRODUCER_CREATOR_MISMATCH" \in Code
    /\ "PDF_MODIFIED_AFTER_CREATION" \in Code /\ "IMAGE_EDITOR_SOFTWARE" \in Code
    /\ "IMAGE_XMP_EDIT_HISTORY" \in Code /\ "IMAGE_NO_METADATA" \in Code
  BY DEF Code

LEMMA InfoJoins ==
    ASSUME NEW signals, NEW severities, NEW clean, Are(signals, severities, clean),
           NEW code \in Code, NEW condition
    PROVE  Are(signals \o When(condition, Signal(code, "info")), severities, clean)
  <1> DEFINE x == Signal(code, "info")
  <1>1. x \in Sig /\ x.severity = "info"
    BY DEF Signal, Sig, Severity
  <1>2. clean \in Nat /\ signals \in Seq(Sig)
    BY CleanType DEF Are
  <1>3. Left(clean, "info") = clean
    BY <1>2, LeftIs
  <1>4. Are(signals \o When(TRUE, x), severities \cup ({x.severity} \ {"info"}), clean)
    <2>1. Are(signals \o When(TRUE, x),
              IF TRUE THEN severities \cup ({x.severity} \ {"info"}) ELSE severities,
              IF TRUE THEN Left(clean, x.severity) ELSE clean)
      <3> HIDE DEF x
      <3> QED
        BY <1>1, SignalJoins
    <2> HIDE DEF x
    <2> QED
      BY <1>1, <1>3, <2>1
  <1>5. severities \cup ({x.severity} \ {"info"}) = severities
    BY <1>1
  <1>6. CASE condition
    <2>1. When(condition, x) = When(TRUE, x)
      BY <1>6 DEF When
    <2> QED
      BY <1>4, <1>5, <2>1
  <1>7. CASE ~condition
    <2>1. signals \o When(condition, x) = signals
      BY <1>2, <1>7 DEF When
    <2> QED
      BY <2>1
  <1> QED
    BY <1>6, <1>7

LEMMA MarkJoins ==
    ASSUME NEW signals, NEW severities, NEW clean, Are(signals, severities, clean),
           NEW code \in Code, NEW severity \in Severity \ {"info"}, NEW condition
    PROVE  Are(signals \o When(condition, Signal(code, severity)),
               IF condition THEN severities \cup {severity} ELSE severities,
               IF condition THEN Left(clean, severity) ELSE clean)
  <1> DEFINE x == Signal(code, severity)
  <1>1. x \in Sig /\ x.severity = severity /\ {severity} \ {"info"} = {severity}
    BY DEF Signal, Sig
  <1>2. signals \in Seq(Sig)
    BY DEF Are
  <1>3. Are(signals \o When(TRUE, x), severities \cup {severity}, Left(clean, severity))
    <2>1. Are(signals \o When(TRUE, x),
              IF TRUE THEN severities \cup ({x.severity} \ {"info"}) ELSE severities,
              IF TRUE THEN Left(clean, x.severity) ELSE clean)
      <3> HIDE DEF x
      <3> QED
        BY <1>1, SignalJoins
    <2> HIDE DEF x
    <2> QED
      BY <1>1, <2>1
  <1>4. CASE condition
    <2>1. When(condition, x) = When(TRUE, x)
      BY <1>4 DEF When
    <2> QED
      BY <1>3, <1>4, <2>1
  <1>5. CASE ~condition
    <2>1. signals \o When(condition, x) = signals
      BY <1>2, <1>5 DEF When
    <2> QED
      BY <1>5, <2>1
  <1> QED
    BY <1>4, <1>5

LEMMA PdfSignals ==
    ASSUME NEW file
    PROVE  LET edited == PostSignature(file)
               rewritten == file.meta # <<>> /\ RewrittenByEditor(file.meta[1])
               kept == IF edited THEN Left(Whole, "high") ELSE Whole
               high == IF edited THEN {} \cup {"high"} ELSE {}
           IN  Are(pdfSignals(file),
                   IF rewritten THEN high \cup {"low"} ELSE high,
                   IF rewritten THEN Left(kept, "low") ELSE kept)
  <1> DEFINE form == file.form
             revised == Len(file.saves) > 1
             signed == lastByteRange(file.saves) # 0
             edited == PostSignature(file)
             rewritten == file.meta # <<>> /\ RewrittenByEditor(file.meta[1])
             modified == file.meta # <<>> /\ file.meta[1].modified
             w1 == When(form, Signal("PDF_HAS_FORM", "info"))
             w2 == w1 \o When(revised, Signal("PDF_MULTIPLE_REVISIONS", "info"))
             w3 == w2 \o When(signed, Signal("PDF_SIGNED", "info"))
             w4 == w3 \o When(edited, Signal("PDF_POST_SIGNATURE_EDIT", "high"))
             w5 == w4 \o When(rewritten, Signal("PDF_PRODUCER_CREATOR_MISMATCH", "low"))
             w6 == w5 \o When(modified, Signal("PDF_MODIFIED_AFTER_CREATION", "info"))
             kept == IF edited THEN Left(Whole, "high") ELSE Whole
             high == IF edited THEN {} \cup {"high"} ELSE {}
  <1>1. pdfSignals(file) = w6
    BY DEF pdfSignals
  <1> HIDE DEF form, revised, signed, edited, rewritten, modified
  <1>2. "high" \in Severity \ {"info"} /\ "low" \in Severity \ {"info"}
    BY DEF Severity
  <1>3. Are(w1, {}, Whole)
    <2>1. Are(<<>> \o w1, {}, Whole)
      BY Codes, NoSignals, InfoJoins
    <2>2. <<>> \o w1 = w1
      BY DEF When
    <2> QED
      BY <2>1, <2>2
  <1> HIDE DEF w1
  <1>4. Are(w2, {}, Whole)
    BY <1>3, Codes, InfoJoins
  <1> HIDE DEF w2
  <1>5. Are(w3, {}, Whole)
    BY <1>4, Codes, InfoJoins
  <1> HIDE DEF w3
  <1>6. Are(w4, high, kept)
    BY <1>2, <1>5, Codes, MarkJoins
  <1> HIDE DEF w4, high, kept
  <1>7. Are(w5, IF rewritten THEN high \cup {"low"} ELSE high,
                IF rewritten THEN Left(kept, "low") ELSE kept)
    BY <1>2, <1>6, Codes, MarkJoins
  <1> HIDE DEF w5
  <1>8. Are(w6, IF rewritten THEN high \cup {"low"} ELSE high,
                IF rewritten THEN Left(kept, "low") ELSE kept)
    BY <1>7, Codes, InfoJoins
  <1> HIDE DEF w6
  <1> QED
    BY <1>1, <1>8 DEF high, kept, edited, rewritten

LEMMA ImageSignals ==
    ASSUME NEW image
    PROVE  LET named == "editor" \in image.head
               history == "history" \in image.head
               bare == image.container = "jpeg" /\ image.head \cap {"exif", "editor"} = {}
               medium == IF named THEN {} \cup {"medium"} ELSE {}
               kept == IF named THEN Left(Whole, "medium") ELSE Whole
               low == IF history THEN medium \cup {"low"} ELSE medium
               less == IF history THEN Left(kept, "low") ELSE kept
           IN  Are(imageSignals(image),
                   IF bare THEN low \cup {"low"} ELSE low,
                   IF bare THEN Left(less, "low") ELSE less)
  <1> DEFINE named == "editor" \in image.head
             history == "history" \in image.head
             bare == image.container = "jpeg" /\ image.head \cap {"exif", "editor"} = {}
             medium == IF named THEN {} \cup {"medium"} ELSE {}
             kept == IF named THEN Left(Whole, "medium") ELSE Whole
             low == IF history THEN medium \cup {"low"} ELSE medium
             less == IF history THEN Left(kept, "low") ELSE kept
             w1 == When(named, Signal("IMAGE_EDITOR_SOFTWARE", "medium"))
             w2 == w1 \o When(history, Signal("IMAGE_XMP_EDIT_HISTORY", "low"))
             w3 == w2 \o When(bare, Signal("IMAGE_NO_METADATA", "low"))
  <1>1. imageSignals(image) = w3
    BY DEF imageSignals
  <1> HIDE DEF named, history, bare
  <1>2. "medium" \in Severity \ {"info"} /\ "low" \in Severity \ {"info"}
    BY DEF Severity
  <1>3. Are(w1, medium, kept)
    <2>1. Are(<<>> \o w1, medium, kept)
      BY <1>2, Codes, NoSignals, MarkJoins
    <2>2. <<>> \o w1 = w1
      BY DEF When
    <2> QED
      BY <2>1, <2>2
  <1> HIDE DEF w1, medium, kept
  <1>4. Are(w2, low, less)
    BY <1>2, <1>3, Codes, MarkJoins
  <1> HIDE DEF w2, low, less
  <1>5. Are(w3, IF bare THEN low \cup {"low"} ELSE low,
                IF bare THEN Left(less, "low") ELSE less)
    BY <1>2, <1>4, Codes, MarkJoins
  <1> HIDE DEF w3
  <1> QED
    BY <1>1, <1>5 DEF named, history, bare, medium, kept, low, less

(* The score of what is left, as scoreSignals rounds it.                   *)
ScoreOf(clean) == (Whole + 500 - clean) \div 1000

LEMMA LesserScore ==
    /\ ScoreOf(Whole) < 350
    /\ ScoreOf(Left(Whole, "low")) < 350
    /\ ScoreOf(Left(Left(Whole, "low"), "low")) < 350
  <1> DEFINE one == Left(Whole, "low")
             two == Left(one, "low")
  <1>1. one = (Whole * 85) \div 100 /\ one \in Nat
    BY WholeIsNat, LeftIs DEF Severity
  <1>2. two = (one * 85) \div 100 /\ two \in Nat
    <2> HIDE DEF one
    <2> QED
      BY <1>1, LeftIs DEF Severity
  <1> HIDE DEF one, two
  <1>3. one >= 850000 /\ two >= 722500
    BY <1>1, <1>2, SMT DEF Whole
  <1>4. ScoreOf(Whole) < 350 /\ ScoreOf(one) < 350 /\ ScoreOf(two) < 350
    BY <1>1, <1>2, <1>3, SMT DEF Whole, ScoreOf
  <1> QED
    BY <1>4 DEF one, two

(* The verdict on a document of which this is left.                        *)
Judged(severities, clean) ==
    IF "high" \in severities THEN "likely-doctored"
    ELSE IF "medium" \in severities \/ ScoreOf(clean) >= 350 THEN "suspicious"
    ELSE "clean"

LEMMA VerdictIs ==
    ASSUME NEW signals, NEW severities, NEW clean, Are(signals, severities, clean)
    PROVE  /\ aggregate(signals).score = ScoreOf(clean)
           /\ aggregate(signals).verdict = Judged(severities, clean)
  <1>0. CleanOf(signals) = clean
    BY DEF Are
  <1>1. scoreSignals(signals) = ScoreOf(clean)
    <2>1. scoreSignals(signals) = ScoreOf(CleanOf(signals))
      BY DEF scoreSignals, CleanOf, ScoreOf
    <2> QED
      BY <1>0, <2>1
  <1>2. \A severity \in {"high", "medium"} :
            severity \in Severities(signals) <=> severity \in severities
    BY DEF Are
  <1>3. verdictFor(signals, scoreSignals(signals)) =
            IF "high" \in Severities(signals) THEN "likely-doctored"
            ELSE IF "medium" \in Severities(signals) \/ scoreSignals(signals) >= 350
                 THEN "suspicious"
            ELSE "clean"
    BY DEF verdictFor, Severities
  <1>4. aggregate(signals).score = scoreSignals(signals)
        /\ aggregate(signals).verdict = verdictFor(signals, scoreSignals(signals))
    BY DEF aggregate
  <1> QED
    BY <1>1, <1>2, <1>3, <1>4 DEF Judged

LEMMA PdfVerdict ==
    ASSUME NEW file, file.mimeGroup = "pdf"
    PROVE  /\ analyzeTamper(file).verdict =
                  IF PostSignature(file) THEN "likely-doctored" ELSE "clean"
           /\ analyzeTamper(file).verdict = "clean" => analyzeTamper(file).score < 350
  <1> DEFINE edited == PostSignature(file)
             rewritten == file.meta # <<>> /\ RewrittenByEditor(file.meta[1])
             kept == IF edited THEN Left(Whole, "high") ELSE Whole
             high == IF edited THEN {} \cup {"high"} ELSE {}
             severities == IF rewritten THEN high \cup {"low"} ELSE high
             clean == IF rewritten THEN Left(kept, "low") ELSE kept
             made == aggregate(pdfSignals(file))
  <1>1. analyzeTamper(file) = made
    BY DEF analyzeTamper
  <1>2. Are(pdfSignals(file), severities, clean)
    BY PdfSignals
  <1>3. "high" \in severities <=> edited
    OBVIOUS
  <1>4. "medium" \notin severities
    OBVIOUS
  <1>5. ~edited => ScoreOf(clean) < 350 /\ ScoreOf(clean) \in Int
    <2>1. ~edited => clean = Whole \/ clean = Left(Whole, "low")
      OBVIOUS
    <2>2. clean \in Nat
      BY <1>2, CleanType DEF Are
    <2>3. ScoreOf(clean) \in Int
      <3> HIDE DEF clean
      <3> QED
        BY <2>2, WholeIsNat DEF ScoreOf
    <2> HIDE DEF clean
    <2> QED
      BY <2>1, <2>3, LesserScore
  <1> HIDE DEF severities, clean, edited
  <1>6. made.score = ScoreOf(clean) /\ made.verdict = Judged(severities, clean)
    BY <1>2, VerdictIs
  <1> HIDE DEF made
  <1> QED
    BY <1>1, <1>3, <1>4, <1>5, <1>6 DEF Judged, edited

LEMMA ImageVerdict ==
    ASSUME NEW file, file.mimeGroup = "image"
    PROVE  /\ analyzeTamper(file).verdict =
                  IF "editor" \in file.head THEN "suspicious" ELSE "clean"
           /\ analyzeTamper(file).verdict = "clean" => analyzeTamper(file).score < 350
  <1> DEFINE named == "editor" \in file.head
             history == "history" \in file.head
             bare == file.container = "jpeg" /\ file.head \cap {"exif", "editor"} = {}
             medium == IF named THEN {} \cup {"medium"} ELSE {}
             kept == IF named THEN Left(Whole, "medium") ELSE Whole
             low == IF history THEN medium \cup {"low"} ELSE medium
             less == IF history THEN Left(kept, "low") ELSE kept
             severities == IF bare THEN low \cup {"low"} ELSE low
             clean == IF bare THEN Left(less, "low") ELSE less
             made == aggregate(imageSignals(file))
  <1>1. analyzeTamper(file) = made
    BY DEF analyzeTamper
  <1>2. Are(imageSignals(file), severities, clean)
    BY ImageSignals
  <1>3. "high" \notin severities
    OBVIOUS
  <1>4. "medium" \in severities <=> named
    OBVIOUS
  <1>5. ~named => ScoreOf(clean) < 350 /\ ScoreOf(clean) \in Int
    <2>1. ~named => \/ clean = Whole
                    \/ clean = Left(Whole, "low")
                    \/ clean = Left(Left(Whole, "low"), "low")
      OBVIOUS
    <2>2. clean \in Nat
      BY <1>2, CleanType DEF Are
    <2>3. ScoreOf(clean) \in Int
      <3> HIDE DEF clean
      <3> QED
        BY <2>2, WholeIsNat DEF ScoreOf
    <2> HIDE DEF clean
    <2> QED
      BY <2>1, <2>3, LesserScore
  <1> HIDE DEF severities, clean, named
  <1>6. made.score = ScoreOf(clean) /\ made.verdict = Judged(severities, clean)
    BY <1>2, VerdictIs
  <1> HIDE DEF made
  <1> QED
    BY <1>1, <1>3, <1>4, <1>5, <1>6 DEF Judged, named

(* A PDF is likely doctored if it was written to after its last signature  *)
(* and clean if it was not, and bears no other; an image is clean exactly  *)
(* if it names no editor where it is scanned: no number of lesser signals  *)
(* changes any of it (authenticity/signals.ts:25-29).                      *)
THEOREM VerdictsAreTheSignatures == Spec => []VerdictIsTheSignatures
  <1>1. FnInv => VerdictIsTheSignatures
    <2> SUFFICES ASSUME FnInv, status = "done", task.fn = "DOCUMENT_AUTHENTICITY"
                 PROVE  VerdictIsTheSignatures
      BY DEF VerdictIsTheSignatures
    <2> DEFINE file == task.file
               last == Len(file.saves)
               signed == {i \in DOMAIN file.saves : file.saves[i].signs}
    <2>1. IsFile(file) /\ result = analyzeTamper(file)
      BY TaskKind DEF FnInv, Outcome
    <2>2. CASE file.mimeGroup = "pdf"
      <3>1. file.saves \in Saves /\ file.trailing \in Nat
        BY <2>1, <2>2 DEF IsFile
      <3>2. PostSignature(file) <=> signed # {} /\ (file.trailing > 5 \/ last \notin signed)
        <4>1. PostSignature(file) <=>
                  /\ \E i \in DOMAIN file.saves : file.saves[i].signs
                  /\ file.trailing > 5 \/ ~file.saves[last].signs
          <5> HIDE DEF file
          <5> QED
            BY <3>1, PostSignatureIs
        <4>2. last \in Nat /\ DOMAIN file.saves = 1..last
          BY <3>1 DEF Saves
        <4>3. signed # {} => last \in DOMAIN file.saves
          <5> HIDE DEF last, file
          <5> QED
            BY <4>2
        <4> HIDE DEF last, file
        <4> QED
          BY <4>1, <4>3
      <3>3. file.trailing > 5 <=> ~(file.trailing <= 5)
        BY <3>1
      <3>4. /\ result.verdict = IF PostSignature(file) THEN "likely-doctored" ELSE "clean"
            /\ result.verdict = "clean" => result.score < 350
        <4> HIDE DEF file
        <4> QED
          BY <2>1, <2>2, PdfVerdict
      <3>5. /\ signed # {} /\ (file.trailing > 5 \/ last \notin signed) =>
                   result.verdict = "likely-doctored"
            /\ signed = {} \/ (signed = {last} /\ file.trailing <= 5) =>
                   result.verdict = "clean"
        <4> HIDE DEF signed, last, file
        <4> QED
          BY <3>2, <3>3, <3>4
      <3> QED
        BY <2>2, <3>4, <3>5 DEF VerdictIsTheSignatures
    <2>3. CASE file.mimeGroup = "image"
      <3>1. /\ result.verdict = IF "editor" \in file.head THEN "suspicious" ELSE "clean"
            /\ result.verdict = "clean" => result.score < 350
        <4> HIDE DEF file
        <4> QED
          BY <2>1, <2>3, ImageVerdict
      <3> QED
        BY <2>3, <3>1 DEF VerdictIsTheSignatures
    <2>4. CASE file.mimeGroup \notin {"pdf", "image"}
      <3>1. result = Inconclusive
        BY <2>1, <2>4 DEF analyzeTamper
      <3> QED
        BY <2>4, <3>1 DEF VerdictIsTheSignatures, Inconclusive
    <2> QED
      BY <2>2, <2>3, <2>4
  <1> QED
    BY AlwaysFnInv, <1>1, PTL

-----------------------------------------------------------------------------
(* ID_VERIFICATION.  The lines that look like a zone's, and line j of one. *)
Looking == {line \in Lines : line.looks}
ZoneLine(j) == [looks |-> TRUE, n |-> j]

LEMMA ZoneLineIs ==
    ASSUME NEW line \in Lines, NEW j \in Nat \ {0}, line.n = j
    PROVE  line = ZoneLine(j) /\ line \in Looking
  BY DEF Lines, Looking, ZoneLine

(* A zone that ends the text is the last of the lines that look like one.  *)
LEMMA ZoneFound ==
    ASSUME NEW text \in Seq(Lines), NEW zone, zone.length \in {2, 3}, EndsInZone(text, zone)
    PROVE  parseMrz(text, zone)
  <1> DEFINE n == Len(text)
             length == zone.length
             found == Only(text, Looking)
  <1>1. PICK k : Keeps(k, text, Looking, Lines) /\ found = k[n]
    BY OnlyKeeps
  <1>2. /\ n \in Nat /\ n >= length
        /\ \A j \in 1..length : text[n - length + j].n = j
    BY DEF EndsInZone
  <1>3. ASSUME NEW j \in 1..length
        PROVE  /\ n - length + j \in 1..n
               /\ text[n - length + j] = ZoneLine(j)
               /\ ZoneLine(j) \in Looking /\ ZoneLine(j) \in Lines
    <2>1. n - length + j \in 1..n /\ j \in Nat \ {0}
      BY <1>2
    <2>2. text[n - length + j] \in Lines
      BY <2>1
    <2> QED
      BY <1>2, <2>1, <2>2, ZoneLineIs
  <1>4. ASSUME NEW j \in 1..length
        PROVE  /\ k[n - length + j - 1] \in Seq(Lines)
               /\ k[n - length + j] = Append(k[n - length + j - 1], ZoneLine(j))
    <2>1. /\ k[n - length + j - 1] \in Seq(Lines)
          /\ k[n - length + j] = Keeping(k[n - length + j - 1], text[n - length + j], Looking)
      <3> DEFINE m == n - length + j
      <3>1. \A i \in 1..n : k[i-1] \in Seq(Lines) /\ k[i] = Keeping(k[i-1], text[i], Looking)
        BY <1>1 DEF Keeps
      <3>2. m \in 1..n
        BY <1>3
      <3>3. k[m-1] \in Seq(Lines) /\ k[m] = Keeping(k[m-1], text[m], Looking)
        <4> HIDE DEF m, n
        <4> QED
          BY <3>1, <3>2
      <3> QED
        BY <3>3
    <2> QED
      BY <1>3, <2>1 DEF Keeping
  <1>5. Len(found) >= length /\ LastOf(found, length) = [j \in 1..length |-> ZoneLine(j)]
    <2>1. CASE length = 2
      <3>1. /\ k[n-2] \in Seq(Lines) /\ k[n-1] = Append(k[n-2], ZoneLine(1))
            /\ k[n] = Append(k[n-1], ZoneLine(2))
            /\ ZoneLine(1) \in Lines /\ ZoneLine(2) \in Lines
        <4>1. 1 \in 1..2 /\ 2 \in 1..2 /\ n - 2 + 1 = n - 1 /\ n - 2 + 2 = n
              /\ n - 2 + 1 - 1 = n - 2 /\ n - 2 + 2 - 1 = n - 1
          BY <1>2
        <4> HIDE DEF n, length
        <4> QED
          BY <1>3, <1>4, <2>1, <4>1
      <3>2. Len(found) >= 2 /\ LastOf(found, 2) = <<ZoneLine(1), ZoneLine(2)>>
        <4>1. found = Append(Append(k[n-2], ZoneLine(1)), ZoneLine(2))
          BY <1>1, <3>1
        <4>2. /\ Len(Append(Append(k[n-2], ZoneLine(1)), ZoneLine(2))) >= 2
              /\ LastOf(Append(Append(k[n-2], ZoneLine(1)), ZoneLine(2)), 2)
                     = <<ZoneLine(1), ZoneLine(2)>>
          <5> HIDE DEF n
          <5> QED
            BY <3>1, LastTwo
        <4> HIDE DEF found
        <4> QED
          BY <4>1, <4>2
      <3>3. <<ZoneLine(1), ZoneLine(2)>> = [j \in 1..2 |-> ZoneLine(j)]
        OBVIOUS
      <3> HIDE DEF found, length
      <3> QED
        BY <2>1, <3>2, <3>3
    <2>2. CASE length = 3
      <3>1. /\ k[n-3] \in Seq(Lines) /\ k[n-2] = Append(k[n-3], ZoneLine(1))
            /\ k[n-1] = Append(k[n-2], ZoneLine(2)) /\ k[n] = Append(k[n-1], ZoneLine(3))
            /\ ZoneLine(1) \in Lines /\ ZoneLine(2) \in Lines /\ ZoneLine(3) \in Lines
        <4>1. 1 \in 1..3 /\ 2 \in 1..3 /\ 3 \in 1..3
              /\ n - 3 + 1 = n - 2 /\ n - 3 + 2 = n - 1 /\ n - 3 + 3 = n
              /\ n - 3 + 1 - 1 = n - 3 /\ n - 3 + 2 - 1 = n - 2 /\ n - 3 + 3 - 1 = n - 1
          BY <1>2
        <4> HIDE DEF n, length
        <4> QED
          BY <1>3, <1>4, <2>2, <4>1
      <3>2. Len(found) >= 3
            /\ LastOf(found, 3) = <<ZoneLine(1), ZoneLine(2), ZoneLine(3)>>
        <4>1. found = Append(Append(Append(k[n-3], ZoneLine(1)), ZoneLine(2)), ZoneLine(3))
          BY <1>1, <3>1
        <4>2. /\ Len(Append(Append(Append(k[n-3], ZoneLine(1)), ZoneLine(2)), ZoneLine(3))) >= 3
              /\ LastOf(Append(Append(Append(k[n-3], ZoneLine(1)), ZoneLine(2)), ZoneLine(3)), 3)
                     = <<ZoneLine(1), ZoneLine(2), ZoneLine(3)>>
          <5> HIDE DEF n
          <5> QED
            BY <3>1, LastThree
        <4> HIDE DEF found
        <4> QED
          BY <4>1, <4>2
      <3>3. <<ZoneLine(1), ZoneLine(2), ZoneLine(3)>> = [j \in 1..3 |-> ZoneLine(j)]
        OBVIOUS
      <3> HIDE DEF found, length
      <3> QED
        BY <2>2, <3>2, <3>3
    <2> QED
      BY <2>1, <2>2
  <1>6. \E count \in {2, 3} : /\ count <= Len(found)
                              /\ tryParse(LastOf(found, count), zone)
    <2>1. length <= Len(found)
      <3>1. Len(found) \in Int
        <4>1. k[n] \in Seq(Lines)
          <5>1. length \in 1..length /\ n - length + length = n
            BY <1>2
          <5>2. k[n - length + length - 1] \in Seq(Lines) /\ ZoneLine(length) \in Lines
                /\ k[n] = Append(k[n - length + length - 1], ZoneLine(length))
            <6> HIDE DEF n, length
            <6> QED
              BY <1>3, <1>4, <5>1
          <5> QED
            BY <5>2
        <4> QED
          BY <1>1, <4>1
      <3> HIDE DEF found
      <3> QED
        BY <1>5, <3>1
    <2>2. tryParse(LastOf(found, length), zone)
      BY <1>5 DEF tryParse, ZoneLine
    <2> HIDE DEF found, length
    <2> QED
      BY <2>1, <2>2 DEF length
  <1> QED
    BY <1>6 DEF parseMrz, Looking, LastOf

(* Dates.  One in ISO form or of a zone from 1951 to 2050 is read as the   *)
(* day it states.                                                          *)
LEMMA YearOf ==
    ASSUME NEW y \in 1951..2050
    PROVE  yearOf(y % 100) = y
  BY DEF yearOf

LEMMA PlainIsRead ==
    ASSUME NEW date, Plain(date)
    PROVE  date # Null /\ parseDateLoose(date) = <<StatedDay(date)>>
  <1>1. date # Null
    <2>1. Null.form = "null"
      BY DEF Null
    <2> QED
      BY <2>1 DEF Plain
  <1>2. CASE date.form = "iso"
    <2>1. sixDigits(date) = <<>>
      BY <1>2 DEF sixDigits
    <2> QED
      BY <1>1, <1>2, <2>1 DEF parseDateLoose, StatedDay
  <1>3. CASE date.form = "mrz" /\ date.y \in 1951..2050
    <2> DEFINE six == <<date.y % 100, date.m, date.d>>
    <2>1. sixDigits(date) = six
      BY <1>3 DEF sixDigits
    <2>2. six # <<>> /\ six[1] = date.y % 100 /\ six[2] = date.m /\ six[3] = date.d
      OBVIOUS
    <2>3. yearOf(date.y % 100) = date.y
      BY <1>3, YearOf
    <2> HIDE DEF six
    <2>4. parseDateLoose(date) = <<UTC(yearOf(six[1]), six[2], six[3])>>
      BY <2>1, <2>2 DEF parseDateLoose
    <2> QED
      BY <1>1, <2>2, <2>3, <2>4 DEF StatedDay
  <1> QED
    BY <1>1, <1>2, <1>3 DEF Plain

LEMMA ExpiryIsTrue ==
    ASSUME NEW date, Plain(date)
    PROVE  isExpired(date) = <<StatedDay(date) <= Today>>
  BY PlainIsRead DEF isExpired

LEMMA DatesCompare ==
    ASSUME NEW actual, NEW expected, Plain(actual), Plain(expected)
    PROVE  Checked(expected, datesMatch(actual, expected))
               = <<StatedDay(actual) = StatedDay(expected)>>
  <1>1. datesMatch(actual, expected) = (StatedDay(actual) = StatedDay(expected))
    <2> DEFINE a == StatedDay(actual)
               b == StatedDay(expected)
    <2>1. /\ actual # Null /\ parseDateLoose(actual) = <<a>>
          /\ parseDateLoose(expected) = <<b>>
      BY PlainIsRead
    <2>2. <<a>> # <<>> /\ (<<a>> = <<b>> <=> a = b)
      OBVIOUS
    <2> HIDE DEF a, b
    <2>3. datesMatch(actual, expected) <=> a = b
      BY <2>1, <2>2 DEF datesMatch
    <2>4. datesMatch(actual, expected) \in BOOLEAN /\ (a = b) \in BOOLEAN
      BY DEF datesMatch
    <2> QED
      BY <2>3, <2>4 DEF a, b
  <1>2. Checked(expected, datesMatch(actual, expected)) = <<datesMatch(actual, expected)>>
    BY PlainIsRead DEF Checked
  <1> QED
    BY <1>1, <1>2

(* What was not read matches nothing.                                      *)
Values(s) == {s[i] : i \in DOMAIN s}

LEMMA CheckedIs ==
    ASSUME NEW expected, NEW found
    PROVE  Values(Checked(expected, found)) \subseteq {found}
  <1>1. Checked(expected, found) \in {<<>>, <<found>>}
    BY DEF Checked
  <1>2. DOMAIN <<>> = {} /\ DOMAIN <<found>> = {1} /\ <<found>>[1] = found
    OBVIOUS
  <1> QED
    BY <1>1, <1>2 DEF Values

LEMMA NullMatchesNothing ==
    ASSUME NEW expected
    PROVE  /\ TRUE \notin Values(Checked(expected, wordsMatch(Null, expected)))
           /\ TRUE \notin Values(Checked(expected, datesMatch(Null, expected)))
  <1>1. wordsMatch(Null, expected) # TRUE /\ datesMatch(Null, expected) # TRUE
    BY DEF wordsMatch, datesMatch
  <1>2. Values(Checked(expected, wordsMatch(Null, expected))) \subseteq {wordsMatch(Null, expected)}
    BY CheckedIs
  <1>3. Values(Checked(expected, datesMatch(Null, expected))) \subseteq {datesMatch(Null, expected)}
    BY CheckedIs
  <1> QED
    BY <1>1, <1>2, <1>3

(* The checks of an identity document are true of what it states: a zone   *)
(* that ends the text is found whatever stands above it and settles the    *)
(* fields it reads; the dates compare as the days they are; and what was   *)
(* not read matches nothing (id-verification execute.ts:45-57).            *)
THEOREM ChecksAreTrue == Spec => []IdChecksAreTrue
  <1>1. FnInv => IdChecksAreTrue
    <2> SUFFICES ASSUME FnInv, Verified
                 PROVE  IdChecksAreTrue
      BY DEF IdChecksAreTrue
    <2> DEFINE fields == result.fields
               expected == task.expected
               zone == read.zone
               matches == [fullName |-> result.nameMatch, dateOfBirth |-> result.dobMatch,
                           documentNumber |-> result.numberMatch]
    <2>1. IsRead(read) /\ result = executeIdVerification(read, expected)
      BY DEF FnInv, Outcome, Verified
    <2>2. /\ fields = IF parseMrz(read.text, zone) /\ zone.valid
                      THEN mergeMrzFields(read.llm, zone.fields) ELSE read.llm
          /\ result.expired = isExpired(fields.expiryDate)
          /\ result.nameMatch = Checked(expected.fullName,
                 wordsMatch(fields.fullName, expected.fullName))
          /\ result.dobMatch = Checked(expected.dateOfBirth,
                 datesMatch(fields.dateOfBirth, expected.dateOfBirth))
          /\ result.numberMatch = Checked(expected.documentNumber,
                 wordsMatch(fields.documentNumber, expected.documentNumber))
          /\ result.mrzValid = IF parseMrz(read.text, zone) THEN <<zone.valid>> ELSE <<>>
      <3> HIDE DEF expected, zone
      <3> QED
        BY <2>1 DEF executeIdVerification, zone
    <2>3. EndsInZone(read.text, zone) => parseMrz(read.text, zone)
      BY <2>1, ZoneFound DEF IsRead
    <2>4. DOMAIN read.llm = FieldNames
      BY <2>1 DEF IsRead
    <2> HIDE DEF expected, zone, fields
    <2>5. EndsInZone(read.text, zone) =>
              /\ result.mrzValid = <<zone.valid>>
              /\ \A f \in DOMAIN fields :
                    zone.valid /\ zone.fields[f] # Null => fields[f] = zone.fields[f]
      BY <2>2, <2>3, <2>4 DEF mergeMrzFields
    <2>6. Plain(fields.expiryDate) =>
              result.expired = <<StatedDay(fields.expiryDate) <= Today>>
      BY <2>2, ExpiryIsTrue
    <2>7. Plain(fields.dateOfBirth) /\ Plain(expected.dateOfBirth) =>
              result.dobMatch = <<StatedDay(fields.dateOfBirth) = StatedDay(expected.dateOfBirth)>>
      BY <2>2, DatesCompare
    <2>8. ASSUME NEW f \in DOMAIN matches, fields[f] = Null
          PROVE  TRUE \notin {matches[f][i] : i \in DOMAIN matches[f]}
      <3>1. \/ f = "fullName" /\ matches[f] = Checked(expected.fullName,
                                                 wordsMatch(Null, expected.fullName))
            \/ f = "dateOfBirth" /\ matches[f] = Checked(expected.dateOfBirth,
                                                 datesMatch(Null, expected.dateOfBirth))
            \/ f = "documentNumber" /\ matches[f] = Checked(expected.documentNumber,
                                                 wordsMatch(Null, expected.documentNumber))
        BY <2>2, <2>8
      <3> HIDE DEF matches
      <3>2. TRUE \notin Values(matches[f])
        BY <3>1, NullMatchesNothing
      <3> QED
        BY <3>2 DEF Values
    <2> QED
      BY <2>5, <2>6, <2>7, <2>8 DEF IdChecksAreTrue, fields, expected, zone
  <1> QED
    BY AlwaysFnInv, <1>1, PTL

-----------------------------------------------------------------------------
(* The merge.  Of a block, what tells where it was read.                   *)
Item == [page : Nat, content : Text]
OnPage(n) == {x \in Item : x.page = n}
PageItems(details, n) ==
    [d \in DOMAIN details |-> [page |-> n, content |-> details[d].content]]

(* Items of the pages after lo to hi, page after page.                     *)
Paged(s, lo, hi) ==
    /\ s \in Seq(Item)
    /\ \A i \in 1..Len(s) : s[i].page \in (lo + 1)..hi
    /\ \A i \in 2..Len(s) : s[i-1].page <= s[i].page

LEMMA PagedConcat ==
    ASSUME NEW lo \in Nat, NEW mid \in Nat, NEW hi \in Nat, lo <= mid, mid <= hi,
           NEW s, Paged(s, lo, mid), NEW t, Paged(t, mid, hi)
    PROVE  /\ Paged(s \o t, lo, hi)
           /\ \A n \in Nat : n <= mid => Only(s \o t, OnPage(n)) = Only(s, OnPage(n))
           /\ \A n \in Nat : n > mid => Only(s \o t, OnPage(n)) = Only(t, OnPage(n))
  <1> DEFINE all == s \o t
             n == Len(s)
             m == Len(t)
  <1>1. /\ s \in Seq(Item) /\ t \in Seq(Item) /\ n \in Nat /\ m \in Nat
        /\ \A i \in 1..n : s[i] \in Item /\ s[i].page \in (lo + 1)..mid
        /\ \A i \in 1..m : t[i] \in Item /\ t[i].page \in (mid + 1)..hi
        /\ \A i \in 2..n : s[i-1].page <= s[i].page
        /\ \A i \in 2..m : t[i-1].page <= t[i].page
    BY DEF Paged
  <1>2. /\ all \in Seq(Item) /\ Len(all) = n + m
        /\ \A i \in 1..n : all[i] = s[i]
        /\ \A i \in (n + 1)..(n + m) : all[i] = t[i - n]
    BY <1>1
  <1> HIDE DEF all, n, m
  <1>3. \A i \in 1..(n + m) :
            i \in 1..n \/ (i - n \in 1..m /\ i \in (n + 1)..(n + m))
    BY <1>1
  <1>4. \A i \in 1..Len(all) : all[i].page \in (lo + 1)..hi
    <2>1. ASSUME NEW i \in 1..(n + m)
          PROVE  all[i].page \in (lo + 1)..hi
      <3>1. CASE i \in 1..n
        <4>1. all[i] = s[i] /\ s[i].page \in (lo + 1)..mid
          BY <1>1, <1>2, <3>1
        <4> QED
          BY <4>1
      <3>2. CASE i - n \in 1..m /\ i \in (n + 1)..(n + m)
        <4> DEFINE j == i - n
        <4>1. all[i] = t[j] /\ j \in 1..m
          BY <1>2, <3>2
        <4> HIDE DEF j
        <4>2. t[j].page \in (mid + 1)..hi
          BY <1>1, <4>1
        <4> QED
          BY <4>1, <4>2
      <3> QED
        BY <1>3, <3>1, <3>2
    <2> QED
      BY <1>2, <2>1
  <1>5. \A i \in 2..Len(all) : all[i-1].page <= all[i].page
    <2>1. ASSUME NEW i \in 2..(n + m)
          PROVE  all[i-1].page <= all[i].page
      <3>1. CASE i \in 2..n
        <4>1. i \in 1..n /\ i - 1 \in 1..n
          BY <1>1, <3>1
        <4> QED
          BY <1>1, <1>2, <3>1, <4>1
      <3>2. CASE i = n + 1
        <4>1. i - 1 \in 1..n /\ i \in (n + 1)..(n + m) /\ i - n \in 1..m
          BY <1>1, <3>2
        <4>2. all[i-1].page \in (lo + 1)..mid /\ all[i].page \in (mid + 1)..hi
          BY <1>1, <1>2, <4>1
        <4> QED
          BY <4>2
      <3>3. CASE i - n \in 2..m
        <4> DEFINE j == i - n
        <4>1. /\ j - 1 = (i - 1) - n /\ j \in 2..m
              /\ i \in (n + 1)..(n + m) /\ i - 1 \in (n + 1)..(n + m)
          BY <1>1, <3>3
        <4>2. all[i] = t[j] /\ all[i-1] = t[j-1]
          BY <1>2, <4>1
        <4> HIDE DEF j
        <4> QED
          BY <1>1, <4>1, <4>2
      <3>4. i \in 2..n \/ i = n + 1 \/ i - n \in 2..m
        BY <1>1
      <3> QED
        BY <3>1, <3>2, <3>3, <3>4
    <2> QED
      BY <1>2, <2>1
  <1>6. ASSUME NEW p \in Nat
        PROVE  /\ p <= mid => Only(all, OnPage(p)) = Only(s, OnPage(p))
               /\ p > mid => Only(all, OnPage(p)) = Only(t, OnPage(p))
    <2>1. Only(all, OnPage(p)) = Only(s, OnPage(p)) \o Only(t, OnPage(p))
      <3>1. s \in Seq(Item) /\ t \in Seq(Item)
        BY <1>1
      <3> QED
        BY <3>1, OnlyConcat DEF all
    <2>2. /\ Only(s, OnPage(p)) \in Seq(Item) /\ Only(t, OnPage(p)) \in Seq(Item)
      BY <1>1, OnlyType
    <2>3. p <= mid => Only(t, OnPage(p)) = <<>>
      <3>1. ASSUME p <= mid, NEW i \in 1..Len(t)
            PROVE  t[i] \notin OnPage(p)
        <4>1. t[i].page \in (mid + 1)..hi
          BY <1>1 DEF m
        <4> QED
          BY <3>1, <4>1 DEF OnPage
      <3>2. t \in Seq(Item)
        BY <1>1
      <3> QED
        BY <3>1, <3>2, OnlyNone
    <2>4. p > mid => Only(s, OnPage(p)) = <<>>
      <3>1. ASSUME p > mid, NEW i \in 1..Len(s)
            PROVE  s[i] \notin OnPage(p)
        <4>1. s[i].page \in (lo + 1)..mid
          BY <1>1 DEF n
        <4> QED
          BY <3>1, <4>1 DEF OnPage
      <3>2. s \in Seq(Item)
        BY <1>1
      <3> QED
        BY <3>1, <3>2, OnlyNone
    <2>5. \A x \in Seq(Item) : x \o <<>> = x /\ <<>> \o x = x
      OBVIOUS
    <2>6. CASE p <= mid
      BY <2>1, <2>2, <2>3, <2>5, <2>6
    <2>7. CASE p > mid
      BY <2>1, <2>2, <2>4, <2>5, <2>7
    <2> QED
      BY <2>6, <2>7
  <1> QED
    BY <1>2, <1>4, <1>5, <1>6 DEF Paged, all

LEMMA DetailFields ==
    \A x \in LayoutDetail : /\ x.label \in STRING /\ x.content \in Text
                            /\ x.bbox_2d \in Nat \X Nat \X Nat \X Nat
  <1> DEFINE B == Nat \X Nat \X Nat \X Nat
  <1>1. LayoutDetail = [label : STRING, bbox_2d : B, content : Text]
    BY DEF LayoutDetail
  <1> HIDE DEF B
  <1>2. \A x \in LayoutDetail : x.label \in STRING /\ x.content \in Text /\ x.bbox_2d \in B
    BY <1>1
  <1> QED
    BY <1>2 DEF B

LEMMA OnePage ==
    ASSUME NEW details \in Seq(LayoutDetail), NEW n \in Nat
    PROVE  /\ Paged(PageItems(details, n + 1), n, n + 1)
           /\ Only(PageItems(details, n + 1), OnPage(n + 1)) = PageItems(details, n + 1)
  <1> DEFINE items == PageItems(details, n + 1)
  <1>1. /\ items \in Seq(Item) /\ Len(items) = Len(details)
        /\ \A i \in 1..Len(details) : items[i] \in Item /\ items[i].page = n + 1
    <2>1. ASSUME NEW d \in 1..Len(details)
          PROVE  [page |-> n + 1, content |-> details[d].content] \in Item
      <3>1. details[d] \in LayoutDetail
        OBVIOUS
      <3>2. details[d].content \in Text /\ n + 1 \in Nat
        BY <3>1, DetailFields
      <3> QED
        BY <3>2 DEF Item
    <2>2. items = [d \in 1..Len(details) |-> [page |-> n + 1, content |-> details[d].content]]
      BY DEF PageItems
    <2> QED
      BY <2>1, <2>2
  <1> HIDE DEF items
  <1>2. \A i \in 1..Len(items) : items[i] \in OnPage(n + 1)
    BY <1>1 DEF OnPage
  <1>3. Paged(items, n, n + 1)
    <2>1. \A i \in 2..Len(items) : i - 1 \in 1..Len(items) /\ i \in 1..Len(items)
      BY <1>1
    <2> QED
      BY <1>1, <2>1 DEF Paged
  <1>4. Only(items, OnPage(n + 1)) = items
    BY <1>1, <1>2, OnlyAll
  <1> QED
    BY <1>3, <1>4 DEF items

(* The blocks of a response.                                               *)
Box == Nat \X Nat \X Nat \X Nat
LayoutBlock ==
    [index : Nat, page : Nat, label : BlockLabel, bbox : Box, content : Text]
BlockItem == [b \in LayoutBlock |-> [page |-> b.page, content |-> b.content]]

Placed == [page : Nat, detail : LayoutDetail]
PlacedItem == [x \in Placed |-> [page |-> x.page, content |-> x.detail.content]]

LEMMA ItemMaps == IsMap(BlockItem, LayoutBlock, Item) /\ IsMap(PlacedItem, Placed, Item)
  <1>1. \A b \in LayoutBlock : [page |-> b.page, content |-> b.content] \in Item
    <2> DEFINE L == BlockLabel
               B == Box
    <2>1. LayoutBlock = [index : Nat, page : Nat, label : L, bbox : B, content : Text]
      BY DEF LayoutBlock
    <2> HIDE DEF L, B
    <2> QED
      BY <2>1 DEF Item
  <1>2. ASSUME NEW x \in Placed
        PROVE  [page |-> x.page, content |-> x.detail.content] \in Item
    <2>1. x.page \in Nat /\ x.detail \in LayoutDetail
      BY DEF Placed
    <2>2. x.detail.content \in Text
      BY <2>1, DetailFields
    <2> QED
      BY <2>1, <2>2 DEF Item
  <1> QED
    BY <1>1, <1>2 DEF IsMap, BlockItem, PlacedItem

(* The details of page n, placed on it.                                    *)
PlacedOn(details, n) == [d \in DOMAIN details |-> [page |-> n, detail |-> details[d]]]

LEMMA PlacedPage ==
    ASSUME NEW details \in Seq(LayoutDetail), NEW n \in Nat
    PROVE  /\ PlacedOn(details, n) \in Seq(Placed)
           /\ Mapped(PlacedItem, PlacedOn(details, n)) = PageItems(details, n)
  <1> DEFINE on == PlacedOn(details, n)
             m == Len(details)
  <1>1. /\ on = [d \in 1..m |-> [page |-> n, detail |-> details[d]]]
        /\ \A d \in 1..m : details[d] \in LayoutDetail
        /\ m \in Nat /\ DOMAIN details = 1..m
    BY DEF PlacedOn
  <1> HIDE DEF on, m
  <1>2. \A d \in 1..m : on[d] \in Placed /\ on[d].page = n /\ on[d].detail = details[d]
    BY <1>1 DEF Placed
  <1>3. on \in Seq(Placed) /\ DOMAIN on = 1..m
    BY <1>1, <1>2
  <1>4. \A d \in 1..m : PlacedItem[on[d]] = [page |-> n, content |-> details[d].content]
    BY <1>2 DEF PlacedItem
  <1>5. Mapped(PlacedItem, on) = PageItems(details, n)
    BY <1>1, <1>3, <1>4 DEF Mapped, PageItems
  <1> QED
    BY <1>3, <1>5 DEF on

Layout == Seq(Seq(LayoutDetail))
PlacedLists(layout, off) == [k \in DOMAIN layout |-> PlacedOn(layout[k], off + k)]

(* The first k pages of a response, in the items so far.                   *)
PagesIn(items, layout, off, k) ==
    /\ Paged(items, off, off + k)
    /\ \A q \in 1..k : Only(items, OnPage(off + q)) = PageItems(layout[q], off + q)

LEMMA PagesInStep ==
    ASSUME NEW layout \in Layout, NEW off \in Nat, NEW k \in 1..Len(layout),
           NEW items, PagesIn(items, layout, off, k - 1)
    PROVE  PagesIn(items \o PageItems(layout[k], off + k), layout, off, k)
  <1> DEFINE mid == off + (k - 1)
             new == PageItems(layout[k], mid + 1)
  <1>1. /\ mid \in Nat /\ mid + 1 = off + k /\ off <= mid /\ mid <= mid + 1
        /\ mid + 1 \in Nat
        /\ layout[k] \in Seq(LayoutDetail)
    BY DEF Layout
  <1>2. Paged(items, off, mid)
    BY DEF PagesIn
  <1> HIDE DEF mid
  <1>3. Paged(new, mid, mid + 1) /\ Only(new, OnPage(mid + 1)) = new
    BY <1>1, OnePage
  <1> HIDE DEF new
  <1>4. /\ Paged(items \o new, off, mid + 1)
        /\ \A n \in Nat : n <= mid => Only(items \o new, OnPage(n)) = Only(items, OnPage(n))
        /\ \A n \in Nat : n > mid => Only(items \o new, OnPage(n)) = Only(new, OnPage(n))
    BY <1>1, <1>2, <1>3, PagedConcat
  <1>5. ASSUME NEW q \in 1..k
        PROVE  Only(items \o new, OnPage(off + q)) = PageItems(layout[q], off + q)
    <2> DEFINE n == off + q
    <2>1. n \in Nat /\ (q < k => q \in 1..(k - 1) /\ n <= mid)
          /\ (q = k => n = mid + 1 /\ n > mid)
      BY DEF mid
    <2>2. q < k \/ q = k
      OBVIOUS
    <2>3. \A z \in 1..(k - 1) : Only(items, OnPage(off + z)) = PageItems(layout[z], off + z)
      BY DEF PagesIn
    <2>4. q < k => Only(items, OnPage(n)) = PageItems(layout[q], n)
      BY <2>1, <2>3
    <2>5. q = k => new = PageItems(layout[q], n)
      BY <2>1 DEF new
    <2> HIDE DEF n
    <2>6. CASE q < k
      BY <1>4, <2>1, <2>4, <2>6 DEF n
    <2>7. CASE q = k
      BY <1>3, <1>4, <2>1, <2>5, <2>7 DEF n
    <2> QED
      BY <2>2, <2>6, <2>7
  <1> QED
    BY <1>1, <1>4, <1>5 DEF PagesIn, new

LEMMA PagesPlaced ==
    ASSUME NEW layout \in Layout, NEW off \in Nat
    PROVE  LET placed == FlattenSeq(PlacedLists(layout, off))
           IN /\ placed \in Seq(Placed)
              /\ PagesIn(Mapped(PlacedItem, placed), layout, off, Len(layout))
  <1> DEFINE lists == PlacedLists(layout, off)
             n == Len(layout)
  <1>1. n \in Nat /\ DOMAIN layout = 1..n /\ \A k \in 1..n : layout[k] \in Seq(LayoutDetail)
    BY DEF Layout
  <1>2. lists = [k \in 1..n |-> PlacedOn(layout[k], off + k)]
    BY <1>1 DEF PlacedLists
  <1>3. \A k \in 1..n : off + k \in Nat
    BY <1>1
  <1> HIDE DEF n, lists
  <1>4. \A k \in 1..n : PlacedOn(layout[k], off + k) \in Seq(Placed)
    BY <1>1, <1>3, PlacedPage
  <1>5. lists \in Seq(Seq(Placed)) /\ Len(lists) = n
    BY <1>1, <1>2, <1>4
  <1>6. PICK j : Joins(j, lists, Placed) /\ FlattenSeq(lists) = j[Len(lists)]
    BY <1>5, FlattenJoins
  <1> DEFINE In(k) == /\ j[k] \in Seq(Placed)
                      /\ PagesIn(Mapped(PlacedItem, j[k]), layout, off, k)
             P == {k \in 0..n : In(k)}
  <1>7. In(0)
    <2>1. j[0] = <<>>
      BY <1>6 DEF Joins
    <2>2. Mapped(PlacedItem, j[0]) = <<>>
      BY <2>1 DEF Mapped
    <2>3. Paged(<<>>, off, off + 0)
      BY DEF Paged
    <2>4. PagesIn(<<>>, layout, off, 0)
      BY <2>3 DEF PagesIn
    <2>5. j[0] \in Seq(Placed)
      BY <2>1
    <2> QED
      BY <2>2, <2>4, <2>5
  <1>8. ASSUME NEW k \in 1..n, In(k - 1)
        PROVE  In(k)
    <2>0. lists \in Seq(Seq(Placed)) /\ Joins(j, lists, Placed) /\ k \in 1..Len(lists)
      BY <1>5, <1>6
    <2>1. j[k] = j[k-1] \o lists[k] /\ j[k] \in Seq(Placed) /\ lists[k] \in Seq(Placed)
      <3> HIDE DEF In
      <3> QED
        BY <2>0, JoinsStep
    <2>2. Mapped(PlacedItem, j[k]) = Mapped(PlacedItem, j[k-1]) \o Mapped(PlacedItem, lists[k])
      <3> DEFINE done == j[k-1]
                 new == lists[k]
      <3>1. done \in Seq(Placed) /\ new \in Seq(Placed) /\ j[k] = done \o new
        BY <1>8, <2>1
      <3> HIDE DEF done, new
      <3>2. Mapped(PlacedItem, done \o new)
                = Mapped(PlacedItem, done) \o Mapped(PlacedItem, new)
        BY <3>1, ItemMaps, MappedConcat
      <3> QED
        BY <3>1, <3>2 DEF done, new
    <2>3. Mapped(PlacedItem, lists[k]) = PageItems(layout[k], off + k)
      BY <1>1, <1>2, <1>3, PlacedPage
    <2>4. k \in 1..Len(layout)
      BY DEF n
    <2>5. PagesIn(Mapped(PlacedItem, j[k-1]) \o PageItems(layout[k], off + k), layout, off, k)
      BY <1>8, <2>4, PagesInStep
    <2> QED
      BY <2>1, <2>2, <2>3, <2>5
  <1>9. In(n)
    <2> HIDE DEF In
    <2>1. 0 \in P
      BY <1>1, <1>7
    <2>2. \A k \in 1..n : k - 1 \in P => k \in P
      BY <1>1, <1>8
    <2>3. 0..n \subseteq P
      BY <1>1, <2>1, <2>2, PrefixInduction
    <2> QED
      BY <1>1, <2>3
  <1> QED
    BY <1>5, <1>6, <1>9 DEF lists, n

LEMMA ResponseFields ==
    \A r \in LayoutParsingResponse : /\ r.markdown \in Text /\ r.dims \in Nat
                                     /\ r.layout \in Layout /\ r.tokens \in Nat
  <1> DEFINE T == Text
             L == Layout
  <1>1. LayoutParsingResponse = [markdown : T, dims : Nat, layout : L, tokens : Nat]
    BY DEF LayoutParsingResponse, Layout
  <1> HIDE DEF T, L
  <1>2. \A r \in LayoutParsingResponse : /\ r.markdown \in T /\ r.dims \in Nat
                                         /\ r.layout \in L /\ r.tokens \in Nat
    BY <1>1
  <1> QED
    BY <1>2 DEF T, L

LEMMA LayoutLen == \A layout \in Layout : Len(layout) \in Nat /\ DOMAIN layout = 1..Len(layout)
  <1> DEFINE E == Seq(LayoutDetail)
  <1>1. \A layout \in Seq(E) : Len(layout) \in Nat /\ DOMAIN layout = 1..Len(layout)
    OBVIOUS
  <1> QED
    BY <1>1 DEF Layout

LEMMA PageCounts ==
    ASSUME NEW r \in LayoutParsingResponse
    PROVE  pageCount(r) \in Nat /\ pageCount(r) >= 1 /\ pageCount(r) >= Len(r.layout)
  <1> DEFINE a == r.dims
             b == Len(r.layout)
  <1>1. a \in Nat /\ b \in Nat
    BY ResponseFields, LayoutLen
  <1>2. pageCount(r) = CHOOSE n \in {a, b, 1} : n >= a /\ n >= b /\ n >= 1
    BY DEF pageCount
  <1> HIDE DEF a, b
  <1>3. \E n \in {a, b, 1} : n >= a /\ n >= b /\ n >= 1
    BY <1>1
  <1>4. /\ pageCount(r) \in {a, b, 1}
        /\ pageCount(r) >= a /\ pageCount(r) >= b /\ pageCount(r) >= 1
    BY <1>2, <1>3
  <1> QED
    BY <1>1, <1>4 DEF b

LEMMA BlocksOf ==
    ASSUME NEW r \in LayoutParsingResponse, NEW off \in Nat
    PROVE  /\ toBlocks(r, off) \in Seq(LayoutBlock)
           /\ PagesIn(Mapped(BlockItem, toBlocks(r, off)), r.layout, off, Len(r.layout))
  <1> DEFINE layout == r.layout
             placed == FlattenSeq(PlacedLists(layout, off))
             n == Len(placed)
             BlockAt(i) == [index |-> i - 1, page |-> placed[i].page,
                            label |-> toBlockLabel(placed[i].detail.label),
                            bbox |-> placed[i].detail.bbox_2d,
                            content |-> placed[i].detail.content]
             blocks == toBlocks(r, off)
  <1>1. layout \in Layout
    BY ResponseFields
  <1>2. blocks = [i \in DOMAIN placed |-> BlockAt(i)]
    BY DEF toBlocks, PlacedLists, PlacedOn
  <1>3. /\ placed \in Seq(Placed)
        /\ PagesIn(Mapped(PlacedItem, placed), layout, off, Len(layout))
    BY <1>1, PagesPlaced
  <1> HIDE DEF layout, placed, blocks
  <1>4. n \in Nat /\ DOMAIN placed = 1..n /\ \A i \in 1..n : placed[i] \in Placed
    BY <1>3
  <1>5. ASSUME NEW i \in 1..n
        PROVE  /\ BlockAt(i) \in LayoutBlock
               /\ BlockItem[BlockAt(i)] = PlacedItem[placed[i]]
    <2> DEFINE x == placed[i]
               b == BlockAt(i)
               L == toBlockLabel(x.detail.label)
    <2>1. x \in Placed /\ x.page \in Nat /\ x.detail \in LayoutDetail
      BY <1>4 DEF Placed
    <2>2. /\ x.detail.content \in Text /\ x.detail.bbox_2d \in Box
          /\ L \in BlockLabel
      BY <2>1, DetailFields DEF Box, toBlockLabel, BlockLabel
    <2>3. i - 1 \in Nat
      BY <1>4
    <2>4. b = [index |-> i - 1, page |-> x.page, label |-> L,
               bbox |-> x.detail.bbox_2d, content |-> x.detail.content]
      OBVIOUS
    <2>5. BlockItem[b] = PlacedItem[x]
      <3>1. b \in LayoutBlock
        <4> HIDE DEF x, L, b
        <4> QED
          BY <2>1, <2>2, <2>3, <2>4 DEF LayoutBlock
      <3>2. b.page = x.page /\ b.content = x.detail.content
        BY <2>4
      <3> HIDE DEF x, L, b
      <3> QED
        BY <2>1, <3>1, <3>2 DEF BlockItem, PlacedItem
    <2>6. b \in LayoutBlock
      <3> HIDE DEF x, L, b
      <3> QED
        BY <2>1, <2>2, <2>3, <2>4 DEF LayoutBlock
    <2> QED
      BY <2>5, <2>6
  <1> HIDE DEF n
  <1>6. blocks \in Seq(LayoutBlock) /\ DOMAIN blocks = 1..n
        /\ \A i \in 1..n : BlockItem[blocks[i]] = PlacedItem[placed[i]]
    <2> HIDE DEF BlockAt
    <2> QED
      BY <1>2, <1>4, <1>5 DEF n
  <1>7. Mapped(BlockItem, blocks) = Mapped(PlacedItem, placed)
    BY <1>4, <1>6 DEF Mapped
  <1> QED
    BY <1>3, <1>6, <1>7 DEF blocks, layout

(* Each block of a response is of one of its details, on the page of it.   *)
Within(layout, off, page, content) ==
    \E d \in 1..Len(layout) : /\ page = off + d
                              /\ \E e \in DOMAIN layout[d] : content = layout[d][e].content
PlacedIn(layout, off) == {x \in Placed : Within(layout, off, x.page, x.detail.content)}

LEMMA BlocksWithin ==
    ASSUME NEW r \in LayoutParsingResponse, NEW off \in Nat,
           NEW i \in 1..Len(toBlocks(r, off))
    PROVE  Within(r.layout, off, toBlocks(r, off)[i].page, toBlocks(r, off)[i].content)
  <1> DEFINE layout == r.layout
             lists == PlacedLists(layout, off)
             placed == FlattenSeq(lists)
             n == Len(layout)
             E == PlacedIn(layout, off)
  <1>1. layout \in Layout /\ n \in Nat /\ DOMAIN layout = 1..n
        /\ \A k \in 1..n : layout[k] \in Seq(LayoutDetail)
    <2>1. layout \in Layout
      BY ResponseFields
    <2> HIDE DEF layout
    <2>2. n \in Nat /\ DOMAIN layout = 1..n
      BY <2>1, LayoutLen
    <2> QED
      BY <2>1, <2>2 DEF Layout
  <1>2. lists = [k \in 1..n |-> PlacedOn(layout[k], off + k)]
    BY <1>1 DEF PlacedLists
  <1> HIDE DEF layout, lists
  <1>3. ASSUME NEW k \in 1..n
        PROVE  PlacedOn(layout[k], off + k) \in Seq(E)
    <2> DEFINE details == layout[k]
               on == PlacedOn(details, off + k)
    <2>1. details \in Seq(LayoutDetail) /\ off + k \in Nat
      BY <1>1
    <2>2. on \in Seq(Placed) /\ on = [d \in DOMAIN details |-> [page |-> off + k, detail |-> details[d]]]
      BY <2>1, PlacedPage DEF PlacedOn
    <2>3. ASSUME NEW d \in DOMAIN on
          PROVE  on[d] \in E
      <3>1. d \in DOMAIN layout[k] /\ on[d].page = off + k
            /\ on[d].detail = layout[k][d] /\ on[d] \in Placed
        BY <2>2
      <3> HIDE DEF on
      <3>2. Within(layout, off, on[d].page, on[d].detail.content)
        BY <3>1 DEF Within
      <3> QED
        BY <3>1, <3>2 DEF PlacedIn
    <2> HIDE DEF on, E
    <2>a. Len(on) \in Nat /\ DOMAIN on = 1..Len(on) /\ on = [d \in 1..Len(on) |-> on[d]]
      BY <2>2
    <2>b. \A d \in 1..Len(on) : on[d] \in E
      BY <2>3, <2>a
    <2>4. on \in Seq(E)
      BY <2>a, <2>b
    <2> QED
      BY <2>4 DEF on
  <1> HIDE DEF n
  <1>4. lists \in Seq(Seq(E))
    <2> HIDE DEF E
    <2> QED
      BY <1>1, <1>2, <1>3
  <1>5. placed \in Seq(E)
    <2> HIDE DEF E
    <2> QED
      BY <1>4, FlattenType
  <1>6. /\ toBlocks(r, off) = [x \in DOMAIN placed |-> toBlocks(r, off)[x]]
        /\ \A x \in DOMAIN placed :
               /\ toBlocks(r, off)[x].page = placed[x].page
               /\ toBlocks(r, off)[x].content = placed[x].detail.content
    BY DEF toBlocks, PlacedLists, PlacedOn, layout, lists
  <1> HIDE DEF placed
  <1>7. i \in DOMAIN placed
    <2>1. toBlocks(r, off) \in Seq(LayoutBlock)
      BY BlocksOf
    <2>2. i \in DOMAIN toBlocks(r, off)
      BY <2>1
    <2> QED
      BY <1>6, <2>2
  <1>8. placed[i] \in E
    BY <1>5, <1>7
  <1> QED
    BY <1>6, <1>7, <1>8 DEF PlacedIn, layout

(* The pages of a document.                                                *)
Markdown == Text \cup {[md EXCEPT !.text = ""] : md \in Text}
PageResult == [page : Nat, markdown : Markdown]

LEMMA PagesOf ==
    ASSUME NEW r \in LayoutParsingResponse, NEW off \in Nat
    PROVE  /\ toPages(r, off) \in Seq(PageResult)
           /\ Len(toPages(r, off)) = pageCount(r)
           /\ \A i \in 1..pageCount(r) : toPages(r, off)[i].page = off + i
  <1> DEFINE n == pageCount(r)
             md(i) == IF i = 1 THEN r.markdown ELSE [r.markdown EXCEPT !.text = ""]
             made == toPages(r, off)
  <1>1. n \in Nat
    BY PageCounts
  <1>2. \A i \in 1..n : md(i) \in Markdown
    BY ResponseFields DEF Markdown
  <1>3. made = [i \in 1..n |-> [page |-> off + i, markdown |-> md(i)]]
    BY DEF toPages
  <1> HIDE DEF n, md, made
  <1>4. \A i \in 1..n : [page |-> off + i, markdown |-> md(i)] \in PageResult
    BY <1>1, <1>2 DEF PageResult
  <1> QED
    BY <1>1, <1>3, <1>4 DEF n, made

(* The loop over the responses.                                            *)
Sofar == [pages : Seq(PageResult), blocks : Seq(LayoutBlock),
          pageOffset : Nat, tokensUsed : Nat]
MergedBy == [p \in Sofar \X LayoutParsingResponse |-> merged(p[1], p[2])]
Unmerged == [pages |-> <<>>, blocks |-> <<>>, pageOffset |-> 0, tokensUsed |-> 0]
MergeOf(responses) ==
    FoldLeft(merged, [pages |-> <<>>, blocks |-> <<>>, pageOffset |-> 0, tokensUsed |-> 0],
             responses)

LEMMA SofarFields ==
    \A a \in Sofar : /\ a.pages \in Seq(PageResult) /\ a.blocks \in Seq(LayoutBlock)
                     /\ a.pageOffset \in Nat /\ a.tokensUsed \in Nat
  <1> DEFINE P == Seq(PageResult)
             B == Seq(LayoutBlock)
  <1>1. Sofar = [pages : P, blocks : B, pageOffset : Nat, tokensUsed : Nat]
    BY DEF Sofar
  <1> HIDE DEF P, B
  <1>2. \A a \in Sofar : /\ a.pages \in P /\ a.blocks \in B
                         /\ a.pageOffset \in Nat /\ a.tokensUsed \in Nat
    BY <1>1
  <1> QED
    BY <1>2 DEF P, B

LEMMA MergedType ==
    /\ MergedBy \in [Sofar \X LayoutParsingResponse -> Sofar] /\ Unmerged \in Sofar
    /\ \A a \in Sofar, r \in LayoutParsingResponse : MergedBy[<<a, r>>] = merged(a, r)
  <1>1. ASSUME NEW a \in Sofar, NEW r \in LayoutParsingResponse
        PROVE  merged(a, r) \in Sofar
    <2> DEFINE ps == a.pages \o toPages(r, a.pageOffset)
               bs == a.blocks \o toBlocks(r, a.pageOffset)
    <2>1. /\ a.pages \in Seq(PageResult) /\ a.blocks \in Seq(LayoutBlock)
          /\ a.pageOffset \in Nat /\ a.tokensUsed \in Nat
      BY SofarFields
    <2>2. /\ toPages(r, a.pageOffset) \in Seq(PageResult)
          /\ toBlocks(r, a.pageOffset) \in Seq(LayoutBlock)
      BY <2>1, PagesOf, BlocksOf
    <2>3. ps \in Seq(PageResult) /\ bs \in Seq(LayoutBlock)
      BY <2>1, <2>2
    <2>4. a.pageOffset + pageCount(r) \in Nat /\ a.tokensUsed + r.tokens \in Nat
      BY <2>1, PageCounts, ResponseFields
    <2> HIDE DEF ps, bs
    <2>5. [pages |-> ps, blocks |-> bs, pageOffset |-> a.pageOffset + pageCount(r),
           tokensUsed |-> a.tokensUsed + r.tokens] \in Sofar
      BY <2>3, <2>4 DEF Sofar
    <2> QED
      BY <2>5 DEF merged, ps, bs
  <1>2. Unmerged \in Sofar
    BY DEF Unmerged, Sofar
  <1>3. MergedBy \in [Sofar \X LayoutParsingResponse -> Sofar]
    BY <1>1 DEF MergedBy
  <1> QED
    BY <1>2, <1>3 DEF MergedBy

LEMMA MergeFolds ==
    ASSUME NEW responses \in Seq(LayoutParsingResponse)
    PROVE  FoldsTo(MergeOf(responses), responses, Unmerged, MergedBy, Sofar)
  <1> DEFINE seq == responses
             n == Len(seq)
             F(g) == [s \in SUBSET DOMAIN seq |-> IF s = {} THEN Unmerged ELSE
                          merged(g[s \ {Max(s)}], seq[Max(s)])]
             i == CHOOSE it : it = F(it)
  <1>1. MergeOf(responses) = i[DOMAIN seq]
    BY DEF MergeOf, Unmerged, FoldLeft, MapThenFoldSet
  <1>2. /\ seq \in Seq(LayoutParsingResponse) /\ n \in Nat /\ DOMAIN seq = 1..n
        /\ \A x \in 1..n : seq[x] \in LayoutParsingResponse
    OBVIOUS
  <1>3. /\ MergedBy \in [Sofar \X LayoutParsingResponse -> Sofar] /\ Unmerged \in Sofar
        /\ \A v \in Sofar, e \in LayoutParsingResponse : MergedBy[<<v, e>>] = merged(v, e)
    BY MergedType DEF MergedBy
  <1> HIDE DEF seq, n
  <1>4. Loop(seq, LayoutParsingResponse, Unmerged, MergedBy, Sofar)
    BY <1>2, <1>3 DEF Loop
  <1>5. PICK g \in [SUBSET (1..n) -> Sofar] : FoldTable(g, n, Unmerged, MergedBy, seq)
    BY <1>4, FoldTableExists DEF n
  <1>6. g = F(g)
    <2>1. ASSUME NEW s \in SUBSET (1..n), s # {}
          PROVE  g[s] = merged(g[s \ {Max(s)}], seq[Max(s)])
      <3>1. Max(s) \in 1..n
        BY <1>2, <2>1, MaxOfSubset
      <3>2. seq[Max(s)] \in LayoutParsingResponse /\ g[s \ {Max(s)}] \in Sofar
        BY <1>2, <3>1
      <3> QED
        BY <1>3, <1>5, <2>1, <3>2 DEF FoldTable
    <2> QED
      BY <1>2, <1>5, <2>1 DEF FoldTable
  <1>7. i = F(i)
    <2> HIDE DEF F
    <2> QED
      BY <1>6
  <1>8. Alike(i, g, n)
    <2> HIDE DEF i
    <2> QED
      BY <1>2, <1>6, <1>7 DEF Alike
  <1>9. i[1..n] = g[1..n]
    <2> HIDE DEF i
    <2> QED
      BY <1>2, <1>8, SameTable
  <1>10. FoldsTo(g[1..n], seq, Unmerged, MergedBy, Sofar)
    BY <1>4, <1>5, TableFolds DEF n
  <1> HIDE DEF i
  <1> QED
    BY <1>1, <1>2, <1>9, <1>10 DEF seq

Counts(rs) == [q \in DOMAIN rs |-> pageCount(rs[q])]
Tokens(rs) == [q \in DOMAIN rs |-> rs[q].tokens]
UpTo(f, k) == SumFunctionOnSet(f, 1..k)

LEMMA UpToStep ==
    ASSUME NEW n \in Nat, NEW f, \A q \in 1..n : f[q] \in Int, NEW k \in 1..n
    PROVE  UpTo(f, k) = UpTo(f, k - 1) + f[k]
  <1> DEFINE S == 1..(k - 1)
  <1>1. S \cup {k} = 1..k /\ k \notin S /\ k \in Nat
    OBVIOUS
  <1>2. IsFiniteSet(1..k) /\ \A x \in 1..k : f[x] \in Int
    BY FS_Interval
  <1>3. Summable(f, S \cup {k})
    BY <1>1, <1>2 DEF Summable
  <1> HIDE DEF S
  <1>4. SumFunctionOnSet(f, S \cup {k}) = SumFunctionOnSet(f, S) + f[k]
    BY <1>1, <1>3, SumAdd
  <1> QED
    BY <1>1, <1>4 DEF S, UpTo

(* Items up to page off, of which those of the first k responses are where *)
(* their response has them.                                                *)
InPlace(items, rs, k, off) ==
    /\ Paged(items, 0, off)
    /\ \A p \in 1..k : \A d \in 1..Len(rs[p].layout) :
           /\ UpTo(Counts(rs), p - 1) + d \in 1..off
           /\ Only(items, OnPage(UpTo(Counts(rs), p - 1) + d))
                  = PageItems(rs[p].layout[d], UpTo(Counts(rs), p - 1) + d)

LEMMA Beyond ==
    \A off, len, end, d \in Nat : d >= 1 /\ d <= len /\ off + len <= end =>
        off + d \in Nat /\ off + d > off /\ off + d \in 1..end
  OBVIOUS

LEMMA InPlaceStep ==
    ASSUME NEW rs \in Seq(LayoutParsingResponse), NEW k \in 1..Len(rs),
           NEW off \in Nat, off = UpTo(Counts(rs), k - 1),
           NEW items, InPlace(items, rs, k - 1, off),
           NEW new, PagesIn(new, rs[k].layout, off, Len(rs[k].layout)),
           NEW end \in Nat, end >= off + Len(rs[k].layout)
    PROVE  InPlace(items \o new, rs, k, end)
  <1> DEFINE len == Len(rs[k].layout)
             Before(p) == UpTo(Counts(rs), p - 1)
             both == items \o new
  <1>1. len \in Nat /\ off + len \in Nat /\ off <= end /\ off + len <= end
    <2>1. rs[k].layout \in Layout
      BY ResponseFields
    <2> QED
      BY <2>1, LayoutLen
  <1>2. Paged(items, 0, off)
    BY DEF InPlace
  <1>3. Paged(new, off, end)
    <2>1. Paged(new, off, off + len)
      BY DEF PagesIn
    <2>2. /\ new \in Seq(Item)
          /\ \A i \in 1..Len(new) : new[i].page \in (off + 1)..(off + len)
          /\ \A i \in 2..Len(new) : new[i-1].page <= new[i].page
      BY <2>1 DEF Paged
    <2> HIDE DEF len
    <2>3. \A z \in (off + 1)..(off + len) : z \in (off + 1)..end
      BY <1>1 DEF len
    <2> QED
      BY <2>2, <2>3 DEF Paged
  <1>4. /\ Paged(both, 0, end)
        /\ \A n \in Nat : n <= off => Only(both, OnPage(n)) = Only(items, OnPage(n))
        /\ \A n \in Nat : n > off => Only(both, OnPage(n)) = Only(new, OnPage(n))
    BY <1>1, <1>2, <1>3, PagedConcat
  <1> HIDE DEF both
  <1>5. ASSUME NEW p \in 1..k, NEW d \in 1..Len(rs[p].layout)
        PROVE  /\ Before(p) + d \in 1..end
               /\ Only(both, OnPage(Before(p) + d)) = PageItems(rs[p].layout[d], Before(p) + d)
    <2> DEFINE n == Before(p) + d
    <2>1. CASE p < k
      <3>1. p \in 1..(k - 1)
        BY <2>1
      <3>2. n \in 1..off /\ Only(items, OnPage(n)) = PageItems(rs[p].layout[d], n)
        BY <3>1 DEF InPlace
      <3> HIDE DEF n
      <3>3. n \in Nat /\ n <= off /\ n \in 1..end
        BY <1>1, <3>2
      <3>4. Only(both, OnPage(n)) = PageItems(rs[p].layout[d], n)
        BY <1>4, <3>2, <3>3
      <3> QED
        BY <3>3, <3>4 DEF n
    <2>2. CASE p = k
      <3>1. n = off + d /\ d \in 1..len
        BY <2>2
      <3>2. Only(new, OnPage(off + d)) = PageItems(rs[k].layout[d], off + d)
        BY <3>1 DEF PagesIn
      <3> HIDE DEF n, len
      <3>3. n \in Nat /\ n > off /\ n \in 1..end
        <4>1. d \in Nat /\ d >= 1 /\ d <= len
          BY <1>1, <3>1
        <4>2. off + d \in Nat /\ off + d > off /\ off + d \in 1..end
          BY <1>1, <4>1, Beyond
        <4> QED
          BY <3>1, <4>2
      <3>4. Only(both, OnPage(n)) = PageItems(rs[p].layout[d], n)
        BY <1>4, <2>2, <3>1, <3>2, <3>3
      <3> QED
        BY <3>3, <3>4 DEF n
    <2>3. p < k \/ p = k
      OBVIOUS
    <2> QED
      BY <2>1, <2>2, <2>3
  <1> QED
    BY <1>4, <1>5 DEF InPlace, both

(* A block is of one of the first k responses, on a page of it.            *)
OfResponse(rs, k, b) ==
    \E p \in 1..k : Within(rs[p].layout, UpTo(Counts(rs), p - 1), b.page, b.content)

(* After k turns of the loop.                                              *)
MergedUpTo(a, rs, k) ==
    /\ \A i \in 1..Len(a.blocks) : OfResponse(rs, k, a.blocks[i])
    /\ Len(a.pages) = a.pageOffset
    /\ \A i \in 1..a.pageOffset : a.pages[i].page = i
    /\ a.pageOffset = UpTo(Counts(rs), k)
    /\ a.tokensUsed = UpTo(Tokens(rs), k)
    /\ InPlace(Mapped(BlockItem, a.blocks), rs, k, a.pageOffset)

LEMMA MergeStep ==
    ASSUME NEW rs \in Seq(LayoutParsingResponse), NEW k \in 1..Len(rs),
           NEW a \in Sofar, MergedUpTo(a, rs, k - 1)
    PROVE  MergedUpTo(merged(a, rs[k]), rs, k)
  <1> DEFINE r == rs[k]
             off == a.pageOffset
             n == pageCount(r)
             made == toPages(r, off)
             ps == a.pages \o made
             bs == toBlocks(r, off)
  <1>1. /\ r \in LayoutParsingResponse /\ off \in Nat
        /\ a.pages \in Seq(PageResult) /\ a.blocks \in Seq(LayoutBlock)
    BY SofarFields
  <1>2. n \in Nat /\ n >= 1 /\ n >= Len(r.layout) /\ Len(r.layout) \in Nat
    <2>1. r.layout \in Layout
      BY <1>1, ResponseFields
    <2> QED
      BY <1>1, <2>1, PageCounts, LayoutLen
  <1>3. /\ off + n = UpTo(Counts(rs), k)
        /\ a.tokensUsed + r.tokens = UpTo(Tokens(rs), k)
    <2> DEFINE N == Len(rs)
    <2>1. N \in Nat /\ DOMAIN rs = 1..N /\ k \in 1..N
      OBVIOUS
    <2>2. \A q \in 1..N : rs[q] \in LayoutParsingResponse
      OBVIOUS
    <2> HIDE DEF N
    <2>3. /\ \A q \in 1..N : Counts(rs)[q] = pageCount(rs[q]) /\ pageCount(rs[q]) \in Nat
          /\ \A q \in 1..N : Tokens(rs)[q] = rs[q].tokens /\ rs[q].tokens \in Nat
      BY <2>1, <2>2, PageCounts, ResponseFields DEF Counts, Tokens
    <2>4. /\ \A q \in 1..N : Counts(rs)[q] \in Int
          /\ \A q \in 1..N : Tokens(rs)[q] \in Int
      BY <2>3
    <2>5. /\ UpTo(Counts(rs), k) = UpTo(Counts(rs), k - 1) + Counts(rs)[k]
          /\ UpTo(Tokens(rs), k) = UpTo(Tokens(rs), k - 1) + Tokens(rs)[k]
      BY <2>1, <2>4, UpToStep
    <2> QED
      BY <2>1, <2>3, <2>5 DEF MergedUpTo
  <1>4. /\ made \in Seq(PageResult) /\ Len(made) = n
        /\ \A i \in 1..n : made[i].page = off + i
    BY <1>1, PagesOf
  <1>5. /\ bs \in Seq(LayoutBlock)
        /\ PagesIn(Mapped(BlockItem, bs), r.layout, off, Len(r.layout))
    BY <1>1, BlocksOf
  <1>6. Mapped(BlockItem, a.blocks \o bs) = Mapped(BlockItem, a.blocks) \o Mapped(BlockItem, bs)
    <2> DEFINE done == a.blocks
    <2>1. done \in Seq(LayoutBlock)
      BY <1>1
    <2> HIDE DEF done, bs
    <2>2. Mapped(BlockItem, done \o bs) = Mapped(BlockItem, done) \o Mapped(BlockItem, bs)
      BY <1>5, <2>1, ItemMaps, MappedConcat
    <2> QED
      BY <2>2 DEF done
  <1>7. InPlace(Mapped(BlockItem, a.blocks) \o Mapped(BlockItem, bs), rs, k, off + n)
    <2>1. off = UpTo(Counts(rs), k - 1)
          /\ InPlace(Mapped(BlockItem, a.blocks), rs, k - 1, off)
      BY DEF MergedUpTo
    <2>2. off + n \in Nat /\ off + n >= off + Len(r.layout)
      BY <1>1, <1>2
    <2> HIDE DEF n, off, bs
    <2> QED
      BY <1>1, <1>5, <2>1, <2>2, InPlaceStep
  <1>b. ASSUME NEW i \in 1..Len(a.blocks \o bs)
        PROVE  OfResponse(rs, k, (a.blocks \o bs)[i])
    <2> DEFINE done == a.blocks
               both == done \o bs
               len == Len(done)
    <2>1. done \in Seq(LayoutBlock) /\ \A x \in 1..len : OfResponse(rs, k - 1, done[x])
      BY <1>1 DEF MergedUpTo
    <2>2. \A x \in 1..Len(bs) : Within(r.layout, off, bs[x].page, bs[x].content)
      BY <1>1, BlocksWithin
    <2>3. off = UpTo(Counts(rs), k - 1)
      BY DEF MergedUpTo
    <2> HIDE DEF done, bs, off
    <2>4. /\ len \in Nat /\ Len(both) = len + Len(bs) /\ Len(bs) \in Nat
          /\ \A x \in 1..len : both[x] = done[x]
          /\ \A x \in (len + 1)..(len + Len(bs)) : both[x] = bs[x - len]
      BY <1>5, <2>1
    <2>5. i \in 1..(len + Len(bs))
      BY <2>4 DEF done
    <2> HIDE DEF both, len
    <2>6. CASE i \in 1..len
      <3>1. OfResponse(rs, k - 1, both[i])
        BY <2>1, <2>4, <2>6
      <3>2. \A p \in 1..(k - 1) : p \in 1..k
        OBVIOUS
      <3>3. OfResponse(rs, k, both[i])
        BY <3>1, <3>2 DEF OfResponse
      <3> QED
        BY <3>3 DEF both, done
    <2>7. CASE i \in (len + 1)..(len + Len(bs))
      <3> DEFINE j == i - len
      <3>1. both[i] = bs[j] /\ j \in 1..Len(bs)
        BY <2>4, <2>7
      <3> HIDE DEF j
      <3>2. Within(r.layout, UpTo(Counts(rs), k - 1), both[i].page, both[i].content)
        BY <2>2, <2>3, <3>1
      <3>3. k \in 1..k
        OBVIOUS
      <3>4. OfResponse(rs, k, both[i])
        BY <3>2, <3>3 DEF OfResponse
      <3> QED
        BY <3>4 DEF both, done
    <2>8. i \in 1..len \/ i \in (len + 1)..(len + Len(bs))
      BY <2>4, <2>5
    <2> QED
      BY <2>6, <2>7, <2>8
  <1>8. Len(ps) = off + n /\ \A i \in 1..(off + n) : ps[i].page = i
    <2> DEFINE done == a.pages
    <2>1. /\ done \in Seq(PageResult) /\ Len(done) = off
          /\ \A i \in 1..off : done[i].page = i
          /\ ps = done \o made
      BY <1>1 DEF MergedUpTo
    <2> HIDE DEF off, n, made, ps, done
    <2>2. /\ Len(ps) = off + n
          /\ \A i \in 1..off : ps[i] = done[i]
          /\ \A i \in (off + 1)..(off + n) : ps[i] = made[i - off]
      BY <1>1, <1>4, <2>1
    <2>3. ASSUME NEW i \in 1..(off + n)
          PROVE  ps[i].page = i
      <3>1. CASE i \in 1..off
        BY <2>1, <2>2, <3>1
      <3>2. CASE i \in (off + 1)..(off + n)
        <4> DEFINE j == i - off
        <4>1. j \in 1..n /\ off + j = i
          BY <1>1, <1>2, <3>2
        <4>2. ps[i] = made[j]
          BY <2>2, <3>2
        <4> HIDE DEF j
        <4> QED
          BY <1>4, <4>1, <4>2
      <3>3. i \in 1..off \/ i \in (off + 1)..(off + n)
        BY <1>1, <1>2
      <3> QED
        BY <3>1, <3>2, <3>3
    <2> QED
      BY <2>2, <2>3
  <1>9. merged(a, r) = [pages |-> ps, blocks |-> a.blocks \o bs, pageOffset |-> off + n,
                        tokensUsed |-> a.tokensUsed + r.tokens]
    BY DEF merged
  <1> DEFINE blocks == a.blocks \o bs
             used == a.tokensUsed + r.tokens
             end == off + n
             b == merged(a, r)
  <1>10. b.pages = ps /\ b.blocks = blocks /\ b.pageOffset = end /\ b.tokensUsed = used
    <2>1. b = [pages |-> ps, blocks |-> blocks, pageOffset |-> end, tokensUsed |-> used]
      BY <1>9
    <2> HIDE DEF ps, blocks, used, end, b
    <2> QED
      BY <2>1
  <1> HIDE DEF ps, blocks, used, end, b
  <1>11. /\ Len(ps) = end /\ \A i \in 1..end : ps[i].page = i
         /\ end = UpTo(Counts(rs), k) /\ used = UpTo(Tokens(rs), k)
         /\ InPlace(Mapped(BlockItem, blocks), rs, k, end)
         /\ \A i \in 1..Len(blocks) : OfResponse(rs, k, blocks[i])
    BY <1>3, <1>6, <1>7, <1>8, <1>b DEF end, used, blocks
  <1>12. MergedUpTo(b, rs, k)
    BY <1>10, <1>11 DEF MergedUpTo
  <1> QED
    BY <1>12 DEF b

LEMMA MergeIs ==
    ASSUME NEW rs \in Seq(LayoutParsingResponse)
    PROVE  MergeOf(rs) \in Sofar /\ MergedUpTo(MergeOf(rs), rs, Len(rs))
  <1> DEFINE n == Len(rs)
  <1>1. PICK t : Turns(t, rs, Unmerged, MergedBy, Sofar) /\ MergeOf(rs) = t[Len(rs)]
    BY MergeFolds DEF FoldsTo
  <1> DEFINE In(k) == t[k] \in Sofar /\ MergedUpTo(t[k], rs, k)
             P == {k \in 0..n : In(k)}
  <1>2. n \in Nat /\ \A k \in 1..n : rs[k] \in LayoutParsingResponse
    OBVIOUS
  <1>3. In(0)
    <2>1. t[0] = Unmerged /\ t[0] \in Sofar
      BY <1>1, MergedType DEF Turns
    <2>2. UpTo(Counts(rs), 0) = 0 /\ UpTo(Tokens(rs), 0) = 0
      <3>1. 1..0 = {}
        OBVIOUS
      <3> QED
        BY <3>1, SumOfNone DEF UpTo
    <2>3. Mapped(BlockItem, <<>>) = <<>>
      BY DEF Mapped
    <2>4. InPlace(<<>>, rs, 0, 0)
      BY DEF InPlace, Paged
    <2>5. MergedUpTo(Unmerged, rs, 0)
      BY <2>2, <2>3, <2>4 DEF MergedUpTo, Unmerged
    <2> QED
      BY <2>1, <2>5
  <1>4. ASSUME NEW k \in 1..n, In(k - 1)
        PROVE  In(k)
    <2>1. t[k] = MergedBy[<<t[k-1], rs[k]>>] /\ t[k] \in Sofar
      BY <1>1 DEF Turns
    <2>2. t[k] = merged(t[k-1], rs[k])
      BY <1>2, <1>4, <2>1, MergedType
    <2>3. MergedUpTo(merged(t[k-1], rs[k]), rs, k)
      BY <1>4, MergeStep
    <2> QED
      BY <2>1, <2>2, <2>3
  <1>5. In(n)
    <2> HIDE DEF In, n
    <2>1. 0 \in P
      BY <1>2, <1>3
    <2>2. \A k \in 1..n : k - 1 \in P => k \in P
      BY <1>2, <1>4
    <2>3. 0..n \subseteq P
      BY <1>2, <2>1, <2>2, PrefixInduction
    <2> QED
      BY <1>2, <2>3
  <1> QED
    BY <1>1, <1>5

(* The document is what the loop ends with, its blocks indexed anew.       *)
LEMMA DocumentIs ==
    ASSUME NEW rs \in Seq(LayoutParsingResponse)
    PROVE  LET doc == mapLayoutParsing(rs)
               all == MergeOf(rs)
           IN /\ doc.blocks = reindexed(all.blocks) /\ doc.pages = all.pages
              /\ doc.pageCount = Len(all.pages) /\ doc.tokensUsed = all.tokensUsed
              /\ doc.blocks \in Seq(LayoutBlock) /\ Len(doc.blocks) = Len(all.blocks)
              /\ \A i \in 1..Len(all.blocks) :
                     /\ doc.blocks[i].index = i - 1
                     /\ doc.blocks[i].page = all.blocks[i].page
                     /\ doc.blocks[i].content = all.blocks[i].content
  <1> DEFINE doc == mapLayoutParsing(rs)
             all == MergeOf(rs)
             blocks == all.blocks
             n == Len(blocks)
             At(i) == [blocks[i] EXCEPT !.index = i - 1]
  <1>1. /\ doc.blocks = reindexed(all.blocks) /\ doc.pages = all.pages
        /\ doc.pageCount = Len(all.pages) /\ doc.tokensUsed = all.tokensUsed
    BY DEF mapLayoutParsing, MergeOf
  <1>2. blocks \in Seq(LayoutBlock)
    BY MergeIs, SofarFields
  <1>3. reindexed(blocks) = [i \in DOMAIN blocks |-> At(i)]
    BY DEF reindexed
  <1> HIDE DEF doc, all, blocks
  <1>4. n \in Nat /\ DOMAIN blocks = 1..n /\ \A i \in 1..n : blocks[i] \in LayoutBlock
    BY <1>2
  <1>5. ASSUME NEW i \in 1..n
        PROVE  /\ At(i) \in LayoutBlock /\ At(i).index = i - 1
               /\ At(i).page = blocks[i].page /\ At(i).content = blocks[i].content
    <2> DEFINE b == blocks[i]
               L == BlockLabel
               B == Box
               T == Text
    <2>1. b \in [index : Nat, page : Nat, label : L, bbox : B, content : T]
      BY <1>4 DEF LayoutBlock
    <2>2. i - 1 \in Nat
      BY <1>4
    <2> HIDE DEF b, L, B, T
    <2>3. /\ [b EXCEPT !.index = i - 1]
               \in [index : Nat, page : Nat, label : L, bbox : B, content : T]
          /\ [b EXCEPT !.index = i - 1].index = i - 1
          /\ [b EXCEPT !.index = i - 1].page = b.page
          /\ [b EXCEPT !.index = i - 1].content = b.content
      BY <2>1, <2>2
    <2> QED
      BY <2>3 DEF b, L, B, T, LayoutBlock
  <1> HIDE DEF n, At
  <1>6. /\ reindexed(blocks) \in Seq(LayoutBlock) /\ Len(reindexed(blocks)) = n
        /\ \A i \in 1..n : reindexed(blocks)[i] = At(i)
    BY <1>3, <1>4, <1>5
  <1> QED
    BY <1>1, <1>5, <1>6 DEF doc, all, blocks, n

(* What is on a page of the document is what is so of its items.           *)
ReadAlike(a, b) ==
    /\ Len(a) = Len(b)
    /\ \A i \in 1..Len(b) : a[i].page = b[i].page /\ a[i].content = b[i].content

LEMMA ContentsAre ==
    ASSUME NEW blocks \in Seq(LayoutBlock), NEW read2 \in Seq(LayoutBlock),
           ReadAlike(read2, blocks), NEW n \in Nat, NEW details \in Seq(LayoutDetail),
           Only(Mapped(BlockItem, blocks), OnPage(n)) = PageItems(details, n)
    PROVE  LET on == Only(read2, {b \in Range(read2) : b.page = n})
           IN [i \in DOMAIN on |-> on[i].content]
                  = [d \in DOMAIN details |-> details[d].content]
  <1> DEFINE S == {b \in Range(read2) : b.page = n}
             on == Only(read2, S)
             items == Mapped(BlockItem, blocks)
             m == Len(blocks)
             OfBlock == [b \in LayoutBlock |-> b.content]
             OfItem == [x \in Item |-> x.content]
  <1>1. IsMap(OfBlock, LayoutBlock, Text) /\ IsMap(OfItem, Item, Text)
    <2>1. \A b \in LayoutBlock : b.content \in Text
      BY ItemMaps DEF IsMap, BlockItem, Item
    <2>2. \A x \in Item : x.content \in Text
      BY DEF Item
    <2> QED
      BY <2>1, <2>2 DEF IsMap
  <1>2. /\ m \in Nat /\ DOMAIN blocks = 1..m /\ DOMAIN read2 = 1..m
        /\ \A i \in 1..m : blocks[i] \in LayoutBlock /\ read2[i] \in LayoutBlock
        /\ \A i \in 1..m : /\ read2[i].page = blocks[i].page
                           /\ read2[i].content = blocks[i].content
    BY DEF ReadAlike
  <1>3. /\ items \in Seq(Item) /\ Len(items) = m
        /\ \A i \in 1..m : /\ items[i] \in Item
                           /\ items[i].page = blocks[i].page
                           /\ items[i].content = blocks[i].content
    <2>1. \A b \in LayoutBlock : /\ BlockItem[b] \in Item
                                 /\ BlockItem[b].page = b.page
                                 /\ BlockItem[b].content = b.content
      BY ItemMaps DEF IsMap, BlockItem
    <2>2. items = [i \in 1..m |-> BlockItem[blocks[i]]]
      BY <1>2 DEF Mapped
    <2> HIDE DEF m, items
    <2> QED
      BY <1>2, <2>1, <2>2
  <1>4. \A i \in 1..m : read2[i] \in S <=> items[i] \in OnPage(n)
    BY <1>2, <1>3 DEF OnPage, Range
  <1>5. \A i \in 1..m : OfBlock[read2[i]] = OfItem[items[i]]
    BY <1>2, <1>3
  <1>6. Mapped(OfBlock, on) = Mapped(OfItem, Only(items, OnPage(n)))
    <2>1. /\ items \in Seq(Item)
          /\ Len(read2) = Len(items)
          /\ \A i \in 1..Len(read2) : read2[i] \in S <=> items[i] \in OnPage(n)
          /\ \A i \in 1..Len(read2) : OfBlock[read2[i]] = OfItem[items[i]]
      <3> HIDE DEF S, items, OfBlock, OfItem
      <3> QED
        BY <1>3, <1>4, <1>5 DEF ReadAlike
    <2> HIDE DEF S, items, OfBlock, OfItem
    <2> QED
      BY <1>1, <1>2, <2>1, OnlyAlike
  <1>7. on \in Seq(LayoutBlock)
    BY OnlyType
  <1>8. Mapped(OfBlock, on) = [i \in DOMAIN on |-> on[i].content]
    <2> HIDE DEF on
    <2>1. \A i \in DOMAIN on : on[i] \in LayoutBlock
      BY <1>7
    <2>2. \A i \in DOMAIN on : OfBlock[on[i]] = on[i].content
      BY <2>1
    <2> HIDE DEF OfBlock
    <2> QED
      BY <2>2 DEF Mapped
  <1>9. Mapped(OfItem, PageItems(details, n)) = [d \in DOMAIN details |-> details[d].content]
    <2>1. \A d \in DOMAIN details : details[d] \in LayoutDetail
      OBVIOUS
    <2>2. \A d \in DOMAIN details : details[d].content \in Text
      BY <2>1, DetailFields
    <2>3. \A d \in DOMAIN details : [page |-> n, content |-> details[d].content] \in Item
      BY <2>2 DEF Item
    <2>4. \A d \in DOMAIN details :
              OfItem[[page |-> n, content |-> details[d].content]] = details[d].content
      BY <2>3
    <2> HIDE DEF OfItem
    <2> QED
      BY <2>4 DEF Mapped, PageItems
  <1> HIDE DEF OfBlock, OfItem, on
  <1>10. [i \in DOMAIN on |-> on[i].content] = [d \in DOMAIN details |-> details[d].content]
    BY <1>6, <1>8, <1>9
  <1> QED
    BY <1>10 DEF on, S

(* The document of a recognition that answered is made of one body for     *)
(* each page that was sent.                                                *)
LEMMA ResponsesAre ==
    ASSUME IInv, answer = "recognized"
    PROVE  /\ pages \in Nat /\ Responses \in Seq(LayoutParsingResponse)
           /\ Len(Responses) = pages
           /\ \A p \in 1..pages : Responses[p] = call[p].body
  <1>1. pages \in 0..MaxPages /\ call \in [Page -> Calls] /\ MaxPages \in Nat
    BY TypeIs, GlmAssumption DEF IInv
  <1>2. ASSUME NEW p \in 1..pages
        PROVE  call[p].body \in LayoutParsingResponse
    <2>1. p \in Page
      BY <1>1 DEF Page
    <2>2. call[p] \in Calls /\ Consistent(call[p]) /\ call[p].pc = "parsed"
      BY <1>1, <2>1, TypeIs DEF IInv, AllParsed, Sent
    <2>3. call[p].body # NoBody
      BY <2>2 DEF Consistent
    <2>4. call[p].body \in {NoBody} \cup UNION {ResponsesOf[q] : q \in Page}
      BY <2>2 DEF Calls
    <2> QED
      BY <2>3, <2>4, GlmAssumption DEF Page
  <1>3. Responses = [p \in 1..pages |-> call[p].body]
    BY DEF Responses, Sent
  <1> QED
    BY <1>1, <1>2, <1>3

(* The merge keeps every response once, in page order, however many pages  *)
(* each tells of and in whatever order they came (mapper.ts:31-43).        *)
THEOREM MergesInPageOrder == Spec => []MergedInPageOrder
  <1>1. IInv => MergedInPageOrder
    <2> SUFFICES ASSUME IInv, answer = "recognized" PROVE MergedInPageOrder
      BY DEF MergedInPageOrder
    <2> DEFINE rs == Responses
               doc == mapLayoutParsing(rs)
               all == MergeOf(rs)
               blocks == all.blocks
               off == all.pageOffset
               contentsOn(n) == LET on == Only(doc.blocks, {b \in Range(doc.blocks) : b.page = n})
                                IN [i \in DOMAIN on |-> on[i].content]
               contents(details) == [d \in DOMAIN details |-> details[d].content]
    <2>1. /\ pages \in Nat /\ rs \in Seq(LayoutParsingResponse) /\ Len(rs) = pages
          /\ \A p \in 1..pages : rs[p] = call[p].body
          /\ DOMAIN rs = 1..pages
      BY ResponsesAre
    <2> HIDE DEF rs
    <2>2. all \in Sofar /\ MergedUpTo(all, rs, pages)
      BY <2>1, MergeIs
    <2>3. /\ doc.blocks = reindexed(all.blocks) /\ doc.pages = all.pages
          /\ doc.pageCount = Len(all.pages) /\ doc.tokensUsed = all.tokensUsed
          /\ doc.blocks \in Seq(LayoutBlock) /\ Len(doc.blocks) = Len(blocks)
          /\ \A i \in 1..Len(blocks) : /\ doc.blocks[i].index = i - 1
                                       /\ doc.blocks[i].page = blocks[i].page
                                       /\ doc.blocks[i].content = blocks[i].content
      BY <2>1, DocumentIs
    <2>4. blocks \in Seq(LayoutBlock) /\ off \in Nat
      BY <2>2, SofarFields
    <2>5. /\ Len(all.pages) = off /\ \A i \in 1..off : all.pages[i].page = i
          /\ off = UpTo(Counts(rs), pages) /\ all.tokensUsed = UpTo(Tokens(rs), pages)
          /\ InPlace(Mapped(BlockItem, blocks), rs, pages, off)
      BY <2>2 DEF MergedUpTo
    <2> HIDE DEF doc, all, blocks, off
    <2>6. ASSUME NEW p \in 1..(pages + 1)
          PROVE  PagesBefore(p) = UpTo(Counts(rs), p - 1)
      <3>1. {q \in Sent : q < p} = 1..(p - 1)
        BY <2>1 DEF Sent
      <3>2. [q \in Sent |-> pageCount(Responses[q])] = Counts(rs)
        BY <2>1 DEF Counts, rs, Sent
      <3> QED
        BY <3>1, <3>2 DEF PagesBefore, UpTo
    <2>7. \A i \in 1..doc.pageCount : doc.pages[i].page = i
      BY <2>3, <2>5
    <2>8. \A i \in DOMAIN doc.blocks : doc.blocks[i].index = i - 1
      BY <2>3
    <2>9. \A i \in 2..Len(doc.blocks) : doc.blocks[i-1].page <= doc.blocks[i].page
      <3> DEFINE items == Mapped(BlockItem, blocks)
                 m == Len(blocks)
      <3>1. m \in Nat /\ DOMAIN blocks = 1..m /\ \A i \in 1..m : blocks[i] \in LayoutBlock
        BY <2>4
      <3>2. items = [i \in 1..m |-> BlockItem[blocks[i]]]
        BY <3>1 DEF Mapped
      <3>3. \A i \in 1..m : BlockItem[blocks[i]].page = blocks[i].page
        BY <3>1 DEF BlockItem
      <3>4. items \in Seq(Item) /\ \A i \in 2..Len(items) : items[i-1].page <= items[i].page
        BY <2>5 DEF InPlace, Paged
      <3> HIDE DEF items, m
      <3>5. Len(items) = m
        BY <3>1, <3>2, <3>4
      <3>6. ASSUME NEW i \in 2..m
            PROVE  doc.blocks[i-1].page <= doc.blocks[i].page
        <4> DEFINE h == i - 1
        <4>1. i \in 1..m /\ h \in 1..m
          BY <3>1
        <4>2. items[h].page <= items[i].page
          BY <3>4, <3>5
        <4> HIDE DEF h
        <4>3. /\ items[h].page = blocks[h].page /\ items[i].page = blocks[i].page
              /\ doc.blocks[h].page = blocks[h].page /\ doc.blocks[i].page = blocks[i].page
          BY <2>3, <3>2, <3>3, <4>1 DEF m
        <4> QED
          BY <4>2, <4>3 DEF h
      <3> QED
        BY <2>3, <3>6 DEF m
    <2>10. ASSUME NEW p \in Sent, NEW k \in DOMAIN call[p].body.layout
           PROVE  contentsOn(PagesBefore(p) + k) = contents(call[p].body.layout[k])
      <3> DEFINE layout == call[p].body.layout
                 n == PagesBefore(p) + k
      <3>1. p \in 1..pages /\ p \in 1..(pages + 1) /\ rs[p] = call[p].body
            /\ rs[p] \in LayoutParsingResponse
        BY <2>1 DEF Sent
      <3>2. layout = rs[p].layout /\ layout \in Layout
        BY <3>1, ResponseFields
      <3>3. k \in 1..Len(layout) /\ layout[k] \in Seq(LayoutDetail)
        <4>1. k \in DOMAIN layout
          OBVIOUS
        <4> HIDE DEF layout
        <4>2. DOMAIN layout = 1..Len(layout)
          BY <3>2, LayoutLen
        <4> QED
          BY <3>2, <4>1, <4>2 DEF Layout
      <3>4. n = UpTo(Counts(rs), p - 1) + k
        BY <2>6, <3>1
      <3> HIDE DEF layout, n
      <3>5. n \in 1..off
            /\ Only(Mapped(BlockItem, blocks), OnPage(n)) = PageItems(layout[k], n)
        BY <2>5, <3>1, <3>2, <3>3, <3>4 DEF InPlace
      <3>6. n \in Nat
        BY <2>4, <3>5
      <3> DEFINE details == layout[k]
                 seen == doc.blocks
      <3>7. seen \in Seq(LayoutBlock) /\ ReadAlike(seen, blocks)
        BY <2>3 DEF ReadAlike
      <3>8. details \in Seq(LayoutDetail)
            /\ Only(Mapped(BlockItem, blocks), OnPage(n)) = PageItems(details, n)
        BY <3>3, <3>5
      <3> HIDE DEF details, seen
      <3>9. LET on == Only(seen, {b \in Range(seen) : b.page = n})
            IN [i \in DOMAIN on |-> on[i].content]
                   = [d \in DOMAIN details |-> details[d].content]
        BY <2>4, <3>6, <3>7, <3>8, ContentsAre
      <3> QED
        BY <3>9 DEF layout, n, details, seen
    <2>11. doc.pageCount = PagesBefore(pages + 1)
      <3>1. pages + 1 \in 1..(pages + 1) /\ (pages + 1) - 1 = pages
        BY <2>1
      <3> QED
        BY <2>3, <2>5, <2>6, <3>1
    <2>12. doc.tokensUsed = SumFunctionOnSet([p \in Sent |-> call[p].body.tokens], Sent)
      <3>1. [p \in Sent |-> call[p].body.tokens] = Tokens(rs)
        BY <2>1 DEF Tokens, Sent
      <3> QED
        BY <2>3, <2>5, <3>1 DEF UpTo, Sent
    <2>13. Document = doc
      BY DEF Document, doc, rs
    <2> QED
      BY <2>7, <2>8, <2>9, <2>10, <2>11, <2>12, <2>13 DEF MergedInPageOrder
  <1> QED
    BY AlwaysIInv, <1>1, PTL

(* Tasks, their results and the labels of the blocks keep their shapes,    *)
(* whatever labels the API sends (mapper.ts toBlockLabel).                 *)
THEOREM FnTypeCorrect == Spec => []FnTypeOK
  <1>1. IInv /\ FnInv => FnTypeOK
    <2> SUFFICES ASSUME IInv, FnInv PROVE FnTypeOK
      OBVIOUS
    <2>1. /\ TypeOK
          /\ task # NoTask => task \in Tasks
          /\ status \in {"none", "running", "done", "failed"}
          /\ task # NoTask <=> status # "none"
          /\ result # NoResult => status \in {"done", "failed"} /\ task.fn \notin OnLayout
          /\ read # NoIdentity => task.fn = "ID_VERIFICATION"
      BY DEF IInv, FnInv
    <2>2. ASSUME answer = "recognized", NEW i \in DOMAIN Document.blocks
          PROVE  Document.blocks[i].label \in BlockLabel
      <3> DEFINE blocks == Document.blocks
      <3>1. blocks \in Seq(LayoutBlock)
        BY <2>2, ResponsesAre, DocumentIs DEF Document
      <3> HIDE DEF blocks
      <3>2. \A j \in DOMAIN blocks : blocks[j] \in LayoutBlock
        BY <3>1
      <3>3. \A b \in LayoutBlock : b.label \in BlockLabel
        <4> DEFINE L == BlockLabel
                   B == Box
                   T == Text
        <4>1. LayoutBlock = [index : Nat, page : Nat, label : L, bbox : B, content : T]
          BY DEF LayoutBlock
        <4> HIDE DEF L, B, T
        <4>2. \A b \in LayoutBlock : b.label \in L
          BY <4>1
        <4> QED
          BY <4>2 DEF L
      <3> QED
        BY <3>2, <3>3 DEF blocks
    <2> QED
      BY <2>1, <2>2 DEF FnTypeOK
  <1> QED
    BY AlwaysIInv, AlwaysFnInv, <1>1, PTL

-----------------------------------------------------------------------------
(* SIGNING.                                                                *)
SlotSet(cues) ==
    [label : {matchCue(b.content, cues) : b \in LayoutBlock}, page : Nat,
     context : Seq(Text), bbox : Box, image : Int]
SlotState(cues) == [byImage : Seq(SlotSet(cues)), orphans : Seq(SlotSet(cues))]

LEMMA BlockFields ==
    \A b \in LayoutBlock : /\ b.index \in Nat /\ b.page \in Nat /\ b.label \in BlockLabel
                           /\ b.bbox \in Box /\ b.content \in Text
  <1> DEFINE L == BlockLabel
             B == Box
             T == Text
  <1>1. LayoutBlock = [index : Nat, page : Nat, label : L, bbox : B, content : T]
    BY DEF LayoutBlock
  <1> HIDE DEF L, B, T
  <1>2. \A b \in LayoutBlock : /\ b.index \in Nat /\ b.page \in Nat /\ b.label \in L
                               /\ b.bbox \in B /\ b.content \in T
    BY <1>1
  <1> QED
    BY <1>2 DEF L, B, T

(* Of the images near enough, one that is nearest.                         *)
LEMMA DistanceIsNat == \A a, b \in Box : distance(a, b) \in Nat
  <1>1. ASSUME NEW a \in Box, NEW b \in Box
        PROVE  distance(a, b) \in Nat
    <2> DEFINE dx == center(a)[1] - center(b)[1]
               dy == center(a)[2] - center(b)[2]
    <2>1. a[1] \in Nat /\ a[2] \in Nat /\ a[3] \in Nat /\ a[4] \in Nat
          /\ b[1] \in Nat /\ b[2] \in Nat /\ b[3] \in Nat /\ b[4] \in Nat
      BY DEF Box
    <2>2. dx \in Int /\ dy \in Int
      BY <2>1 DEF center
    <2>3. distance(a, b) = dx * dx + dy * dy
      BY DEF distance
    <2> HIDE DEF dx, dy
    <2>4. \A x \in Int : x * x \in Int /\ x * x >= 0
      OBVIOUS
    <2>5. dx * dx \in Int /\ dy * dy \in Int /\ dx * dx >= 0 /\ dy * dy >= 0
      BY <2>2, <2>4
    <2> QED
      BY <2>3, <2>5
  <1> QED
    BY <1>1

LEMMA NearestIs ==
    ASSUME NEW blocks \in Seq(LayoutBlock), NEW block \in LayoutBlock,
           CandidateImages(block, blocks) # {}
    PROVE  nearestImage(block, blocks) \in CandidateImages(block, blocks)
  <1> DEFINE C == CandidateImages(block, blocks)
             n == Len(blocks)
             gap(i) == distance(block.bbox, blocks[i].bbox)
             D == {gap(i) : i \in C}
  <1>1. n \in Nat /\ C \in SUBSET (1..n) /\ \A i \in C : blocks[i] \in LayoutBlock
    BY DEF CandidateImages
  <1>2. \A i \in C : gap(i) \in Nat
    BY <1>1, BlockFields, DistanceIsNat
  <1> HIDE DEF C, n, gap
  <1>3. PICK d \in D : \A e \in D : d <= e
    <2>1. D \in SUBSET Nat /\ D # {}
      BY <1>2 DEF C
    <2> HIDE DEF D
    <2> QED
      BY <2>1, LeastNat
  <1> DEFINE E == {i \in C : gap(i) = d}
  <1>4. Max(E) \in E /\ \A i \in E : i <= Max(E)
    <2>1. E \in SUBSET (1..n) /\ E # {}
      BY <1>1, <1>3
    <2> HIDE DEF E
    <2> QED
      BY <1>1, <2>1, MaxOfSubset
  <1>5. \E i \in C : \A j \in C : gap(i) < gap(j) \/ (gap(i) = gap(j) /\ i >= j)
    <2> DEFINE m == Max(E)
    <2> HIDE DEF m
    <2>1. m \in C /\ gap(m) = d /\ \A i \in C : gap(i) = d => i <= m
      BY <1>4 DEF m
    <2>2. \A j \in C : d <= gap(j) /\ gap(j) \in Nat /\ d \in Nat
      BY <1>2, <1>3
    <2>3. m \in Nat /\ \A j \in C : j \in Nat
      BY <1>1, <2>1
    <2> QED
      BY <2>1, <2>2, <2>3
  <1>6. nearestImage(block, blocks)
            = CHOOSE i \in C : \A j \in C : gap(i) < gap(j) \/ (gap(i) = gap(j) /\ i >= j)
    BY DEF nearestImage, C, gap
  <1> QED
    BY <1>5, <1>6 DEF C

(* What a slot stands for.                                                 *)
IsCue(b, cues) == b.label # "image" /\ matchCue(b.content, cues) # "none"
Holds(s, b) == s.page = b.page /\ \E c \in DOMAIN s.context : s.context[c] = b.content
OfImage(s, b) == s.image = b.index /\ s.page = b.page

(* A slot is opened for a block that it holds, and keeps what it is of.    *)
LEMMA SlotOfIs ==
    ASSUME NEW cues, NEW block \in LayoutBlock, NEW bbox \in Box, NEW image \in Int
    PROVE  LET s == slotOf(block, matchCue(block.content, cues), bbox, image)
           IN s \in SlotSet(cues) /\ Holds(s, block) /\ s.image = image /\ s.page = block.page
  <1> DEFINE cue == matchCue(block.content, cues)
             Labels == {matchCue(b.content, cues) : b \in LayoutBlock}
             one == <<block.content>>
             Contexts == Seq(Text)
             B == Box
             s == slotOf(block, cue, bbox, image)
  <1>1. cue \in Labels /\ block.page \in Nat /\ block.content \in Text
    BY BlockFields
  <1>2. one \in Contexts /\ DOMAIN one = {1} /\ one[1] = block.content
    <2> HIDE DEF Contexts
    <2>1. DOMAIN one = {1} /\ one[1] = block.content
      OBVIOUS
    <2>2. \A x \in Text : <<x>> \in Contexts
      BY DEF Contexts
    <2> QED
      BY <1>1, <2>1, <2>2
  <1>3. SlotSet(cues) = [label : Labels, page : Nat, context : Contexts, bbox : B, image : Int]
    BY DEF SlotSet
  <1>4. s = [label |-> cue, page |-> block.page, context |-> one, bbox |-> bbox, image |-> image]
    BY DEF slotOf
  <1>5. bbox \in B
    OBVIOUS
  <1> HIDE DEF cue, Labels, Contexts, B, one, s
  <1>6. s \in SlotSet(cues) /\ s.image = image /\ s.page = block.page /\ s.context = one
    BY <1>1, <1>2, <1>3, <1>4, <1>5
  <1>7. Holds(s, block)
    BY <1>2, <1>6 DEF Holds
  <1> QED
    BY <1>6, <1>7 DEF s, cue

LEMMA JoinedIs ==
    ASSUME NEW cues, NEW slot \in SlotSet(cues), NEW block \in LayoutBlock
    PROVE  LET s == joined(slot, block)
           IN /\ s \in SlotSet(cues) /\ s.image = slot.image /\ s.page = slot.page
              /\ s.page = block.page => Holds(s, block)
              /\ \A b \in LayoutBlock : Holds(slot, b) => Holds(s, b)
  <1> DEFINE Labels == {matchCue(b.content, cues) : b \in LayoutBlock}
             Contexts == Seq(Text)
             B == Box
             context == slot.context
             more == Append(context, block.content)
             s == joined(slot, block)
             n == Len(context)
  <1>1. SlotSet(cues) = [label : Labels, page : Nat, context : Contexts, bbox : B, image : Int]
    BY DEF SlotSet
  <1>2. block.content \in Text
    BY BlockFields
  <1>3. context \in Contexts
    <2> HIDE DEF Labels, Contexts, B
    <2> QED
      BY <1>1
  <1>4. /\ more \in Contexts /\ n \in Nat /\ DOMAIN context = 1..n /\ DOMAIN more = 1..(n + 1)
        /\ more[n + 1] = block.content /\ \A c \in 1..n : more[c] = context[c]
    <2> HIDE DEF context
    <2>1. context \in Seq(Text)
      BY <1>3
    <2> QED
      BY <1>2, <2>1
  <1>5. s = [slot EXCEPT !.context = more]
    BY DEF joined
  <1> HIDE DEF Labels, Contexts, B, more, s
  <1>6. /\ s \in SlotSet(cues) /\ s.image = slot.image /\ s.page = slot.page
        /\ s.context = more
    BY <1>1, <1>4, <1>5
  <1> HIDE DEF context, n
  <1>7. s.page = block.page => Holds(s, block)
    BY <1>4, <1>6 DEF Holds
  <1>8. \A b \in LayoutBlock : Holds(slot, b) => Holds(s, b)
    <2>1. \A c \in 1..n : c \in DOMAIN more
      BY <1>4
    <2> QED
      BY <1>4, <1>6, <2>1 DEF Holds, context
  <1> QED
    BY <1>6, <1>7, <1>8 DEF s

(* What a turn makes of the slots: nothing, an orphan, a slot opened for   *)
(* an image, or a cue that joined the slot of its image.                   *)
Orphaned(slots, then, block, cues) ==
    \E s \in SlotSet(cues) :
        Holds(s, block)
        /\ then = [slots EXCEPT !.orphans = Append(slots.orphans, s)]
Opened(slots, then, block, blocks, cues) ==
    \E s \in SlotSet(cues) :
        /\ Holds(s, block) /\ \E j \in 1..Len(blocks) : OfImage(s, blocks[j])
        /\ then = [slots EXCEPT !.byImage = Append(slots.byImage, s)]
Joined(slots, then, block, blocks) ==
    \E o \in 1..Len(slots.byImage) : \E j \in 1..Len(blocks) :
        /\ slots.byImage[o].image = blocks[j].index /\ blocks[j].page = block.page
        /\ then = [slots EXCEPT !.byImage =
                      [slots.byImage EXCEPT ![o] = joined(slots.byImage[o], block)]]

LEMMA SlotStateFields ==
    \A cues : \A slots \in SlotState(cues) :
        /\ slots.byImage \in Seq(SlotSet(cues)) /\ slots.orphans \in Seq(SlotSet(cues))
  <1> SUFFICES ASSUME NEW cues, NEW slots \in SlotState(cues)
               PROVE  slots.byImage \in Seq(SlotSet(cues)) /\ slots.orphans \in Seq(SlotSet(cues))
    OBVIOUS
  <1> DEFINE S == Seq(SlotSet(cues))
  <1>1. SlotState(cues) = [byImage : S, orphans : S]
    BY DEF SlotState
  <1> HIDE DEF S
  <1>2. slots.byImage \in S /\ slots.orphans \in S
    BY <1>1
  <1> QED
    BY <1>2 DEF S

LEMMA SlottedCases ==
    ASSUME NEW cues, NEW blocks \in Seq(LayoutBlock), NEW slots \in SlotState(cues),
           NEW block \in LayoutBlock
    PROVE  LET then == slotted(blocks, cues, slots, block)
           IN \/ ~IsCue(block, cues) /\ then = slots
              \/ Orphaned(slots, then, block, cues)
              \/ Opened(slots, then, block, blocks, cues)
              \/ Joined(slots, then, block, blocks)
  <1> DEFINE cue == matchCue(block.content, cues)
             near == nearestImage(block, blocks)
             image == blocks[near]
             Same == {i \in 1..Len(slots.byImage) : slots.byImage[i].image = image.index}
             open == SelectInSeq(slots.byImage, LAMBDA s : s.image = image.index)
             then == slotted(blocks, cues, slots, block)
             C == CandidateImages(block, blocks)
  <1>1. then = IF block.label = "image" \/ cue = "none"
               THEN slots
               ELSE IF C = {}
               THEN [slots EXCEPT !.orphans = Append(@, slotOf(block, cue, block.bbox, NoImage))]
               ELSE IF open = 0
               THEN [slots EXCEPT !.byImage =
                        Append(@, slotOf(block, cue, image.bbox, image.index))]
               ELSE [slots EXCEPT !.byImage =
                        [slots.byImage EXCEPT ![open] = joined(slots.byImage[open], block)]]
    BY DEF slotted, ReplaceAt
  <1>2. open = IF Same # {} THEN Min(Same) ELSE 0
    BY DEF SelectInSeq
  <1>3. slots.byImage \in Seq(SlotSet(cues))
    BY SlotStateFields
  <1>4. Len(slots.byImage) \in Nat
    BY <1>3
  <1> HIDE DEF then, open
  <1>5. CASE ~IsCue(block, cues)
    BY <1>1, <1>5 DEF IsCue, then
  <1>6. CASE IsCue(block, cues) /\ C = {}
    <2> DEFINE s == slotOf(block, cue, block.bbox, NoImage)
    <2>1. s \in SlotSet(cues) /\ Holds(s, block)
      <3>1. block.bbox \in Box /\ NoImage \in Int
        BY BlockFields DEF NoImage
      <3> QED
        BY <3>1, SlotOfIs
    <2>2. then = [slots EXCEPT !.orphans = Append(slots.orphans, s)]
      BY <1>1, <1>6 DEF IsCue
    <2> HIDE DEF s
    <2> QED
      BY <2>1, <2>2 DEF Orphaned, then
  <1>7. CASE IsCue(block, cues) /\ C # {}
    <2>1. near \in C
      BY <1>7, NearestIs
    <2>2. near \in 1..Len(blocks) /\ image \in LayoutBlock /\ image.page = block.page
      BY <2>1 DEF CandidateImages
    <2> HIDE DEF near
    <2>3. CASE Same = {}
      <3> DEFINE s == slotOf(block, cue, image.bbox, image.index)
      <3>1. s \in SlotSet(cues) /\ Holds(s, block) /\ OfImage(s, image)
        <4>1. image.bbox \in Box /\ image.index \in Int
          BY <2>2, BlockFields
        <4> HIDE DEF image
        <4>2. s \in SlotSet(cues) /\ Holds(s, block) /\ s.image = image.index /\ s.page = block.page
          BY <4>1, SlotOfIs
        <4> QED
          BY <2>2, <4>2 DEF OfImage
      <3>2. then = [slots EXCEPT !.byImage = Append(slots.byImage, s)]
        BY <1>1, <1>2, <1>7, <2>3 DEF IsCue
      <3> HIDE DEF s
      <3> QED
        BY <2>2, <3>1, <3>2 DEF Opened, then
    <2>4. CASE Same # {}
      <3>1. open \in Same
        <4> HIDE DEF image
        <4>1. Same \in SUBSET (1..Len(slots.byImage))
          OBVIOUS
        <4> HIDE DEF Same
        <4> QED
          BY <1>2, <1>4, <2>4, <4>1, MinOfSubset
      <3>2. open \in 1..Len(slots.byImage) /\ slots.byImage[open].image = image.index /\ open # 0
        BY <1>4, <3>1
      <3>3. then = [slots EXCEPT !.byImage =
                       [slots.byImage EXCEPT ![open] = joined(slots.byImage[open], block)]]
        BY <1>1, <1>7, <3>2 DEF IsCue
      <3> QED
        BY <2>2, <3>2, <3>3 DEF Joined, then
    <2> QED
      BY <2>3, <2>4
  <1> QED
    BY <1>5, <1>6, <1>7 DEF then

(* The turns of the loop keep a slot for every cue met so far.             *)
HeldIn(list, b) == \E i \in 1..Len(list) : Holds(list[i], b)
OfImages(list, blocks) == \A i \in 1..Len(list) : \E j \in 1..Len(blocks) : OfImage(list[i], blocks[j])
Indexed(blocks) == \A i \in 1..Len(blocks) : blocks[i].index = i - 1
SlotsKeep(slots, blocks, cues, k) ==
    /\ OfImages(slots.byImage, blocks)
    /\ \A j \in 1..k : IsCue(blocks[j], cues) =>
           HeldIn(slots.byImage, blocks[j]) \/ HeldIn(slots.orphans, blocks[j])

LEMMA SlotAdded ==
    ASSUME NEW S, NEW list \in Seq(S), NEW s \in S
    PROVE  LET more == Append(list, s)
           IN /\ more \in Seq(S)
              /\ \A b : HeldIn(list, b) \/ Holds(s, b) => HeldIn(more, b)
              /\ \A blocks : OfImages(list, blocks)
                             /\ (\E j \in 1..Len(blocks) : OfImage(s, blocks[j]))
                             => OfImages(more, blocks)
  <1> DEFINE more == Append(list, s)
             n == Len(list)
  <1>1. /\ more \in Seq(S) /\ n \in Nat /\ Len(more) = n + 1
        /\ more[n + 1] = s /\ \A i \in 1..n : more[i] = list[i]
    OBVIOUS
  <1> HIDE DEF more, n
  <1>2. \A i \in 1..Len(more) : i \in 1..n \/ i = n + 1
    BY <1>1
  <1>3. 1..n \subseteq 1..Len(more) /\ n + 1 \in 1..Len(more)
    BY <1>1
  <1>4. \A b : HeldIn(list, b) \/ Holds(s, b) => HeldIn(more, b)
    BY <1>1, <1>3 DEF HeldIn, n
  <1>5. ASSUME NEW blocks, OfImages(list, blocks),
               \E j \in 1..Len(blocks) : OfImage(s, blocks[j])
        PROVE  OfImages(more, blocks)
    BY <1>1, <1>2, <1>5 DEF OfImages, n
  <1> QED
    BY <1>1, <1>4, <1>5 DEF more

LEMMA SlotReplaced ==
    ASSUME NEW S, NEW list \in Seq(S), NEW s \in S, NEW o \in 1..Len(list),
           s.image = list[o].image, s.page = list[o].page
    PROVE  LET with == [list EXCEPT ![o] = s]
           IN /\ with \in Seq(S)
              /\ \A b : Holds(s, b) => HeldIn(with, b)
              /\ \A b : HeldIn(list, b) /\ (Holds(list[o], b) => Holds(s, b)) => HeldIn(with, b)
              /\ \A blocks : OfImages(list, blocks) => OfImages(with, blocks)
  <1> DEFINE with == [list EXCEPT ![o] = s]
             n == Len(list)
  <1>1. /\ with \in Seq(S) /\ n \in Nat /\ Len(with) = n /\ o \in 1..n
        /\ with[o] = s /\ \A i \in 1..n : i # o => with[i] = list[i]
    OBVIOUS
  <1> HIDE DEF with, n
  <1>2. \A b : Holds(s, b) => HeldIn(with, b)
    BY <1>1 DEF HeldIn
  <1>3. ASSUME NEW b, HeldIn(list, b), Holds(list[o], b) => Holds(s, b)
        PROVE  HeldIn(with, b)
    BY <1>1, <1>3 DEF HeldIn, n
  <1>4. ASSUME NEW blocks, OfImages(list, blocks)
        PROVE  OfImages(with, blocks)
    <2>1. ASSUME NEW i \in 1..n
          PROVE  with[i].image = list[i].image /\ with[i].page = list[i].page
      BY <1>1
    <2>2. \A i \in 1..n : \A b : OfImage(list[i], b) => OfImage(with[i], b)
      BY <2>1 DEF OfImage
    <2> QED
      BY <1>1, <1>4, <2>2 DEF OfImages, n
  <1> QED
    BY <1>1, <1>2, <1>3, <1>4 DEF with

LEMMA TurnKeeps ==
    ASSUME NEW cues, NEW blocks \in Seq(LayoutBlock), NEW slots \in SlotState(cues),
           NEW block \in LayoutBlock
    PROVE  LET then == slotted(blocks, cues, slots, block)
           IN /\ then \in SlotState(cues)
              /\ \A k \in 1..Len(blocks) :
                     Indexed(blocks) /\ block = blocks[k] /\ SlotsKeep(slots, blocks, cues, k - 1)
                     => SlotsKeep(then, blocks, cues, k)
  <1> DEFINE then == slotted(blocks, cues, slots, block)
             S == SlotSet(cues)
             L == Seq(S)
             opened == slots.byImage
             orphans == slots.orphans
             Before(k) == /\ Indexed(blocks) /\ block = blocks[k]
                          /\ SlotsKeep(slots, blocks, cues, k - 1)
  <1>1. opened \in L /\ orphans \in L
    BY SlotStateFields
  <1>2. SlotState(cues) = [byImage : L, orphans : L]
    BY DEF SlotState
  <1>3. Len(blocks) \in Nat /\ \A k \in 1..Len(blocks) : blocks[k] \in LayoutBlock
    OBVIOUS
  <1>4. \/ ~IsCue(block, cues) /\ then = slots
        \/ Orphaned(slots, then, block, cues)
        \/ Opened(slots, then, block, blocks, cues)
        \/ Joined(slots, then, block, blocks)
    BY SlottedCases
  <1> HIDE DEF then, S, opened, orphans
  <1>5. ASSUME NEW k \in 1..Len(blocks), Before(k),
               OfImages(opened, blocks) => OfImages(then.byImage, blocks),
               IsCue(block, cues) => HeldIn(then.byImage, block) \/ HeldIn(then.orphans, block),
               \A b \in LayoutBlock :
                   /\ HeldIn(opened, b) => HeldIn(then.byImage, b)
                   /\ HeldIn(orphans, b) => HeldIn(then.orphans, b)
        PROVE  SlotsKeep(then, blocks, cues, k)
    <2>1. \A j \in 1..k : (j \in 1..(k - 1) \/ j = k) /\ blocks[j] \in LayoutBlock
      BY <1>3
    <2>2. /\ OfImages(opened, blocks)
          /\ \A j \in 1..(k - 1) : IsCue(blocks[j], cues) =>
                 HeldIn(opened, blocks[j]) \/ HeldIn(orphans, blocks[j])
      BY <1>5 DEF SlotsKeep, opened, orphans
    <2> QED
      BY <1>5, <2>1, <2>2 DEF SlotsKeep
  <1>6. CASE ~IsCue(block, cues) /\ then = slots
    BY <1>5, <1>6 DEF opened, orphans, then
  <1>7. CASE Orphaned(slots, then, block, cues)
    <2>1. PICK s \in S : /\ Holds(s, block)
                         /\ then = [slots EXCEPT !.orphans = Append(slots.orphans, s)]
      BY <1>7 DEF Orphaned, S
    <2> DEFINE more == Append(orphans, s)
    <2>2. /\ more \in L /\ \A b : HeldIn(orphans, b) \/ Holds(s, b) => HeldIn(more, b)
      BY <1>1, SlotAdded
    <2>3. then = [slots EXCEPT !.orphans = more]
      BY <2>1 DEF orphans
    <2> HIDE DEF more, L
    <2>4. then \in SlotState(cues) /\ then.byImage = opened /\ then.orphans = more
      BY <1>1, <1>2, <2>2, <2>3 DEF opened
    <2> QED
      BY <1>5, <2>1, <2>2, <2>4 DEF then
  <1>8. CASE Opened(slots, then, block, blocks, cues)
    <2>1. PICK s \in S :
              /\ Holds(s, block) /\ \E j \in 1..Len(blocks) : OfImage(s, blocks[j])
              /\ then = [slots EXCEPT !.byImage = Append(slots.byImage, s)]
      BY <1>8 DEF Opened, S
    <2> DEFINE more == Append(opened, s)
    <2>2. /\ more \in L /\ \A b : HeldIn(opened, b) \/ Holds(s, b) => HeldIn(more, b)
          /\ OfImages(opened, blocks) => OfImages(more, blocks)
      BY <1>1, <2>1, SlotAdded
    <2>3. then = [slots EXCEPT !.byImage = more]
      BY <2>1 DEF opened
    <2> HIDE DEF more, L
    <2>4. then \in SlotState(cues) /\ then.byImage = more /\ then.orphans = orphans
      BY <1>1, <1>2, <2>2, <2>3 DEF orphans
    <2> QED
      BY <1>5, <2>1, <2>2, <2>4 DEF then
  <1>9. CASE Joined(slots, then, block, blocks)
    <2>1. PICK o \in 1..Len(opened), j \in 1..Len(blocks) :
              /\ opened[o].image = blocks[j].index /\ blocks[j].page = block.page
              /\ then = [slots EXCEPT !.byImage = [opened EXCEPT ![o] = joined(opened[o], block)]]
      BY <1>9 DEF Joined, opened
    <2> DEFINE slot == opened[o]
               s == joined(slot, block)
               with == [opened EXCEPT ![o] = s]
    <2>2. slot \in S
      BY <1>1
    <2>3. /\ s \in S /\ s.image = slot.image /\ s.page = slot.page
          /\ s.page = block.page => Holds(s, block)
          /\ \A b \in LayoutBlock : Holds(slot, b) => Holds(s, b)
      BY <2>2, JoinedIs DEF S
    <2> HIDE DEF s
    <2>4. /\ with \in L
          /\ \A b : Holds(s, b) => HeldIn(with, b)
          /\ \A b : HeldIn(opened, b) /\ (Holds(slot, b) => Holds(s, b)) => HeldIn(with, b)
          /\ OfImages(opened, blocks) => OfImages(with, blocks)
      BY <1>1, <2>3, SlotReplaced
    <2>5. then = [slots EXCEPT !.byImage = with]
      BY <2>1 DEF s
    <2> HIDE DEF with, L, slot
    <2>6. then \in SlotState(cues) /\ then.byImage = with /\ then.orphans = orphans
      BY <1>1, <1>2, <2>4, <2>5 DEF orphans
    <2>7. ASSUME NEW k \in 1..Len(blocks), Before(k)
          PROVE  s.page = block.page
      <3>1. PICK i \in 1..Len(blocks) : OfImage(slot, blocks[i])
        BY <2>1, <2>7 DEF SlotsKeep, OfImages, opened, slot
      <3>2. i - 1 = j - 1
        BY <2>1, <2>7, <3>1 DEF Indexed, OfImage, slot
      <3>3. i = j
        BY <1>3, <3>2
      <3> QED
        BY <2>1, <2>3, <3>1, <3>3 DEF OfImage
    <2>8. ASSUME NEW k \in 1..Len(blocks), Before(k)
          PROVE  SlotsKeep(then, blocks, cues, k)
      <3>1. HeldIn(then.byImage, block)
        BY <2>3, <2>4, <2>6, <2>7, <2>8
      <3>2. \A b \in LayoutBlock : HeldIn(opened, b) => HeldIn(then.byImage, b)
        BY <2>3, <2>4, <2>6
      <3> QED
        BY <1>5, <2>4, <2>6, <2>8, <3>1, <3>2
    <2> QED
      BY <2>6, <2>8 DEF then
  <1> QED
    BY <1>4, <1>6, <1>7, <1>8, <1>9 DEF then

SlottedBy(blocks, cues) ==
    [p \in SlotState(cues) \X LayoutBlock |-> slotted(blocks, cues, p[1], p[2])]
NoSlots == [byImage |-> <<>>, orphans |-> <<>>]
SlotsOf(blocks, cues) ==
    FoldLeft(LAMBDA sofar, block : slotted(blocks, cues, sofar, block),
             [byImage |-> <<>>, orphans |-> <<>>], blocks)

LEMMA SlottedType ==
    ASSUME NEW cues, NEW blocks \in Seq(LayoutBlock)
    PROVE  /\ NoSlots \in SlotState(cues)
           /\ SlottedBy(blocks, cues) \in [SlotState(cues) \X LayoutBlock -> SlotState(cues)]
           /\ \A v \in SlotState(cues), e \in LayoutBlock :
                  SlottedBy(blocks, cues)[<<v, e>>] = slotted(blocks, cues, v, e)
  <1>1. NoSlots \in SlotState(cues)
    BY DEF NoSlots, SlotState
  <1> DEFINE V == SlotState(cues)
             h == SlottedBy(blocks, cues)
  <1>2. \A v \in V, e \in LayoutBlock : slotted(blocks, cues, v, e) \in V
    BY TurnKeeps
  <1>3. h = [p \in V \X LayoutBlock |-> slotted(blocks, cues, p[1], p[2])]
    BY DEF SlottedBy
  <1> HIDE DEF V, h
  <1>4. /\ h \in [V \X LayoutBlock -> V]
        /\ \A v \in V, e \in LayoutBlock : h[<<v, e>>] = slotted(blocks, cues, v, e)
    BY <1>2, <1>3
  <1> QED
    BY <1>1, <1>4 DEF V, h

LEMMA SlotsFold ==
    ASSUME NEW cues, NEW blocks \in Seq(LayoutBlock)
    PROVE  FoldsTo(SlotsOf(blocks, cues), blocks, NoSlots, SlottedBy(blocks, cues), SlotState(cues))
  <1> DEFINE seq == blocks
             n == Len(seq)
             F(g) == [s \in SUBSET DOMAIN seq |-> IF s = {} THEN NoSlots ELSE
                          slotted(blocks, cues, g[s \ {Max(s)}], seq[Max(s)])]
             i == CHOOSE it : it = F(it)
  <1>1. SlotsOf(blocks, cues) = i[DOMAIN seq]
    BY DEF SlotsOf, NoSlots, FoldLeft, MapThenFoldSet
  <1>2. /\ seq \in Seq(LayoutBlock) /\ n \in Nat /\ DOMAIN seq = 1..n
        /\ \A x \in 1..n : seq[x] \in LayoutBlock
    OBVIOUS
  <1>3. /\ SlottedBy(blocks, cues) \in [SlotState(cues) \X LayoutBlock -> SlotState(cues)] /\ NoSlots \in SlotState(cues)
        /\ \A v \in SlotState(cues), e \in LayoutBlock : SlottedBy(blocks, cues)[<<v, e>>] = slotted(blocks, cues, v, e)
    BY SlottedType
  <1> HIDE DEF seq, n
  <1>4. Loop(seq, LayoutBlock, NoSlots, SlottedBy(blocks, cues), SlotState(cues))
    BY <1>2, <1>3 DEF Loop
  <1>5. PICK g \in [SUBSET (1..n) -> SlotState(cues)] : FoldTable(g, n, NoSlots, SlottedBy(blocks, cues), seq)
    BY <1>4, FoldTableExists DEF n
  <1>6. g = F(g)
    <2>1. ASSUME NEW s \in SUBSET (1..n), s # {}
          PROVE  g[s] = slotted(blocks, cues, g[s \ {Max(s)}], seq[Max(s)])
      <3>1. Max(s) \in 1..n
        BY <1>2, <2>1, MaxOfSubset
      <3>2. seq[Max(s)] \in LayoutBlock /\ g[s \ {Max(s)}] \in SlotState(cues)
        BY <1>2, <3>1
      <3> QED
        BY <1>3, <1>5, <2>1, <3>2 DEF FoldTable
    <2> QED
      BY <1>2, <1>5, <2>1 DEF FoldTable
  <1>7. i = F(i)
    <2> HIDE DEF F
    <2> QED
      BY <1>6
  <1>8. Alike(i, g, n)
    <2> HIDE DEF i
    <2> QED
      BY <1>2, <1>6, <1>7 DEF Alike
  <1>9. i[1..n] = g[1..n]
    <2> HIDE DEF i
    <2> QED
      BY <1>2, <1>8, SameTable
  <1>10. FoldsTo(g[1..n], seq, NoSlots, SlottedBy(blocks, cues), SlotState(cues))
    BY <1>4, <1>5, TableFolds DEF n
  <1> HIDE DEF i
  <1> QED
    BY <1>1, <1>2, <1>9, <1>10 DEF seq

(* Every cue of a document is held in a slot.                              *)
LEMMA CuesHeld ==
    ASSUME NEW cues, NEW blocks \in Seq(LayoutBlock), Indexed(blocks)
    PROVE  LET slots == correlateSlots(blocks, cues)
           IN /\ slots \in Seq(SlotSet(cues))
              /\ \A j \in 1..Len(blocks) : IsCue(blocks[j], cues) => HeldIn(slots, blocks[j])
  <1> DEFINE n == Len(blocks)
             all == SlotsOf(blocks, cues)
             V == SlotState(cues)
             h == SlottedBy(blocks, cues)
  <1>1. PICK t : Turns(t, blocks, NoSlots, h, V) /\ all = t[n]
    BY SlotsFold DEF FoldsTo
  <1> DEFINE In(k) == t[k] \in V /\ SlotsKeep(t[k], blocks, cues, k)
             P == {k \in 0..n : In(k)}
  <1>2. n \in Nat /\ \A k \in 1..n : blocks[k] \in LayoutBlock
    OBVIOUS
  <1>3. In(0)
    <2>1. t[0] = NoSlots /\ t[0] \in V
      BY <1>1 DEF Turns
    <2>2. SlotsKeep(NoSlots, blocks, cues, 0)
      BY DEF SlotsKeep, OfImages, NoSlots
    <2> QED
      BY <2>1, <2>2
  <1>4. ASSUME NEW k \in 1..n, In(k - 1)
        PROVE  In(k)
    <2>1. t[k] = h[<<t[k-1], blocks[k]>>] /\ t[k] \in V
      BY <1>1 DEF Turns
    <2>2. t[k] = slotted(blocks, cues, t[k-1], blocks[k])
      BY <1>2, <1>4, <2>1, SlottedType
    <2>3. SlotsKeep(slotted(blocks, cues, t[k-1], blocks[k]), blocks, cues, k)
      BY <1>2, <1>4, TurnKeeps
    <2> QED
      BY <2>1, <2>2, <2>3
  <1>5. In(n)
    <2> HIDE DEF In, n
    <2>1. 0 \in P
      BY <1>2, <1>3
    <2>2. \A k \in 1..n : k - 1 \in P => k \in P
      BY <1>2, <1>4
    <2>3. 0..n \subseteq P
      BY <1>2, <2>1, <2>2, PrefixInduction
    <2> QED
      BY <1>2, <2>3
  <1>6. all \in V /\ SlotsKeep(all, blocks, cues, n)
    BY <1>1, <1>5
  <1>7. correlateSlots(blocks, cues) = all.byImage \o all.orphans
    BY DEF correlateSlots, SlotsOf
  <1> HIDE DEF all, n
  <1> DEFINE a == all.byImage
             b == all.orphans
             S == SlotSet(cues)
             slots == a \o b
  <1>8. a \in Seq(S) /\ b \in Seq(S)
    BY <1>6, SlotStateFields
  <1>9. \A j \in 1..n : IsCue(blocks[j], cues) => HeldIn(a, blocks[j]) \/ HeldIn(b, blocks[j])
    BY <1>6 DEF SlotsKeep
  <1> HIDE DEF a, b, S
  <1>10. /\ slots \in Seq(S) /\ Len(a) \in Nat /\ Len(b) \in Nat /\ Len(slots) = Len(a) + Len(b)
         /\ \A i \in 1..Len(a) : slots[i] = a[i]
         /\ \A i \in 1..Len(b) : slots[Len(a) + i] = b[i]
    BY <1>8
  <1> HIDE DEF slots
  <1>11. /\ \A i \in 1..Len(a) : i \in 1..Len(slots)
         /\ \A i \in 1..Len(b) : Len(a) + i \in 1..Len(slots)
    BY <1>10
  <1>12. \A x : HeldIn(a, x) \/ HeldIn(b, x) => HeldIn(slots, x)
    BY <1>10, <1>11 DEF HeldIn
  <1>13. slots \in Seq(S) /\ \A j \in 1..n : IsCue(blocks[j], cues) => HeldIn(slots, blocks[j])
    BY <1>9, <1>10, <1>12
  <1> QED
    BY <1>7, <1>13 DEF slots, a, b, S, n

(* The bodies that a call may get are those of its page, and an image is   *)
(* one page.                                                               *)
OwnPages ==
    /\ \A p \in Page : call[p].body \in {NoBody} \cup ResponsesOf[p]
    /\ mimeGroup = "image" => pages <= 1

LEMMA InitOwnPages == Init => OwnPages
  BY DEF Init, GlmInit, OwnPages, NewCall

LEMMA StepOwnPages == IInv /\ OwnPages /\ [Next]_vars => OwnPages'
  <1> SUFFICES ASSUME IInv, OwnPages, [Next]_vars PROVE OwnPages'
    OBVIOUS
  <1>1. call \in [Page -> Calls] /\ pages \in Nat
    BY TypeIs, GlmAssumption DEF IInv
  <1>2. CASE UNCHANGED <<mimeGroup, pages, call>>
    BY <1>2 DEF OwnPages
  <1>3. ASSUME NEW n \in Page, splitPdfToPageImages(n)
        PROVE  OwnPages'
    <2>1. /\ call' = [p \in Page |-> IF p <= n THEN [NewCall EXCEPT !.pc = "queued"] ELSE NewCall]
          /\ pages' = n /\ mimeGroup' = mimeGroup /\ (mimeGroup = "image" => n = 1)
      BY <1>3 DEF splitPdfToPageImages
    <2>2. \A p \in Page : call'[p].body = NoBody
      BY <2>1 DEF NewCall
    <2> QED
      BY <2>1, <2>2 DEF OwnPages
  <1>4. ASSUME NEW p \in Page, NEW c, call' = [call EXCEPT ![p] = c],
               c.body \in {NoBody} \cup ResponsesOf[p], UNCHANGED <<mimeGroup, pages>>
        PROVE  OwnPages'
    <2>1. call'[p] = c /\ \A q \in Page : q # p => call'[q] = call[q]
      BY <1>1, <1>4
    <2> QED
      BY <1>4, <2>1 DEF OwnPages
  <1>5. ASSUME NEW p \in Page
        PROVE  /\ call[p].body \in {NoBody} \cup ResponsesOf[p]
               /\ \A x : [call[p] EXCEPT !.pc = x].body = call[p].body
               /\ [call[p] EXCEPT !.pc = "sent", !.attempt = @ + 1].body = call[p].body
               /\ \A why : FailedCall(p, why).body = call[p].body
               /\ \A body : [call[p] EXCEPT !.pc = "parsed", !.body = body].body = body
    <2>1. call[p] \in Calls
      BY <1>1
    <2> QED
      BY <2>1 DEF OwnPages, Calls, FailedCall
  <1>6. ASSUME NEW p \in Page, mapWithConcurrency(p)
        PROVE  OwnPages'
    BY <1>4, <1>5, <1>6 DEF mapWithConcurrency
  <1>7. ASSUME NEW p \in Page, layoutParsing(p)
        PROVE  OwnPages'
    <2>1. ASSUME NEW why, Settle(p, FailedCall(p, why))
          PROVE  OwnPages'
      <3> DEFINE c == FailedCall(p, why)
      <3>1. call' = [call EXCEPT ![p] = c] /\ UNCHANGED <<mimeGroup, pages>>
        BY <2>1 DEF Settle
      <3>2. c.body \in {NoBody} \cup ResponsesOf[p]
        BY <1>5
      <3> HIDE DEF c
      <3> QED
        BY <1>4, <3>1, <3>2
    <2>2. CASE TransientFailure(p)
      BY <1>4, <1>5, <2>1, <2>2 DEF TransientFailure
    <2>3. CASE backedOff(p)
      <3> DEFINE c == [call[p] EXCEPT !.pc = "sent", !.attempt = @ + 1]
      <3>1. call' = [call EXCEPT ![p] = c] /\ UNCHANGED <<mimeGroup, pages>>
        BY <2>3 DEF backedOff
      <3>2. c.body \in {NoBody} \cup ResponsesOf[p]
        BY <1>5
      <3> HIDE DEF c
      <3> QED
        BY <1>4, <3>1, <3>2
    <2>4. CASE Refused(p) \/ BodyLost(p)
      BY <2>1, <2>4 DEF Refused, BodyLost
    <2>5. CASE ok(p)
      BY <1>4, <1>5, <2>5 DEF ok
    <2>6. CASE json(p)
      <3>1. PICK body \in ResponsesOf[p] :
                Settle(p, [call[p] EXCEPT !.pc = "parsed", !.body = body])
        BY <2>6 DEF json
      <3> DEFINE c == [call[p] EXCEPT !.pc = "parsed", !.body = body]
      <3>2. c.body \in {NoBody} \cup ResponsesOf[p]
        BY <1>5
      <3>3. call' = [call EXCEPT ![p] = c] /\ UNCHANGED <<mimeGroup, pages>>
        BY <3>1 DEF Settle
      <3> HIDE DEF c
      <3> QED
        BY <1>4, <3>2, <3>3
    <2> QED
      BY <1>7, <2>2, <2>3, <2>4, <2>5, <2>6 DEF layoutParsing
  <1>8. CASE Recognize
    <2>1. CASE SplitFails
      BY <1>2, <2>1 DEF SplitFails
    <2> QED
      BY <1>3, <1>6, <1>7, <1>8, <2>1 DEF Recognize, recognize
  <1>9. CASE UNCHANGED <<mimeGroup, pages, call, answer>>
    BY <1>2, <1>9
  <1> QED
    BY <1>8, <1>9 DEF Next, Execute, executeSigning, Compute, executeReceiptParsing,
                      Verify, FillForm, executeDocumentAuthenticity, Returns,
                      ModelFails, vars

LEMMA AlwaysOwnPages == Spec => [](IInv /\ OwnPages)
  <1>1. Init => IInv /\ OwnPages
    BY InitIInv, InitOwnPages
  <1>2. (IInv /\ OwnPages) /\ [Next]_vars => (IInv /\ OwnPages)'
    BY StepIInv, StepOwnPages
  <1> QED
    BY <1>1, <1>2, PTL DEF Spec

(* When each response is of one page, a block is on the page that it was   *)
(* read from.                                                              *)
LEMMA OnOwnPage ==
    ASSUME IInv, OwnPages, answer = "recognized"
    PROVE  /\ Document.blocks \in Seq(LayoutBlock) /\ Indexed(Document.blocks)
           /\ OnePageEach =>
                  \A i \in 1..Len(Document.blocks) :
                      /\ Document.blocks[i].page \in Sent
                      /\ Document.blocks[i].content.of = Document.blocks[i].page
  <1> DEFINE rs == Responses
             all == MergeOf(rs)
             blocks == Document.blocks
             n == Len(blocks)
  <1>1. /\ pages \in Nat /\ rs \in Seq(LayoutParsingResponse) /\ Len(rs) = pages
        /\ \A p \in 1..pages : rs[p] = call[p].body
    BY ResponsesAre
  <1> HIDE DEF rs
  <1>2. /\ blocks \in Seq(LayoutBlock) /\ n = Len(all.blocks)
        /\ \A i \in 1..n : /\ blocks[i].index = i - 1
                           /\ blocks[i].page = all.blocks[i].page
                           /\ blocks[i].content = all.blocks[i].content
    <2>1. Document = mapLayoutParsing(rs)
      BY DEF Document, rs
    <2> QED
      BY <1>1, <2>1, DocumentIs
  <1>3. \A i \in 1..n : OfResponse(rs, pages, all.blocks[i])
    BY <1>1, <1>2, MergeIs DEF MergedUpTo
  <1> HIDE DEF all, blocks, n
  <1>4. ASSUME OnePageEach
        PROVE  \A p \in 0..pages : UpTo(Counts(rs), p) = p
    <2> DEFINE counts == Counts(rs)
               P == {p \in 0..pages : UpTo(counts, p) = p}
    <2>1. \A p \in 1..pages : counts[p] = 1
      BY <1>1, <1>4 DEF Counts, OnePageEach, Sent, rs
    <2> HIDE DEF counts
    <2>2. UpTo(counts, 0) = 0
      <3>1. 1..0 = {}
        OBVIOUS
      <3> QED
        BY <3>1, SumOfNone DEF UpTo
    <2>3. ASSUME NEW p \in 1..pages, p - 1 \in P
          PROVE  p \in P
      <3>1. UpTo(counts, p) = UpTo(counts, p - 1) + counts[p]
        BY <1>1, <2>1, UpToStep
      <3>2. UpTo(counts, p) = (p - 1) + 1
        BY <2>1, <2>3, <3>1
      <3> QED
        BY <1>1, <3>2
    <2>4. 0 \in P
      BY <1>1, <2>2
    <2> HIDE DEF P
    <2>5. 0..pages \subseteq P
      BY <1>1, <2>3, <2>4, PrefixInduction
    <2> QED
      BY <2>5 DEF P, counts
  <1>5. ASSUME OnePageEach, NEW i \in 1..n
        PROVE  blocks[i].page \in Sent /\ blocks[i].content.of = blocks[i].page
    <2>1. PICK p \in 1..pages :
              Within(rs[p].layout, UpTo(Counts(rs), p - 1), blocks[i].page, blocks[i].content)
      BY <1>2, <1>3 DEF OfResponse
    <2>2. p - 1 \in 0..pages /\ UpTo(Counts(rs), p - 1) = p - 1
      BY <1>1, <1>4, <1>5
    <2> DEFINE layout == rs[p].layout
    <2>3. PICK d \in 1..Len(layout) :
              /\ blocks[i].page = (p - 1) + d
              /\ \E e \in DOMAIN layout[d] : blocks[i].content = layout[d][e].content
      BY <2>1, <2>2 DEF Within
    <2>4. pageCount(rs[p]) = 1 /\ rs[p] \in LayoutParsingResponse
      BY <1>1, <1>5 DEF OnePageEach, Sent, rs
    <2>5. Len(layout) \in Nat /\ Len(layout) <= 1 /\ DOMAIN layout = 1..Len(layout)
      BY <2>4, PageCounts, ResponseFields, LayoutLen
    <2>6. d = 1 /\ d \in DOMAIN layout
      BY <2>5
    <2>7. blocks[i].page = p /\ p \in Sent
      BY <1>1, <2>3, <2>6 DEF Sent
    <2>8. rs[p] \in ResponsesOf[p] /\ p \in Page
      <3>1. p \in Page
        BY <1>1, TypeIs, GlmAssumption DEF IInv, Page
      <3>2. call[p].pc = "parsed"
        BY <2>7 DEF IInv, AllParsed
      <3>3. call[p].body # NoBody
        BY <3>1, <3>2, TypeIs DEF IInv, Consistent
      <3> QED
        BY <1>1, <3>1, <3>3 DEF OwnPages
    <2>9. \A e \in DOMAIN layout[d] : layout[d][e].content.of = p
      BY <2>6, <2>8, GlmAssumption DEF Page
    <2> QED
      BY <2>3, <2>7, <2>9
  <1> QED
    BY <1>2, <1>5 DEF Indexed, blocks, n

(* What may have become of the i-th slot: a mark is judged signed only     *)
(* where the model saw a crop.  The slots judged are the first ones, in    *)
(* their order, and all of them when the task is done.                     *)
Marks(i) == {toBlock(Slots[i], signed) :
                signed \in IF cropRegion(Slots[i]) = NoPage THEN {FALSE} ELSE BOOLEAN}
AnyMark == UNION {Marks(i) : i \in 1..Len(Slots)}

JudgedInOrder ==
    /\ judged \in Seq(AnyMark)
    /\ \A i \in 1..Len(judged) : judged[i] \in Marks(i)
    /\ status = "done" => Len(judged) >= Len(Slots)

SignInv ==
    /\ status = "none" => judged = <<>>
    /\ task.fn = "SIGNING" => JudgedInOrder

LEMMA SlotsAre ==
    ASSUME IInv, OwnPages, FnInv, task.fn = "SIGNING"
    PROVE  /\ answer = "recognized" /\ Len(Slots) \in Nat
           /\ \A j \in 1..Len(Document.blocks) :
                  IsCue(Document.blocks[j], task.signatureCues)
                  => HeldIn(Slots, Document.blocks[j])
  <1> DEFINE blocks == Document.blocks
             cues == task.signatureCues
  <1>1. answer = "recognized"
    BY DEF FnInv, OnLayout, NoTask
  <1>2. blocks \in Seq(LayoutBlock) /\ Indexed(blocks)
    BY <1>1, OnOwnPage
  <1>3. Slots = correlateSlots(blocks, cues)
    BY DEF Slots
  <1> HIDE DEF blocks, cues
  <1>4. /\ Slots \in Seq(SlotSet(cues))
        /\ \A j \in 1..Len(blocks) : IsCue(blocks[j], cues) => HeldIn(Slots, blocks[j])
    BY <1>2, <1>3, CuesHeld
  <1>5. Len(Slots) \in Nat
    BY <1>4
  <1> QED
    BY <1>1, <1>4, <1>5 DEF blocks, cues

LEMMA SlotsStay ==
    ASSUME UNCHANGED <<mimeGroup, pages, call, answer, task>>
    PROVE  Slots' = Slots /\ \A i : Marks(i)' = Marks(i)
  <1>1. Responses' = Responses /\ Sent' = Sent
    BY DEF Responses, Sent
  <1>2. Document' = Document
    BY <1>1 DEF Document
  <1>3. Slots' = Slots
    BY <1>2 DEF Slots
  <1> QED
    BY <1>1, <1>3 DEF Marks, toBlock, cropRegion, rasterizePages

LEMMA StepSignInv == IInv /\ OwnPages /\ FnInv /\ SignInv /\ [Next]_vars => SignInv'
  <1> SUFFICES ASSUME IInv, OwnPages, FnInv, SignInv, [Next]_vars PROVE SignInv'
    OBVIOUS
  <1>1. ASSUME UNCHANGED <<mimeGroup, pages, call, answer, task, judged>>,
               status' = "done" /\ status # "done" /\ task.fn = "SIGNING" =>
                   Len(judged) >= Len(Slots),
               status' = "none" => status = "none"
        PROVE  SignInv'
    <2>1. Slots' = Slots /\ \A i : Marks(i)' = Marks(i)
      BY <1>1, SlotsStay
    <2>2. AnyMark' = AnyMark
      BY <2>1 DEF AnyMark
    <2> QED
      BY <1>1, <2>1, <2>2 DEF SignInv, JudgedInOrder
  <1>2. CASE UNCHANGED vars
    BY <1>1, <1>2 DEF vars
  <1>3. CASE Recognize
    BY <1>3 DEF Recognize, fnVars, SignInv, NoTask
  <1>4. ASSUME NEW t \in Tasks, Execute(t)
        PROVE  SignInv'
    <2>1. judged = <<>> /\ judged' = <<>> /\ status' = "running"
      BY <1>4 DEF Execute, FnInv, SignInv
    <2>2. task'.fn = "SIGNING" => JudgedInOrder'
      BY <2>1 DEF JudgedInOrder
    <2> QED
      BY <2>1, <2>2 DEF SignInv
  <1>5. CASE executeSigning
    <2> DEFINE n == Len(judged)
    <2>1. /\ task.fn = "SIGNING" /\ status = "running"
          /\ UNCHANGED <<mimeGroup, pages, call, answer, task>>
      BY <1>5 DEF executeSigning
    <2>2. Len(Slots) \in Nat /\ JudgedInOrder
      BY <2>1, SlotsAre DEF SignInv
    <2>3. judged \in Seq(AnyMark) /\ n \in Nat
      BY <2>2 DEF JudgedInOrder
    <2>4. CASE n < Len(Slots)
      <3>1. PICK signed \in IF cropRegion(NextSlot) = NoPage THEN {FALSE} ELSE BOOLEAN :
                judged' = Append(judged, toBlock(NextSlot, signed)) /\ UNCHANGED status
        BY <1>5, <2>4 DEF executeSigning
      <3> DEFINE mark == toBlock(NextSlot, signed)
      <3>2. mark \in Marks(n + 1)
        BY <3>1 DEF Marks, NextSlot
      <3>3. n + 1 \in 1..Len(Slots)
        BY <2>2, <2>3, <2>4
      <3> HIDE DEF mark
      <3>4. mark \in AnyMark
        BY <3>2, <3>3 DEF AnyMark
      <3>5. /\ judged' \in Seq(AnyMark) /\ Len(judged') = n + 1 /\ judged'[n + 1] = mark
            /\ \A i \in 1..n : judged'[i] = judged[i]
        BY <2>3, <3>1, <3>4 DEF mark
      <3>6. \A i \in 1..Len(judged') : judged'[i] \in Marks(i)
        <4>1. \A i \in 1..Len(judged') : i \in 1..n \/ i = n + 1
          BY <2>3, <3>5
        <4> QED
          BY <2>2, <3>2, <3>5, <4>1 DEF JudgedInOrder
      <3>7. AnyMark' = AnyMark /\ \A i : Marks(i)' = Marks(i)
        BY <2>1, SlotsStay DEF AnyMark
      <3>8. status' = "running"
        BY <2>1, <3>1
      <3> QED
        BY <3>5, <3>6, <3>7, <3>8 DEF SignInv, JudgedInOrder
    <2>5. CASE ~(n < Len(Slots))
      <3>1. UNCHANGED judged /\ n >= Len(Slots) /\ status' = "done"
        BY <1>5, <2>2, <2>3, <2>5 DEF executeSigning
      <3> QED
        BY <1>1, <2>1, <3>1
    <2> QED
      BY <2>4, <2>5
  <1>6. CASE Compute \/ executeReceiptParsing \/ Verify \/ FillForm \/ executeDocumentAuthenticity
    <2>1. task.fn # "SIGNING" /\ task' = task /\ status' # "none"
      BY <1>6 DEF Compute, executeReceiptParsing, Verify, FillForm,
                  executeDocumentAuthenticity, Returns
    <2> QED
      BY <2>1 DEF SignInv
  <1>7. CASE ModelFails
    BY <1>1, <1>7 DEF ModelFails
  <1> QED
    BY <1>2, <1>3, <1>4, <1>5, <1>6, <1>7 DEF Next

LEMMA AlwaysSignInv == Spec => [](IInv /\ OwnPages /\ FnInv /\ SignInv)
  <1>1. Init => SignInv
    BY DEF Init, SignInv, NoTask
  <1>2. (IInv /\ OwnPages /\ FnInv /\ SignInv) /\ [Next]_vars
            => (IInv /\ OwnPages /\ FnInv /\ SignInv)'
    BY StepIInv, StepOwnPages, StepFnInv, StepSignInv
  <1> QED
    BY <1>1, <1>2, InitIInv, InitOwnPages, InitFnInv, PTL DEF Spec

(* A document is reported executed only if each of its cues is in a slot   *)
(* whose mark the model saw, on the page the cue was read from, and judged *)
(* signed, whatever cues, boxes and bodies there are (signing/execute.ts). *)
THEOREM ExecutedIsSigned == Spec => []ExecutedMeansSigned
  <1>1. IInv /\ OwnPages /\ FnInv /\ SignInv => ExecutedMeansSigned
    <2> SUFFICES ASSUME IInv, OwnPages, FnInv, SignInv,
                        status = "done", task.fn = "SIGNING", assemble(judged).fullyExecuted,
                        NEW cue \in Cues
                 PROVE  \E i \in DOMAIN judged :
                            /\ cue.content \in {Slots[i].context[c] : c \in DOMAIN Slots[i].context}
                            /\ Slots[i].page = cue.page
                            /\ judged[i].signed
                            /\ OnePageEach => judged[i].crop = cue.content.of
      BY DEF ExecutedMeansSigned
    <2> DEFINE blocks == Document.blocks
               slots == Slots
    <2>1. /\ answer = "recognized" /\ Len(slots) \in Nat
          /\ \A j \in 1..Len(blocks) : IsCue(blocks[j], task.signatureCues)
                                       => HeldIn(slots, blocks[j])
      BY SlotsAre
    <2>2. /\ blocks \in Seq(LayoutBlock)
          /\ OnePageEach => \A i \in 1..Len(blocks) : /\ blocks[i].page \in Sent
                                                      /\ blocks[i].content.of = blocks[i].page
      BY <2>1, OnOwnPage
    <2>3. PICK j \in 1..Len(blocks) : cue = blocks[j] /\ IsCue(cue, task.signatureCues)
      BY <2>2 DEF Cues, IsCue
    <2> HIDE DEF blocks, slots
    <2>4. PICK i \in 1..Len(slots) : Holds(slots[i], cue)
      BY <2>1, <2>3 DEF HeldIn
    <2>5. /\ judged \in Seq(AnyMark) /\ Len(judged) >= Len(slots)
          /\ \A k \in 1..Len(judged) : judged[k] \in Marks(k)
      BY DEF SignInv, JudgedInOrder, slots
    <2>6. i \in 1..Len(judged) /\ i \in DOMAIN judged
      BY <2>1, <2>5
    <2>7. judged[i].signed
      BY <2>6 DEF assemble
    <2>8. judged[i].crop = cropRegion(slots[i]) /\ cropRegion(slots[i]) # NoPage
      <3>1. PICK signed \in IF cropRegion(slots[i]) = NoPage THEN {FALSE} ELSE BOOLEAN :
                judged[i] = toBlock(slots[i], signed)
        BY <2>5, <2>6 DEF Marks, slots
      <3>2. judged[i].crop = cropRegion(slots[i]) /\ judged[i].signed = signed
        BY <3>1 DEF toBlock
      <3>3. signed # FALSE
        BY <2>7, <3>2, Zenon
      <3>4. cropRegion(slots[i]) # NoPage
        BY <3>1, <3>3
      <3> QED
        BY <3>2, <3>4
    <2>9. cropRegion(slots[i]) = rasterizePages(cue.page)
      BY <2>4, <2>8 DEF cropRegion, Holds
    <2>10. OnePageEach => rasterizePages(cue.page) = cue.content.of
      <3> SUFFICES ASSUME OnePageEach PROVE rasterizePages(cue.page) = cue.content.of
        OBVIOUS
      <3>1. cue.page \in Sent /\ cue.content.of = cue.page
        BY <2>2, <2>3
      <3>2. mimeGroup = "image" => cue.page = 1
        BY <3>1, TypeIs, GlmAssumption DEF OwnPages, IInv, Sent
      <3> QED
        BY <3>1, <3>2 DEF rasterizePages
    <2> QED
      BY <2>4, <2>6, <2>7, <2>8, <2>9, <2>10 DEF Holds, slots
  <1> QED
    BY AlwaysSignInv, <1>1, PTL

-----------------------------------------------------------------------------
(* RESUME_PARSING.                                                         *)
ByIndex == {p \in LayoutBlock \X LayoutBlock : p[1].index < p[2].index}
ByRank(gutter) ==
    {p \in LayoutBlock \X LayoutBlock :
        p[1] # p[2] /\ rank(p[1], gutter) <= rank(p[2], gutter)}

LEMMA RankIsNat ==
    \A b \in LayoutBlock : \A gutter :
        /\ b.bbox[1] \in Nat /\ b.bbox[2] \in Nat
        /\ rank(b, gutter) \in Nat
  <1>1. \A box \in Box : box[1] \in Nat /\ box[2] \in Nat
    BY DEF Box
  <1>2. \A b \in LayoutBlock : b.bbox[1] \in Nat /\ b.bbox[2] \in Nat
    BY <1>1, BlockFields
  <1>3. ASSUME NEW b \in LayoutBlock, NEW gutter
        PROVE  rank(b, gutter) \in Nat
    <2> DEFINE left == IF gutter # NoGutter /\ 4 * b.bbox[1] >= gutter THEN 100 ELSE 0
               top == b.bbox[2]
    <2>1. left \in {0, 100} /\ top \in Nat
      BY <1>2
    <2>2. rank(b, gutter) = left + top
      BY DEF rank
    <2> HIDE DEF left, top
    <2> QED
      BY <2>1, <2>2
  <1> QED
    BY <1>2, <1>3

(* A page is put in the order of the ranks, each of its blocks once.       *)
LEMMA OrderPageOrders ==
    ASSUME NEW bs \in Seq(LayoutBlock), Ordered(bs, ByIndex)
    PROVE  /\ orderPage(bs) \in Seq(LayoutBlock)
           /\ Range(orderPage(bs)) = Range(bs)
           /\ Ordered(orderPage(bs), ByRank(detectGutter(bs)))
  <1> DEFINE g == detectGutter(bs)
             n == Len(bs)
             S == DOMAIN bs
             at(i) == rank(bs[i], g)
             before == {p \in S \X S : \/ at(p[1]) < at(p[2])
                                       \/ at(p[1]) = at(p[2]) /\ p[1] < p[2]}
             order == Sorted(S, before)
             out == [i \in S |-> bs[order[i]]]
  <1>1. orderPage(bs) = out
    BY DEF orderPage
  <1>2. /\ n \in Nat /\ S = 1..n /\ IsFiniteSet(1..n) /\ Cardinality(1..n) = n
        /\ \A i \in 1..n : bs[i] \in LayoutBlock /\ bs[i].index \in Nat
    <2>1. n \in Nat /\ S = 1..n /\ \A i \in 1..n : bs[i] \in LayoutBlock
      OBVIOUS
    <2>2. \A i \in 1..n : bs[i].index \in Nat
      BY <2>1, BlockFields
    <2> HIDE DEF n, S
    <2>3. IsFiniteSet(1..n) /\ Cardinality(1..n) = n
      BY <2>1, FS_Interval
    <2> QED
      BY <2>1, <2>2, <2>3
  <1>3. \A i \in 1..n : at(i) \in Nat
    BY <1>2, RankIsNat
  <1>4. \A i, j \in 1..n : i # j => bs[i] # bs[j]
    <2>1. \A i, j \in 1..n : i < j => bs[i].index < bs[j].index
      BY DEF Ordered, ByIndex
    <2>2. ASSUME NEW i \in 1..n, NEW j \in 1..n, i # j
          PROVE  bs[i] # bs[j]
      <3>1. i < j \/ j < i
        BY <1>2, <2>2
      <3>2. bs[i].index < bs[j].index \/ bs[j].index < bs[i].index
        BY <2>1, <3>1
      <3>3. bs[i].index # bs[j].index
        BY <1>2, <3>2
      <3> QED
        BY <3>3
    <2> QED
      BY <2>2
  <1>5. \A i, j \in 1..n : <<i, j>> \in before
                               <=> at(i) < at(j) \/ (at(i) = at(j) /\ i < j)
    <2> HIDE DEF at
    <2> QED
      BY <1>2
  <1>6. Orders(before, S)
    <2> HIDE DEF at, before
    <2>1. \A x \in 1..n : <<x, x>> \notin before
      BY <1>2, <1>3, <1>5
    <2>2. ASSUME NEW x \in 1..n, NEW y \in 1..n, NEW z \in 1..n,
                 <<x, y>> \in before, <<y, z>> \in before
          PROVE  <<x, z>> \in before
      <3>1. /\ at(x) < at(y) \/ (at(x) = at(y) /\ x < y)
            /\ at(y) < at(z) \/ (at(y) = at(z) /\ y < z)
        BY <1>5, <2>2
      <3>2. at(x) \in Nat /\ at(y) \in Nat /\ at(z) \in Nat /\ x \in Int /\ y \in Int /\ z \in Int
        BY <1>2, <1>3
      <3>3. at(x) < at(z) \/ (at(x) = at(z) /\ x < z)
        BY <3>1, <3>2
      <3> QED
        BY <1>5, <3>3
    <2>3. ASSUME NEW x \in 1..n, NEW y \in 1..n
          PROVE  x = y \/ <<x, y>> \in before \/ <<y, x>> \in before
      <3>1. at(x) \in Nat /\ at(y) \in Nat /\ x \in Int /\ y \in Int
        BY <1>2, <1>3
      <3> QED
        BY <1>5, <3>1
    <2> QED
      BY <1>2, <2>1, <2>2, <2>3 DEF Orders
  <1>7. SortsInto(S, before, order)
    <2> HIDE DEF before, S
    <2> QED
      BY <1>2, <1>6, SortedSorts
  <1>8. /\ Len(order) = n /\ \A i \in 1..n : order[i] \in 1..n
        /\ \A x \in 1..n : \E i \in 1..n : order[i] = x
        /\ \A i, j \in 1..n : i < j => order[i] # order[j] /\ <<order[i], order[j]>> \in before
    <2> HIDE DEF before, order
    <2>1. order \in Seq(S) /\ Len(order) = Cardinality(S)
      BY <1>7 DEF SortsInto
    <2>2. Len(order) = n
      BY <1>2, <2>1
    <2> HIDE DEF S
    <2>3. \A i \in 1..n : order[i] \in S
      BY <2>1, <2>2
    <2> QED
      BY <1>2, <1>7, <2>2, <2>3 DEF SortsInto
  <1> HIDE DEF before, order
  <1>9. /\ out \in Seq(LayoutBlock) /\ Len(out) = n /\ DOMAIN out = 1..n
        /\ \A i \in 1..n : out[i] = bs[order[i]]
    <2>1. out = [i \in 1..n |-> bs[order[i]]]
      BY <1>2
    <2>2. \A i \in 1..n : bs[order[i]] \in LayoutBlock
      BY <1>2, <1>8
    <2> HIDE DEF out, n
    <2>3. out \in [1..n -> LayoutBlock]
      BY <2>1, <2>2
    <2> QED
      BY <1>2, <2>1, <2>3
  <1> HIDE DEF out
  <1>10. Range(out) = Range(bs)
    <2>1. \A i \in 1..n : out[i] \in Range(bs)
      BY <1>2, <1>8, <1>9 DEF Range
    <2>2. ASSUME NEW x \in 1..n
          PROVE  bs[x] \in Range(out)
      <3>1. PICK i \in 1..n : order[i] = x
        BY <1>8
      <3>2. out[i] = bs[x] /\ i \in DOMAIN out
        BY <1>9, <3>1
      <3> QED
        BY <3>2 DEF Range
    <2>3. DOMAIN bs = 1..n
      BY <1>2
    <2> HIDE DEF S, n
    <2> QED
      BY <1>9, <2>1, <2>2, <2>3 DEF Range
  <1>11. ASSUME NEW i \in 1..n, NEW j \in 1..n, i < j
         PROVE  <<out[i], out[j]>> \in ByRank(g)
    <2> DEFINE a == order[i]
               b == order[j]
    <2>1. a \in 1..n /\ b \in 1..n /\ a # b /\ <<a, b>> \in before
      BY <1>8, <1>11
    <2> HIDE DEF a, b
    <2>2. at(a) <= at(b)
      <3> HIDE DEF at
      <3> QED
        BY <1>3, <1>5, <2>1
    <2>3. bs[a] # bs[b] /\ bs[a] \in LayoutBlock /\ bs[b] \in LayoutBlock
      BY <1>2, <1>4, <2>1
    <2>4. out[i] = bs[a] /\ out[j] = bs[b]
      BY <1>9 DEF a, b
    <2> QED
      BY <2>2, <2>3, <2>4 DEF ByRank
  <1>12. Ordered(out, ByRank(g))
    BY <1>9, <1>11 DEF Ordered
  <1> QED
    BY <1>1, <1>9, <1>10, <1>12

(* A block is read before another, on a page before it or in the order of  *)
(* their page.                                                             *)
InColumns(blocks) ==
    {p \in LayoutBlock \X LayoutBlock :
        /\ p[1] # p[2]
        /\ \/ p[1].page < p[2].page
           \/ /\ p[1].page = p[2].page
              /\ rank(p[1], detectGutter(onPage(blocks, p[1].page)))
                     <= rank(p[2], detectGutter(onPage(blocks, p[1].page)))}

LEMMA OnPageHas ==
    ASSUME NEW blocks \in Seq(LayoutBlock), Indexed(blocks), NEW page
    PROVE  /\ usable(blocks) \in Seq(LayoutBlock)
           /\ Range(usable(blocks)) = {b \in Range(blocks) : b.content.text # ""}
           /\ onPage(blocks, page) \in Seq(LayoutBlock)
           /\ Range(onPage(blocks, page)) = {b \in Range(usable(blocks)) : b.page = page}
           /\ Ordered(onPage(blocks, page), ByIndex)
  <1> DEFINE all == usable(blocks)
             T == {b \in Range(blocks) : b.content.text # ""}
             S == {b \in Range(all) : b.page = page}
  <1>1. Ordered(blocks, ByIndex)
    <2>1. \A i \in 1..Len(blocks) : blocks[i] \in LayoutBlock /\ blocks[i].index = i - 1
      BY DEF Indexed
    <2>2. ASSUME NEW i \in 1..Len(blocks), NEW j \in 1..Len(blocks), i < j
          PROVE  <<blocks[i], blocks[j]>> \in ByIndex
      <3>1. blocks[i].index < blocks[j].index
        BY <2>1, <2>2
      <3> QED
        BY <2>1, <3>1 DEF ByIndex
    <2> QED
      BY <2>2 DEF Ordered
  <1>2. all = Only(blocks, T)
    BY DEF usable
  <1>3. onPage(blocks, page) = Only(all, S)
    BY DEF onPage
  <1>4. T \subseteq Range(blocks) /\ S \subseteq Range(all)
    OBVIOUS
  <1> HIDE DEF all, T, S
  <1>5. all \in Seq(LayoutBlock) /\ Range(all) = Range(blocks) \cap T /\ Ordered(all, ByIndex)
    BY <1>1, <1>2, OnlyHas
  <1>6. /\ onPage(blocks, page) \in Seq(LayoutBlock)
        /\ Range(onPage(blocks, page)) = Range(all) \cap S
        /\ Ordered(onPage(blocks, page), ByIndex)
    BY <1>3, <1>5, OnlyHas
  <1>7. Range(all) = T /\ Range(onPage(blocks, page)) = S
    BY <1>4, <1>5, <1>6
  <1> QED
    BY <1>5, <1>6, <1>7 DEF all, T, S

LEMMA ReadingIs ==
    ASSUME NEW blocks \in Seq(LayoutBlock), Indexed(blocks)
    PROVE  /\ reconstructReadingOrder(blocks) \in Seq(LayoutBlock)
           /\ Range(reconstructReadingOrder(blocks))
                  = {b \in Range(blocks) : b.content.text # ""}
           /\ Ordered(reconstructReadingOrder(blocks), InColumns(blocks))
  <1> DEFINE all == usable(blocks)
             printed == {b.page : b \in Range(all)}
             before == {p \in printed \X printed : p[1] < p[2]}
             numbers == Sorted(printed, before)
             n == Len(numbers)
             On(page) == onPage(blocks, page)
             lists == [k \in DOMAIN numbers |-> orderPage(On(numbers[k]))]
  <1>1. reconstructReadingOrder(blocks) = FlattenSeq(lists)
    BY DEF reconstructReadingOrder
  <1>2. /\ all \in Seq(LayoutBlock)
        /\ Range(all) = {b \in Range(blocks) : b.content.text # ""}
        /\ \A page : /\ On(page) \in Seq(LayoutBlock)
                     /\ Range(On(page)) = {b \in Range(all) : b.page = page}
                     /\ Ordered(On(page), ByIndex)
    BY OnPageHas
  <1>3. /\ Range(all) \subseteq LayoutBlock
        /\ Len(all) \in Nat /\ DOMAIN all = 1..Len(all)
        /\ \A i \in 1..Len(all) : all[i] \in LayoutBlock
    <2> HIDE DEF all
    <2>1. all \in Seq(LayoutBlock)
      BY <1>2
    <2>2. /\ Len(all) \in Nat /\ DOMAIN all = 1..Len(all)
          /\ \A i \in 1..Len(all) : all[i] \in LayoutBlock
      BY <2>1
    <2> QED
      BY <2>2 DEF Range
  <1>4. printed \subseteq Nat /\ IsFiniteSet(printed)
    <2> DEFINE f == [i \in 1..Len(all) |-> all[i].page]
    <2>2. printed = {all[i].page : i \in 1..Len(all)}
      <3> HIDE DEF all
      <3> QED
        BY <1>3 DEF Range
    <2>3. f \in Surjection(1..Len(all), printed)
      <3> HIDE DEF all
      <3> QED
        BY <2>2 DEF Surjection
    <2>4. IsFiniteSet(1..Len(all))
      <3> HIDE DEF all
      <3> QED
        BY <1>3, FS_Interval
    <2> HIDE DEF f, printed
    <2>5. IsFiniteSet(printed)
      BY <2>3, <2>4, FS_Surjection
    <2>6. \A i \in 1..Len(all) : all[i].page \in Nat
      <3> HIDE DEF all
      <3> QED
        BY <1>3, BlockFields
    <2> QED
      BY <2>2, <2>5, <2>6
  <1>5. Orders(before, printed)
    <2> HIDE DEF printed
    <2>1. \A x, y \in printed : <<x, y>> \in before <=> x < y
      OBVIOUS
    <2> HIDE DEF before
    <2>2. \A x \in printed : x \in Nat
      BY <1>4
    <2> QED
      BY <2>1, <2>2 DEF Orders
  <1>6. SortsInto(printed, before, numbers)
    <2> HIDE DEF printed, before
    <2> QED
      BY <1>4, <1>5, SortedSorts
  <1>7. /\ n \in Nat /\ DOMAIN numbers = 1..n
        /\ \A k \in 1..n : numbers[k] \in printed /\ numbers[k] \in Nat
        /\ \A x \in printed : \E k \in 1..n : numbers[k] = x
        /\ \A i, j \in 1..n : i < j => numbers[i] < numbers[j]
    <2> HIDE DEF printed, numbers
    <2>1. numbers \in Seq(printed)
      BY <1>6 DEF SortsInto
    <2>2. n \in Nat /\ DOMAIN numbers = 1..n /\ \A k \in 1..n : numbers[k] \in printed
      BY <2>1
    <2>3. \A i, j \in 1..n : i < j => <<numbers[i], numbers[j]>> \in before
      <3> HIDE DEF before
      <3> QED
        BY <1>6 DEF SortsInto
    <2>4. \A i, j \in 1..n : i < j => numbers[i] < numbers[j]
      BY <2>3
    <2>5. \A x \in printed : \E k \in 1..n : numbers[k] = x
      <3> HIDE DEF before
      <3> QED
        BY <1>6 DEF SortsInto
    <2> QED
      BY <1>4, <2>2, <2>4, <2>5
  <1> HIDE DEF printed, numbers, before, n
  <1>8. ASSUME NEW k \in 1..n
        PROVE  /\ lists[k] \in Seq(LayoutBlock)
               /\ Range(lists[k]) = {b \in Range(all) : b.page = numbers[k]}
               /\ Ordered(lists[k], ByRank(detectGutter(On(numbers[k]))))
    <2>1. lists[k] = orderPage(On(numbers[k]))
      BY <1>7
    <2>2. /\ On(numbers[k]) \in Seq(LayoutBlock) /\ Ordered(On(numbers[k]), ByIndex)
          /\ Range(On(numbers[k])) = {b \in Range(all) : b.page = numbers[k]}
      BY <1>2
    <2> HIDE DEF On, all, lists
    <2> QED
      BY <2>1, <2>2, OrderPageOrders
  <1> HIDE DEF On
  <1>9. lists \in Seq(Seq(LayoutBlock)) /\ Len(lists) = n
    <2>1. DOMAIN lists = 1..n
      BY <1>7
    <2>2. lists = [k \in 1..n |-> lists[k]]
      BY <1>7
    <2> HIDE DEF lists
    <2> DEFINE V == Seq(LayoutBlock)
    <2>3. \A k \in 1..n : lists[k] \in V
      BY <1>8
    <2> HIDE DEF V
    <2>4. lists \in [1..n -> V]
      BY <2>2, <2>3
    <2>5. lists \in Seq(V) /\ Len(lists) = n
      BY <1>7, <2>4
    <2> QED
      BY <2>5 DEF V
  <1> HIDE DEF lists, all
  <1>10. ASSUME NEW k \in 1..n
         PROVE  Ordered(lists[k], InColumns(blocks))
    <2> DEFINE list == lists[k]
               g == detectGutter(On(numbers[k]))
    <2>1. ASSUME NEW i \in 1..Len(list), NEW j \in 1..Len(list), i < j
          PROVE  <<list[i], list[j]>> \in InColumns(blocks)
      <3>1. <<list[i], list[j]>> \in ByRank(g)
        BY <1>8, <2>1 DEF Ordered
      <3>2. list[i].page = numbers[k] /\ list[j].page = numbers[k]
        <4>1. list \in Seq(LayoutBlock)
          BY <1>8
        <4> HIDE DEF list
        <4>2. list[i] \in Range(list) /\ list[j] \in Range(list)
          BY <4>1 DEF Range
        <4> QED
          BY <1>8, <4>2 DEF list
      <3>3. /\ list[i] \in LayoutBlock /\ list[j] \in LayoutBlock /\ list[i] # list[j]
            /\ rank(list[i], g) <= rank(list[j], g)
        <4> HIDE DEF list, g
        <4> QED
          BY <3>1 DEF ByRank
      <3>4. g = detectGutter(onPage(blocks, list[i].page))
        BY <3>2 DEF On
      <3> HIDE DEF list, g
      <3> QED
        BY <3>2, <3>3, <3>4 DEF InColumns
    <2> QED
      BY <2>1 DEF Ordered
  <1>11. ASSUME NEW k \in 1..n, NEW m \in 1..n, k < m,
                NEW y \in Range(lists[k]), NEW z \in Range(lists[m])
         PROVE  <<y, z>> \in InColumns(blocks)
    <2>1. /\ y \in Range(all) /\ z \in Range(all)
          /\ y.page = numbers[k] /\ z.page = numbers[m]
      BY <1>8
    <2>2. y.page < z.page /\ y.page # z.page
      BY <1>7, <1>11, <2>1
    <2>3. y \in LayoutBlock /\ z \in LayoutBlock /\ y # z
      BY <1>3, <2>1, <2>2
    <2> QED
      BY <2>2, <2>3 DEF InColumns
  <1>12. /\ FlattenSeq(lists) \in Seq(LayoutBlock)
         /\ Range(FlattenSeq(lists)) = UNION {Range(lists[k]) : k \in 1..n}
         /\ Ordered(FlattenSeq(lists), InColumns(blocks))
    BY <1>9, <1>10, <1>11, FlattenHas
  <1>13. UNION {Range(lists[k]) : k \in 1..n} = Range(all)
    <2>1. \A k \in 1..n : Range(lists[k]) \subseteq Range(all)
      BY <1>8
    <2>2. ASSUME NEW b \in Range(all)
          PROVE  \E k \in 1..n : b \in Range(lists[k])
      <3>1. b.page \in printed
        BY DEF printed
      <3>2. PICK k \in 1..n : numbers[k] = b.page
        BY <1>7, <3>1
      <3> QED
        BY <1>8, <3>2
    <2> QED
      BY <2>1, <2>2
  <1> QED
    BY <1>1, <1>2, <1>12, <1>13

(* Page after page, the left column and then the right (resume-parsing     *)
(* execute.ts), whatever boxes the bodies tell of.                         *)
THEOREM ReadsInColumns == Spec => []ReadInColumns
  <1>1. IInv /\ OwnPages /\ FnInv => ReadInColumns
    <2> SUFFICES ASSUME IInv, OwnPages, FnInv, status = "done", task.fn = "RESUME_PARSING"
                 PROVE  ReadInColumns
      BY DEF ReadInColumns
    <2> DEFINE blocks == Document.blocks
               reading == executeResumeParsing
               n == Len(reading)
    <2>1. answer = "recognized"
      BY DEF FnInv, OnLayout, NoTask
    <2>2. blocks \in Seq(LayoutBlock) /\ Indexed(blocks)
      BY <2>1, OnOwnPage
    <2>3. reading = reconstructReadingOrder(blocks)
      BY DEF executeResumeParsing
    <2> HIDE DEF reading, blocks
    <2>4. /\ reading \in Seq(LayoutBlock)
          /\ Range(reading) = {b \in Range(blocks) : b.content.text # ""}
          /\ Ordered(reading, InColumns(blocks))
      BY <2>2, <2>3, ReadingIs
    <2>5. n \in Nat /\ DOMAIN reading = 1..n /\ \A i \in 1..n : reading[i] \in LayoutBlock
      <3>1. reading \in Seq(LayoutBlock)
        BY <2>4
      <3> QED
        BY <3>1
    <2>6. \A i, j \in 1..n : i < j => <<reading[i], reading[j]>> \in InColumns(blocks)
      BY <2>4 DEF Ordered
    <2> HIDE DEF n
    <2>7. \A i, j \in 1..n : i # j => reading[i] # reading[j]
      <3>1. \A i, j \in 1..n : i < j => reading[i] # reading[j]
        BY <2>6 DEF InColumns
      <3>2. \A i, j \in 1..n : i # j => i < j \/ j < i
        BY <2>5
      <3> QED
        BY <3>1, <3>2
    <2>8. ASSUME \A b \in Range(blocks) : ~ Across(b) /\ b.bbox[2] < 100,
                 NEW i \in 1..n, NEW j \in 1..n, i < j
          PROVE  ReadsBefore(reading[i], reading[j])
      <3> DEFINE a == reading[i]
                 b == reading[j]
                 g == detectGutter(onPage(blocks, a.page))
                 ra == rank(a, g)
                 rb == rank(b, g)
      <3>1. /\ a \in LayoutBlock /\ b \in LayoutBlock
            /\ a.page < b.page \/ (a.page = b.page /\ ra <= rb)
        <4>1. <<a, b>> \in InColumns(blocks)
          BY <2>6, <2>8
        <4> HIDE DEF a, b
        <4> QED
          BY <4>1 DEF InColumns
      <3>2. a \in Range(blocks) /\ b \in Range(blocks)
        <4>1. a \in Range(reading) /\ b \in Range(reading)
          BY <2>5 DEF Range
        <4> QED
          BY <2>4, <4>1
      <3>3. CASE a.page < b.page
        BY <3>3 DEF ReadsBefore
      <3>4. CASE a.page = b.page /\ ra <= rb
        <4> DEFINE top(x) == x.bbox[2]
        <4>1. Gutter(a) = g /\ Gutter(b) = g
          BY <3>4 DEF Gutter, blocks
        <4>2. ~ Across(a) /\ ~ Across(b) /\ top(a) < 100 /\ top(b) < 100
          BY <2>8, <3>2
        <4>3. top(a) \in Nat /\ top(b) \in Nat
          BY <3>1, RankIsNat
        <4> HIDE DEF a, b, g
        <4>4. /\ ra = (IF Right(a) THEN 100 ELSE 0) + top(a)
              /\ rb = (IF Right(b) THEN 100 ELSE 0) + top(b)
          BY <4>1, <4>2 DEF Across, Right, rank
        <4> HIDE DEF ra, rb, top
        <4>5. \/ ~ Right(a) /\ Right(b)
              \/ (Right(a) <=> Right(b)) /\ top(a) <= top(b)
          BY <3>4, <4>2, <4>3, <4>4
        <4>6. Right(a) \in BOOLEAN /\ Right(b) \in BOOLEAN
          BY DEF Right
        <4>7. a.page = b.page
          BY <3>4
        <4>8. ReadsBefore(a, b)
          BY <4>5, <4>6, <4>7 DEF ReadsBefore, top
        <4> QED
          BY <4>8 DEF a, b
      <3> QED
        BY <3>1, <3>3, <3>4
    <2>9. {blocks[i] : i \in DOMAIN blocks} = Range(blocks)
          /\ {reading[i] : i \in DOMAIN reading} = Range(reading)
      BY DEF Range
    <2>10. (\A b \in Range(blocks) : ~ Across(b) /\ b.bbox[2] < 100) =>
               \A i, j \in 1..n : i < j => ReadsBefore(reading[i], reading[j])
      BY <2>8
    <2> QED
      BY <2>4, <2>5, <2>7, <2>9, <2>10 DEF ReadInColumns, reading, blocks
  <1>2. Spec => [](IInv /\ OwnPages /\ FnInv)
    BY AlwaysOwnPages, AlwaysFnInv, PTL
  <1> QED
    BY <1>1, <1>2, PTL

=============================================================================
