--------------------------- MODULE ReceiptTotals ---------------------------
(***************************************************************************)
(* functions/receipt-parsing/validate.ts: the totals that the model read   *)
(* off a receipt are checked against each other.  Amounts are integers, in *)
(* hundredths of the currency; one that is missing is <<>>, one that was   *)
(* read a tuple of one.  Rounding of floating point is left out.           *)
(***************************************************************************)
EXTENDS Integers, Sequences, SequencesExt

(* What the schema lets the model answer.                                  *)
Read == {a \in Seq(Int) : Len(a) <= 1}
ReceiptData == [lineItems : Seq(Read), subtotal : Read, tax : Read, tip : Read,
                total : Read, confidence : {"high", "low"}]

Amount(read) == IF read = <<>> THEN 0 ELSE read[1]

Size(n) == IF n < 0 THEN -n ELSE n

(* Fifty times the tolerance: EPSILON is 0.02, both of the currency and of *)
(* the amount compared with.                                               *)
Tolerance(b) == IF Size(b) > 100 THEN Size(b) ELSE 100

approxEqual(a, b) == 50 * Size(a - b) <= Tolerance(b)

lineSum(r) == FoldLeft(LAMBDA sum, read : sum + Amount(read), 0, r.lineItems)

(* Mutant: the tip is left out.                                            *)
composedWithoutTip(r) == Amount(r.subtotal) + Amount(r.tax)

composed(r) == Amount(r.subtotal) + Amount(r.tax) + Amount(r.tip)

LinesDisagree(r) ==
    /\ \E i \in DOMAIN r.lineItems : r.lineItems[i] # <<>>
    /\ r.subtotal # <<>>
    /\ ~approxEqual(lineSum(r), Amount(r.subtotal))

PartsDisagree(r) ==
    /\ r.subtotal # <<>> \/ r.tax # <<>> \/ r.tip # <<>>
    /\ r.total # <<>>
    /\ ~approxEqual(composed(r), Amount(r.total))

(* The model's own confidence is not asked.                                *)
reconcileTotals(r) ==
    [r EXCEPT !.confidence = IF LinesDisagree(r) \/ PartsDisagree(r) THEN "low" ELSE "high"]
=============================================================================
