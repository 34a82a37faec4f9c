---------------------------- MODULE ThreeWayMatch ----------------------------
(***************************************************************************)
(* The three-way match of src/domain/matching.ts: an invoice against the   *)
(* ordered and the received (for services: accepted) lines of its purchase *)
(* order.  An invoice is a sequence of lines.  The algorithm walks it once *)
(* with a running total per purchase-order line and collects exceptions;   *)
(* the invoice is MATCHED when there are none.                             *)
(*                                                                         *)
(* ctx is what matchInvoiceById loads before it calls matchInvoice:        *)
(*   po[l]       the purchase-order line [kind, ordered, price]            *)
(*   received[l] the quantity received so far                              *)
(*   accepted[l] the amount accepted of a SERVICE line (0: not accepted)   *)
(*   prior[l]    the quantity (GOODS) or amount (SERVICE) that other       *)
(*               invoices have committed                                   *)
(* An invoice line is [ref, qty, unit, amount]; ref is NoLine when it      *)
(* names no purchase-order line, amount is NoAmount when none is stated.   *)
(***************************************************************************)
EXTENDS Integers, Sequences, Totals

CONSTANTS NoLine, NoAmount

OrderedAmount(poLine) == poLine.ordered * poLine.price

(* What is stored of an order and of an invoice, and what is loaded beside *)
(* them: whole quantities, prices and amounts, none negative.              *)
OrderOK(po) ==
  \A l \in DOMAIN po : /\ po[l].kind \in {"GOODS", "SERVICE"}
                       /\ po[l].ordered \in Nat /\ po[l].price \in Nat

LinesOK(lines) ==
  /\ Len(lines) \in Nat /\ DOMAIN lines = 1 .. Len(lines)
  /\ \A i \in DOMAIN lines :
       /\ lines[i].qty \in Nat /\ lines[i].unit \in Nat
       /\ lines[i].amount \in Nat \cup {NoAmount}

ContextOK(ctx) ==
  /\ OrderOK(ctx.po)
  /\ \A l \in DOMAIN ctx.po :
       ctx.received[l] \in Nat /\ ctx.accepted[l] \in Nat /\ ctx.prior[l] \in Nat

(* Within 2 % of the purchase-order price or half a minor unit. *)
PriceWithinTolerance(poPrice, invoicePrice) ==
  LET diff == IF invoicePrice > poPrice THEN invoicePrice - poPrice
                                        ELSE poPrice - invoicePrice
  IN  100 * diff <= 2 * poPrice \/ 2 * diff <= 1

(* What an invoice line adds to the running total of its order line. *)
LineMeasure(poLine, line) ==
  CASE poLine.kind = "GOODS"    -> line.qty
    [] poLine.kind = "SERVICE" /\ line.amount # NoAmount -> line.amount
    [] poLine.kind = "SERVICE" /\ line.amount = NoAmount -> line.qty * line.unit

CheckGoodsLine(ctx, line, cumulative) ==
  LET poLine == ctx.po[line.ref] IN
  {e \in {"QUANTITY_MISMATCH", "OVER_INVOICED", "PRICE_MISMATCH"} :
     \/ e = "QUANTITY_MISMATCH" /\ cumulative > ctx.received[line.ref]
     \/ e = "OVER_INVOICED" /\ cumulative > poLine.ordered
     \/ e = "PRICE_MISMATCH" /\ ~PriceWithinTolerance(poLine.price, line.unit)}

CheckServiceLine(ctx, line, cumulative) ==
  {e \in {"OVER_INVOICED_AMOUNT", "SERVICE_NOT_ACCEPTED"} :
     \/ e = "OVER_INVOICED_AMOUNT" /\ cumulative > OrderedAmount(ctx.po[line.ref])
     \/ e = "SERVICE_NOT_ACCEPTED" /\ cumulative > ctx.accepted[line.ref]}

(* Mutant of AddRunning: the total of earlier lines is forgotten. *)
AddRunningForgets(acc, ref, measure) == measure

(* The running total of an order line once this line is added. *)
AddRunning(acc, ref, measure) == acc.running[ref] + measure

(* One round of the loop: line i is examined with the totals so far. *)
ExamineLine(ctx, acc, line, i) ==
  IF line.ref \notin DOMAIN ctx.po
  THEN [acc EXCEPT !.exceptions = @ \cup {<<"UNMATCHED_LINE", i>>}]
  ELSE LET poLine  == ctx.po[line.ref]
           running == AddRunning(acc, line.ref, LineMeasure(poLine, line))
           found   == IF poLine.kind = "SERVICE"
                      THEN CheckServiceLine(ctx, line, ctx.prior[line.ref] + running)
                      ELSE CheckGoodsLine(ctx, line, ctx.prior[line.ref] + running)
       IN  [running    |-> [acc.running EXCEPT ![line.ref] = running],
            exceptions |-> acc.exceptions \cup (found \X {i})]

(* The loop: what was found and added up after each number of lines. *)
Examined(ctx, lines) ==
  LET after[i \in 0 .. Len(lines)] ==
        IF i = 0 THEN [running |-> [l \in DOMAIN ctx.po |-> 0], exceptions |-> {}]
                 ELSE ExamineLine(ctx, after[i - 1], lines[i], i)
  IN  after

(* The exceptions of a whole invoice: MATCHED exactly when there are none. *)
MatchInvoice(ctx, lines) == Examined(ctx, lines)[Len(lines)].exceptions

-----------------------------------------------------------------------------
(***************************************************************************)
(* What the match comes to, with an invoice reduced to the set of order    *)
(* lines it bills, the total it bills on each, and whether every line is   *)
(* clean (it names a line of the order, at an acceptable price).  This is  *)
(* the form in which module Fulfilment uses the match.                     *)
(***************************************************************************)

(* The totals stay within the limits on every line the invoice names. *)
WithinLimits(lines, billed, prior, limit) ==
  \A l \in lines : prior[l] + billed[l] <= limit[l]

(* The reduction of an invoice. *)
Summary(po, lines) ==
  LET of(l) == {i \in DOMAIN lines : lines[i].ref = l} IN
  [lines  |-> {l \in DOMAIN po : of(l) # {}},
   billed |-> [l \in DOMAIN po |->
                 Total(of(l), [i \in of(l) |-> LineMeasure(po[l], lines[i])])],
   clean  |-> \A i \in DOMAIN lines :
                 /\ lines[i].ref \in DOMAIN po
                 /\ po[lines[i].ref].kind = "GOODS"
                      => PriceWithinTolerance(po[lines[i].ref].price, lines[i].unit)]

Least(a, b) == IF a < b THEN a ELSE b

(* What may be billed on each line of the order in all: what came in, and  *)
(* never more than was ordered.                                            *)
Limits(ctx) ==
  [l \in DOMAIN ctx.po |->
     IF ctx.po[l].kind = "GOODS" THEN Least(ctx.received[l], ctx.po[l].ordered)
                                 ELSE Least(ctx.accepted[l], OrderedAmount(ctx.po[l]))]

(* The invoice as a whole passes. *)
Fits(ctx, lines) ==
  LET sum == Summary(ctx.po, lines) IN
  sum.clean /\ WithinLimits(sum.lines, sum.billed, ctx.prior, Limits(ctx))
=============================================================================
