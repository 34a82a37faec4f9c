---------------------------- MODULE InvoiceIntake ----------------------------
(***************************************************************************)
(* How an invoice comes to be: the form of src/components/InvoiceForm.tsx  *)
(* drafts its lines from a purchase order, an uploaded file is read by OCR *)
(* and a language model and its lines are written over the draft, the form *)
(* is submitted (or another client posts an invoice of its own), and the   *)
(* three-way match of module ThreeWayMatch examines what was stored.       *)
(*                                                                         *)
(* An extraction takes seconds and the form stays usable: the order may be *)
(* changed, lines edited and a second file uploaded before the answer of   *)
(* the first arrives, and the answer is written over whatever the form     *)
(* shows then.  OCR text, prompt and wire format are left out: an answer   *)
(* of the model is a sequence of raw lines                                 *)
(*   [name, halves, price, total, ref]                                     *)
(* with the quantity in halves (it need not be whole), prices and totals   *)
(* as parseAmount reads them (Unreadable when it cannot; total NoAmount    *)
(* when none is printed) and ref whatever the model answered.              *)
(***************************************************************************)
EXTENDS ThreeWayMatch, SequencesExt

CONSTANTS Orders,      \* purchase orders
          None,        \* no order chosen; nothing stored
          Uploads,     \* bounds the files uploaded in one form
          Blank,       \* an empty description
          Unreadable,  \* an amount parseAmount rejects
          MaxProposed, \* MAX_PROPOSED_LINES
          PoLines(_),  \* the lines of an order: [line -> [kind, ordered, price, name]]
          Answers,     \* what the model may answer
          Edits,       \* [qty, unit] a user may type into a line
          Posted,      \* line sequences another client may post
          Seen(_)      \* what the match may load for an order: received, accepted, prior

(* Orders are stored with whole quantities and prices that are not         *)
(* negative, parseAmount and the receipts give nothing negative either, a  *)
(* posted body holds an array, and a user may type any whole number.       *)
ASSUME IntakeAssumption ==
  /\ MaxProposed \in Nat
  /\ {NoAmount, Unreadable} \cap Int = {}
  /\ \A o \in Orders :
       /\ IsFiniteSet(DOMAIN PoLines(o)) /\ OrderOK(PoLines(o))
       /\ \A seen \in Seen(o), l \in DOMAIN PoLines(o) :
            seen.received[l] \in Nat /\ seen.accepted[l] \in Nat /\ seen.prior[l] \in Nat
  /\ \A raw \in Answers :
       /\ Len(raw) \in Nat /\ DOMAIN raw = 1 .. Len(raw)
       /\ \A i \in DOMAIN raw : /\ raw[i].halves \in Int
                                /\ raw[i].price \in Nat \cup {Unreadable}
                                /\ raw[i].total \in Nat \cup {NoAmount, Unreadable}
  /\ Edits \subseteq [qty : Int, unit : Int]
  /\ \A lines \in Posted : Len(lines) \in Nat /\ DOMAIN lines = 1 .. Len(lines)

VARIABLES chosen,   \* the order the form shows
          draft,    \* its lines: [line -> [qty, unit]]
          basis,    \* where the draft came from (history): [from, lines], lines of an answer
          uploads,  \* per upload: None, or the order it was sent for
          busy,     \* the submit button is disabled
          invoice,  \* the stored invoice: None or [order, lines]
          ctx       \* None, or what matchInvoiceById loaded

intakeVars == <<chosen, draft, basis, uploads, busy, invoice, ctx>>

-----------------------------------------------------------------------------
(* normaliseExtractedLines *)

Rounded(halves) == IF halves < 2 THEN 1 ELSE (halves + 1) \div 2

Readable(line) == line.name # Blank /\ line.price # Unreadable

(* The order line a raw line is taken to bill: the one the model named, or *)
(* else the first, in the order the database returned the rows, with its   *)
(* description, or else with its quantity and about its price.             *)
Attributed(po, rows, line) ==
  LET named   == SelectSeq(rows, LAMBDA l : po[l].name = line.name)
      similar == SelectSeq(rows, LAMBDA l :
                   /\ po[l].ordered = Rounded(line.halves)
                   /\ 100 * (po[l].price - line.price) <= 2 * po[l].price
                   /\ 100 * (line.price - po[l].price) <= 2 * po[l].price)
  IN  IF line.ref \in DOMAIN po THEN line.ref ELSE Head(named \o similar \o <<NoLine>>)

ProposedLine(po, rows, line) ==
  [ref    |-> Attributed(po, rows, line),
   qty    |-> Rounded(line.halves),
   unit   |-> line.price,
   amount |-> IF line.total \in {NoAmount, Unreadable}
              THEN Rounded(line.halves) * line.price ELSE line.total]

(* The loop stops at MAX_PROPOSED_LINES and passes unreadable lines over.  *)
Normalised(po, rows, raw) ==
  LET taken[i \in 0 .. Len(raw)] ==
        IF i = 0 THEN <<>>
        ELSE IF Readable(raw[i]) /\ Len(taken[i - 1]) < MaxProposed
             THEN Append(taken[i - 1], ProposedLine(po, rows, raw[i]))
             ELSE taken[i - 1]
  IN  taken[Len(raw)]

-----------------------------------------------------------------------------
(* invoice-draft.ts *)

(* Mutant of Prefilled: a service line is drafted at its unit price. *)
PrefilledUnit(po) == [l \in DOMAIN po |-> IF po[l].kind = "SERVICE"
                        THEN [qty |-> 1, unit |-> po[l].price]
                        ELSE [qty |-> po[l].ordered, unit |-> po[l].price]]

Prefilled(po) ==
  [l \in DOMAIN po |-> IF po[l].kind = "SERVICE"
     THEN [qty |-> 1, unit |-> OrderedAmount(po[l])]
     ELSE [qty |-> po[l].ordered, unit |-> po[l].price]]

Hits(proposed, l) == {i \in DOMAIN proposed : proposed[i].ref = l}

(* Mutant of Applied: a line the answer does not name keeps its quantity. *)
AppliedKeeps(po, lines, proposed) ==
  [l \in DOMAIN lines |->
     LET last == proposed[Max(Hits(proposed, l))] IN
     IF Hits(proposed, l) = {} THEN lines[l]
     ELSE IF po[l].kind = "SERVICE" THEN [qty |-> 1, unit |-> last.amount]
     ELSE [qty |-> last.qty, unit |-> last.unit]]

(* Of several proposed lines for one order line the last counts (a Map). *)
Applied(po, lines, proposed) ==
  [l \in DOMAIN lines |->
     LET last == proposed[Max(Hits(proposed, l))] IN
     IF Hits(proposed, l) = {} THEN [lines[l] EXCEPT !.qty = 0]
     ELSE IF po[l].kind = "SERVICE" THEN [qty |-> 1, unit |-> last.amount]
     ELSE [qty |-> last.qty, unit |-> last.unit]]

Payload(po, lines) ==
  LET billed == SetToSeq({l \in DOMAIN lines : lines[l].qty > 0}) IN
  [i \in DOMAIN billed |->
     LET l == billed[i] IN
     [ref |-> l, qty |-> lines[l].qty, unit |-> lines[l].unit,
      amount |-> IF po[l].kind = "SERVICE" THEN lines[l].unit ELSE NoAmount]]

-----------------------------------------------------------------------------
FromOrder == [from |-> "order", lines |-> <<>>]

Fresh == /\ chosen = None
         /\ draft = <<>>
         /\ basis = FromOrder
         /\ uploads = [u \in Uploads |-> None]
         /\ busy = FALSE

IntakeInit == Fresh /\ invoice = None /\ ctx = None

Open == invoice = None

(* The select is never disabled; choosing drafts the lines afresh. *)
ChoosePo(o) ==
  /\ Open
  /\ chosen' = o
  /\ draft' = IF o = None THEN <<>> ELSE Prefilled(PoLines(o))
  /\ basis' = FromOrder
  /\ UNCHANGED <<uploads, busy, invoice, ctx>>

SetLine(l, patch) ==
  /\ Open
  /\ chosen # None
  /\ l \in DOMAIN draft
  /\ draft' = [draft EXCEPT ![l] = IF PoLines(chosen)[l].kind = "SERVICE"
                                   THEN [@ EXCEPT !.unit = patch.unit] ELSE patch]
  /\ basis' = [from |-> "edit", lines |-> <<>>]
  /\ UNCHANGED <<chosen, uploads, busy, invoice, ctx>>

OnFile(u) ==
  /\ Open
  /\ chosen # None
  /\ uploads[u] = None
  /\ uploads' = [uploads EXCEPT ![u] = chosen]
  /\ busy' = TRUE
  /\ UNCHANGED <<chosen, draft, basis, invoice, ctx>>

(* The upload is refused, OCR fails (the form shows the error), or the     *)
(* model fails, times out or is not configured (linesSource "none").       *)
ExtractionFails(u) ==
  /\ Open
  /\ uploads[u] # None
  /\ uploads' = [uploads EXCEPT ![u] = None]
  /\ busy' = FALSE
  /\ UNCHANGED <<chosen, draft, basis, invoice, ctx>>

(* The answer is normalised against the order it was asked for and written *)
(* over the lines the form shows now.                                      *)
Extracted(u, raw) ==
  /\ Open
  /\ uploads[u] # None
  /\ \E rows \in SetToSeqs(DOMAIN PoLines(uploads[u])) :
       LET proposed == Normalised(PoLines(uploads[u]), rows, raw) IN
       /\ draft' = IF chosen = None THEN draft ELSE Applied(PoLines(chosen), draft, proposed)
       /\ basis' = [from |-> "answer", lines |-> proposed]
  /\ uploads' = [uploads EXCEPT ![u] = None]
  /\ busy' = FALSE
  /\ UNCHANGED <<chosen, invoice, ctx>>

(* createInvoice's checks: at least one line, positive quantities, prices  *)
(* and amounts that are not negative, and lines of this order or of none.  *)
Acceptable(o, lines) ==
  /\ lines # <<>>
  /\ \A i \in DOMAIN lines :
       lines[i] \in [ref: DOMAIN PoLines(o) \cup {NoLine}, qty: Nat \ {0}, unit: Nat,
                    amount: Nat \cup {NoAmount}]

(* A refused submission shows the error and changes nothing. *)
Submit ==
  /\ Open
  /\ chosen # None
  /\ ~busy
  /\ Acceptable(chosen, Payload(PoLines(chosen), draft))
  /\ invoice' = [order |-> chosen, lines |-> Payload(PoLines(chosen), draft)]
  /\ chosen' = None
  /\ draft' = <<>>
  /\ basis' = FromOrder
  /\ uploads' = [u \in Uploads |-> None]
  /\ UNCHANGED <<busy, ctx>>

(* Another client posts its own lines; followed only while the form is     *)
(* untouched, since one invoice is followed.                               *)
Post(o, lines) ==
  /\ Open
  /\ Fresh
  /\ Acceptable(o, lines)
  /\ invoice' = [order |-> o, lines |-> lines]
  /\ UNCHANGED <<chosen, draft, basis, uploads, busy, ctx>>

(* matchInvoiceById loads what was received, accepted and committed. *)
Load(seen) ==
  /\ invoice # None
  /\ ctx = None
  /\ ctx' = [po |-> PoLines(invoice.order), received |-> seen.received,
             accepted |-> seen.accepted, prior |-> seen.prior]
  /\ UNCHANGED <<chosen, draft, basis, uploads, busy, invoice>>

IntakeNext ==
  \/ \E o \in Orders \cup {None} : ChoosePo(o)
  \/ \E l \in DOMAIN draft, patch \in Edits : SetLine(l, patch)
  \/ \E u \in Uploads : OnFile(u) \/ ExtractionFails(u) \/ \E raw \in Answers : Extracted(u, raw)
  \/ Submit
  \/ \E o \in Orders, lines \in Posted : Post(o, lines)
  \/ invoice # None /\ \E seen \in Seen(invoice.order) : Load(seen)

IntakeSpec == IntakeInit /\ [][IntakeNext]_intakeVars

-----------------------------------------------------------------------------
(* matchInvoice's running totals amount to a check of the whole invoice:   *)
(* it is MATCHED exactly when every line is clean and, per order line,     *)
(* what was committed before plus all that this invoice bills is covered   *)
(* by the receipt and by the order, however the invoice splits it over     *)
(* its lines and lists them (matching.ts:60-64, 73-96, 106-130).           *)
MatchedIffTotalsFit ==
  ctx # None => (MatchInvoice(ctx, invoice.lines) = {} <=> Fits(ctx, invoice.lines))

BilledByDraft == Summary(PoLines(chosen), Payload(PoLines(chosen), draft)).billed

(* A draft written from an extraction and not edited since bills, on every *)
(* line of the order the form shows, exactly what the extraction gives it, *)
(* if it names no line twice; an answer that arrives after another order   *)
(* was chosen bills nothing on that order (InvoiceForm.tsx:56-60,          *)
(* invoice-draft.ts:51-60, 68-78).                                         *)
DraftBillsExtraction ==
  (chosen # None /\ basis.from = "answer") =>
    \A l \in DOMAIN PoLines(chosen) :
      LET hits == Hits(basis.lines, l) IN
      Cardinality(hits) <= 1 =>
        BilledByDraft[l] = Total(hits, [i \in hits |-> IF PoLines(chosen)[l].kind = "SERVICE"
                                                THEN basis.lines[i].amount ELSE basis.lines[i].qty])

(* A draft as the order prefills it bills the whole order, and once        *)
(* everything is received or accepted and nothing else is committed it     *)
(* passes the match: the form, the payload and the match agree on how a    *)
(* service line is billed (invoice-draft.ts:39-45, 68-78;                  *)
(* matching.ts:66-96).                                                     *)
PrefilledDraftMatches ==
  (chosen # None /\ basis.from = "order") =>
    LET po     == PoLines(chosen)
        amount == [l \in DOMAIN po |-> IF po[l].kind = "GOODS" THEN po[l].ordered
                                                              ELSE OrderedAmount(po[l])]
    IN  /\ BilledByDraft = amount
        /\ MatchInvoice([po |-> po, received |-> amount, accepted |-> amount,
                         prior |-> [l \in DOMAIN po |-> 0]], Payload(po, draft)) = {}
=============================================================================
