------------------------------ MODULE Recurring ------------------------------
(***************************************************************************)
(* Recurring orders (src/lib/services/recurring.ts) beside edits of the    *)
(* suppliers and cost centers they refer to (Catalogue).                   *)
(*                                                                         *)
(* A generation selects the due templates without a lock, then locks and   *)
(* handles them one by one, each as it was when selected, and commits all  *)
(* at once.  Requisitions and templates made by hand check their supplier  *)
(* and cost center first and are inserted in a transaction of their own.   *)
(***************************************************************************)
EXTENDS Catalogue

CONSTANTS Template,
          Refs, Cadence,      \* of each template: its supplier and cost center; its step
          Starts,             \* first run dates asked for
          Calendar            \* the days on which something happens, in order

Date == [month: Nat, day: Nat]

ASSUME RecurringAssumption ==
  /\ Refs \in [Template -> SUBSET Entity]
  /\ Cadence \in [Template -> {"MONTHLY", "QUARTERLY", "YEARLY"}]
  /\ Starts \subseteq Date /\ None \notin Date

VARIABLES
  next,        \* order_templates: next run date, None before the template exists
  today,       \* index into Calendar
  since,       \* history: first run date of each template
  drafted,     \* history: of each template, the dates a requisition was generated for
  raced        \* history: templates two generations had selected at once

recurringVars == <<next, today, since, drafted, raced>>
vars == <<catalogueVars, recurringVars>>

Init ==
  /\ CatalogueInit
  /\ next = [t \in Template |-> None] /\ since = next
  /\ today = 1
  /\ drafted = [t \in Template |-> {}]
  /\ raced = {}

-----------------------------------------------------------------------------
(* recurring-cadence.ts.  A date is a month, counted from year 0, and a day. *)

LastDay(month) ==
  LET year == month \div 12
      leap == (year % 4 = 0) /\ (year % 100 # 0 \/ year % 400 = 0) IN
  CASE month % 12 = 1 -> IF leap THEN 29 ELSE 28
    [] month % 12 \in {3, 5, 8, 10} -> 30
    [] OTHER -> 31

CadenceStep == [MONTHLY |-> 1, QUARTERLY |-> 3, YEARLY |-> 12]

Lesser(i, j) == IF i < j THEN i ELSE j

(* Mutant of AddMonths: days beyond the end of the month run over into the next. *)
AddMonthsOver(date, months) ==
  LET target == date.month + months IN
  IF date.day <= LastDay(target) THEN [month |-> target, day |-> date.day]
  ELSE [month |-> target + 1, day |-> date.day - LastDay(target)]

AddMonths(date, months) ==
  [month |-> date.month + months, day |-> Lesser(date.day, LastDay(date.month + months))]

NotAfter(date, other) ==
  \/ date.month < other.month
  \/ date.month = other.month /\ date.day <= other.day

-----------------------------------------------------------------------------
(* assertPickable, then the insert: POST /requisitions, POST /order-templates *)

Pickable(X) == \A x \in X : row[x].state = "active"

RequisitionPick(c, X) ==
  /\ Pickable(X)
  /\ Begins(c, X, [op |-> "requisition"])
  /\ UNCHANGED <<row, edits, recurringVars>>

(* The new draft has no further part in this module. *)
RequisitionInsert(c) ==
  txn[c].op = "requisition" /\ Ends(c) /\ UNCHANGED <<row, edits, recurringVars>>

TemplatePick(c, t, start) ==
  /\ next[t] = None /\ \A o \in Caller : txn[o].op = "template" => txn[o].template # t
  /\ Pickable(Refs[t])
  /\ Begins(c, Refs[t], [op |-> "template", template |-> t, start |-> start])
  /\ UNCHANGED <<row, edits, recurringVars>>

(* createOrderTemplate *)
TemplateInsert(c) ==
  /\ txn[c].op = "template"
  /\ next' = [next EXCEPT ![txn[c].template] = txn[c].start]
  /\ since' = [since EXCEPT ![txn[c].template] = txn[c].start]
  /\ Ends(c) /\ UNCHANGED <<row, edits, today, drafted, raced>>

-----------------------------------------------------------------------------
(* generateDueRequisitions *)

Due == {t \in Template : next[t] # None /\ NotAfter(next[t], Calendar[today])}
Generating == {o \in Caller : txn[o].op = "generate"}

GenerateSelect(c) ==
  /\ Begins(c, UNION {Refs[t] : t \in Due},
            [op |-> "generate", read |-> [t \in Due |-> next[t]], locked |-> {}, staged |-> {}])
  /\ raced' = raced \cup (Due \cap UNION {DOMAIN txn[o].read : o \in Generating})
  /\ UNCHANGED <<row, edits, next, today, since, drafted>>

(* Mutant of Archived: only the supplier is looked at. *)
ArchivedSupplier(t) == \E x \in Refs[t] : KindOf[x] = "supplier" /\ row[x].state = "archived"
Archived(t) == \E x \in Refs[t] : row[x].state = "archived"

(* The row is locked but not read again; archived references skip it. *)
GenerateNext(c, t) ==
  /\ txn[c].op = "generate" /\ t \in DOMAIN txn[c].read \ txn[c].locked
  /\ \A o \in Generating \ {c} : t \notin txn[o].locked
  /\ txn' = [txn EXCEPT ![c].locked = @ \cup {t},
                        ![c].staged = IF Archived(t) THEN @ ELSE @ \cup {t}]
  /\ UNCHANGED <<row, edits, recurringVars>>

NextRun(t, date) == AddMonths(date, CadenceStep[Cadence[t]])

(* Mutant of Advanced: the next run date stays as it is. *)
AdvancedNot(c) == next
Advanced(c) ==
  [t \in Template |-> IF t \in txn[c].staged THEN NextRun(t, txn[c].read[t]) ELSE next[t]]

GenerateCommit(c) ==
  /\ txn[c].op = "generate" /\ txn[c].locked = DOMAIN txn[c].read
  /\ next' = Advanced(c)
  /\ drafted' = [t \in Template |-> drafted[t] \cup
                   IF t \in txn[c].staged THEN {txn[c].read[t]} ELSE {}]
  /\ Ends(c) /\ UNCHANGED <<row, edits, today, since, raced>>

Tick ==
  /\ today < Len(Calendar) /\ today' = today + 1
  /\ UNCHANGED <<catalogueVars, next, since, drafted, raced>>

RecurringStep(c) ==
  \/ \E t \in Template : GenerateNext(c, t)
  \/ \E t \in Template, start \in Starts : TemplatePick(c, t, start)
  \/ \E X \in {Refs[t] : t \in Template} : RequisitionPick(c, X)
  \/ TemplateInsert(c) \/ RequisitionInsert(c)
  \/ GenerateSelect(c) \/ GenerateCommit(c)

Next ==
  \/ Tick
  \/ \E c \in Caller : RecurringStep(c)
  \/ \E c \in Caller : CatalogueStep(c) /\ UNCHANGED recurringVars

Spec == Init /\ [][Next]_vars

-----------------------------------------------------------------------------
(* Properties *)

(* A template is never behind: whatever generations overlap or fail, each  *)
(* month its cadence names, from the first run date up to the next, has    *)
(* had its requisition (recurring.ts:83 "advances their next_run_date by   *)
(* one cadence step"; recurring-cadence.ts:14 clamps to the month's end).  *)
NothingSkipped ==
  \A t \in Template : next[t] # None =>
    \A m \in since[t].month .. next[t].month - 1 :
      (m - since[t].month) % CadenceStep[Cadence[t]] = 0 =>
        \E date \in drafted[t] : date.month = m

Repeats(c) == {t \in txn[c].staged : txn[c].read[t] \in drafted[t]}

(* No date is generated twice unless two generations had the template      *)
(* selected at once: what the advance of next_run_date ensures by itself   *)
(* (recurring.test.ts:67 "does not double-generate on a second run").      *)
TwiceOnlyInRaces ==
  [][\A c \in Caller : GenerateCommit(c) => Repeats(c) \subseteq raced]_vars

(* "New requisitions may only reference active suppliers and cost centers" *)
(* (pickable.ts:5), generated ones too (recurring.ts:78 "left untouched    *)
(* because their supplier or cost center is archived"), unless one was     *)
(* archived by a call that overlapped this one.                            *)
RefersToActive ==
  [][\A c \in Caller :
       /\ RequisitionInsert(c) \/ TemplateInsert(c) => Pickable(txn[c].entity \ txn[c].met)
       /\ GenerateCommit(c) =>
            Pickable((UNION {Refs[t] : t \in txn[c].staged}) \ txn[c].met)]_vars
=============================================================================
