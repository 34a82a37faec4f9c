--------------------------- MODULE RecurringProofs ---------------------------
(***************************************************************************)
(* Proofs about Recurring and Catalogue, for any entities, templates,      *)
(* dates and files, and any number of calls that overlap.                  *)
(*                                                                         *)
(* Nearly everything rests on two facts about calls.  A step writes rows   *)
(* its own call has in hand and no others (RowsWrittenBy), and two calls   *)
(* with a row in hand both have it in met (MetInv); so what a call read of *)
(* a row that it did not meet another call on still holds when it writes   *)
(* (ReadInv for references and archived rows, ImportInv for the lines of a *)
(* file).  Templates need no such fact: a generation carries the dates it  *)
(* selected, and each of these is on the cadence with nothing missing      *)
(* before it (CadenceInv), however old it is by then; RaceInv says when    *)
(* it cannot be old.                                                       *)
(***************************************************************************)
EXTENDS Recurring, TLAPS

-----------------------------------------------------------------------------
(* What rows and calls look like *)

State == {"absent", "active", "archived"}
IsRow(r) == {"state", "name", "email"} \subseteq DOMAIN r /\ r.state \in State

(* The fields of a call of each kind, besides op, entity and met. *)
FieldsOf(op) ==
  CASE op = "create"   -> {"new"}
    [] op = "update"   -> {"patch"}
    [] op = "import"   -> {"kind", "file", "at", "match", "phase", "staged", "errors"}
    [] op = "template" -> {"template", "start"}
    [] op = "generate" -> {"read", "locked", "staged"}
    [] OTHER           -> {}

Op == {"idle", "create", "update", "archive", "import", "requisition", "template", "generate"}

CallOK(c) ==
  /\ {"op", "entity", "met"} \subseteq DOMAIN txn[c]
  /\ txn[c].op \in Op
  /\ FieldsOf(txn[c].op) \subseteq DOMAIN txn[c]
  /\ txn[c].entity \subseteq Entity
  /\ txn[c].op = "idle" => txn[c].entity = {}
  /\ txn[c].op = "create" => IsRow(txn[c].new) /\ txn[c].new.state = "active"
  /\ txn[c].op = "update" => DOMAIN txn[c].patch \subseteq {"name", "email"}
  /\ txn[c].op = "import" =>
       /\ txn[c].file \in File /\ txn[c].at \in 1 .. Len(txn[c].file) + 1
       /\ txn[c].phase = "write" => txn[c].at <= Len(txn[c].file)
       /\ DOMAIN txn[c].staged \subseteq txn[c].entity
       /\ txn[c].match \subseteq txn[c].entity
       /\ \A x \in DOMAIN txn[c].staged :
            IsRow(txn[c].staged[x]) /\ txn[c].staged[x].state # "absent"
       /\ \A x \in txn[c].match : row[x].state = "absent" => x \in DOMAIN txn[c].staged
  /\ txn[c].op = "template" =>
       /\ txn[c].template \in Template /\ txn[c].start \in Starts
       /\ txn[c].entity = Refs[txn[c].template]
       /\ next[txn[c].template] = None
  /\ txn[c].op \in {"requisition", "template"} =>
       \A x \in txn[c].entity : row[x].state # "absent"
  /\ txn[c].op = "generate" =>
       /\ DOMAIN txn[c].read \subseteq Template
       /\ txn[c].locked \subseteq DOMAIN txn[c].read /\ txn[c].staged \subseteq DOMAIN txn[c].read
       /\ txn[c].entity = UNION {Refs[t] : t \in DOMAIN txn[c].read}
       /\ \A t \in DOMAIN txn[c].read : next[t] # None /\ txn[c].read[t] \in Date

RowsOK == DOMAIN row = Entity /\ \A x \in Entity : IsRow(row[x])

TemplatesOK ==
  /\ next \in [Template -> Date \cup {None}] /\ since \in [Template -> Date \cup {None}]
  /\ \A t \in Template : next[t] # None =>
       since[t] # None /\ \A x \in Refs[t] : row[x].state # "absent"
  /\ \A c, o \in Caller :
       /\ txn[c].op = "template" /\ txn[o].op = "template"
       /\ txn[c].template = txn[o].template
       => c = o
  /\ drafted \in [Template -> SUBSET Date]
  /\ raced \subseteq Template

TypeOK ==
  /\ DOMAIN txn = Caller /\ \A c \in Caller : CallOK(c)
  /\ RowsOK /\ TemplatesOK

(* Two calls with a row in hand both know. *)
MetInv == \A c, o \in Caller : c # o => txn[c].entity \cap txn[o].entity \subseteq txn[c].met

(* What a call has read of its rows still holds, but for those it met      *)
(* another call on.                                                        *)
ReadHolds(c) ==
  /\ txn[c].op \in {"create", "update", "archive", "import"} =>
       \A x \in txn[c].entity \ txn[c].met : row[x].state # "archived"
  /\ txn[c].op \in {"requisition", "template"} =>
       \A x \in txn[c].entity \ txn[c].met : row[x].state = "active"
  /\ txn[c].op = "generate" =>
       \A t \in txn[c].staged : \A x \in Refs[t] \ txn[c].met : row[x].state = "active"
ReadInv == \A c \in Caller : ReadHolds(c)

(* A date on the template's cadence before which nothing is missing. *)
CaughtUp(t, date) ==
  /\ date \in Date /\ since[t].month <= date.month
  /\ (date.month - since[t].month) % CadenceStep[Cadence[t]] = 0
  /\ \A m \in since[t].month .. date.month - 1 :
       (m - since[t].month) % CadenceStep[Cadence[t]] = 0 =>
         \E d \in drafted[t] : d.month = m

CadenceInv ==
  /\ \A t \in Template : next[t] # None => CaughtUp(t, next[t])
  /\ \A c \in Caller : txn[c].op = "generate" =>
       \A t \in DOMAIN txn[c].read : CaughtUp(t, txn[c].read[t])

(* Unless raced, a template is in one generation at most, which has its    *)
(* next run date, and this is later than all dates generated.              *)
RaceInv ==
  \A t \in Template \ raced :
    /\ next[t] = None => drafted[t] = {}
    /\ next[t] # None => \A d \in drafted[t] : d.month < next[t].month
    /\ \A c \in Caller : txn[c].op = "generate" /\ t \in DOMAIN txn[c].read =>
         /\ txn[c].read[t] = next[t]
         /\ \A o \in Caller : txn[o].op = "generate" /\ t \in DOMAIN txn[o].read => c = o

(* An import that met nobody: what its lines so far say is what it sees.   *)
Holds(c, x, line) ==
  /\ x \in txn[c].entity /\ KindOf[x] = txn[c].kind
  /\ Seen(c, x).state = "active" /\ Seen(c, x).name = line.name

(* Line i of what c imports has no error, and no line before k names the   *)
(* same entity again.                                                      *)
LastOf(c, i, k) ==
  /\ i \in DOMAIN txn[c].file \ txn[c].errors
  /\ \A j \in i + 1 .. k - 1 : txn[c].file[j].name # txn[c].file[i].name

ImportHolds(c) ==
  txn[c].op = "import" /\ txn[c].met = {} =>
    /\ \A i \in 1 .. txn[c].at - 1 : LastOf(c, i, txn[c].at) =>
         \E x \in Entity : /\ Holds(c, x, txn[c].file[i])
                           /\ txn[c].file[i].email \in {Seen(c, x).email, Missing}
    /\ txn[c].phase = "write" => \A x \in txn[c].match : Holds(c, x, Line(c))
ImportInv == \A c \in Caller : ImportHolds(c)

-----------------------------------------------------------------------------
(* A call o other than the one that steps keeps its fields; it may have    *)
(* met that call.                                                          *)
Kept(o) ==
  /\ DOMAIN txn'[o] = DOMAIN txn[o]
  /\ \A f \in DOMAIN txn[o] \ {"met"} : txn'[o][f] = txn[o][f]
  /\ txn[o].met \subseteq txn'[o].met

(* What taking rows in hand does to the calls. *)
LEMMA TakesStep ==
  ASSUME TypeOK, NEW c \in Caller, NEW X, NEW call,
         "entity" \notin DOMAIN call, "met" \notin DOMAIN call, Takes(c, X, call)
  PROVE  /\ DOMAIN txn' = Caller
         /\ \A o \in Caller \ {c} : Kept(o) /\ X \cap txn[o].entity \subseteq txn'[o].met
         /\ DOMAIN txn'[c] = DOMAIN call \cup DOMAIN txn[c]
         /\ \A f \in DOMAIN call : txn'[c][f] = call[f]
         /\ \A f \in DOMAIN txn[c] \ (DOMAIN call \cup {"entity", "met"}) : txn'[c][f] = txn[c][f]
         /\ txn'[c].entity = txn[c].entity \cup X
         /\ txn'[c].met = txn[c].met \cup (X \cap UNION {txn[p].entity : p \in Caller \ {c}})
<1>1. \A o \in Caller : {"op", "entity", "met"} \subseteq DOMAIN txn[o]
  BY DEF TypeOK, CallOK
<1>2. DOMAIN txn' = Caller
  BY DEF Takes
<1>3. \A o \in Caller \ {c} : txn'[o] = [txn[o] EXCEPT !.met = @ \cup (X \cap txn[o].entity)]
  BY DEF Takes
<1>4. ASSUME NEW o \in Caller \ {c}
      PROVE  Kept(o) /\ X \cap txn[o].entity \subseteq txn'[o].met
  <2>1. \A r, m : "met" \in DOMAIN r =>
          /\ DOMAIN [r EXCEPT !.met = m] = DOMAIN r /\ [r EXCEPT !.met = m].met = m
          /\ \A f \in DOMAIN r \ {"met"} : [r EXCEPT !.met = m][f] = r[f]
    OBVIOUS
  <2>2. txn'[o] = [txn[o] EXCEPT !.met = txn[o].met \cup (X \cap txn[o].entity)]
    BY <1>3
  <2>3. txn'[o].met = txn[o].met \cup (X \cap txn[o].entity)
    BY <1>1, <2>1, <2>2
  <2>4. DOMAIN txn'[o] = DOMAIN txn[o] /\ \A f \in DOMAIN txn[o] \ {"met"} : txn'[o][f] = txn[o][f]
    BY <1>1, <2>1, <2>2
  <2> QED BY <2>3, <2>4 DEF Kept
<1> DEFINE others == X \cap UNION {txn[p].entity : p \in Caller \ {c}}
           old == [txn[c] EXCEPT !.entity = @ \cup X, !.met = @ \cup others]
<1>5. txn'[c] = Over(call, old)
  BY DEF Takes
<1>6. \A r, e, m : {"entity", "met"} \subseteq DOMAIN r =>
        /\ DOMAIN [r EXCEPT !.entity = e, !.met = m] = DOMAIN r
        /\ \A f \in DOMAIN r \ {"entity", "met"} : [r EXCEPT !.entity = e, !.met = m][f] = r[f]
        /\ [r EXCEPT !.entity = e, !.met = m].entity = e
        /\ [r EXCEPT !.entity = e, !.met = m].met = m
  OBVIOUS
<1> HIDE DEF others
<1>7. /\ DOMAIN old = DOMAIN txn[c]
      /\ \A f \in DOMAIN txn[c] \ {"entity", "met"} : old[f] = txn[c][f]
      /\ old.entity = txn[c].entity \cup X /\ old.met = txn[c].met \cup others
  BY <1>1, <1>6
<1> HIDE DEF old
<1> QED BY <1>1, <1>2, <1>4, <1>5, <1>7 DEF Over, others

(* What the end of a call does to the calls. *)
LEMMA EndsStep ==
  ASSUME TypeOK, NEW c \in Caller, Ends(c)
  PROVE  /\ DOMAIN txn' = Caller /\ txn'[c] = Idle
         /\ \A o \in Caller \ {c} : txn'[o] = txn[o]
         /\ \A o \in Caller \ {c} : Kept(o)
BY DEF TypeOK, Ends, Kept

(* What locking the next template does to the calls. *)
LEMMA GenerateNextStep ==
  ASSUME TypeOK, NEW c \in Caller, NEW t \in Template, GenerateNext(c, t)
  PROVE  /\ DOMAIN txn' = Caller /\ \A o \in Caller \ {c} : txn'[o] = txn[o]
         /\ \A o \in Caller \ {c} : Kept(o)
         /\ DOMAIN txn'[c] = DOMAIN txn[c]
         /\ \A f \in DOMAIN txn[c] \ {"locked", "staged"} : txn'[c][f] = txn[c][f]
         /\ txn'[c].locked = txn[c].locked \cup {t}
         /\ txn'[c].staged = IF Archived(t) THEN txn[c].staged ELSE txn[c].staged \cup {t}
<1>1. /\ \A o \in Caller \ {c} : txn'[o] = txn[o]
      /\ txn'[c] = [txn[c] EXCEPT !.locked = @ \cup {t},
                                  !.staged = IF Archived(t) THEN @ ELSE @ \cup {t}]
  BY DEF GenerateNext, TypeOK
<1>2. {"locked", "staged"} \subseteq DOMAIN txn[c]
  BY DEF GenerateNext, TypeOK, CallOK, FieldsOf
<1>3. \A r, l, s : {"locked", "staged"} \subseteq DOMAIN r =>
        /\ DOMAIN [r EXCEPT !.locked = l, !.staged = s] = DOMAIN r
        /\ \A f \in DOMAIN r \ {"locked", "staged"} : [r EXCEPT !.locked = l, !.staged = s][f] = r[f]
        /\ [r EXCEPT !.locked = l, !.staged = s].locked = l
        /\ [r EXCEPT !.locked = l, !.staged = s].staged = s
  OBVIOUS
<1>4. DOMAIN txn' = Caller /\ \A o \in Caller \ {c} : Kept(o)
  BY <1>1 DEF GenerateNext, TypeOK, Kept
<1> QED BY <1>1, <1>2, <1>3, <1>4

(* The steps of a call: it begins, goes on or ends. *)
LEMMA StepCases ==
  ASSUME NEW c \in Caller, RecurringStep(c) \/ CatalogueStep(c)
  PROVE  \/ Ends(c) \/ GenerateSelect(c)
         \/ \E x \in Entity :
              \/ \E name \in Name, email \in Emails(x) : CreateRead(c, x, name, email)
              \/ \E patch \in Patches(x) : UpdateRead(c, x, patch)
              \/ ArchiveRead(c, x)
         \/ \E kind \in {"supplier", "costCenter"}, file \in File : ImportBegin(c, kind, file)
         \/ ImportRead(c) \/ ImportInsert(c) \/ ImportUpdate(c)
         \/ \E t \in Template, start \in Starts : TemplatePick(c, t, start)
         \/ \E X \in {Refs[t] : t \in Template} : RequisitionPick(c, X)
         \/ \E t \in Template : GenerateNext(c, t)
BY DEF CatalogueStep, RecurringStep, CreateWrite, UpdateWrite, ArchiveWrite, ImportCommit,
   Abort, TemplateInsert, RequisitionInsert, GenerateCommit

(* A step of a call takes rows in hand, ends the call, or locks a template. *)
TakesSome(c) ==
  \E X, call : "entity" \notin DOMAIN call /\ "met" \notin DOMAIN call /\ Takes(c, X, call)

LEMMA StepKinds ==
  ASSUME NEW c \in Caller, CatalogueStep(c) \/ RecurringStep(c)
  PROVE  TakesSome(c) \/ Ends(c) \/ \E t \in Template : GenerateNext(c, t)
<1>1. ASSUME NEW x \in Entity, NEW name \in Name, NEW email \in Emails(x),
             CreateRead(c, x, name, email)
      PROVE  TakesSome(c)
  BY <1>1 DEF CreateRead, Begins, TakesSome
<1>2. ASSUME NEW x \in Entity, NEW patch \in Patches(x), UpdateRead(c, x, patch)
      PROVE  TakesSome(c)
  BY <1>2 DEF UpdateRead, Begins, TakesSome
<1>3. ASSUME NEW x \in Entity, ArchiveRead(c, x) PROVE TakesSome(c)
  BY <1>3 DEF ArchiveRead, Begins, TakesSome
<1>4. ASSUME NEW kind, NEW file, ImportBegin(c, kind, file) PROVE TakesSome(c)
  BY <1>4 DEF ImportBegin, Begins, TakesSome
<1>5. CASE ImportRead(c)
  BY <1>5 DEF ImportRead, TakesSome
<1>6. ASSUME NEW staged, NEW errors, Goes(c, staged, errors) PROVE TakesSome(c)
  BY <1>6 DEF Goes, TakesSome
<1>7. CASE ImportInsert(c) \/ ImportUpdate(c)
  BY <1>6, <1>7 DEF ImportInsert, ImportUpdate, Writes
<1>8. ASSUME NEW t \in Template, NEW start \in Starts, TemplatePick(c, t, start)
      PROVE  TakesSome(c)
  BY <1>8 DEF TemplatePick, Begins, TakesSome
<1>9. ASSUME NEW X, RequisitionPick(c, X) PROVE TakesSome(c)
  BY <1>9 DEF RequisitionPick, Begins, TakesSome
<1>10. CASE GenerateSelect(c)
  BY <1>10 DEF GenerateSelect, Begins, TakesSome
<1> QED BY <1>1, <1>2, <1>3, <1>4, <1>5, <1>7, <1>8, <1>9, <1>10, StepCases

(* The calls that do not step keep their fields, and any two calls still   *)
(* know of each other.                                                     *)
LEMMA OthersKept ==
  ASSUME TypeOK, NEW c \in Caller, CatalogueStep(c) \/ RecurringStep(c)
  PROVE  DOMAIN txn' = Caller /\ \A o \in Caller \ {c} : Kept(o)
<1>1. CASE TakesSome(c)
  BY <1>1, TakesStep DEF TakesSome
<1> QED BY <1>1, EndsStep, GenerateNextStep, StepKinds

LEMMA MetStep ==
  ASSUME TypeOK, MetInv, NEW c \in Caller, CatalogueStep(c) \/ RecurringStep(c)
  PROVE  MetInv'
<1>1. \A o \in Caller \ {c} : Kept(o) /\ txn'[o].entity = txn[o].entity
  BY OthersKept DEF Kept, TypeOK, CallOK
<1>2. SUFFICES ASSUME NEW o \in Caller \ {c}
               PROVE  txn'[c].entity \cap txn[o].entity \subseteq txn'[c].met \cap txn'[o].met
  BY <1>1 DEF MetInv, Kept
<1>3. txn[c].entity \cap txn[o].entity \subseteq txn[c].met \cap txn[o].met
  BY DEF MetInv
<1>4. txn[o].met \subseteq txn'[o].met
  BY <1>1 DEF Kept
<1>5. CASE TakesSome(c)
  <2>1. PICK X, call : "entity" \notin DOMAIN call /\ "met" \notin DOMAIN call /\ Takes(c, X, call)
    BY <1>5 DEF TakesSome
  <2>2. /\ X \cap txn[o].entity \subseteq txn'[o].met /\ txn'[c].entity = txn[c].entity \cup X
        /\ txn'[c].met = txn[c].met \cup (X \cap UNION {txn[p].entity : p \in Caller \ {c}})
    BY <2>1, TakesStep
  <2> QED BY <1>3, <1>4, <2>2
<1>6. CASE Ends(c)
  BY <1>6, EndsStep DEF Idle
<1>7. ASSUME NEW t \in Template, GenerateNext(c, t)
      PROVE  txn'[c].entity \cap txn[o].entity \subseteq txn'[c].met \cap txn'[o].met
  <2>1. txn'[c].entity = txn[c].entity /\ txn'[c].met = txn[c].met
    BY <1>7, GenerateNextStep DEF TypeOK, CallOK
  <2> QED BY <1>3, <1>4, <2>1
<1> QED BY <1>5, <1>6, <1>7, StepKinds

-----------------------------------------------------------------------------
(* A step writes rows that its call has in hand, and none of them ceases   *)
(* to exist.                                                               *)
RowsWrittenBy(c) ==
  /\ RowsOK'
  /\ \A x \in Entity : row'[x] # row[x] => x \in txn[c].entity
  /\ \A x \in Entity : row'[x].state = "absent" => row[x].state = "absent"

LEMMA WriteStep ==
  ASSUME TypeOK, NEW c \in Caller, NEW x \in txn[c].entity, NEW r,
         IsRow(r), r.state = "absent" => row[x].state = "absent",
         row' = row \/ row' = [row EXCEPT ![x] = r]
  PROVE  RowsWrittenBy(c)
<1>1. x \in Entity /\ RowsOK
  BY DEF TypeOK, CallOK
<1> QED BY <1>1 DEF RowsWrittenBy, RowsOK

LEMMA RowStep ==
  ASSUME TypeOK, NEW c \in Caller, CatalogueStep(c) \/ RecurringStep(c)
  PROVE  RowsWrittenBy(c)
<1>0. CallOK(c) /\ RowsOK
  BY DEF TypeOK
<1>1. CASE row' = row
  BY <1>0, <1>1 DEF RowsWrittenBy, RowsOK
<1>2. CASE CreateWrite(c)
  <2>1. PICK x \in txn[c].entity : row' = row \/ row' = [row EXCEPT ![x] = txn[c].new]
    BY <1>2 DEF CreateWrite
  <2>2. IsRow(txn[c].new) /\ txn[c].new.state = "active"
    BY <1>0, <1>2 DEF CreateWrite, CallOK
  <2> QED BY <2>1, <2>2, WriteStep
<1>3. CASE UpdateWrite(c)
  <2>1. PICK x \in txn[c].entity :
          row' = row \/ row' = [row EXCEPT ![x] = Over(txn[c].patch, row[x])]
    BY <1>3 DEF UpdateWrite
  <2>2. IsRow(row[x]) /\ "state" \notin DOMAIN txn[c].patch
    BY <1>0, <1>3 DEF UpdateWrite, CallOK, RowsOK
  <2>3. IsRow(Over(txn[c].patch, row[x])) /\ Over(txn[c].patch, row[x]).state = row[x].state
    BY <2>2 DEF IsRow, Over
  <2> QED BY <2>1, <2>3, WriteStep
<1>4. CASE ArchiveWrite(c)
  <2>1. PICK x \in txn[c].entity : row' = [row EXCEPT ![x].state = "archived"]
    BY <1>4 DEF ArchiveWrite
  <2> DEFINE r == [row[x] EXCEPT !.state = "archived"]
  <2>2. IsRow(row[x]) /\ x \in DOMAIN row
    BY <1>0, <2>1 DEF CallOK, RowsOK
  <2>3. IsRow(r) /\ r.state # "absent"
    BY <2>2 DEF IsRow, State
  <2>4. row' = [row EXCEPT ![x] = r]
    BY <2>1
  <2> HIDE DEF r
  <2> QED BY <2>3, <2>4, WriteStep
<1>5. CASE ImportCommit(c)
  <2>1. row' = [x \in Entity |-> Seen(c, x)] /\ txn[c].op = "import"
    BY <1>5 DEF ImportCommit
  <2>2. \A x \in DOMAIN txn[c].staged :
          x \in txn[c].entity /\ IsRow(txn[c].staged[x]) /\ txn[c].staged[x].state # "absent"
    BY <1>0, <2>1 DEF CallOK
  <2>3. \A x \in Entity : Seen(c, x) = IF x \in DOMAIN txn[c].staged THEN txn[c].staged[x] ELSE row[x]
    BY <2>1 DEF Seen, Staged
  <2> QED BY <1>0, <2>1, <2>2, <2>3 DEF RowsWrittenBy, RowsOK
<1>6. row' = row \/ CreateWrite(c) \/ UpdateWrite(c) \/ ArchiveWrite(c) \/ ImportCommit(c)
  BY DEF CatalogueStep, RecurringStep, CreateRead, UpdateRead, ArchiveRead, ImportBegin,
     ImportRead, ImportInsert, ImportUpdate, Abort, GenerateNext, TemplatePick, RequisitionPick,
     TemplateInsert, RequisitionInsert, GenerateSelect, GenerateCommit
<1> QED BY <1>1, <1>2, <1>3, <1>4, <1>5, <1>6

-----------------------------------------------------------------------------
(* The cadence leads from dates to dates. *)
LEMMA NextRunDate ==
  ASSUME NEW t \in Template, NEW date \in Date
  PROVE  /\ CadenceStep[Cadence[t]] \in {1, 3, 12}
         /\ NextRun(t, date) \in Date
         /\ NextRun(t, date).month = date.month + CadenceStep[Cadence[t]]
<1>1. CadenceStep[Cadence[t]] \in {1, 3, 12}
  BY RecurringAssumption DEF CadenceStep
<1>2. \A m \in Nat : LastDay(m) \in Nat
  BY DEF LastDay
<1>3. date.month \in Nat /\ date.day \in Nat
  BY DEF Date
<1> QED BY <1>1, <1>2, <1>3 DEF NextRun, AddMonths, Lesser, Date

(* A step makes at most the template its call is about, unmakes none, and  *)
(* keeps what is recorded of them in its type.                             *)
TemplatesWrittenBy(c) ==
  /\ next' \in [Template -> Date \cup {None}] /\ since' \in [Template -> Date \cup {None}]
  /\ drafted' \in [Template -> SUBSET Date] /\ raced' \subseteq Template
  /\ \A t \in Template : next[t] # None => next'[t] # None /\ since'[t] = since[t]
  /\ \A t \in Template : next[t] = None /\ next'[t] # None =>
       /\ txn[c].op = "template" /\ t = txn[c].template
       /\ next'[t] = txn[c].start /\ since'[t] = txn[c].start
  /\ \A t \in Template : drafted[t] \subseteq drafted'[t]
  /\ raced \subseteq raced'

LEMMA TemplateStep ==
  ASSUME TypeOK, NEW c \in Caller,
         RecurringStep(c) \/ (CatalogueStep(c) /\ UNCHANGED recurringVars)
  PROVE  TemplatesWrittenBy(c)
<1>0. CallOK(c) /\ TemplatesOK
  BY DEF TypeOK
<1>1. CASE UNCHANGED <<next, since, drafted>> /\ raced' \subseteq Template /\ raced \subseteq raced'
  BY <1>0, <1>1 DEF TemplatesWrittenBy, TemplatesOK
<1>2. CASE TemplateInsert(c)
  <2>1. txn[c].template \in Template /\ txn[c].start \in Date /\ txn[c].start # None
        /\ next[txn[c].template] = None
    BY <1>0, <1>2, RecurringAssumption DEF TemplateInsert, CallOK
  <2> QED BY <1>0, <1>2, <2>1 DEF TemplateInsert, TemplatesWrittenBy, TemplatesOK
<1>3. CASE GenerateCommit(c)
  <2>1. \A t \in txn[c].staged : t \in Template /\ next[t] # None /\ txn[c].read[t] \in Date
    BY <1>0, <1>3 DEF GenerateCommit, CallOK
  <2>2. \A t \in txn[c].staged : NextRun(t, txn[c].read[t]) \in Date
    BY <2>1, NextRunDate
  <2>3. next' \in [Template -> Date \cup {None}]
        /\ \A t \in Template : (next[t] # None <=> next'[t] # None)
    BY <1>0, <1>3, <2>1, <2>2, RecurringAssumption DEF GenerateCommit, Advanced, TemplatesOK
  <2>4. drafted' \in [Template -> SUBSET Date]
        /\ \A t \in Template : drafted[t] \subseteq drafted'[t]
    BY <1>0, <1>3, <2>1 DEF GenerateCommit, TemplatesOK
  <2> QED BY <1>0, <1>3, <2>3, <2>4 DEF GenerateCommit, TemplatesWrittenBy, TemplatesOK
<1>4. CASE GenerateSelect(c)
  BY <1>0, <1>1, <1>4 DEF GenerateSelect, Due, TemplatesOK
<1>5. UNCHANGED recurringVars \/ TemplateInsert(c) \/ GenerateCommit(c) \/ GenerateSelect(c)
  BY DEF RecurringStep, GenerateNext, TemplatePick, RequisitionPick, RequisitionInsert
<1> QED BY <1>0, <1>1, <1>2, <1>3, <1>4, <1>5 DEF recurringVars, TemplatesOK

(* The calls that do not step stay of their type. *)
LEMMA OtherCallOK ==
  ASSUME NEW c \in Caller, NEW o \in Caller \ {c}, CallOK(o), CallOK(c),
         Kept(o), RowsWrittenBy(c), TemplatesWrittenBy(c),
         txn[o].op = "template" /\ txn[c].op = "template" => txn[o].template # txn[c].template
  PROVE  CallOK(o)'
<1>1. /\ DOMAIN txn'[o] = DOMAIN txn[o] /\ txn'[o].op = txn[o].op /\ txn'[o].entity = txn[o].entity
  BY DEF Kept, CallOK
<1>2. CASE txn[o].op \in {"idle", "archive"}
  BY <1>1, <1>2 DEF CallOK, FieldsOf
<1>3. CASE txn[o].op = "create"
  BY <1>1, <1>3 DEF CallOK, FieldsOf, Kept
<1>4. CASE txn[o].op = "update"
  BY <1>1, <1>4 DEF CallOK, FieldsOf, Kept
<1>5. CASE txn[o].op = "import"
  <2>1. /\ txn'[o].file = txn[o].file /\ txn'[o].at = txn[o].at /\ txn'[o].phase = txn[o].phase
        /\ txn'[o].staged = txn[o].staged /\ txn'[o].match = txn[o].match
    BY <1>5 DEF CallOK, FieldsOf, Kept
  <2>2. \A x \in txn[o].match : row'[x].state = "absent" => row[x].state = "absent"
    BY <1>5 DEF CallOK, RowsWrittenBy
  <2> QED BY <1>1, <1>5, <2>1, <2>2 DEF CallOK
<1>6. CASE txn[o].op = "template"
  <2>1. txn'[o].template = txn[o].template /\ txn'[o].start = txn[o].start
    BY <1>6 DEF CallOK, FieldsOf, Kept
  <2>2. next'[txn[o].template] = None
    BY <1>6 DEF CallOK, TemplatesWrittenBy
  <2>3. \A x \in txn[o].entity : row'[x].state # "absent"
    BY <1>6 DEF CallOK, RowsWrittenBy
  <2> QED BY <1>1, <1>6, <2>1, <2>2, <2>3 DEF CallOK
<1>7. CASE txn[o].op = "requisition"
  <2>1. \A x \in txn[o].entity : row'[x].state # "absent"
    BY <1>7 DEF CallOK, RowsWrittenBy
  <2> QED BY <1>1, <1>7, <2>1 DEF CallOK, FieldsOf
<1>8. CASE txn[o].op = "generate"
  <2>1. txn'[o].read = txn[o].read /\ txn'[o].locked = txn[o].locked /\ txn'[o].staged = txn[o].staged
    BY <1>8 DEF CallOK, FieldsOf, Kept
  <2>2. \A t \in DOMAIN txn[o].read : next'[t] # None
    BY <1>8 DEF CallOK, TemplatesWrittenBy
  <2> QED BY <1>1, <1>8, <2>1, <2>2 DEF CallOK
<1> QED BY <1>2, <1>3, <1>4, <1>5, <1>6, <1>7, <1>8 DEF CallOK, Op

(* How a call begins. *)
LEMMA BeginsStep ==
  ASSUME TypeOK, NEW c \in Caller, NEW X, NEW call,
         "op" \in DOMAIN call, "entity" \notin DOMAIN call, "met" \notin DOMAIN call,
         Begins(c, X, call)
  PROVE  /\ txn[c] = Idle
         /\ DOMAIN txn'[c] = DOMAIN call \cup {"entity", "met"}
         /\ \A f \in DOMAIN call : txn'[c][f] = call[f]
         /\ txn'[c].entity = X
<1>1. txn[c] = Idle /\ Takes(c, X, call)
  BY DEF Begins
<1>2. DOMAIN Idle = {"op", "entity", "met"} /\ Idle.entity = {}
  BY DEF Idle
<1>3. /\ DOMAIN txn'[c] = DOMAIN call \cup DOMAIN txn[c]
      /\ \A f \in DOMAIN call : txn'[c][f] = call[f]
      /\ txn'[c].entity = txn[c].entity \cup X
  BY <1>1, TakesStep
<1> QED BY <1>1, <1>2, <1>3

(* The call that steps stays of its type, and no two calls make the same   *)
(* template.                                                               *)
OwnCallOK(c) ==
  /\ CallOK(c)'
  /\ txn'[c].op = "template" =>
       \A o \in Caller \ {c} : txn[o].op = "template" => txn[o].template # txn'[c].template

LEMMA BeginCallOK ==
  ASSUME TypeOK, NEW c \in Caller,
         \/ \E x \in Entity :
              \/ \E name \in Name, email \in Emails(x) : CreateRead(c, x, name, email)
              \/ \E patch \in Patches(x) : UpdateRead(c, x, patch)
              \/ ArchiveRead(c, x)
         \/ \E kind \in {"supplier", "costCenter"}, file \in File : ImportBegin(c, kind, file)
  PROVE  OwnCallOK(c)
<1>1. ASSUME NEW x \in Entity, NEW name \in Name, NEW email \in Emails(x),
             CreateRead(c, x, name, email)
      PROVE  OwnCallOK(c)
  <2> DEFINE call == [op |-> "create", new |-> Active(name, email)]
  <2>1. Begins(c, {x}, call) /\ DOMAIN call = {"op", "new"} /\ call.op = "create"
        /\ call.new = Active(name, email)
    BY <1>1 DEF CreateRead
  <2>2. IsRow(Active(name, email)) /\ Active(name, email).state = "active"
    BY DEF IsRow, Active, State
  <2> HIDE DEF call
  <2>3. /\ DOMAIN txn'[c] = {"op", "new", "entity", "met"} /\ txn'[c].op = "create"
        /\ txn'[c].new = Active(name, email) /\ txn'[c].entity = {x}
    BY <2>1, BeginsStep
  <2> QED BY <2>2, <2>3 DEF OwnCallOK, CallOK, FieldsOf, Op
<1>2. ASSUME NEW x \in Entity, NEW patch \in Patches(x), UpdateRead(c, x, patch)
      PROVE  OwnCallOK(c)
  <2> DEFINE call == [op |-> "update", patch |-> patch]
  <2>1. Begins(c, {x}, call) /\ DOMAIN call = {"op", "patch"} /\ call.op = "update"
        /\ call.patch = patch
    BY <1>2 DEF UpdateRead
  <2>2. DOMAIN patch \subseteq {"name", "email"}
    BY DEF Patches
  <2> HIDE DEF call
  <2>3. /\ DOMAIN txn'[c] = {"op", "patch", "entity", "met"} /\ txn'[c].op = "update"
        /\ txn'[c].patch = patch /\ txn'[c].entity = {x}
    BY <2>1, BeginsStep
  <2> QED BY <2>2, <2>3 DEF OwnCallOK, CallOK, FieldsOf, Op
<1>3. ASSUME NEW x \in Entity, ArchiveRead(c, x) PROVE OwnCallOK(c)
  <2> DEFINE call == [op |-> "archive"]
  <2>1. Begins(c, {x}, call) /\ DOMAIN call = {"op"} /\ call.op = "archive"
    BY <1>3 DEF ArchiveRead
  <2> HIDE DEF call
  <2>2. DOMAIN txn'[c] = {"op", "entity", "met"} /\ txn'[c].op = "archive" /\ txn'[c].entity = {x}
    BY <2>1, BeginsStep
  <2> QED BY <2>2 DEF OwnCallOK, CallOK, FieldsOf, Op
<1>4. ASSUME NEW kind, NEW file \in File, ImportBegin(c, kind, file) PROVE OwnCallOK(c)
  <2> DEFINE call == [op |-> "import", kind |-> kind, file |-> file,
                      at |-> 1, match |-> {}, phase |-> "read",
                      staged |-> [x \in {} |-> Absent], errors |-> {}]
  <2>1. Begins(c, {}, call)
    BY <1>4 DEF ImportBegin
  <2>2. /\ DOMAIN call = {"op", "kind", "file", "at", "match", "phase", "staged", "errors"}
        /\ call.op = "import" /\ call.file = file /\ call.at = 1 /\ call.match = {}
        /\ call.phase = "read" /\ DOMAIN call.staged = {}
    OBVIOUS
  <2> HIDE DEF call
  <2>3. /\ DOMAIN txn'[c] = DOMAIN call \cup {"entity", "met"} /\ txn'[c].op = "import"
        /\ txn'[c].file = file /\ txn'[c].at = 1 /\ txn'[c].match = {}
        /\ txn'[c].phase = "read" /\ DOMAIN txn'[c].staged = {} /\ txn'[c].entity = {}
    BY <2>1, <2>2, BeginsStep
  <2>4. 1 \in 1 .. Len(file) + 1
    BY CatalogueAssumption
  <2>5. FieldsOf(txn'[c].op) \subseteq DOMAIN txn'[c]
    BY <2>2, <2>3 DEF FieldsOf
  <2> QED BY <2>2, <2>3, <2>4, <2>5 DEF OwnCallOK, CallOK, Op
<1> QED BY <1>1, <1>2, <1>3, <1>4

(* How an import goes on. *)
LEMMA ImportCallOK ==
  ASSUME TypeOK, NEW c \in Caller, ImportRead(c) \/ ImportInsert(c) \/ ImportUpdate(c)
  PROVE  OwnCallOK(c)
<1>0. CallOK(c) /\ txn[c].op = "import" /\ row' = row
  BY DEF TypeOK, ImportRead, ImportInsert, ImportUpdate
<1>1. CASE ImportRead(c)
  <2> DEFINE match == Named(c, txn[c].kind, Line(c).name)
             call == [phase |-> "write", match |-> match]
  <2>1. Takes(c, match, call) /\ txn[c].at <= Len(txn[c].file)
    BY <1>1 DEF ImportRead
  <2>2. DOMAIN call = {"phase", "match"} /\ call.phase = "write" /\ call.match = match
    OBVIOUS
  <2>3. match \subseteq Entity
        /\ \A x \in match : row[x].state = "absent" => x \in DOMAIN txn[c].staged
    BY <1>0 DEF Named, Seen, Staged
  <2> HIDE DEF match, call
  <2>4. /\ DOMAIN txn'[c] = {"phase", "match"} \cup DOMAIN txn[c]
        /\ \A f \in {"phase", "match"} : txn'[c][f] = call[f]
        /\ \A f \in DOMAIN txn[c] \ ({"phase", "match"} \cup {"entity", "met"}) :
             txn'[c][f] = txn[c][f]
        /\ txn'[c].entity = txn[c].entity \cup match
    BY <2>1, <2>2, TakesStep
  <2>5. txn'[c].phase = "write" /\ txn'[c].match = match
    BY <2>2, <2>4
  <2>6. /\ txn'[c].op = "import" /\ txn'[c].file = txn[c].file /\ txn'[c].at = txn[c].at
        /\ txn'[c].staged = txn[c].staged
    BY <1>0, <2>4 DEF CallOK, FieldsOf
  <2> QED BY <1>0, <2>1, <2>3, <2>4, <2>5, <2>6 DEF OwnCallOK, CallOK, FieldsOf, Op
<1>2. ASSUME NEW staged, NEW errors, Goes(c, staged, errors), txn[c].phase = "write",
             DOMAIN staged \subseteq Entity,
             \A x \in DOMAIN staged : IsRow(staged[x]) /\ staged[x].state # "absent"
      PROVE  OwnCallOK(c)
  <2> DEFINE call == [phase |-> "read", at |-> txn[c].at + 1, match |-> {},
                      staged |-> staged, errors |-> errors]
  <2>1. Takes(c, DOMAIN staged, call)
    BY <1>2 DEF Goes
  <2>2. /\ DOMAIN call = {"phase", "at", "match", "staged", "errors"}
        /\ call.phase = "read" /\ call.at = txn[c].at + 1 /\ call.match = {}
        /\ call.staged = staged
    OBVIOUS
  <2> HIDE DEF call
  <2>3. /\ DOMAIN txn'[c] = DOMAIN call \cup DOMAIN txn[c]
        /\ \A f \in DOMAIN call : txn'[c][f] = call[f]
        /\ \A f \in DOMAIN txn[c] \ (DOMAIN call \cup {"entity", "met"}) :
             txn'[c][f] = txn[c][f]
        /\ txn'[c].entity = txn[c].entity \cup DOMAIN staged
    BY <2>1, <2>2, TakesStep
  <2>4. txn'[c].phase = "read" /\ txn'[c].at = txn[c].at + 1 /\ txn'[c].match = {}
        /\ txn'[c].staged = staged
    BY <2>2, <2>3
  <2>5. txn'[c].op = "import" /\ txn'[c].file = txn[c].file
    BY <1>0, <2>2, <2>3 DEF CallOK, FieldsOf
  <2>6. txn[c].at + 1 \in 1 .. Len(txn[c].file) + 1
    <3>1. Len(txn[c].file) \in Nat
      BY <1>0, CatalogueAssumption DEF CallOK
    <3>2. txn[c].at \in 1 .. Len(txn[c].file) + 1 /\ txn[c].at <= Len(txn[c].file)
      BY <1>0, <1>2 DEF CallOK
    <3> QED BY <3>1, <3>2
  <2>7. txn'[c].entity \subseteq Entity /\ DOMAIN staged \subseteq txn'[c].entity
    BY <1>0, <1>2, <2>3 DEF CallOK
  <2>8. {"op", "entity", "met"} \cup FieldsOf("import") \subseteq DOMAIN txn'[c]
    BY <1>0, <2>3 DEF CallOK
  <2> QED BY <1>0, <1>2, <2>4, <2>5, <2>6, <2>7, <2>8 DEF OwnCallOK, CallOK, Op
<1>3. /\ DOMAIN Staged(c) \subseteq Entity
      /\ \A x \in DOMAIN Staged(c) : IsRow(Staged(c)[x]) /\ Staged(c)[x].state # "absent"
  BY <1>0 DEF CallOK, Staged
<1>4. ASSUME NEW x \in Entity, NEW r, IsRow(r), r.state # "absent", Writes(c, x, r),
             txn[c].phase = "write"
      PROVE  OwnCallOK(c)
  <2> DEFINE staged == [y \in DOMAIN Staged(c) \cup {x} |-> IF y = x THEN r ELSE Staged(c)[y]]
  <2>1. Goes(c, staged, txn[c].errors)
    BY <1>4 DEF Writes
  <2>2. DOMAIN staged \subseteq Entity
        /\ \A y \in DOMAIN staged : IsRow(staged[y]) /\ staged[y].state # "absent"
    BY <1>3, <1>4
  <2> HIDE DEF staged
  <2> QED BY <1>2, <1>4, <2>1, <2>2
<1>5. CASE ImportInsert(c)
  <2>1. CASE Goes(c, Staged(c), txn[c].errors \cup {txn[c].at})
    BY <1>2, <1>3, <1>5, <2>1 DEF ImportInsert
  <2>2. ASSUME NEW x \in Entity, NEW name, NEW email, Writes(c, x, Active(name, email))
        PROVE  OwnCallOK(c)
    BY <1>4, <1>5, <2>2 DEF Active, IsRow, State, ImportInsert
  <2> QED BY <1>5, <2>1, <2>2 DEF ImportInsert
<1>6. CASE ImportUpdate(c)
  <2>1. PICK x \in txn[c].match :
          \/ Goes(c, Staged(c), txn[c].errors)
          \/ Writes(c, x, [Seen(c, x) EXCEPT !.email = Line(c).email])
    BY <1>6 DEF ImportUpdate
  <2>2. x \in Entity /\ txn[c].phase = "write" /\ IsRow(Seen(c, x)) /\ Seen(c, x).state # "absent"
    BY <1>0, <1>6 DEF CallOK, ImportUpdate, Seen, Staged, TypeOK, RowsOK
  <2>3. \A r, e : IsRow(r) => IsRow([r EXCEPT !.email = e]) /\ [r EXCEPT !.email = e].state = r.state
    BY DEF IsRow
  <2> QED BY <1>2, <1>3, <1>4, <2>1, <2>2, <2>3
<1> QED BY <1>1, <1>5, <1>6

LEMMA RecurringCallOK ==
  ASSUME TypeOK, NEW c \in Caller,
         \/ \E t \in Template, start \in Starts : TemplatePick(c, t, start)
         \/ \E X \in {Refs[t] : t \in Template} : RequisitionPick(c, X)
         \/ GenerateSelect(c)
         \/ \E t \in Template : GenerateNext(c, t)
  PROVE  OwnCallOK(c)
<1>0. CallOK(c) /\ RowsOK /\ TemplatesOK
  BY DEF TypeOK
<1>1. ASSUME NEW t \in Template, NEW start \in Starts, TemplatePick(c, t, start)
      PROVE  OwnCallOK(c)
  <2> DEFINE call == [op |-> "template", template |-> t, start |-> start]
  <2>1. Begins(c, Refs[t], call) /\ DOMAIN call = {"op", "template", "start"}
        /\ call.op = "template" /\ call.template = t /\ call.start = start
    BY <1>1 DEF TemplatePick
  <2>2. /\ next[t] = None /\ next' = next /\ row' = row
        /\ \A x \in Refs[t] : row[x].state = "active"
        /\ \A o \in Caller : txn[o].op = "template" => txn[o].template # t
    BY <1>1 DEF TemplatePick, Pickable, recurringVars
  <2> HIDE DEF call
  <2>3. /\ DOMAIN txn'[c] = {"op", "template", "start", "entity", "met"}
        /\ txn'[c].op = "template" /\ txn'[c].template = t /\ txn'[c].start = start
        /\ txn'[c].entity = Refs[t]
    BY <2>1, BeginsStep
  <2>4. Refs[t] \subseteq Entity
    BY RecurringAssumption
  <2> QED BY <2>2, <2>3, <2>4 DEF OwnCallOK, CallOK, FieldsOf, Op
<1>2. ASSUME NEW s \in Template, RequisitionPick(c, Refs[s]) PROVE OwnCallOK(c)
  <2> DEFINE call == [op |-> "requisition"]
  <2>1. Begins(c, Refs[s], call) /\ DOMAIN call = {"op"} /\ call.op = "requisition"
    BY <1>2 DEF RequisitionPick
  <2>2. row' = row /\ \A x \in Refs[s] : row[x].state = "active"
    BY <1>2 DEF RequisitionPick, Pickable
  <2> HIDE DEF call
  <2>3. /\ DOMAIN txn'[c] = {"op", "entity", "met"}
        /\ txn'[c].op = "requisition" /\ txn'[c].entity = Refs[s]
    BY <2>1, BeginsStep
  <2>4. Refs[s] \subseteq Entity
    BY RecurringAssumption
  <2> QED BY <2>2, <2>3, <2>4 DEF OwnCallOK, CallOK, FieldsOf, Op
<1>3. CASE GenerateSelect(c)
  <2> DEFINE read == [t \in Due |-> next[t]]
             call == [op |-> "generate", read |-> read, locked |-> {}, staged |-> {}]
  <2>1. Begins(c, UNION {Refs[t] : t \in Due}, call)
    BY <1>3 DEF GenerateSelect
  <2>2. /\ DOMAIN call = {"op", "read", "locked", "staged"} /\ call.op = "generate"
        /\ call.read = read /\ call.locked = {} /\ call.staged = {}
    OBVIOUS
  <2>3. /\ DOMAIN read = Due /\ Due \subseteq Template
        /\ \A t \in Due : next[t] # None /\ read[t] \in Date
    BY <1>0 DEF Due, TemplatesOK
  <2>4. next' = next
    BY <1>3 DEF GenerateSelect
  <2>5. UNION {Refs[t] : t \in Due} \subseteq Entity
    BY <2>3, RecurringAssumption
  <2> HIDE DEF call, read
  <2>6. /\ DOMAIN txn'[c] = {"op", "read", "locked", "staged", "entity", "met"}
        /\ txn'[c].op = "generate" /\ txn'[c].read = read /\ txn'[c].locked = {}
        /\ txn'[c].staged = {} /\ txn'[c].entity = UNION {Refs[t] : t \in Due}
    BY <2>1, <2>2, BeginsStep
  <2> QED BY <2>3, <2>4, <2>5, <2>6 DEF OwnCallOK, CallOK, FieldsOf, Op
<1>4. ASSUME NEW t \in Template, GenerateNext(c, t) PROVE OwnCallOK(c)
  <2>1. next' = next /\ txn[c].op = "generate" /\ t \in DOMAIN txn[c].read
    BY <1>4 DEF GenerateNext, recurringVars
  <2>2. /\ txn'[c].op = "generate" /\ txn'[c].read = txn[c].read
        /\ txn'[c].entity = txn[c].entity
        /\ DOMAIN txn'[c] = DOMAIN txn[c]
        /\ txn'[c].locked = txn[c].locked \cup {t}
        /\ txn'[c].staged \subseteq txn[c].staged \cup {t}
    <3>1. /\ DOMAIN txn'[c] = DOMAIN txn[c]
          /\ \A f \in DOMAIN txn[c] \ {"locked", "staged"} : txn'[c][f] = txn[c][f]
          /\ txn'[c].locked = txn[c].locked \cup {t}
          /\ txn'[c].staged = IF Archived(t) THEN txn[c].staged ELSE txn[c].staged \cup {t}
      BY <1>4, GenerateNextStep
    <3>2. {"op", "entity", "read"} \subseteq DOMAIN txn[c]
      BY <1>0, <2>1 DEF CallOK, FieldsOf
    <3> QED BY <2>1, <3>1, <3>2
  <2> QED BY <1>0, <2>1, <2>2 DEF OwnCallOK, CallOK
<1> QED BY <1>1, <1>2, <1>3, <1>4

LEMMA TypeStep ==
  ASSUME TypeOK, NEW c \in Caller,
         RecurringStep(c) \/ (CatalogueStep(c) /\ UNCHANGED recurringVars)
  PROVE  TypeOK'
<1>1. DOMAIN txn' = Caller /\ \A o \in Caller \ {c} : Kept(o)
  BY OthersKept
<1>2. RowsWrittenBy(c) /\ TemplatesWrittenBy(c)
  BY RowStep, TemplateStep
<1>3. OwnCallOK(c)
  <2>1. CASE Ends(c)
    <3>1. txn'[c] = Idle
      BY <2>1, EndsStep
    <3> QED BY <3>1 DEF OwnCallOK, CallOK, Idle, FieldsOf, Op
  <2> QED BY <2>1, StepCases, BeginCallOK, ImportCallOK, RecurringCallOK
<1>4. \A o \in Caller : CallOK(o)
  BY DEF TypeOK
<1>5. ASSUME NEW o \in Caller \ {c}, txn[o].op = "template", txn[c].op = "template"
      PROVE  txn[o].template # txn[c].template
  BY <1>5 DEF TypeOK, TemplatesOK
<1>6. \A o \in Caller : CallOK(o)'
  BY <1>1, <1>2, <1>3, <1>4, <1>5, OtherCallOK DEF OwnCallOK
<1>7. TemplatesOK'
  <2>1. \A t \in Template : next'[t] # None =>
          since'[t] # None /\ \A x \in Refs[t] : row'[x].state # "absent"
    <3>1. SUFFICES ASSUME NEW t \in Template, next'[t] # None
                   PROVE  since'[t] # None /\ \A x \in Refs[t] : row[x].state # "absent"
      BY <1>2, RecurringAssumption DEF RowsWrittenBy
    <3>2. CASE next[t] # None
      BY <1>2, <3>1, <3>2 DEF TypeOK, TemplatesOK, TemplatesWrittenBy
    <3>3. CASE next[t] = None
      <4>1. txn[c].op = "template" /\ t = txn[c].template /\ next'[t] = since'[t]
        BY <1>2, <3>1, <3>3 DEF TemplatesWrittenBy
      <4>2. \A x \in Refs[t] : row[x].state # "absent"
        BY <1>4, <4>1 DEF CallOK
      <4> QED BY <3>1, <4>1, <4>2
    <3> QED BY <3>2, <3>3
  <2>2. ASSUME NEW o \in Caller, NEW p \in Caller, txn'[o].op = "template",
               txn'[p].op = "template", txn'[o].template = txn'[p].template
        PROVE  o = p
    <3>1. ASSUME NEW q \in Caller \ {c}, txn'[q].op = "template"
          PROVE  txn[q].op = "template" /\ txn[q].template = txn'[q].template
      BY <1>1, <1>4, <3>1 DEF Kept, CallOK, FieldsOf
    <3>2. CASE o # c /\ p # c
      BY <2>2, <3>1, <3>2 DEF TypeOK, TemplatesOK
    <3>3. CASE o = c \/ p = c
      BY <1>3, <2>2, <3>1, <3>3 DEF OwnCallOK
    <3> QED BY <3>2, <3>3
  <2> QED BY <1>2, <2>1, <2>2 DEF TemplatesOK, TemplatesWrittenBy
<1> QED BY <1>1, <1>2, <1>6, <1>7 DEF TypeOK, RowsWrittenBy

-----------------------------------------------------------------------------
(* What a call has read of its rows holds until it writes them. *)
LEMMA OtherRead ==
  ASSUME TypeOK, MetInv, NEW c \in Caller, NEW o \in Caller \ {c}, ReadHolds(o),
         Kept(o), RowsWrittenBy(c)
  PROVE  ReadHolds(o)'
<1>1. CallOK(o)
  BY DEF TypeOK
<1>2. txn'[o].op = txn[o].op /\ txn'[o].entity = txn[o].entity /\ txn[o].met \subseteq txn'[o].met
  BY <1>1 DEF Kept, CallOK
<1>3. \A x \in txn[o].entity \ txn[o].met : row'[x] = row[x]
  BY <1>1 DEF MetInv, RowsWrittenBy, CallOK
<1>4. txn[o].op = "generate" =>
        txn'[o].staged = txn[o].staged /\ \A t \in txn[o].staged : Refs[t] \subseteq txn[o].entity
  BY <1>1 DEF Kept, CallOK, FieldsOf
<1> QED BY <1>2, <1>3, <1>4 DEF ReadHolds

LEMMA OwnRead ==
  ASSUME TypeOK, NEW c \in Caller, ReadHolds(c),
         RecurringStep(c) \/ CatalogueStep(c)
  PROVE  ReadHolds(c)'
<1>0. CallOK(c) /\ RowsOK /\ TemplatesOK
  BY DEF TypeOK
<1>1. CASE Ends(c)
  <2>1. txn'[c] = Idle
    BY <1>1, EndsStep
  <2> QED BY <2>1 DEF ReadHolds, Idle
(* A call that begins has seen its rows. *)
<1>2. ASSUME NEW X, NEW call, Begins(c, X, call), row' = row,
             "op" \in DOMAIN call, "entity" \notin DOMAIN call, "met" \notin DOMAIN call,
             call.op \in {"create", "update", "archive", "import", "requisition", "template"},
             \A x \in X : (row[x] = Absent /\ call.op = "create") \/ row[x].state = "active"
      PROVE  ReadHolds(c)'
  <2>1. txn'[c].op = call.op /\ txn'[c].entity = X
    BY <1>2, BeginsStep
  <2> QED BY <1>2, <2>1 DEF ReadHolds, Absent
<1>3. ASSUME NEW x \in Entity, NEW name, NEW email, CreateRead(c, x, name, email)
      PROVE  ReadHolds(c)'
  <2> DEFINE call == [op |-> "create", new |-> Active(name, email)]
  <2>1. Begins(c, {x}, call) /\ DOMAIN call = {"op", "new"} /\ call.op = "create"
        /\ row[x] = Absent /\ row' = row
    BY <1>3 DEF CreateRead
  <2> HIDE DEF call
  <2> QED BY <1>2, <2>1
<1>4. ASSUME NEW x \in Entity, NEW patch, UpdateRead(c, x, patch) PROVE ReadHolds(c)'
  <2> DEFINE call == [op |-> "update", patch |-> patch]
  <2>1. Begins(c, {x}, call) /\ DOMAIN call = {"op", "patch"} /\ call.op = "update"
        /\ row[x].state = "active" /\ row' = row
    BY <1>4 DEF UpdateRead, Editable
  <2> HIDE DEF call
  <2> QED BY <1>2, <2>1
<1>5. ASSUME NEW x \in Entity, ArchiveRead(c, x) PROVE ReadHolds(c)'
  <2> DEFINE call == [op |-> "archive"]
  <2>1. Begins(c, {x}, call) /\ DOMAIN call = {"op"} /\ call.op = "archive"
        /\ row[x].state = "active" /\ row' = row
    BY <1>5 DEF ArchiveRead
  <2> HIDE DEF call
  <2> QED BY <1>2, <2>1
<1>6. ASSUME NEW kind, NEW file, ImportBegin(c, kind, file) PROVE ReadHolds(c)'
  <2> DEFINE call == [op |-> "import", kind |-> kind, file |-> file,
                      at |-> 1, match |-> {}, phase |-> "read",
                      staged |-> [x \in {} |-> Absent], errors |-> {}]
  <2>1. Begins(c, {}, call) /\ call.op = "import" /\ row' = row
        /\ DOMAIN call = {"op", "kind", "file", "at", "match", "phase", "staged", "errors"}
    BY <1>6 DEF ImportBegin
  <2> HIDE DEF call
  <2> QED BY <1>2, <2>1
<1>7. ASSUME NEW t, NEW start, TemplatePick(c, t, start) PROVE ReadHolds(c)'
  <2> DEFINE call == [op |-> "template", template |-> t, start |-> start]
  <2>1. Begins(c, Refs[t], call) /\ DOMAIN call = {"op", "template", "start"}
        /\ call.op = "template" /\ row' = row /\ \A x \in Refs[t] : row[x].state = "active"
    BY <1>7 DEF TemplatePick, Pickable
  <2> HIDE DEF call
  <2> QED BY <1>2, <2>1
<1>8. ASSUME NEW X, RequisitionPick(c, X) PROVE ReadHolds(c)'
  <2> DEFINE call == [op |-> "requisition"]
  <2>1. Begins(c, X, call) /\ DOMAIN call = {"op"}
        /\ call.op = "requisition" /\ row' = row /\ \A x \in X : row[x].state = "active"
    BY <1>8 DEF RequisitionPick, Pickable
  <2> HIDE DEF call
  <2> QED BY <1>2, <2>1
<1>9. CASE GenerateSelect(c)
  <2> DEFINE call == [op |-> "generate", read |-> [t \in Due |-> next[t]],
                      locked |-> {}, staged |-> {}]
  <2>1. Begins(c, UNION {Refs[t] : t \in Due}, call)
        /\ DOMAIN call = {"op", "read", "locked", "staged"}
        /\ call.op = "generate" /\ call.staged = {}
    BY <1>9 DEF GenerateSelect
  <2> HIDE DEF call
  <2>2. txn'[c].op = "generate" /\ txn'[c].staged = {}
    BY <2>1, BeginsStep
  <2> QED BY <2>2 DEF ReadHolds
(* An import that goes on has seen the rows that it takes in hand. *)
<1>10. ASSUME NEW X, NEW call, Takes(c, X, call), row' = row, txn[c].op = "import",
              "op" \notin DOMAIN call, "entity" \notin DOMAIN call, "met" \notin DOMAIN call,
              \A x \in X : x \in txn[c].entity \/ row[x].state # "archived"
       PROVE  ReadHolds(c)'
  <2>1. txn'[c].op = "import" /\ txn'[c].entity = txn[c].entity \cup X
        /\ txn[c].met \subseteq txn'[c].met
    BY <1>0, <1>10, TakesStep DEF CallOK
  <2> QED BY <1>10, <2>1 DEF ReadHolds
<1>11. CASE ImportRead(c)
  <2> DEFINE match == Named(c, txn[c].kind, Line(c).name)
             call == [phase |-> "write", match |-> match]
  <2>1. Takes(c, match, call) /\ DOMAIN call = {"phase", "match"} /\ txn[c].op = "import"
        /\ row' = row
    BY <1>11 DEF ImportRead
  <2>2. \A x \in match : x \in txn[c].entity \/ row[x].state # "archived"
    BY <1>0, <2>1 DEF Named, Seen, Staged, CallOK
  <2> HIDE DEF call, match
  <2> QED BY <1>10, <2>1, <2>2
<1>12. ASSUME NEW staged, NEW errors, Goes(c, staged, errors), row' = row, txn[c].op = "import",
              \A x \in DOMAIN staged : x \in txn[c].entity \/ row[x].state # "archived"
       PROVE  ReadHolds(c)'
  <2> DEFINE call == [phase |-> "read", at |-> txn[c].at + 1, match |-> {},
                      staged |-> staged, errors |-> errors]
  <2>1. Takes(c, DOMAIN staged, call)
        /\ DOMAIN call = {"phase", "at", "match", "staged", "errors"}
    BY <1>12 DEF Goes
  <2> HIDE DEF call
  <2> QED BY <1>10, <1>12, <2>1
<1>13. ASSUME NEW x, NEW r, Writes(c, x, r), row' = row, txn[c].op = "import",
              x \in txn[c].entity \/ row[x].state # "archived"
       PROVE  ReadHolds(c)'
  <2> DEFINE staged == [y \in DOMAIN Staged(c) \cup {x} |-> IF y = x THEN r ELSE Staged(c)[y]]
  <2>1. Goes(c, staged, txn[c].errors) /\ DOMAIN staged = DOMAIN Staged(c) \cup {x}
    BY <1>13 DEF Writes
  <2>2. DOMAIN Staged(c) \subseteq txn[c].entity
    BY <1>0, <1>13 DEF CallOK, Staged
  <2> HIDE DEF staged
  <2> QED BY <1>12, <1>13, <2>1, <2>2
<1>14. CASE ImportInsert(c) \/ ImportUpdate(c)
  <2>1. row' = row /\ txn[c].op = "import"
    BY <1>14 DEF ImportInsert, ImportUpdate
  <2>2. DOMAIN Staged(c) \subseteq txn[c].entity
    BY <1>0, <2>1 DEF CallOK, Staged
  <2>3. \/ \E errors : Goes(c, Staged(c), errors)
        \/ \E x, r : Writes(c, x, r) /\ (Seen(c, x) = Absent \/ x \in txn[c].match)
    BY <1>14 DEF ImportInsert, ImportUpdate
  <2>4. \A x : Seen(c, x) = Absent \/ x \in txn[c].match =>
          x \in txn[c].entity \/ row[x].state # "archived"
    BY <1>0, <2>1, <2>2 DEF CallOK, Seen, Absent
  <2> QED BY <1>12, <1>13, <2>1, <2>2, <2>3, <2>4
(* A generation drafts requisitions of templates whose rows are active. *)
<1>15. ASSUME NEW t \in Template, GenerateNext(c, t) PROVE ReadHolds(c)'
  <2>1. row' = row /\ txn[c].op = "generate" /\ t \in DOMAIN txn[c].read
    BY <1>15 DEF GenerateNext
  <2>2. /\ DOMAIN txn'[c] = DOMAIN txn[c]
        /\ \A f \in DOMAIN txn[c] \ {"locked", "staged"} : txn'[c][f] = txn[c][f]
        /\ txn'[c].staged = IF Archived(t) THEN txn[c].staged ELSE txn[c].staged \cup {t}
    BY <1>15, GenerateNextStep
  <2>3. txn'[c].op = "generate" /\ txn'[c].met = txn[c].met
    BY <1>0, <2>1, <2>2 DEF CallOK
  <2>4. ~Archived(t) => \A x \in Refs[t] : row[x].state = "active"
    <3>1. \A x \in Refs[t] : row[x].state # "absent" /\ row[x].state \in State
      BY <1>0, <2>1, RecurringAssumption DEF TemplatesOK, CallOK, RowsOK, IsRow
    <3> QED BY <3>1 DEF Archived, State
  <2> QED BY <2>1, <2>2, <2>3, <2>4 DEF ReadHolds
<1> QED BY <1>1, <1>3, <1>4, <1>5, <1>6, <1>7, <1>8, <1>9, <1>11, <1>14, <1>15, StepCases

LEMMA ReadStep ==
  ASSUME TypeOK, MetInv, ReadInv, NEW c \in Caller, RecurringStep(c) \/ CatalogueStep(c)
  PROVE  ReadInv'
<1>1. \A o \in Caller \ {c} : Kept(o)
  BY OthersKept
<1>2. RowsWrittenBy(c)
  BY RowStep
<1>3. \A o \in Caller \ {c} : ReadHolds(o)'
  BY <1>1, <1>2, OtherRead DEF ReadInv
<1>4. ReadHolds(c)'
  BY OwnRead DEF ReadInv
<1> QED BY <1>3, <1>4 DEF ReadInv

-----------------------------------------------------------------------------
(* Generations begin with a selection and go on from template to template. *)
LEMMA GenerationStep ==
  ASSUME TypeOK, NEW c \in Caller, RecurringStep(c) \/ CatalogueStep(c),
         ~GenerateSelect(c), ~\E t \in Template : GenerateNext(c, t)
  PROVE  txn'[c].op # "generate"
<1>0. CallOK(c)
  BY DEF TypeOK
<1>1. CASE Ends(c)
  BY <1>1, EndsStep DEF Idle
<1>2. ASSUME NEW X, NEW call, Begins(c, X, call), "op" \in DOMAIN call,
             "entity" \notin DOMAIN call, "met" \notin DOMAIN call, call.op # "generate"
      PROVE  txn'[c].op # "generate"
  BY <1>2, BeginsStep
<1>3. ASSUME NEW x \in Entity, NEW name, NEW email, CreateRead(c, x, name, email)
      PROVE  txn'[c].op # "generate"
  BY <1>2, <1>3 DEF CreateRead
<1>4. ASSUME NEW x \in Entity, NEW patch, UpdateRead(c, x, patch)
      PROVE  txn'[c].op # "generate"
  BY <1>2, <1>4 DEF UpdateRead
<1>5. ASSUME NEW x \in Entity, ArchiveRead(c, x) PROVE txn'[c].op # "generate"
  BY <1>2, <1>5 DEF ArchiveRead
<1>6. ASSUME NEW kind, NEW file, ImportBegin(c, kind, file) PROVE txn'[c].op # "generate"
  BY <1>2, <1>6 DEF ImportBegin
<1>7. ASSUME NEW t, NEW start, TemplatePick(c, t, start) PROVE txn'[c].op # "generate"
  BY <1>2, <1>7 DEF TemplatePick
<1>8. ASSUME NEW X, RequisitionPick(c, X) PROVE txn'[c].op # "generate"
  BY <1>2, <1>8 DEF RequisitionPick
<1>9. ASSUME NEW X, NEW call, Takes(c, X, call), txn[c].op = "import",
             "op" \notin DOMAIN call, "entity" \notin DOMAIN call, "met" \notin DOMAIN call
      PROVE  txn'[c].op # "generate"
  <2>1. txn'[c].op = txn[c].op
    BY <1>0, <1>9, TakesStep DEF CallOK
  <2> QED BY <1>9, <2>1
<1>10. CASE ImportRead(c)
  BY <1>9, <1>10 DEF ImportRead
<1>11. CASE ImportInsert(c) \/ ImportUpdate(c)
  <2>1. txn[c].op = "import" /\ \E staged, errors : Goes(c, staged, errors)
    BY <1>11 DEF ImportInsert, ImportUpdate, Writes
  <2> QED BY <1>9, <2>1 DEF Goes
<1> QED BY <1>1, <1>3, <1>4, <1>5, <1>6, <1>7, <1>8, <1>10, <1>11, StepCases

(* A generation that is under way has selected its dates now or earlier. *)
LEMMA ReadDates ==
  ASSUME TypeOK, NEW c \in Caller, RecurringStep(c) \/ CatalogueStep(c),
         NEW o \in Caller, txn'[o].op = "generate", NEW t \in DOMAIN txn'[o].read
  PROVE  \/ /\ txn[o].op = "generate" /\ t \in DOMAIN txn[o].read
            /\ txn'[o].read = txn[o].read /\ ~Ends(o)
         \/ GenerateSelect(o) /\ o = c /\ t \in Due /\ txn'[o].read[t] = next[t]
<1>0. CallOK(o)
  BY DEF TypeOK
<1>1. CASE o # c
  <2>1. Kept(o) /\ txn[o].op = "generate"
    BY <1>0, <1>1, OthersKept DEF Kept, CallOK
  <2>2. txn'[o].read = txn[o].read
    BY <1>0, <2>1 DEF Kept, CallOK, FieldsOf
  <2>3. ~Ends(o)
    BY EndsStep DEF Idle
  <2> QED BY <2>1, <2>2, <2>3
<1>2. CASE o = c /\ GenerateSelect(c)
  <2> DEFINE call == [op |-> "generate", read |-> [s \in Due |-> next[s]],
                      locked |-> {}, staged |-> {}]
  <2>1. Begins(c, UNION {Refs[s] : s \in Due}, call)
        /\ DOMAIN call = {"op", "read", "locked", "staged"} /\ call.read = [s \in Due |-> next[s]]
    BY <1>2 DEF GenerateSelect
  <2> HIDE DEF call
  <2>2. txn'[c].read = [s \in Due |-> next[s]]
    BY <2>1, BeginsStep
  <2> QED BY <1>2, <2>2
<1>3. ASSUME o = c, NEW s \in Template, GenerateNext(c, s)
      PROVE  /\ txn[o].op = "generate" /\ t \in DOMAIN txn[o].read
             /\ txn'[o].read = txn[o].read /\ ~Ends(o)
  <2>1. txn[c].op = "generate" /\ ~Ends(c)
    BY <1>3, EndsStep DEF GenerateNext, Idle
  <2>2. \A f \in DOMAIN txn[c] \ {"locked", "staged"} : txn'[c][f] = txn[c][f]
    BY <1>3, GenerateNextStep
  <2>3. txn'[c].read = txn[c].read
    BY <1>0, <1>3, <2>1, <2>2 DEF CallOK, FieldsOf
  <2> QED BY <1>3, <2>1, <2>3
<1> QED BY <1>1, <1>2, <1>3, GenerationStep

LEMMA CaughtUpKept ==
  ASSUME NEW t \in Template, NEW date, CaughtUp(t, date),
         since'[t] = since[t], drafted[t] \subseteq drafted'[t]
  PROVE  CaughtUp(t, date)'
BY DEF CaughtUp

(* From one multiple of a cadence step to the next there is none between. *)
LEMMA Multiples ==
  ASSUME NEW s \in {1, 3, 12}, NEW k \in Nat, k % s = 0
  PROVE  (k + s) % s = 0 /\ \A n \in k .. k + s - 1 : n % s = 0 => n = k
<1>1. SUFFICES ASSUME NEW n \in k .. k + s - 1, n % s = 0
               PROVE  (k + s) % s = 0 /\ n = k
  <2>1. (k + s) % s = 0
    <3>1. CASE s = 1
      BY <3>1
    <3>2. CASE s = 3
      BY <3>2
    <3>3. CASE s = 12
      BY <3>3
    <3> QED BY <3>1, <3>2, <3>3
  <2> QED BY <2>1
<1>2. CASE s = 1
  BY <1>1, <1>2
<1>3. CASE s = 3
  BY <1>1, <1>3
<1>4. CASE s = 12
  BY <1>1, <1>4
<1> QED BY <1>2, <1>3, <1>4

(* With the requisition of a date generated, the next run date follows. *)
LEMMA CaughtUpNext ==
  ASSUME NEW t \in Template, NEW date, CaughtUp(t, date), since[t] \in Date,
         since'[t] = since[t], drafted[t] \cup {date} \subseteq drafted'[t]
  PROVE  CaughtUp(t, NextRun(t, date))'
<1> DEFINE step == CadenceStep[Cadence[t]]
           first == since[t].month
<1>1. date \in Date /\ NextRun(t, date) \in Date /\ step \in {1, 3, 12}
      /\ NextRun(t, date).month = date.month + step
  BY NextRunDate DEF CaughtUp
<1>2. first \in Nat /\ date.month \in Nat /\ first <= date.month
      /\ (date.month - first) % step = 0
      /\ \A m \in first .. date.month - 1 : (m - first) % step = 0 =>
           \E d \in drafted[t] : d.month = m
  BY <1>1 DEF CaughtUp, Date
<1> HIDE DEF step, first
<1>3. first <= date.month + step /\ (date.month + step - first) % step = 0
  <2>1. date.month - first \in Nat /\ ((date.month - first) + step) % step = 0
    <3> DEFINE k == date.month - first
    <3>1. k \in Nat /\ k % step = 0
      BY <1>2
    <3> HIDE DEF k
    <3>2. (k + step) % step = 0
      BY <1>1, <3>1, Multiples
    <3> QED BY <3>1, <3>2 DEF k
  <2>2. (date.month - first) + step = date.month + step - first
    BY <1>1, <1>2
  <2> QED BY <1>1, <1>2, <2>1, <2>2
<1>4. ASSUME NEW m \in first .. date.month + step - 1, (m - first) % step = 0
      PROVE  \E d \in drafted'[t] : d.month = m
  <2>1. m < date.month \/ m = date.month
    <3>1. CASE m >= date.month
      <4>1. date.month - first \in Nat
            /\ m - first \in (date.month - first) .. (date.month - first) + step - 1
        BY <1>1, <1>2, <3>1
      <4>2. m - first = date.month - first
        <5> DEFINE k == date.month - first
        <5>1. k \in Nat /\ k % step = 0 /\ m - first \in k .. k + step - 1
          BY <1>2, <4>1
        <5> HIDE DEF k
        <5>2. m - first = k
          BY <1>1, <1>4, <5>1, Multiples
        <5> QED BY <5>2 DEF k
      <4> QED BY <1>2, <4>2
    <3> QED BY <1>1, <1>2, <3>1
  <2>2. CASE m < date.month
    BY <1>2, <1>4, <2>2
  <2>3. CASE m = date.month
    BY <2>3
  <2> QED BY <2>1, <2>2, <2>3
<1>5. PICK run : run = NextRun(t, date) /\ run \in Date /\ run.month = date.month + step
  BY <1>1
<1>6. first <= run.month /\ (run.month - first) % step = 0
      /\ \A m \in first .. run.month - 1 : (m - first) % step = 0 =>
           \E d \in drafted'[t] : d.month = m
  <2>1. run.month = date.month + step
    BY <1>5
  <2>2. first <= run.month
    BY <1>3, <2>1
  <2>3. (run.month - first) % step = 0
    BY <1>1, <1>2, <1>3, <2>1
  <2>4. ASSUME NEW m \in first .. run.month - 1, (m - first) % step = 0
        PROVE  \E d \in drafted'[t] : d.month = m
    <3>1. m \in first .. date.month + step - 1
      BY <1>1, <1>2, <2>1
    <3> QED BY <1>4, <2>4, <3>1
  <2> QED BY <2>2, <2>3, <2>4
<1>7. first = since'[t].month
  BY DEF first
<1>8. CaughtUp(t, run)'
  <2>1. since'[t].month <= run.month
        /\ (run.month - since'[t].month) % CadenceStep[Cadence[t]] = 0
    BY <1>6, <1>7 DEF step
  <2>2. \A m \in since'[t].month .. run.month - 1 :
          (m - since'[t].month) % CadenceStep[Cadence[t]] = 0 => \E d \in drafted'[t] : d.month = m
    BY <1>6, <1>7 DEF step
  <2> QED BY <1>5, <2>1, <2>2 DEF CaughtUp
<1> QED BY <1>5, <1>8

(* What a step does to dates: it leaves a template alone, makes it, or     *)
(* commits a generation of it.                                             *)
LEMMA DateStep ==
  ASSUME TypeOK, NEW c \in Caller,
         RecurringStep(c) \/ (CatalogueStep(c) /\ UNCHANGED recurringVars),
         NEW t \in Template
  PROVE  /\ since[t] = since'[t] \/ next[t] = None
         /\ \/ next'[t] = next[t] /\ drafted'[t] = drafted[t]
            \/ /\ next[t] = None /\ next'[t] \in Date /\ next'[t] = since'[t]
               /\ drafted'[t] = drafted[t]
            \/ /\ GenerateCommit(c) /\ t \in txn[c].staged
               /\ next'[t] = NextRun(t, txn[c].read[t])
               /\ drafted'[t] = drafted[t] \cup {txn[c].read[t]}
<1>0. CallOK(c) /\ TemplatesOK /\ TemplatesWrittenBy(c)
  BY TemplateStep DEF TypeOK
<1>1. next[t] # None => since'[t] = since[t]
  BY <1>0 DEF TemplatesWrittenBy
<1>2. CASE TemplateInsert(c)
  <2>1. /\ txn[c].template \in Template /\ txn[c].start \in Date
        /\ next[txn[c].template] = None /\ drafted' = drafted
    BY <1>0, <1>2, RecurringAssumption DEF TemplateInsert, CallOK
  <2> QED BY <1>0, <1>1, <1>2, <2>1 DEF TemplateInsert, TemplatesOK
<1>3. CASE GenerateCommit(c)
  BY <1>0, <1>1, <1>3 DEF GenerateCommit, Advanced, TemplatesOK
<1>4. CASE next' = next /\ drafted' = drafted
  BY <1>1, <1>4
<1>5. TemplateInsert(c) \/ GenerateCommit(c) \/ (next' = next /\ drafted' = drafted)
  BY DEF RecurringStep, GenerateNext, TemplatePick, RequisitionPick, RequisitionInsert,
     GenerateSelect, recurringVars
<1> QED BY <1>2, <1>3, <1>4, <1>5

LEMMA CadenceKept ==
  ASSUME TypeOK, CadenceInv, NEW c \in Caller,
         RecurringStep(c) \/ (CatalogueStep(c) /\ UNCHANGED recurringVars)
  PROVE  CadenceInv'
<1>0. TemplatesOK /\ TemplatesWrittenBy(c) /\ \A o \in Caller : CallOK(o)
  BY TemplateStep DEF TypeOK
<1>1. ASSUME NEW t \in Template, next[t] # None
      PROVE  since[t] \in Date /\ since'[t] = since[t] /\ drafted[t] \subseteq drafted'[t]
  BY <1>0, <1>1 DEF TemplatesOK, TemplatesWrittenBy
<1>2. ASSUME NEW t \in Template, next'[t] # None PROVE CaughtUp(t, next[t])'
  <2>1. CASE next'[t] = next[t]
    <3>1. CaughtUp(t, next[t])
      BY <1>2, <2>1 DEF CadenceInv
    <3>2. PICK date : date = next[t]
      OBVIOUS
    <3>3. CaughtUp(t, date)'
      BY <1>1, <1>2, <2>1, <3>1, <3>2, CaughtUpKept
    <3> QED BY <2>1, <3>2, <3>3
  <2>2. CASE next'[t] \in Date /\ next'[t] = since'[t]
    <3>1. since'[t].month \in Nat
      BY <2>2 DEF Date
    <3>2. CadenceStep[Cadence[t]] \in {1, 3, 12}
      BY <2>2, NextRunDate
    <3>3. (since'[t].month - since'[t].month) % CadenceStep[Cadence[t]] = 0
      BY <3>1, <3>2
    <3>4. PICK date : date = next'[t]
      OBVIOUS
    <3>5. CaughtUp(t, date)'
      BY <2>2, <3>1, <3>3, <3>4 DEF CaughtUp
    <3> QED BY <3>4, <3>5
  <2>3. CASE /\ GenerateCommit(c) /\ t \in txn[c].staged
             /\ next'[t] = NextRun(t, txn[c].read[t])
             /\ drafted'[t] = drafted[t] \cup {txn[c].read[t]}
    <3>1. txn[c].op = "generate" /\ t \in DOMAIN txn[c].read /\ next[t] # None
      BY <1>0, <2>3 DEF GenerateCommit, CallOK
    <3>2. PICK date : date = txn[c].read[t]
      OBVIOUS
    <3>3. CaughtUp(t, date)
      BY <3>1, <3>2 DEF CadenceInv
    <3>4. CaughtUp(t, NextRun(t, date))'
      BY <1>1, <2>3, <3>1, <3>2, <3>3, CaughtUpNext
    <3> QED BY <2>3, <3>2, <3>4
  <2> QED BY <2>1, <2>2, <2>3, DateStep
<1>3. ASSUME NEW o \in Caller, txn'[o].op = "generate", NEW t \in DOMAIN txn'[o].read
      PROVE  CaughtUp(t, txn[o].read[t])'
  <2>1. PICK date : date = txn'[o].read[t]
    OBVIOUS
  <2>2. t \in Template /\ next[t] # None /\ CaughtUp(t, date)
    <3>1. CASE txn[o].op = "generate" /\ t \in DOMAIN txn[o].read /\ txn'[o].read = txn[o].read
      BY <1>0, <2>1, <3>1 DEF CadenceInv, CallOK
    <3>2. CASE t \in Due /\ txn'[o].read[t] = next[t]
      BY <2>1, <3>2 DEF CadenceInv, Due
    <3> QED BY <1>3, <3>1, <3>2, ReadDates
  <2>3. CaughtUp(t, date)'
    BY <1>1, <2>2, CaughtUpKept
  <2> QED BY <2>1, <2>3
<1> QED BY <1>2, <1>3 DEF CadenceInv

-----------------------------------------------------------------------------
(* Unless raced, a template keeps to one generation at a time. *)
LEMMA RaceKept ==
  ASSUME TypeOK, RaceInv, NEW c \in Caller,
         RecurringStep(c) \/ (CatalogueStep(c) /\ UNCHANGED recurringVars)
  PROVE  RaceInv'
<1>0. TemplatesOK /\ TemplatesWrittenBy(c) /\ \A o \in Caller : CallOK(o)
  BY TemplateStep DEF TypeOK
<1>1. SUFFICES ASSUME NEW t \in Template \ raced'
      PROVE /\ next'[t] = None => drafted'[t] = {}
            /\ next'[t] # None => \A d \in drafted'[t] : d.month < next'[t].month
            /\ \A o \in Caller : txn'[o].op = "generate" /\ t \in DOMAIN txn'[o].read =>
                 /\ txn'[o].read[t] = next'[t]
                 /\ \A p \in Caller : txn'[p].op = "generate" /\ t \in DOMAIN txn'[p].read => o = p
  BY DEF RaceInv
<1>2. t \in Template \ raced
  BY <1>0 DEF TemplatesWrittenBy
<1>3. ASSUME NEW o \in Caller, txn[o].op = "generate", t \in DOMAIN txn[o].read
      PROVE  /\ txn[o].read[t] = next[t] /\ next[t] \in Date
             /\ \A p \in Caller : txn[p].op = "generate" /\ t \in DOMAIN txn[p].read => o = p
  BY <1>0, <1>2, <1>3 DEF RaceInv, CallOK, TemplatesOK
<1>4. ASSUME GenerateCommit(c), t \in txn[c].staged,
             next'[t] = NextRun(t, txn[c].read[t]),
             drafted'[t] = drafted[t] \cup {txn[c].read[t]}
      PROVE  next'[t] # None /\ \A d \in drafted'[t] : d.month < next'[t].month
  <2>1. txn[c].op = "generate" /\ t \in DOMAIN txn[c].read /\ next[t] # None
    BY <1>0, <1>4 DEF GenerateCommit, CallOK
  <2>2. txn[c].read[t] = next[t] /\ next[t] \in Date
    BY <1>3, <2>1
  <2>3. \A d \in drafted[t] : d.month < next[t].month
    BY <1>2, <2>1 DEF RaceInv
  <2>4. /\ next'[t].month = next[t].month + CadenceStep[Cadence[t]]
        /\ CadenceStep[Cadence[t]] \in {1, 3, 12} /\ next'[t] \in Date
    BY <1>4, <2>2, NextRunDate
  <2>5. \A d \in drafted[t] : d \in Date
    BY <1>0 DEF TemplatesOK
  <2>6. next[t].month \in Nat /\ \A d \in drafted[t] : d.month \in Nat
    BY <2>2, <2>5 DEF Date
  <2>7. next[t].month < next'[t].month
    BY <2>4, <2>6
  <2>8. ASSUME NEW d \in drafted[t] PROVE d.month < next'[t].month
    <3>1. d.month < next[t].month /\ d.month \in Nat /\ next'[t].month \in Nat
      BY <2>3, <2>4, <2>6 DEF Date
    <3> QED BY <2>6, <2>7, <3>1
  <2> QED BY <1>4, <2>2, <2>4, <2>7, <2>8, RecurringAssumption
<1>5. /\ next'[t] = None => drafted'[t] = {}
      /\ next'[t] # None => \A d \in drafted'[t] : d.month < next'[t].month
  <2>1. CASE next'[t] = next[t] /\ drafted'[t] = drafted[t]
    BY <1>2, <2>1 DEF RaceInv
  <2>2. CASE next[t] = None /\ next'[t] \in Date /\ drafted'[t] = drafted[t]
    BY <1>2, <2>2, RecurringAssumption DEF RaceInv
  <2> QED BY <1>4, <2>1, <2>2, DateStep
<1>6. ASSUME NEW o \in Caller, txn'[o].op = "generate", t \in DOMAIN txn'[o].read
      PROVE  /\ txn'[o].read[t] = next'[t]
             /\ \/ txn[o].op = "generate" /\ t \in DOMAIN txn[o].read
                \/ GenerateSelect(c) /\ o = c /\ t \in Due
  <2>1. CASE /\ txn[o].op = "generate" /\ t \in DOMAIN txn[o].read
             /\ txn'[o].read = txn[o].read /\ ~Ends(o)
    <3>1. txn'[o].read[t] = next[t] /\ next[t] # None
      BY <1>3, <2>1, RecurringAssumption
    <3>2. ~(GenerateCommit(c) /\ t \in txn[c].staged)
      <4>1. SUFFICES ASSUME GenerateCommit(c), t \in txn[c].staged PROVE FALSE
        OBVIOUS
      <4>2. txn[c].op = "generate" /\ t \in DOMAIN txn[c].read /\ Ends(c)
        BY <1>0, <4>1 DEF GenerateCommit, CallOK
      <4> QED BY <1>3, <2>1, <4>2
    <3> QED BY <2>1, <3>1, <3>2, DateStep
  <2>2. CASE GenerateSelect(o) /\ o = c /\ t \in Due /\ txn'[o].read[t] = next[t]
    BY <2>2 DEF GenerateSelect
  <2> QED BY <1>6, <2>1, <2>2, ReadDates
<1>7. ASSUME NEW o \in Caller, txn'[o].op = "generate", t \in DOMAIN txn'[o].read,
             NEW p \in Caller, txn'[p].op = "generate", t \in DOMAIN txn'[p].read
      PROVE  o = p
  <2>1. ASSUME NEW q \in Caller, txn[q].op = "generate", t \in DOMAIN txn[q].read,
               GenerateSelect(c), t \in Due
        PROVE  FALSE
    BY <1>1, <2>1 DEF GenerateSelect, Generating
  <2> QED BY <1>3, <1>6, <1>7, <2>1
<1> QED BY <1>5, <1>6, <1>7

-----------------------------------------------------------------------------
(* What an import has brought in stays until it commits.  A line is done   *)
(* when an entity of the file's table has its name and its address.        *)
Done(c, line) ==
  \E x \in Entity : Holds(c, x, line) /\ line.email \in {Seen(c, x).email, Missing}

LEMMA ImportDone ==
  ASSUME NEW c \in Caller
  PROVE  ImportHolds(c) <=>
    (txn[c].op = "import" /\ txn[c].met = {} =>
       /\ \A i \in 1 .. txn[c].at - 1 : LastOf(c, i, txn[c].at) => Done(c, txn[c].file[i])
       /\ txn[c].phase = "write" => \A x \in txn[c].match : Holds(c, x, Line(c)))
BY DEF ImportHolds, Done

LEMMA OtherImport ==
  ASSUME TypeOK, MetInv, NEW c \in Caller, NEW o \in Caller \ {c}, ImportHolds(o),
         Kept(o), RowsWrittenBy(c)
  PROVE  ImportHolds(o)'
<1>1. SUFFICES ASSUME txn'[o].op = "import", txn'[o].met = {} PROVE ImportHolds(o)'
  BY DEF ImportHolds
<1>2. CallOK(o) /\ txn[o].op = "import" /\ txn[o].met = {}
  BY <1>1 DEF TypeOK, CallOK, Kept
<1>3. /\ txn'[o].entity = txn[o].entity /\ txn'[o].kind = txn[o].kind
      /\ txn'[o].file = txn[o].file /\ txn'[o].at = txn[o].at /\ txn'[o].match = txn[o].match
      /\ txn'[o].phase = txn[o].phase /\ txn'[o].staged = txn[o].staged
      /\ txn'[o].errors = txn[o].errors
  BY <1>2 DEF CallOK, FieldsOf, Kept
<1>4. \A x \in txn[o].entity : row'[x] = row[x]
  BY <1>2 DEF MetInv, RowsWrittenBy, CallOK
<1>5. ASSUME NEW x \in txn[o].entity PROVE Seen(o, x)' = Seen(o, x)
  BY <1>1, <1>2, <1>3, <1>4 DEF Seen, Staged
<1>6. ASSUME NEW x, NEW line, Holds(o, x, line)
      PROVE  Holds(o, x, line)' /\ Seen(o, x)' = Seen(o, x)
  BY <1>3, <1>5, <1>6 DEF Holds
<1>7. ASSUME NEW line, Done(o, line) PROVE Done(o, line)'
  <2>1. PICK x \in Entity : Holds(o, x, line) /\ line.email \in {Seen(o, x).email, Missing}
    BY <1>7 DEF Done
  <2>2. Holds(o, x, line)' /\ line.email \in {Seen(o, x)'.email, Missing}
    BY <1>6, <2>1
  <2> QED BY <2>2 DEF Done
<1>8. /\ \A i \in 1 .. txn[o].at - 1 : LastOf(o, i, txn[o].at) => Done(o, txn[o].file[i])
      /\ txn[o].phase = "write" => \A x \in txn[o].match : Holds(o, x, Line(o))
  BY <1>2, ImportDone
<1>9. ASSUME NEW i \in 1 .. txn'[o].at - 1, LastOf(o, i, txn[o].at)'
      PROVE  Done(o, txn[o].file[i])'
  <2>1. LastOf(o, i, txn[o].at)
    BY <1>3, <1>9 DEF LastOf
  <2>2. PICK line : line = txn[o].file[i]
    OBVIOUS
  <2>3. Done(o, line)'
    BY <1>3, <1>7, <1>8, <1>9, <2>1, <2>2
  <2> QED BY <1>3, <2>2, <2>3
<1>10. ASSUME txn'[o].phase = "write", NEW x \in txn'[o].match PROVE Holds(o, x, Line(o))'
  <2>1. PICK line : line = Line(o)
    OBVIOUS
  <2>2. Holds(o, x, line)' /\ Line(o)' = line
    BY <1>3, <1>6, <1>8, <1>10, <2>1 DEF Line
  <2> QED BY <2>2
<1> QED BY <1>9, <1>10 DEF ImportHolds, Done

LEMMA ImportGoes ==
  ASSUME TypeOK, NEW c \in Caller, ImportHolds(c), txn[c].op = "import", txn[c].phase = "write",
         row' = row, NEW staged, NEW errors, Goes(c, staged, errors),
         txn[c].errors \subseteq errors,
         NEW now, \A x \in Entity : now[x] = IF x \in DOMAIN staged THEN staged[x] ELSE row[x],
         txn[c].met = {} =>
           \A x \in Entity : Seen(c, x).state = "active" /\ Seen(c, x).name # Line(c).name =>
             now[x] = Seen(c, x),
         \/ txn[c].at \in errors
         \/ txn[c].met = {} =>
              \E x \in txn[c].entity \cup DOMAIN staged :
                /\ x \in Entity /\ KindOf[x] = txn[c].kind
                /\ now[x].state = "active" /\ now[x].name = Line(c).name
                /\ Line(c).email \in {now[x].email, Missing}
  PROVE  ImportHolds(c)'
<1>0. CallOK(c)
  BY DEF TypeOK
<1> DEFINE call == [phase |-> "read", at |-> txn[c].at + 1, match |-> {},
                    staged |-> staged, errors |-> errors]
<1>1. Takes(c, DOMAIN staged, call)
      /\ DOMAIN call = {"phase", "at", "match", "staged", "errors"}
      /\ call.phase = "read" /\ call.at = txn[c].at + 1 /\ call.staged = staged
      /\ call.errors = errors
  BY DEF Goes
<1> HIDE DEF call
<1>2. /\ \A f \in DOMAIN call : txn'[c][f] = call[f]
      /\ \A f \in DOMAIN txn[c] \ (DOMAIN call \cup {"entity", "met"}) :
           txn'[c][f] = txn[c][f]
      /\ txn'[c].entity = txn[c].entity \cup DOMAIN staged
      /\ txn[c].met \subseteq txn'[c].met
  BY <1>1, TakesStep
<1>3. txn'[c].phase = "read" /\ txn'[c].at = txn[c].at + 1 /\ txn'[c].staged = staged
      /\ txn'[c].errors = errors
  BY <1>1, <1>2
<1>4. txn'[c].op = "import" /\ txn'[c].file = txn[c].file /\ txn'[c].kind = txn[c].kind
  BY <1>0, <1>1, <1>2 DEF CallOK, FieldsOf
<1>5. \A x \in Entity : Seen(c, x)' = now[x]
  BY <1>3, <1>4 DEF Seen, Staged
<1>6. PICK at \in Nat : at = txn[c].at
  BY <1>0 DEF CallOK
<1>7. SUFFICES ASSUME txn'[c].met = {}, NEW i \in 1 .. at, LastOf(c, i, at + 1)',
                      NEW line, line = txn[c].file[i]
               PROVE  Done(c, line)'
  <2>1. at + 1 = txn'[c].at /\ 1 .. (at + 1) - 1 = 1 .. at
    BY <1>3, <1>6
  <2>2. ASSUME txn'[c].met = {}, NEW i \in 1 .. txn'[c].at - 1, LastOf(c, i, txn[c].at)'
        PROVE  Done(c, txn[c].file[i])'
    <3>1. PICK line : line = txn[c].file[i]
      OBVIOUS
    <3>2. LastOf(c, i, at + 1)'
      BY <2>1, <2>2
    <3>3. Done(c, line)'
      BY <1>7, <2>1, <2>2, <3>1, <3>2
    <3> QED BY <1>4, <3>1, <3>3
  <2> QED BY <1>3, <2>2 DEF ImportHolds, Done
<1>8. /\ txn[c].met = {} /\ i \in DOMAIN txn[c].file \ errors
      /\ \A j \in i + 1 .. at : txn[c].file[j].name # line.name
  <2>1. i \in DOMAIN txn[c].file \ errors
        /\ \A j \in i + 1 .. (at + 1) - 1 : txn[c].file[j].name # txn[c].file[i].name
    BY <1>3, <1>4, <1>7 DEF LastOf
  <2>2. (at + 1) - 1 = at
    BY <1>6
  <2> QED BY <1>2, <1>7, <2>1, <2>2
<1>9. CASE i = at
  <2>1. line = Line(c)
    BY <1>6, <1>7, <1>9 DEF Line
  <2>2. PICK x \in txn[c].entity \cup DOMAIN staged :
          /\ x \in Entity /\ KindOf[x] = txn[c].kind
          /\ now[x].state = "active" /\ now[x].name = line.name
          /\ line.email \in {now[x].email, Missing}
    BY <1>6, <1>8, <1>9, <2>1
  <2> QED BY <1>2, <1>4, <1>5, <2>2 DEF Done, Holds
<1>10. CASE i # at
  <2>1. i \in 1 .. at - 1 /\ at \in i + 1 .. at /\ \A j \in i + 1 .. at - 1 : j \in i + 1 .. at
    BY <1>6, <1>10
  <2>2. LastOf(c, i, txn[c].at)
    BY <1>6, <1>7, <1>8, <2>1 DEF LastOf
  <2>3. line.name # Line(c).name
    BY <1>6, <1>8, <2>1 DEF Line
  <2>4. Done(c, line)
    BY <1>6, <1>7, <1>8, <2>1, <2>2, ImportDone
  <2>5. PICK x \in Entity : Holds(c, x, line) /\ line.email \in {Seen(c, x).email, Missing}
    BY <2>4 DEF Done
  <2>6. now[x] = Seen(c, x)
    BY <1>8, <2>3, <2>5 DEF Holds
  <2> QED BY <1>2, <1>4, <1>5, <2>5, <2>6 DEF Done, Holds
<1> QED BY <1>9, <1>10

LEMMA ImportWrites ==
  ASSUME TypeOK, NEW c \in Caller, ImportHolds(c), txn[c].op = "import", txn[c].phase = "write",
         row' = row, NEW x \in Entity, NEW r, Writes(c, x, r), KindOf[x] = txn[c].kind,
         r.state = "active", r.name = Line(c).name, Line(c).email \in {r.email, Missing},
         txn[c].met = {} => Seen(c, x) = Absent \/ Seen(c, x).name = Line(c).name
  PROVE  ImportHolds(c)'
<1> DEFINE staged == [y \in DOMAIN Staged(c) \cup {x} |-> IF y = x THEN r ELSE Staged(c)[y]]
           now == [y \in Entity |-> IF y \in DOMAIN staged THEN staged[y] ELSE row[y]]
<1>1. Goes(c, staged, txn[c].errors)
  BY DEF Writes
<1>2. x \in DOMAIN staged /\ now[x] = r /\ \A y \in Entity \ {x} : now[y] = Seen(c, y)
  BY DEF Seen
<1>3. \A y \in Entity : now[y] = IF y \in DOMAIN staged THEN staged[y] ELSE row[y]
  OBVIOUS
<1> HIDE DEF staged, now
<1>4. txn[c].met = {} =>
        \A y \in Entity : Seen(c, y).state = "active" /\ Seen(c, y).name # Line(c).name =>
          now[y] = Seen(c, y)
  BY <1>2 DEF Absent
<1> QED BY <1>1, <1>2, <1>3, <1>4, ImportGoes

LEMMA OwnImport ==
  ASSUME TypeOK, NEW c \in Caller, ImportHolds(c), RecurringStep(c) \/ CatalogueStep(c)
  PROVE  ImportHolds(c)'
<1>0. CallOK(c)
  BY DEF TypeOK
<1>1. CASE Ends(c)
  <2>1. txn'[c].op = "idle"
    BY <1>1, EndsStep DEF Idle
  <2> QED BY <2>1 DEF ImportHolds
<1>2. ASSUME NEW X, NEW call, Begins(c, X, call), "op" \in DOMAIN call,
             "entity" \notin DOMAIN call, "met" \notin DOMAIN call, call.op # "import"
      PROVE  ImportHolds(c)'
  <2>1. txn'[c].op # "import"
    BY <1>2, BeginsStep
  <2> QED BY <2>1 DEF ImportHolds
<1>3. ASSUME NEW x \in Entity, NEW name, NEW email, CreateRead(c, x, name, email)
      PROVE  ImportHolds(c)'
  BY <1>2, <1>3 DEF CreateRead
<1>4. ASSUME NEW x \in Entity, NEW patch, UpdateRead(c, x, patch) PROVE ImportHolds(c)'
  BY <1>2, <1>4 DEF UpdateRead
<1>5. ASSUME NEW x \in Entity, ArchiveRead(c, x) PROVE ImportHolds(c)'
  BY <1>2, <1>5 DEF ArchiveRead
<1>6. ASSUME NEW t, NEW start, TemplatePick(c, t, start) PROVE ImportHolds(c)'
  BY <1>2, <1>6 DEF TemplatePick
<1>7. ASSUME NEW X, RequisitionPick(c, X) PROVE ImportHolds(c)'
  BY <1>2, <1>7 DEF RequisitionPick
<1>8. CASE GenerateSelect(c)
  BY <1>2, <1>8 DEF GenerateSelect
<1>9. ASSUME NEW t \in Template, GenerateNext(c, t) PROVE ImportHolds(c)'
  <2>1. txn[c].op = "generate"
    BY <1>9 DEF GenerateNext
  <2>2. txn'[c].op = "generate"
    BY <1>0, <1>9, <2>1, GenerateNextStep DEF CallOK
  <2> QED BY <2>2 DEF ImportHolds
<1>10. ASSUME NEW kind, NEW file, ImportBegin(c, kind, file) PROVE ImportHolds(c)'
  <2> DEFINE call == [op |-> "import", kind |-> kind, file |-> file,
                      at |-> 1, match |-> {}, phase |-> "read",
                      staged |-> [x \in {} |-> Absent], errors |-> {}]
  <2>1. Begins(c, {}, call) /\ call.at = 1 /\ call.phase = "read"
        /\ DOMAIN call = {"op", "kind", "file", "at", "match", "phase", "staged", "errors"}
    BY <1>10 DEF ImportBegin
  <2> HIDE DEF call
  <2>2. txn'[c].at = 1 /\ txn'[c].phase = "read"
    BY <2>1, BeginsStep
  <2> QED BY <2>2 DEF ImportHolds
<1>11. CASE ImportRead(c)
  <2> DEFINE match == Named(c, txn[c].kind, Line(c).name)
             call == [phase |-> "write", match |-> match]
  <2>1. Takes(c, match, call) /\ DOMAIN call = {"phase", "match"} /\ call.match = match
        /\ txn[c].op = "import" /\ row' = row
    BY <1>11 DEF ImportRead
  <2>2. \A x \in match : KindOf[x] = txn[c].kind /\ Seen(c, x).state = "active"
                         /\ Seen(c, x).name = Line(c).name
    BY DEF Named
  <2> HIDE DEF call, match
  <2>3. /\ \A f \in DOMAIN call : txn'[c][f] = call[f]
        /\ \A f \in DOMAIN txn[c] \ (DOMAIN call \cup {"entity", "met"}) :
             txn'[c][f] = txn[c][f]
        /\ txn'[c].entity = txn[c].entity \cup match
        /\ txn[c].met \subseteq txn'[c].met
    BY <2>1, TakesStep
  <2>4. txn'[c].match = match
    BY <2>1, <2>3
  <2>5. /\ txn'[c].op = "import" /\ txn'[c].file = txn[c].file /\ txn'[c].kind = txn[c].kind
        /\ txn'[c].at = txn[c].at /\ txn'[c].errors = txn[c].errors
        /\ txn'[c].staged = txn[c].staged
    BY <1>0, <2>1, <2>3 DEF CallOK, FieldsOf
  <2>6. ASSUME NEW x PROVE Seen(c, x)' = Seen(c, x)
    BY <2>1, <2>5 DEF Seen, Staged
  <2>7. ASSUME NEW line, Done(c, line) PROVE Done(c, line)'
    BY <2>3, <2>5, <2>6, <2>7 DEF Done, Holds
  <2>8. ASSUME txn'[c].met = {}, NEW i \in 1 .. txn'[c].at - 1, LastOf(c, i, txn[c].at)'
        PROVE  Done(c, txn[c].file[i])'
    <3>1. PICK line : line = txn[c].file[i]
      OBVIOUS
    <3>2. LastOf(c, i, txn[c].at) /\ txn[c].met = {}
      BY <2>3, <2>5, <2>8 DEF LastOf
    <3>3. Done(c, line)
      BY <2>1, <2>5, <2>8, <3>1, <3>2, ImportDone
    <3> QED BY <2>5, <2>7, <3>1, <3>3
  <2>9. ASSUME NEW x \in txn'[c].match PROVE Holds(c, x, Line(c))'
    <3>1. Line(c)' = Line(c)
      BY <2>5 DEF Line
    <3>2. Seen(c, x)' = Seen(c, x) /\ x \in match
      BY <2>4, <2>6, <2>9
    <3> QED BY <2>2, <2>3, <2>5, <3>1, <3>2 DEF Holds
  <2> QED BY <2>8, <2>9 DEF ImportHolds, Done
<1>12. CASE ImportInsert(c)
  <2>1. row' = row /\ txn[c].op = "import" /\ txn[c].phase = "write"
    BY <1>12 DEF ImportInsert
  <2>2. CASE Goes(c, Staged(c), txn[c].errors \cup {txn[c].at})
    <3> DEFINE now == [y \in Entity |-> IF y \in DOMAIN Staged(c) THEN Staged(c)[y] ELSE row[y]]
    <3>1. \A y \in Entity : now[y] = (IF y \in DOMAIN Staged(c) THEN Staged(c)[y] ELSE row[y])
                            /\ now[y] = Seen(c, y)
      BY DEF Seen
    <3> HIDE DEF now
    <3> QED BY <2>1, <2>2, <3>1, ImportGoes
  <2>3. ASSUME NEW x \in Entity, KindOf[x] = txn[c].kind, Seen(c, x) = Absent,
               NEW email, email = IF Line(c).email = Missing THEN None ELSE Line(c).email,
               Writes(c, x, Active(Line(c).name, email))
        PROVE  ImportHolds(c)'
    <3> DEFINE r == Active(Line(c).name, email)
    <3>1. r.state = "active" /\ r.name = Line(c).name /\ Line(c).email \in {r.email, Missing}
      BY <2>3 DEF Active
    <3> HIDE DEF r
    <3> QED BY <2>1, <2>3, <3>1, ImportWrites DEF r
  <2> QED BY <1>12, <2>2, <2>3 DEF ImportInsert
<1>13. CASE ImportUpdate(c)
  <2>1. row' = row /\ txn[c].op = "import" /\ txn[c].phase = "write"
    BY <1>13 DEF ImportUpdate
  <2>2. PICK x \in txn[c].match :
          IF Same(Seen(c, x).email, Line(c).email)
          THEN Goes(c, Staged(c), txn[c].errors)
          ELSE RowFree(c, x) /\ Writes(c, x, [Seen(c, x) EXCEPT !.email = Line(c).email])
    BY <1>13 DEF ImportUpdate
  <2>3. x \in txn[c].entity /\ x \in Entity
    BY <1>0, <2>1 DEF CallOK
  <2>4. txn[c].met = {} => Holds(c, x, Line(c))
    BY <2>1, ImportDone
  <2>5. CASE Same(Seen(c, x).email, Line(c).email)
    <3> DEFINE now == [y \in Entity |-> IF y \in DOMAIN Staged(c) THEN Staged(c)[y] ELSE row[y]]
    <3>1. \A y \in Entity : now[y] = (IF y \in DOMAIN Staged(c) THEN Staged(c)[y] ELSE row[y])
                            /\ now[y] = Seen(c, y)
      BY DEF Seen
    <3> HIDE DEF now
    <3>2. txn[c].met = {} =>
            /\ KindOf[x] = txn[c].kind
            /\ now[x].state = "active" /\ now[x].name = Line(c).name
            /\ Line(c).email \in {now[x].email, Missing}
      BY <2>3, <2>4, <2>5, <3>1 DEF Holds, Same
    <3> QED BY <2>1, <2>2, <2>3, <2>5, <3>1, <3>2, ImportGoes
  <2>6. CASE ~Same(Seen(c, x).email, Line(c).email)
    <3> DEFINE r == [Seen(c, x) EXCEPT !.email = Line(c).email]
    <3>1. Writes(c, x, r)
      BY <2>2, <2>6
    <3>2. IsRow(Seen(c, x))
      BY <1>0, <2>1, <2>3 DEF CallOK, Seen, Staged, TypeOK, RowsOK
    <3>3. r.email = Line(c).email /\ r.state = Seen(c, x).state /\ r.name = Seen(c, x).name
      BY <3>2 DEF IsRow
    <3> HIDE DEF r
    <3>4. CASE txn[c].met = {}
      BY <2>1, <2>3, <2>4, <3>1, <3>3, <3>4, ImportWrites DEF Holds
    <3>5. CASE txn[c].met # {}
      <4>1. txn'[c].met # {}
        <5>1. \E staged, errors : Goes(c, staged, errors)
          BY <3>1 DEF Writes
        <5>2. txn[c].met \subseteq txn'[c].met
          BY <5>1, TakesStep DEF Goes
        <5> QED BY <3>5, <5>2
      <4> QED BY <4>1 DEF ImportHolds
    <3> QED BY <3>4, <3>5
  <2> QED BY <2>5, <2>6
<1> QED BY <1>1, <1>3, <1>4, <1>5, <1>6, <1>7, <1>8, <1>9, <1>10, <1>11, <1>12, <1>13, StepCases

LEMMA ImportKept ==
  ASSUME TypeOK, MetInv, ImportInv, NEW c \in Caller, RecurringStep(c) \/ CatalogueStep(c)
  PROVE  ImportInv'
<1>1. (\A o \in Caller \ {c} : Kept(o)) /\ RowsWrittenBy(c)
  BY OthersKept, RowStep
<1>2. \A o \in Caller \ {c} : ImportHolds(o)'
  BY <1>1, OtherImport DEF ImportInv
<1>3. ImportHolds(c)'
  BY OwnImport DEF ImportInv
<1> QED BY <1>2, <1>3 DEF ImportInv

-----------------------------------------------------------------------------
IInv == TypeOK /\ MetInv /\ ReadInv /\ CadenceInv /\ RaceInv /\ ImportInv

LEMMA InitInv == Init => IInv
<1> SUFFICES ASSUME Init PROVE IInv
  OBVIOUS
<1>1. /\ txn = [c \in Caller |-> Idle]
      /\ row = [x \in Entity |-> IF x \in Initially THEN Active(NameOf[x], None) ELSE Absent]
      /\ next = [t \in Template |-> None] /\ since = next
      /\ drafted = [t \in Template |-> {}] /\ raced = {}
  BY DEF Init, CatalogueInit
<1>2. \A c \in Caller : txn[c].op = "idle" /\ txn[c].entity = {} /\ txn[c].met = {}
                        /\ DOMAIN txn[c] = {"op", "entity", "met"}
  BY <1>1 DEF Idle
<1>3. RowsOK
  BY <1>1 DEF RowsOK, IsRow, Active, Absent, State
<1>4. \A c \in Caller : CallOK(c)
  BY <1>2 DEF CallOK, FieldsOf, Op
<1>5. TemplatesOK
  BY <1>1, <1>2 DEF TemplatesOK
<1>6. DOMAIN txn = Caller
  BY <1>1
<1>7. TypeOK
  BY <1>3, <1>4, <1>5, <1>6 DEF TypeOK
<1>8. MetInv /\ ReadInv /\ ImportInv
  BY <1>2 DEF MetInv, ReadInv, ReadHolds, ImportInv, ImportHolds
<1>9. CadenceInv
  BY <1>1, <1>2 DEF CadenceInv
<1>10. RaceInv
  BY <1>1, <1>2 DEF RaceInv
<1> QED BY <1>7, <1>8, <1>9, <1>10 DEF IInv

(* The calendar is not part of the invariant. *)
LEMMA StutterInv ==
  ASSUME IInv, row' = row, txn' = txn, next' = next, since' = since,
         drafted' = drafted, raced' = raced
  PROVE  IInv'
<1>1. TypeOK'
  <2>1. RowsOK'
    BY DEF IInv, TypeOK, RowsOK
  <2>2. TemplatesOK'
    BY DEF IInv, TypeOK, TemplatesOK
  <2>3. ASSUME NEW c \in Caller PROVE CallOK(c)'
    <3>1. CallOK(c)
      BY DEF IInv, TypeOK
    <3> QED BY <3>1 DEF CallOK
  <2> QED BY <2>1, <2>2, <2>3 DEF IInv, TypeOK
<1>2. MetInv'
  BY DEF IInv, MetInv
<1>3. ReadInv'
  BY DEF IInv, ReadInv, ReadHolds
<1>4. CadenceInv'
  <2>1. ASSUME NEW t \in Template, NEW date, CaughtUp(t, date) PROVE CaughtUp(t, date)'
    BY <2>1, CaughtUpKept
  <2>2. ASSUME NEW t \in Template, next'[t] # None PROVE CaughtUp(t, next[t])'
    <3>1. PICK date : date = next[t]
      OBVIOUS
    <3>2. CaughtUp(t, date)'
      BY <2>1, <2>2, <3>1 DEF IInv, CadenceInv
    <3> QED BY <3>1, <3>2
  <2>3. ASSUME NEW c \in Caller, txn'[c].op = "generate", NEW t \in DOMAIN txn'[c].read
        PROVE  CaughtUp(t, txn[c].read[t])'
    <3>1. PICK date : date = txn[c].read[t]
      OBVIOUS
    <3>2. t \in Template
      BY <2>3 DEF IInv, TypeOK, CallOK
    <3>3. CaughtUp(t, date)'
      BY <2>1, <2>3, <3>1, <3>2 DEF IInv, CadenceInv
    <3> QED BY <3>1, <3>3
  <2> QED BY <2>2, <2>3 DEF CadenceInv
<1>5. RaceInv'
  BY DEF IInv, RaceInv
<1>6. ImportInv'
  <2>1. \A c \in Caller, x \in Entity : Seen(c, x)' = Seen(c, x)
    BY DEF Seen, Staged
  <2>2. ASSUME NEW c \in Caller PROVE ImportHolds(c)'
    <3>1. ImportHolds(c)
      BY DEF IInv, ImportInv
    <3> QED BY <2>1, <3>1 DEF ImportHolds, Holds, LastOf, Line, Seen, Staged
  <2> QED BY <2>2 DEF ImportInv
<1> QED BY <1>1, <1>2, <1>3, <1>4, <1>5, <1>6 DEF IInv

LEMMA StepInv == IInv /\ [Next]_vars => IInv'
<1> SUFFICES ASSUME IInv, [Next]_vars PROVE IInv'
  OBVIOUS
<1>1. ASSUME NEW c \in Caller,
             RecurringStep(c) \/ (CatalogueStep(c) /\ UNCHANGED recurringVars)
      PROVE  IInv'
  <2>1. TypeOK' /\ MetInv'
    BY <1>1, TypeStep, MetStep DEF IInv
  <2>2. ReadInv' /\ ImportInv'
    BY <1>1, ReadStep, ImportKept DEF IInv
  <2>3. CadenceInv' /\ RaceInv'
    BY <1>1, CadenceKept, RaceKept DEF IInv
  <2> QED BY <2>1, <2>2, <2>3 DEF IInv
<1>2. CASE Tick \/ UNCHANGED vars
  <2>1. row' = row /\ txn' = txn /\ next' = next /\ since' = since
        /\ drafted' = drafted /\ raced' = raced
    BY <1>2 DEF Tick, vars, catalogueVars, recurringVars
  <2> QED BY <2>1, StutterInv
<1> QED BY <1>1, <1>2 DEF Next

(* The invariant the theorems rest on. *)
LEMMA Invariant == Spec => []IInv
BY InitInv, StepInv, PTL DEF Spec

(* Each step is one call's, or leaves rows and calls alone. *)
LEMMA ActorOf ==
  ASSUME Next
  PROVE  \/ \E c \in Caller : RecurringStep(c) \/ (CatalogueStep(c) /\ UNCHANGED recurringVars)
         \/ row' = row /\ txn' = txn
BY DEF Next, Tick, catalogueVars

-----------------------------------------------------------------------------
(* A template is never behind: each month its cadence names, from the      *)
(* first run date up to the next, has had its requisition, whatever        *)
(* generations overlap, fail or skip (generateDueRequisitions).            *)
THEOREM NothingSkippedHolds == Spec => []NothingSkipped
<1>1. IInv => NothingSkipped
  BY DEF IInv, CadenceInv, CaughtUp, NothingSkipped
<1> QED BY <1>1, Invariant, PTL

(* A date is generated twice only for a template that two generations had  *)
(* selected at once: they lock the row without reading it again.           *)
THEOREM TwiceOnlyInRacesHolds == Spec => TwiceOnlyInRaces
<1>1. ASSUME IInv, NEW c \in Caller, GenerateCommit(c) PROVE Repeats(c) \subseteq raced
  <2>1. SUFFICES ASSUME NEW t \in txn[c].staged, txn[c].read[t] \in drafted[t], t \notin raced
                 PROVE  FALSE
    BY DEF Repeats
  <2>2. /\ txn[c].op = "generate" /\ t \in Template /\ t \in DOMAIN txn[c].read
        /\ next[t] # None /\ txn[c].read[t] \in Date
    BY <1>1 DEF IInv, TypeOK, CallOK, GenerateCommit
  <2>3. txn[c].read[t] = next[t] /\ txn[c].read[t].month < next[t].month
    BY <1>1, <2>1, <2>2 DEF IInv, RaceInv
  <2>4. next[t].month \in Nat
    BY <2>2, <2>3 DEF Date
  <2> QED BY <2>3, <2>4
<1>2. IInv /\ [Next]_vars =>
        [\A c \in Caller : GenerateCommit(c) => Repeats(c) \subseteq raced]_vars
  BY <1>1
<1> QED BY <1>2, Invariant, PTL DEF Spec, TwiceOnlyInRaces

(* What is inserted or generated refers to suppliers and cost centers that *)
(* are active at that moment, but for those another call had in hand since *)
(* they were read (assertPickable, findArchivedReferenceIds).              *)
THEOREM RefersToActiveHolds == Spec => RefersToActive
<1>1. ASSUME IInv, NEW c \in Caller, RequisitionInsert(c) \/ TemplateInsert(c)
      PROVE  Pickable(txn[c].entity \ txn[c].met)
  <2>1. txn[c].op \in {"requisition", "template"} /\ ReadHolds(c)
    BY <1>1 DEF RequisitionInsert, TemplateInsert, IInv, ReadInv
  <2> QED BY <2>1 DEF ReadHolds, Pickable
<1>2. ASSUME IInv, NEW c \in Caller, GenerateCommit(c)
      PROVE  Pickable((UNION {Refs[t] : t \in txn[c].staged}) \ txn[c].met)
  <2>1. txn[c].op = "generate" /\ ReadHolds(c)
    BY <1>2 DEF GenerateCommit, IInv, ReadInv
  <2> QED BY <2>1 DEF ReadHolds, Pickable
<1>3. IInv => \A c \in Caller :
         /\ RequisitionInsert(c) \/ TemplateInsert(c) => Pickable(txn[c].entity \ txn[c].met)
         /\ GenerateCommit(c) =>
              Pickable((UNION {Refs[t] : t \in txn[c].staged}) \ txn[c].met)
  BY <1>1, <1>2
<1> QED BY <1>3, Invariant, PTL DEF Spec, RefersToActive

(* An archived supplier or cost center is written again only by a call     *)
(* that shared it with another one (updateSupplier, archiveSupplier and    *)
(* importSuppliers write without looking again).                           *)
THEOREM ArchivedIsFrozenHolds == Spec => ArchivedIsFrozen
<1>1. ASSUME IInv, Next, NEW x \in Entity, row[x].state = "archived", row'[x] # row[x]
      PROVE  \E c \in Caller : x \in txn[c].met
  <2>1. PICK c \in Caller : RecurringStep(c) \/ (CatalogueStep(c) /\ UNCHANGED recurringVars)
    BY <1>1, ActorOf
  <2>2. x \in txn[c].entity
    BY <1>1, <2>1, RowStep DEF RowsWrittenBy, IInv
  <2>3. txn[c].op \in {"create", "update", "archive", "import"}
    <3>1. CreateWrite(c) \/ UpdateWrite(c) \/ ArchiveWrite(c) \/ ImportCommit(c)
      BY <1>1, <2>1 DEF CatalogueStep, RecurringStep, CreateRead, UpdateRead, ArchiveRead,
         ImportBegin, ImportRead, ImportInsert, ImportUpdate, Abort, GenerateNext, TemplatePick,
         RequisitionPick, TemplateInsert, RequisitionInsert, GenerateSelect, GenerateCommit
    <3> QED BY <3>1 DEF CreateWrite, UpdateWrite, ArchiveWrite, ImportCommit
  <2>4. ReadHolds(c)
    BY <1>1 DEF IInv, ReadInv
  <2> QED BY <1>1, <2>2, <2>3, <2>4 DEF ReadHolds
<1>2. IInv /\ [Next]_vars =>
        [\A x \in Entity : row[x].state = "archived" /\ row'[x] # row[x] =>
           \E c \in Caller : x \in txn[c].met]_row
  <2>1. ASSUME UNCHANGED vars PROVE row' = row
    BY <2>1 DEF vars, catalogueVars
  <2> QED BY <1>1, <2>1
<1> QED BY <1>2, Invariant, PTL DEF Spec, ArchivedIsFrozen

(* An import that commits has brought in what its file says, unless        *)
(* another call had a row of its own in hand (importSuppliers,             *)
(* importCostCenters).                                                     *)
THEOREM ImportTakesEffectHolds == Spec => ImportTakesEffect
<1>1. ASSUME IInv, NEW c \in Caller, ImportCommit(c), txn[c].met = {},
             NEW i \in DOMAIN txn[c].file \ txn[c].errors,
             \A j \in i + 1 .. Len(txn[c].file) : txn[c].file[j].name # txn[c].file[i].name
      PROVE  \E x \in Entity :
               /\ KindOf[x] = txn[c].kind
               /\ row'[x].state = "active" /\ row'[x].name = txn[c].file[i].name
               /\ txn[c].file[i].email \in {row'[x].email, Missing}
  <2>1. CallOK(c) /\ ImportHolds(c) /\ txn[c].op = "import" /\ txn[c].at > Len(txn[c].file)
    BY <1>1 DEF IInv, TypeOK, ImportInv, ImportCommit
  <2>2. DOMAIN txn[c].file = 1 .. Len(txn[c].file) /\ Len(txn[c].file) \in Nat
    BY <2>1, CatalogueAssumption DEF CallOK
  <2>3. txn[c].at \in 1 .. Len(txn[c].file) + 1
    BY <2>1 DEF CallOK
  <2>4. txn[c].at = Len(txn[c].file) + 1 /\ txn[c].at - 1 = Len(txn[c].file)
    BY <2>1, <2>2, <2>3
  <2>5. i \in 1 .. txn[c].at - 1 /\ LastOf(c, i, txn[c].at)
    BY <1>1, <2>2, <2>4 DEF LastOf
  <2>6. PICK x \in Entity : Holds(c, x, txn[c].file[i])
                            /\ txn[c].file[i].email \in {Seen(c, x).email, Missing}
    BY <1>1, <2>1, <2>5 DEF ImportHolds
  <2>7. row'[x] = Seen(c, x)
    BY <1>1 DEF ImportCommit
  <2> QED BY <2>6, <2>7 DEF Holds
<1>2. IInv => \A c \in Caller : ImportCommit(c) /\ txn[c].met = {} =>
         \A i \in DOMAIN txn[c].file \ txn[c].errors :
           LET line == txn[c].file[i]
               last == \A j \in i + 1 .. Len(txn[c].file) : txn[c].file[j].name # line.name IN
           last => \E x \in Entity :
             /\ KindOf[x] = txn[c].kind
             /\ row'[x].state = "active" /\ row'[x].name = line.name
             /\ line.email \in {row'[x].email, Missing}
  BY <1>1
<1> QED BY <1>2, Invariant, PTL DEF Spec, ImportTakesEffect
=============================================================================
