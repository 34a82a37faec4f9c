------------------------------ MODULE Catalogue ------------------------------
(***************************************************************************)
(* Suppliers and cost centers (src/lib/services/master-data): create,      *)
(* update, archive, and import from CSV.  The two tables have the same     *)
(* code; a cost center has no e-mail address.                              *)
(*                                                                         *)
(* Edits read without a lock and write later.  An import is one            *)
(* transaction: what it wrote is seen by others when it commits, and until *)
(* then other writers of the same row, or of the same name under the       *)
(* partial unique index, wait.                                             *)
(***************************************************************************)
EXTENDS Naturals, Sequences, FiniteSets

CONSTANTS Caller,                  \* calls that may be in progress at a time
          Entity, KindOf,          \* rows, each of a table: "supplier" or "costCenter"
          Initially,               \* the entities that exist at first
          NameOf,                  \* the names of these
          Name, Email, File,       \* File: contents of CSV files
          MaxEdits,                \* bound on calls
          None, Missing            \* no value; no such column in the file

ASSUME CatalogueAssumption ==
  /\ KindOf \in [Entity -> {"supplier", "costCenter"}]
  /\ Initially \subseteq Entity /\ NameOf \in [Initially -> Name]
  /\ \A x, y \in Initially : KindOf[x] = KindOf[y] /\ NameOf[x] = NameOf[y] => x = y
  /\ File \subseteq Seq([name: Name, email: Email \cup {None, Missing}])

VARIABLES
  row,   \* suppliers and cost_centers
  txn,   \* calls in progress; history: met, the rows of a call that others had in hand
  edits  \* calls of this module begun, at most MaxEdits

catalogueVars == <<row, txn, edits>>

Idle == [op |-> "idle", entity |-> {}, met |-> {}]
Absent == [state |-> "absent", name |-> None, email |-> None]
Active(name, email) == [state |-> "active", name |-> name, email |-> email]

CatalogueInit ==
  /\ row = [x \in Entity |-> IF x \in Initially THEN Active(NameOf[x], None) ELSE Absent]
  /\ txn = [c \in Caller |-> Idle]
  /\ edits = 0

Emails(x) == IF KindOf[x] = "supplier" THEN Email \cup {None} ELSE {None}

(* What c sees: what is committed, and what its own import has written. *)
Staged(c) == IF txn[c].op = "import" THEN txn[c].staged ELSE [x \in {} |-> Absent]
Seen(c, x) == IF x \in DOMAIN Staged(c) THEN Staged(c)[x] ELSE row[x]

Named(c, kind, name) ==
  {x \in Entity : KindOf[x] = kind /\ Seen(c, x).state = "active" /\ Seen(c, x).name = name}

(* Nobody else has written this row, or this name, in an open transaction. *)
RowFree(c, x) == \A o \in Caller \ {c} : x \notin DOMAIN Staged(o)
NameFree(c, kind, name) ==
  \A o \in Caller \ {c} : \A x \in DOMAIN Staged(o) :
    ~(KindOf[x] = kind /\ Staged(o)[x].name = name)

(* The fields of new, and those of old that new leaves alone. *)
Over(new, old) ==
  [f \in DOMAIN new \cup DOMAIN old |-> IF f \in DOMAIN new THEN new[f] ELSE old[f]]

(* Call c takes X in hand, and goes on as given. *)
Takes(c, X, call) ==
  txn' = [o \in Caller |->
    IF o = c
    THEN Over(call,
           [txn[c] EXCEPT !.entity = @ \cup X,
                          !.met = @ \cup (X \cap UNION {txn[p].entity : p \in Caller \ {c}})])
    ELSE [txn[o] EXCEPT !.met = @ \cup (X \cap txn[o].entity)]]

Begins(c, X, call) == txn[c] = Idle /\ Takes(c, X, call)
Edits == edits < MaxEdits /\ edits' = edits + 1
Ends(c) == txn' = [txn EXCEPT ![c] = Idle]

-----------------------------------------------------------------------------
(* createSupplier, createCostCenter *)

CreateRead(c, x, name, email) ==
  /\ row[x] = Absent /\ \A o \in Caller : x \notin txn[o].entity
  /\ Named(c, KindOf[x], name) = {}
  /\ Begins(c, {x}, [op |-> "create", new |-> Active(name, email)])
  /\ Edits /\ UNCHANGED row

(* The unique index rejects a name that has become active meanwhile. *)
Conflict(c, x, name) == Named(c, KindOf[x], name) \ {x} # {}

CreateWrite(c) ==
  /\ txn[c].op = "create"
  /\ \E x \in txn[c].entity :
     /\ NameFree(c, KindOf[x], txn[c].new.name)
     /\ row' = IF Conflict(c, x, txn[c].new.name) THEN row
               ELSE [row EXCEPT ![x] = txn[c].new]
  /\ Ends(c) /\ UNCHANGED edits

-----------------------------------------------------------------------------
(* updateSupplier, updateCostCenter *)

(* The fields to be written: any of a name and, for a supplier, an address. *)
Patches(x) ==
  [{"name"} -> Name] \cup
  IF KindOf[x] = "costCenter" THEN {}
  ELSE {[email |-> e] : e \in Emails(x)} \cup [name: Name, email: Emails(x)]

(* Mutant of Editable: archived rows can be edited too. *)
EditableWhenThere(x) == row[x] # Absent
Editable(x) == row[x].state = "active"

UpdateRead(c, x, patch) ==
  /\ Editable(x)
  /\ "name" \in DOMAIN patch => Named(c, KindOf[x], patch.name) \ {x} = {}
  /\ Begins(c, {x}, [op |-> "update", patch |-> patch])
  /\ Edits /\ UNCHANGED row

(* The write does not look whether the row has been archived. *)
UpdateWrite(c) ==
  /\ txn[c].op = "update"
  /\ \E x \in txn[c].entity :
     LET new == Over(txn[c].patch, row[x]) IN
     /\ RowFree(c, x) /\ NameFree(c, KindOf[x], new.name)
     /\ row' = IF new.state = "active" /\ Conflict(c, x, new.name) THEN row
               ELSE [row EXCEPT ![x] = new]
  /\ Ends(c) /\ UNCHANGED edits

-----------------------------------------------------------------------------
(* archiveSupplier, archiveCostCenter *)

ArchiveRead(c, x) ==
  /\ row[x].state = "active"
  /\ Begins(c, {x}, [op |-> "archive"])
  /\ Edits /\ UNCHANGED row

ArchiveWrite(c) ==
  /\ txn[c].op = "archive"
  /\ \E x \in txn[c].entity :
       RowFree(c, x) /\ row' = [row EXCEPT ![x].state = "archived"]
  /\ Ends(c) /\ UNCHANGED edits

-----------------------------------------------------------------------------
(* importSuppliers, importCostCenters: one transaction for the whole file *)

ImportBegin(c, kind, file) ==
  /\ kind = "costCenter" => \A i \in DOMAIN file : file[i].email = Missing
  /\ Begins(c, {}, [op |-> "import", kind |-> kind, file |-> file,
                    at |-> 1, match |-> {}, phase |-> "read",
                    staged |-> [x \in {} |-> Absent], errors |-> {}])
  /\ Edits /\ UNCHANGED row

Line(c) == txn[c].file[txn[c].at]

(* activeByName *)
ImportRead(c) ==
  /\ txn[c].op = "import" /\ txn[c].phase = "read" /\ txn[c].at <= Len(txn[c].file)
  /\ LET match == Named(c, txn[c].kind, Line(c).name) IN
     Takes(c, match, [phase |-> "write", match |-> match])
  /\ UNCHANGED <<row, edits>>

(* The next line, with x now as given. *)
Goes(c, staged, errors) ==
  Takes(c, DOMAIN staged, [phase |-> "read", at |-> txn[c].at + 1, match |-> {},
                           staged |-> staged, errors |-> errors])

Writes(c, x, r) ==
  Goes(c, [y \in DOMAIN Staged(c) \cup {x} |-> IF y = x THEN r ELSE Staged(c)[y]], txn[c].errors)

(* A new name is inserted under a savepoint: a lost race is an error of    *)
(* this line alone.                                                        *)
ImportInsert(c) ==
  /\ txn[c].op = "import" /\ txn[c].phase = "write" /\ txn[c].match = {}
  /\ NameFree(c, txn[c].kind, Line(c).name)
  /\ IF Named(c, txn[c].kind, Line(c).name) # {}
     THEN Goes(c, Staged(c), txn[c].errors \cup {txn[c].at})
     ELSE \E x \in Entity :
            /\ KindOf[x] = txn[c].kind /\ Seen(c, x) = Absent
            /\ \A o \in Caller \ {c} : x \notin txn[o].entity
            /\ Writes(c, x, Active(Line(c).name,
                                   IF Line(c).email = Missing THEN None ELSE Line(c).email))
  /\ UNCHANGED <<row, edits>>

(* Mutant of Same: an address is never taken away again. *)
SameOrNone(old, new) == new \in {old, None, Missing}
Same(old, new) == new \in {old, Missing}

(* A known supplier gets the address of the line, if that is another; a    *)
(* known cost center is skipped.                                           *)
ImportUpdate(c) ==
  /\ txn[c].op = "import" /\ txn[c].phase = "write"
  /\ \E x \in txn[c].match :
       IF Same(Seen(c, x).email, Line(c).email)
       THEN Goes(c, Staged(c), txn[c].errors)
       ELSE RowFree(c, x) /\ Writes(c, x, [Seen(c, x) EXCEPT !.email = Line(c).email])
  /\ UNCHANGED <<row, edits>>

ImportCommit(c) ==
  /\ txn[c].op = "import" /\ txn[c].at > Len(txn[c].file)
  /\ row' = [x \in Entity |-> Seen(c, x)]
  /\ Ends(c) /\ UNCHANGED edits

Abort(c) == txn[c] # Idle /\ Ends(c) /\ UNCHANGED <<row, edits>>

CatalogueStep(c) ==
  \/ \E x \in Entity :
       \/ \E name \in Name, email \in Emails(x) : CreateRead(c, x, name, email)
       \/ \E patch \in Patches(x) : UpdateRead(c, x, patch)
       \/ ArchiveRead(c, x)
  \/ CreateWrite(c) \/ UpdateWrite(c) \/ ArchiveWrite(c)
  \/ \E kind \in {"supplier", "costCenter"}, file \in File : ImportBegin(c, kind, file)
  \/ ImportRead(c) \/ ImportInsert(c) \/ ImportUpdate(c) \/ ImportCommit(c)
  \/ Abort(c)

-----------------------------------------------------------------------------
(* Properties *)

(* "Archived suppliers cannot be edited" (suppliers.ts:80), and an import  *)
(* takes "active rows only" (csv-import.ts:66): once archived a row stays  *)
(* as it is and its name may be taken again.  A call that read the row     *)
(* before it was archived still writes it.                                 *)
ArchivedIsFrozen ==
  [][\A x \in Entity : row[x].state = "archived" /\ row'[x] # row[x] =>
       \E c \in Caller : x \in txn[c].met]_row

(* An import that commits has brought in what its file says: every line    *)
(* without an error names an active row, and each supplier has the address *)
(* of the last line that names it, unless another call had a row of the    *)
(* import's in hand.                                                       *)
ImportTakesEffect ==
  [][\A c \in Caller : ImportCommit(c) /\ txn[c].met = {} =>
       \A i \in DOMAIN txn[c].file \ txn[c].errors :
         LET line == txn[c].file[i]
             last == \A j \in i + 1 .. Len(txn[c].file) : txn[c].file[j].name # line.name IN
         last => \E x \in Entity :
           /\ KindOf[x] = txn[c].kind
           /\ row'[x].state = "active" /\ row'[x].name = line.name
           /\ line.email \in {row'[x].email, Missing}]_row
=============================================================================
