--------------------------- MODULE ApprovalRules ----------------------------
(***************************************************************************)
(* Approval rules and the chain they yield: src/domain/approval.ts, and    *)
(* its use by src/lib/services/master-data/approval-rules.ts, where the    *)
(* rules are edited, and by submitRequisition (p2p/requisitions.ts).       *)
(*                                                                         *)
(* createApprovalRule and updateApprovalRule lock the table, check the     *)
(* rule set they find and write; archiveApprovalRule locks nothing, but    *)
(* its UPDATE waits for the table lock of an edit.  Sequence numbers order *)
(* a list on a page and break ties between steps of equal minimum: here    *)
(* such ties are broken arbitrarily.                                       *)
(***************************************************************************)
EXTENDS Integers, FiniteSets

CONSTANTS Rule,         \* rules that may be created: bounds a behaviour
          Currency,
          StepRole,     \* the roles a rule may ask for
          Minor,        \* amounts, in minor units, that rules may be given
          Call,         \* service calls that may be in progress at a time
          NoMax         \* maxMinor of an open-ended rule

ASSUME RulesAssumption == IsFiniteSet(Rule) /\ Minor \subseteq Nat /\ NoMax \notin Nat

VARIABLES
  rule,   \* approval_rules: [state, terms]
  call    \* the service calls in progress

rulesVars == <<rule, call>>

Terms == [currency: Currency, min: Minor, max: Minor \cup {NoMax}, role: StepRole]
NoCall == [phase |-> "idle"]

RulesTypeOK ==
  /\ rule \in [Rule -> [state: {"none"}] \cup [state: {"active", "archived"}, terms: Terms]]
  /\ call \in [Call -> {NoCall}
                         \cup [phase: {"create_held", "update_held"}, rule: Rule, terms: Terms]
                         \cup [phase: {"archive_read"}, rule: Rule]]

RulesInit ==
  /\ rule = [r \in Rule |-> [state |-> "none"]]
  /\ call = [t \in Call |-> NoCall]

-----------------------------------------------------------------------------
(* domain/approval.ts *)

Bounded(s) == s.max # NoMax

(* compile: "max must be greater than min" *)
WellFormed(s) == Bounded(s) => s.min < s.max

(* assertNoBoundedOverlap: bands may share an end point, and no more. *)
Overlap(s, u) == Bounded(s) /\ Bounded(u) /\ s.min < u.max /\ u.min < s.max

(* The rules of a currency that are not archived. *)
Active(currency) ==
  {r \in Rule : rule[r].state = "active" /\ rule[r].terms.currency = currency}

(* assertFitsRuleSet: validateApprovalRules over a candidate and the rules *)
(* it will stand beside.                                                   *)
Fits(s, others) ==
  /\ WellFormed(s) /\ \A o \in others : WellFormed(rule[o].terms)
  /\ \A o \in others : ~Overlap(s, rule[o].terms)
  /\ \A o, p \in others : o # p => ~Overlap(rule[o].terms, rule[p].terms)

Bands(currency, amount) ==
  {r \in Active(currency) : /\ Bounded(rule[r].terms)
                            /\ rule[r].terms.min <= amount /\ amount <= rule[r].terms.max}

(* Mutant of BandRules: the bands are sorted the other way round. *)
LowestBandRules(currency, amount) ==
  {r \in Bands(currency, amount) :
     \A o \in Bands(currency, amount) : rule[r].terms.min <= rule[o].terms.min}

(* resolveApprovalChain: of the bands that hold the amount, the one that   *)
(* begins highest decides.                                                 *)
BandRules(currency, amount) ==
  {r \in Bands(currency, amount) :
     \A o \in Bands(currency, amount) : rule[o].terms.min <= rule[r].terms.min}

(* Open-ended rules add a step each, from the lowest minimum to the highest. *)
Escalations(currency, amount) ==
  {r \in Active(currency) : ~Bounded(rule[r].terms) /\ rule[r].terms.min <= amount}

(* The chains resolveApprovalChain may yield: the position of each step.   *)
(* There are none if no rule matches: the submission is refused.           *)
ChainsFor(currency, amount) ==
  LET steps == BandRules(currency, amount) \cup Escalations(currency, amount) IN
  {position \in [steps -> 1 .. Cardinality(steps)] :
     /\ steps # {}
     /\ \A r, s \in steps :
          /\ r # s => position[r] # position[s]
          /\ r \in BandRules(currency, amount) /\ s \notin BandRules(currency, amount)
               => position[r] < position[s]
          /\ {r, s} \subseteq Escalations(currency, amount)
             /\ rule[r].terms.min < rule[s].terms.min => position[r] < position[s]}

-----------------------------------------------------------------------------
(* Mutant of TableFree: the table is not locked. *)
TableLockIgnored == TRUE

(* LOCK TABLE approval_rules IN SHARE ROW EXCLUSIVE MODE *)
TableFree == \A t \in Call : call[t].phase \notin {"create_held", "update_held"}

BeginCall(t, state) == call[t] = NoCall /\ call' = [call EXCEPT ![t] = state]
EndCall(t) == call' = [call EXCEPT ![t] = NoCall]

(* createApprovalRule up to its check, and its insert. *)
CreateCheck(t, s) ==
  /\ TableFree
  /\ Fits(s, Active(s.currency))
  /\ \E r \in Rule :
       /\ rule[r].state = "none"
       /\ \A o \in Call : call[o] # NoCall => call[o].rule # r
       /\ BeginCall(t, [phase |-> "create_held", rule |-> r, terms |-> s])
  /\ UNCHANGED rule

(* updateApprovalRule reads its row under the lock. *)
UpdateCheck(t, r, s) ==
  /\ TableFree
  /\ rule[r].state = "active"
  /\ Fits(s, Active(s.currency) \ {r})
  /\ BeginCall(t, [phase |-> "update_held", rule |-> r, terms |-> s])
  /\ UNCHANGED rule

(* A new row is active; an update writes the terms and nothing else. *)
StoredRule(t) ==
  IF call[t].phase = "create_held" THEN [state |-> "active", terms |-> call[t].terms]
  ELSE [rule[call[t].rule] EXCEPT !.terms = call[t].terms]

EditCommit(t) ==
  /\ call[t].phase \in {"create_held", "update_held"}
  /\ rule' = [rule EXCEPT ![call[t].rule] = StoredRule(t)]
  /\ EndCall(t)

(* archiveApprovalRule reads first, and nothing is locked until its update. *)
ArchiveRead(t, r) ==
  /\ rule[r].state = "active"
  /\ BeginCall(t, [phase |-> "archive_read", rule |-> r])
  /\ UNCHANGED rule

ArchiveWrite(t) ==
  /\ call[t].phase = "archive_read"
  /\ TableFree
  /\ rule' = [rule EXCEPT ![call[t].rule].state = "archived"]
  /\ EndCall(t)

(* A call is rolled back, or its process dies. *)
AbortCall(t) ==
  /\ call[t] # NoCall
  /\ EndCall(t)
  /\ UNCHANGED rule

RulesNext ==
  \E t \in Call :
    \/ \E s \in Terms : CreateCheck(t, s) \/ \E r \in Rule : UpdateCheck(t, r, s)
    \/ EditCommit(t)
    \/ \E r \in Rule : ArchiveRead(t, r)
    \/ ArchiveWrite(t)
    \/ AbortCall(t)

RulesSpec == RulesInit /\ [][RulesNext]_rulesVars

-----------------------------------------------------------------------------
(* Properties *)

(* However edits and archivals overlap, the rules in force for a currency  *)
(* pass the check that every submission repeats: no edit can leave behind  *)
(* a rule set with which nothing can be submitted any more                 *)
(* (approval-rules.ts:104-107, 120-126; domain/approval.ts:52-64).         *)
RulesStayUsable ==
  \A c \in Currency : \A r, s \in Active(c) :
    /\ WellFormed(rule[r].terms)
    /\ r # s => ~Overlap(rule[r].terms, rule[s].terms)

(* In every chain at most one step comes from a band, and it is the first: *)
(* an amount on the boundary of two bands belongs to the upper one, and    *)
(* the band that is passed over only touches it                            *)
(* (domain/approval.ts:82-101).                                            *)
UpperBandDecides ==
  \A c \in Currency, amount \in Minor : \A chain \in ChainsFor(c, amount) :
    \A r \in DOMAIN chain : Bounded(rule[r].terms) =>
      /\ chain[r] = 1
      /\ \A o \in Bands(c, amount) \ {r} :
           /\ o \notin DOMAIN chain
           /\ rule[o].terms.max = amount /\ rule[r].terms.min = amount

(* "Archived approval rules cannot be edited": an update that waited for   *)
(* the lock reads the row again, and none is brought back                  *)
(* (approval-rules.ts:121-124).                                            *)
ArchivedForGood ==
  [][\A r \in Rule : rule[r].state = "archived" => rule'[r] = rule[r]]_rulesVars
=============================================================================
