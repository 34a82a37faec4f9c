------------------------ MODULE OutboxDispatchProofs ------------------------
(***************************************************************************)
(* What dispatch runs never get wrong, for any events, connectors and any  *)
(* number of overlapping runs, failures and crashes.  The properties are   *)
(* about rows of the database; they hold because of what the runs know in  *)
(* memory, so the invariants relate each copy of a row and each answer a   *)
(* run has collected to the row itself.  A second set of invariants is     *)
(* about events no two runs had in hand at once: a run's copy of such an   *)
(* event is exact.                                                         *)
(***************************************************************************)
EXTENDS OutboxDispatch, WellFoundedInduction, TLAPS

(* A batch holds one row per event. *)
OneRowEach(batch) == \A r, s \in batch : r.event = s.event => r = s

(* A run that is not idle has a row to work on, and what its copies say    *)
(* was delivered is recorded. *)
BatchesAreSound ==
  \A d \in Dispatcher :
    /\ run[d].phase # "idle" => run[d].batch # {}
    /\ run[d].phase = "calling" => run[d].row \in run[d].batch
    /\ OneRowEach(run[d].batch)
    /\ \A r \in run[d].batch : r.delivered \subseteq event[r.event].delivered

(* What a run holds of its calls is true of the rows and of the connectors. *)
CallIsSound(d, c) ==
  LET row == run[d].row
      call == run[d].call[c]
      ec == <<run[d].row.event, c>> IN
  /\ call = "none" /\ c \in Handles[row.event] => c \in row.delivered
  /\ call # "none" => c \notin row.delivered
  /\ call = "recorded" => c \in event[row.event].delivered
  /\ call \in {"accepted", "recorded"} => accepted[ec] > 0
  /\ call = "refused" => ec \in refused

CallsAreSound ==
  \A d \in Dispatcher : run[d].phase = "calling" => \A c \in Connector : CallIsSound(d, c)

(* A recorded success was one, and an event is DELIVERED with all of them. *)
RecordsAreSound ==
  \A e \in Event :
    /\ \A c \in event[e].delivered : accepted[<<e, c>>] > 0
    /\ event[e].status = "DELIVERED" => Handles[e] \subseteq event[e].delivered

(* The inductive invariant behind DeliveredWasAccepted and                 *)
(* GivenUpWhenHopeless. *)
IInv ==
  /\ TypeOK
  /\ BatchesAreSound
  /\ CallsAreSound
  /\ RecordsAreSound
  /\ GivenUpWhenHopeless

-----------------------------------------------------------------------------
(* The first row of a batch *)

(* A set of numbers that is not empty has a smallest member.               *)
LEMMA Smallest ==
  ASSUME NEW S \in SUBSET Nat, S # {}
  PROVE  \E n \in S : \A m \in S : n <= m
<1> DEFINE R == {ss \in Nat \X Nat : ss[1] < ss[2]}
<1>1. IsWellFoundedOn(R, Nat)
  BY NatLessThanWellFounded DEF OpToRel
<1>2. PICK n \in S : \A m \in S : <<m, n>> \notin R
  <2> HIDE DEF R
  <2> QED BY <1>1, WFMin
<1>3. \A m \in S : ~(m < n)
  BY <1>2
<1> QED BY <1>2, <1>3

(* A batch has a first row: the oldest of those tried least.               *)
LEMMA FirstOfBatch ==
  ASSUME NEW batch \in SUBSET Row, batch # {}, OneRowEach(batch)
  PROVE  First(batch) \in batch
<1> DEFINE A == {r.attempts : r \in batch}
<1>1. A \in SUBSET Nat /\ A # {}
  BY DEF Row
<1>2. PICK least \in A : \A a \in A : least <= a
  BY <1>1, Smallest
<1> DEFINE E == {r.event : r \in {s \in batch : s.attempts = least}}
<1>3. E \in SUBSET Nat /\ E # {}
  <2>1. PICK s \in batch : s.attempts = least
    BY <1>2
  <2>2. s.event \in E
    BY <2>1
  <2>3. \A r \in batch : r.event \in Nat
    BY DispatchAssumption DEF Row
  <2> QED BY <2>2, <2>3
<1>4. PICK oldest \in E : \A e \in E : oldest <= e
  BY <1>3, Smallest
<1>5. PICK r \in batch : r.attempts = least /\ r.event = oldest
  BY <1>4
<1>6. ASSUME NEW s \in batch \ {r} PROVE Before(r, s)
  <2>1. s.event # r.event
    BY <1>6, <1>5 DEF OneRowEach
  <2>2. r.attempts <= s.attempts /\ (s.attempts = least => r.event <= s.event)
    BY <1>2, <1>4, <1>5
  <2>3. r.attempts \in Nat /\ s.attempts \in Nat /\ r.event \in Nat /\ s.event \in Nat
    BY DispatchAssumption DEF Row
  <2> QED BY <1>5, <2>1, <2>2, <2>3 DEF Before
<1> QED BY <1>5, <1>6 DEF First

-----------------------------------------------------------------------------
(* Types *)

(* What the record of a run refers to. *)
LEMMA RunFields ==
  ASSUME TypeOK, NEW d \in Dispatcher
  PROVE  /\ run[d] \in Runs
         /\ run[d].phase \in {"idle", "next", "calling"}
         /\ run[d].batch \in SUBSET Row
         /\ run[d].phase = "idle" => run[d] = Idle
         /\ run[d].phase = "calling" =>
              /\ run[d].row \in Row /\ run[d].row.event \in Event
              /\ run[d].row.delivered \subseteq Connector
              /\ run[d].call \in [Connector -> Call]
<1>1. run[d] \in Runs
  BY DEF TypeOK
<1>2. CASE run[d] = Idle
  BY <1>1, <1>2 DEF Idle
<1>3. CASE run[d] \in [phase: {"next"}, batch: SUBSET Row]
  BY <1>1, <1>3
<1>4. CASE run[d] \in [phase: {"calling"}, batch: SUBSET Row, row: Row,
                       call: [Connector -> Call]]
  <2>1. run[d].row \in Row
    BY <1>4
  <2> QED BY <1>1, <1>4, <2>1 DEF Row
<1> QED BY <1>1, <1>2, <1>3, <1>4 DEF Runs

(* An answer changes one entry of one run's calls. *)
LEMMA AnswerFields ==
  ASSUME TypeOK, NEW d \in Dispatcher, NEW c \in Connector, NEW answer \in Call,
         run[d].phase = "calling", Answered(d, c, answer)
  PROVE  /\ run' \in [Dispatcher -> Runs]
         /\ \A o \in Dispatcher \ {d} : run'[o] = run[o]
         /\ run'[d].phase = "calling" /\ run'[d].batch = run[d].batch
         /\ run'[d].row = run[d].row
         /\ run'[d].call = [run[d].call EXCEPT ![c] = answer]
<1>1. run[d] \in [phase: {"calling"}, batch: SUBSET Row, row: Row, call: [Connector -> Call]]
  BY RunFields DEF Runs, Idle
<1>2. run' = [run EXCEPT ![d] = [run[d] EXCEPT !.call = [run[d].call EXCEPT ![c] = answer]]]
  BY DEF Answered
<1>3. run \in [Dispatcher -> Runs]
  BY DEF TypeOK
<1>4. run'[d] = [run[d] EXCEPT !.call = [run[d].call EXCEPT ![c] = answer]]
  BY <1>2, <1>3
<1>5. run'[d] \in [phase: {"calling"}, batch: SUBSET Row, row: Row, call: [Connector -> Call]]
  BY <1>1, <1>4
<1>6. run'[d] \in Runs
  BY <1>5 DEF Runs
<1>7. run' \in [Dispatcher -> Runs]
  BY <1>2, <1>3, <1>4, <1>6
<1> QED BY <1>1, <1>2, <1>3, <1>4, <1>7

(* A run goes on with fewer rows, or ends. *)
LEMMA ContinueFields ==
  ASSUME TypeOK, NEW d \in Dispatcher, NEW batch \in SUBSET Row, Continue(d, batch)
  PROVE  /\ run' \in [Dispatcher -> Runs]
         /\ \A o \in Dispatcher \ {d} : run'[o] = run[o]
         /\ run'[d].phase \in {"idle", "next"} /\ run'[d].batch = batch
         /\ run'[d].phase = "next" => batch # {}
<1>1. run \in [Dispatcher -> Runs]
  BY DEF TypeOK
<1>2. run'[d] = IF batch = {} THEN Idle ELSE [phase |-> "next", batch |-> batch]
  BY <1>1 DEF Continue
<1>3. run'[d] \in Runs
  BY <1>2 DEF Runs
<1>4. run' \in [Dispatcher -> Runs]
  BY <1>1, <1>2, <1>3 DEF Continue
<1> QED BY <1>1, <1>2, <1>4 DEF Continue, Idle

(* What Start takes into hand. *)
LEMMA BatchFields ==
  ASSUME TypeOK
  PROVE  /\ Batch \in SUBSET Row /\ OneRowEach(Batch)
         /\ \A r \in Batch : /\ event[r.event].status = "PENDING"
                             /\ event[r.event].delivered = r.delivered
<1>1. Pending \in SUBSET Row
  BY DEF Pending, Row, TypeOK
<1>2. OneRowEach(Pending)
  BY DEF Pending, OneRowEach
<1>3. \A r \in Pending : /\ event[r.event].status = "PENDING"
                         /\ event[r.event].delivered = r.delivered
  BY DEF Pending, Eligible
<1>4. Batch \subseteq Pending
  BY DEF Batch
<1> QED BY <1>1, <1>2, <1>3, <1>4 DEF OneRowEach

(* What Start, Deliver and Crash make of a run. *)
LEMMA StartFields ==
  ASSUME TypeOK, NEW d \in Dispatcher, Start(d)
  PROVE  /\ run' \in [Dispatcher -> Runs]
         /\ \A o \in Dispatcher \ {d} : run'[o] = run[o]
         /\ run'[d].phase = "next" /\ run'[d].batch = Batch /\ Batch # {}
<1>1. run \in [Dispatcher -> Runs]
  BY DEF TypeOK
<1>2. run'[d] = [phase |-> "next", batch |-> Batch]
  BY <1>1 DEF Start
<1>3. run'[d] \in Runs
  BY <1>2, BatchFields DEF Runs
<1>4. run' \in [Dispatcher -> Runs]
  BY <1>1, <1>2, <1>3 DEF Start
<1> QED BY <1>1, <1>2, <1>4 DEF Start

LEMMA DeliverFields ==
  ASSUME TypeOK, BatchesAreSound, NEW d \in Dispatcher, Deliver(d)
  PROVE  /\ run' \in [Dispatcher -> Runs]
         /\ \A o \in Dispatcher \ {d} : run'[o] = run[o]
         /\ run[d].phase = "next"
         /\ run'[d].phase = "calling" /\ run'[d].batch = run[d].batch
         /\ run'[d].row = First(run[d].batch) /\ First(run[d].batch) \in run[d].batch
         /\ run'[d].call = [c \in Connector |->
                              IF c \in ToCall(First(run[d].batch)) THEN "open" ELSE "none"]
<1> DEFINE row == First(run[d].batch)
           call == [c \in Connector |-> IF c \in ToCall(row) THEN "open" ELSE "none"]
<1>1. run \in [Dispatcher -> Runs] /\ run[d].batch \in SUBSET Row
  BY RunFields DEF TypeOK
<1>2. run[d].phase = "next"
  BY DEF Deliver
<1>3. row \in run[d].batch
  BY <1>1, <1>2, FirstOfBatch DEF BatchesAreSound
<1>4. run' = [run EXCEPT ![d] = [phase |-> "calling", batch |-> run[d].batch, row |-> row,
                                 call |-> call]]
  BY DEF Deliver
<1>5. call \in [Connector -> Call]
  BY DEF Call
<1> HIDE DEF call, row
<1>6. run'[d] = [phase |-> "calling", batch |-> run[d].batch, row |-> row, call |-> call]
  BY <1>1, <1>4
<1>7. run'[d] \in Runs
  BY <1>1, <1>3, <1>5, <1>6 DEF Runs
<1>8. run' \in [Dispatcher -> Runs]
  BY <1>1, <1>4, <1>6, <1>7
<1>9. run'[d].call = call /\ run'[d].row = row
  BY <1>6
<1> QED BY <1>1, <1>2, <1>3, <1>4, <1>6, <1>8, <1>9 DEF call, row

LEMMA CrashFields ==
  ASSUME TypeOK, NEW d \in Dispatcher, Crash(d)
  PROVE  /\ run' \in [Dispatcher -> Runs]
         /\ \A o \in Dispatcher \ {d} : run'[o] = run[o]
         /\ run'[d] = Idle
BY DEF TypeOK, Crash, Runs

(* What Skip and Finish take out of a batch. *)
LEMMA SkipFields ==
  ASSUME TypeOK, BatchesAreSound, NEW d \in Dispatcher, Skip(d)
  PROVE  \E row \in run[d].batch : Continue(d, run[d].batch \ {row})
<1>1. First(run[d].batch) \in run[d].batch
  BY RunFields, FirstOfBatch DEF BatchesAreSound, Skip
<1> QED BY <1>1 DEF Skip

(* The row of an event after Finish: its record of successes stays.        *)
LEMMA FinishFields ==
  ASSUME TypeOK, BatchesAreSound, NEW d \in Dispatcher, Finish(d)
  PROVE  /\ run[d].phase = "calling" /\ run[d].row.event \in Event
         /\ run[d].row \in run[d].batch
         /\ \A c \in Connector : run[d].call[c] \notin {"open", "accepted"}
         /\ Continue(d, run[d].batch \ {run[d].row})
         /\ \A e \in Event \ {run[d].row.event} : event'[e] = event[e]
         /\ \A e \in Event : event'[e].delivered = event[e].delivered
         /\ \/ event'[run[d].row.event] = event[run[d].row.event]
            \/ event'[run[d].row.event].status = Outcome({run[d].call[c] : c \in Connector})
         /\ event' \in [Event -> [status: {"NONE", "PENDING", "DELIVERED", "FAILED"},
                                  attempts: Nat, delivered: SUBSET Connector]]
<1> DEFINE e == run[d].row.event
           outcome == Outcome({run[d].call[c] : c \in Connector})
<1>1. run[d].phase = "calling" /\ e \in Event /\ run[d].row \in run[d].batch
  BY RunFields DEF Finish, BatchesAreSound
<1>2. run[d].row.attempts \in Nat
  BY <1>1, RunFields DEF Row
<1>3. outcome \in {"PENDING", "DELIVERED", "FAILED"}
  BY DEF Outcome
<1>4. \/ event' = event
      \/ event' = [event EXCEPT ![e].status = outcome, ![e].attempts = run[d].row.attempts + 1]
  BY DEF Finish
<1>5. \A c \in Connector : run[d].call[c] \notin {"open", "accepted"}
  BY DEF Finish
<1>6. Continue(d, run[d].batch \ {run[d].row})
  BY DEF Finish
<1> HIDE DEF e, outcome
<1>7. event \in [Event -> [status: {"NONE", "PENDING", "DELIVERED", "FAILED"},
                           attempts: Nat, delivered: SUBSET Connector]]
  BY DEF TypeOK
<1>8. /\ \A f \in Event \ {e} : event'[f] = event[f]
      /\ \A f \in Event : event'[f].delivered = event[f].delivered
      /\ event'[e] = event[e] \/ event'[e].status = outcome
      /\ event' \in [Event -> [status: {"NONE", "PENDING", "DELIVERED", "FAILED"},
                               attempts: Nat, delivered: SUBSET Connector]]
  BY <1>1, <1>2, <1>3, <1>4, <1>7
<1> QED BY <1>1, <1>5, <1>6, <1>8 DEF e, outcome

(* A step of a run takes a batch, begins to call, collects an answer, or   *)
(* drops a row.  *)
LEMMA StepKinds ==
  ASSUME TypeOK, BatchesAreSound, NEW d \in Dispatcher, Step(d)
  PROVE  \/ Start(d)
         \/ Deliver(d)
         \/ \E c \in Connector, answer \in Call :
              run[d].phase = "calling" /\ Answered(d, c, answer)
         \/ \E row \in run[d].batch : Continue(d, run[d].batch \ {row})
<1>1. CASE Skip(d)
  BY <1>1, SkipFields
<1>2. CASE Finish(d)
  BY <1>2, FinishFields
<1>3. ASSUME NEW c \in Connector, Accept(d, c) \/ Refuse(d, c) \/ FailRetryably(d, c) \/ Record(d, c)
      PROVE  \E answer \in Call : run[d].phase = "calling" /\ Answered(d, c, answer)
  BY <1>3 DEF Accept, Refuse, FailRetryably, Record, Call
<1> QED BY <1>1, <1>2, <1>3 DEF Step

(* It leaves the other runs alone. *)
LEMMA OthersGoOn ==
  ASSUME TypeOK, BatchesAreSound, NEW d \in Dispatcher, Step(d) \/ Crash(d),
         NEW o \in Dispatcher \ {d}
  PROVE  run'[o] = run[o]
<1>1. ASSUME NEW row \in run[d].batch, Continue(d, run[d].batch \ {row}) PROVE run'[o] = run[o]
  <2>1. run[d].batch \ {row} \in SUBSET Row
    BY RunFields
  <2> QED BY <1>1, <2>1, ContinueFields
<1>2. ASSUME NEW c \in Connector, NEW answer \in Call, run[d].phase = "calling",
             Answered(d, c, answer)
      PROVE  run'[o] = run[o]
  BY <1>2, AnswerFields
<1>3. CASE Start(d) \/ Deliver(d) \/ Crash(d)
  BY <1>3, StartFields, DeliverFields, CrashFields
<1> QED BY <1>1, <1>2, <1>3, StepKinds

(* The initial states are well typed. *)
LEMMA InitTypeOK == Init => TypeOK
<1> SUFFICES ASSUME Init PROVE TypeOK
  OBVIOUS
<1>1. run \in [Dispatcher -> Runs]
  BY DEF Init, Runs
<1> QED BY <1>1, DispatchAssumption DEF Init, TypeOK

(* Every step keeps every variable in its type. *)
LEMMA NextTypeOK == TypeOK /\ BatchesAreSound /\ [Next]_vars => TypeOK'
<1> SUFFICES ASSUME TypeOK, BatchesAreSound, [Next]_vars PROVE TypeOK'
  OBVIOUS
<1> USE DispatchAssumption DEF TypeOK
<1>1. ASSUME NEW e \in Event, Publish(e) PROVE TypeOK'
  BY <1>1 DEF Publish
<1>2. ASSUME NEW d \in Dispatcher, Start(d) PROVE TypeOK'
  <2>1. run' \in [Dispatcher -> Runs]
    BY <1>2, StartFields
  <2>2. Events(Batch) \subseteq Event
    BY BatchFields DEF Events, Row
  <2> QED BY <1>2, <2>1, <2>2 DEF Start
<1>3. ASSUME NEW d \in Dispatcher, Skip(d) PROVE TypeOK'
  <2>1. PICK row \in run[d].batch : Continue(d, run[d].batch \ {row})
    BY <1>3, SkipFields
  <2>2. run' \in [Dispatcher -> Runs]
    BY <2>1, RunFields, ContinueFields
  <2> QED BY <1>3, <2>2 DEF Skip
<1>4. ASSUME NEW d \in Dispatcher, Deliver(d) PROVE TypeOK'
  BY <1>4, DeliverFields DEF Deliver
<1>5. ASSUME NEW d \in Dispatcher, NEW c \in Connector, Accept(d, c) PROVE TypeOK'
  <2>1. run' \in [Dispatcher -> Runs]
    BY <1>5, AnswerFields DEF Accept, Call
  <2>2. <<run[d].row.event, c>> \in Event \X Connector
    BY <1>5, RunFields DEF Accept
  <2> QED BY <1>5, <2>1, <2>2 DEF Accept
<1>6. ASSUME NEW d \in Dispatcher, NEW c \in Connector, Refuse(d, c) PROVE TypeOK'
  <2>1. run' \in [Dispatcher -> Runs]
    BY <1>6, AnswerFields DEF Refuse, Call
  <2>2. <<run[d].row.event, c>> \in Event \X Connector
    BY <1>6, RunFields DEF Refuse
  <2> QED BY <1>6, <2>1, <2>2 DEF Refuse
<1>7. ASSUME NEW d \in Dispatcher, NEW c \in Connector, FailRetryably(d, c) PROVE TypeOK'
  <2>1. run' \in [Dispatcher -> Runs]
    BY <1>7, AnswerFields DEF FailRetryably, Call
  <2>2. <<run[d].row.event, c>> \in Event \X Connector
    BY <1>7, RunFields DEF FailRetryably
  <2> QED BY <1>7, <2>1, <2>2 DEF FailRetryably
<1>8. ASSUME NEW d \in Dispatcher, NEW c \in Connector, Record(d, c) PROVE TypeOK'
  <2>1. run' \in [Dispatcher -> Runs]
    BY <1>8, AnswerFields DEF Record, Call
  <2> QED BY <1>8, <2>1 DEF Record
<1>9. ASSUME NEW d \in Dispatcher, Finish(d) PROVE TypeOK'
  <2>1. run' \in [Dispatcher -> Runs]
    BY <1>9, RunFields, FinishFields, ContinueFields
  <2> QED BY <1>9, <2>1, FinishFields DEF Finish
<1>10. ASSUME NEW d \in Dispatcher, Crash(d) PROVE TypeOK'
  <2>1. run' \in [Dispatcher -> Runs]
    BY <1>10, CrashFields
  <2>2. ASSUME run[d].phase = "calling", NEW late \in SUBSET Open(d)
        PROVE  {run[d].row.event} \X (late \cup CallsThatAre(d, "accepted"))
                 \subseteq Event \X Connector
    BY <2>2, RunFields DEF Open, CallsThatAre
  <2> QED BY <1>10, <2>1, <2>2 DEF Crash
<1>11. CASE UNCHANGED vars
  BY <1>11 DEF vars
<1> QED
  BY <1>1, <1>2, <1>3, <1>4, <1>5, <1>6, <1>7, <1>8, <1>9, <1>10, <1>11 DEF Next, Step

-----------------------------------------------------------------------------
(* Batches *)

(* Recorded successes are never erased. *)
LEMMA DeliveredGrows ==
  ASSUME TypeOK, BatchesAreSound, [Next]_vars, NEW e \in Event
  PROVE  event[e].delivered \subseteq event'[e].delivered
<1>1. ASSUME NEW f \in Event, Publish(f) PROVE event[e].delivered \subseteq event'[e].delivered
  BY <1>1 DEF Publish, TypeOK
<1>2. ASSUME NEW d \in Dispatcher, NEW c \in Connector, Record(d, c)
      PROVE  event[e].delivered \subseteq event'[e].delivered
  BY <1>2 DEF Record, TypeOK
<1>3. ASSUME NEW d \in Dispatcher, Finish(d) PROVE event[e].delivered \subseteq event'[e].delivered
  BY <1>3, FinishFields
<1>4. CASE event' = event
  BY <1>4
<1> QED
  BY <1>1, <1>2, <1>3, <1>4
     DEF Next, Step, vars, Start, Skip, Deliver, Accept, Refuse, FailRetryably, Crash

(* A batch after a step is the old one, part of it, a new one, or empty.   *)
LEMMA NextBatchesAreSound == TypeOK /\ BatchesAreSound /\ [Next]_vars => BatchesAreSound'
<1> SUFFICES ASSUME TypeOK, BatchesAreSound, [Next]_vars, NEW o \in Dispatcher
             PROVE  /\ run'[o].phase # "idle" => run'[o].batch # {}
                    /\ run'[o].phase = "calling" => run'[o].row \in run'[o].batch
                    /\ OneRowEach(run'[o].batch)
                    /\ \A r \in run'[o].batch : r.delivered \subseteq event'[r.event].delivered
  BY DEF BatchesAreSound, OneRowEach
<1> DEFINE Sound == /\ run'[o].phase # "idle" => run'[o].batch # {}
                    /\ run'[o].phase = "calling" => run'[o].row \in run'[o].batch
                    /\ OneRowEach(run'[o].batch)
                    /\ \A r \in run'[o].batch : r.delivered \subseteq event'[r.event].delivered
<1>1. \A r \in Row : r.delivered \subseteq event[r.event].delivered
                        => r.delivered \subseteq event'[r.event].delivered
  BY DeliveredGrows DEF Row
<1>2. ASSUME run'[o].batch \subseteq run[o].batch,
             run'[o].phase # "idle" => run'[o].batch # {},
             run'[o].phase = "calling" => run'[o].row \in run'[o].batch
      PROVE  Sound
  <2>1. OneRowEach(run'[o].batch)
    BY <1>2 DEF BatchesAreSound, OneRowEach
  <2>2. \A r \in run'[o].batch : r \in Row /\ r.delivered \subseteq event[r.event].delivered
    BY <1>2, RunFields DEF BatchesAreSound
  <2> QED BY <1>1, <1>2, <2>1, <2>2
<1>3. CASE run'[o] = run[o]
  BY <1>2, <1>3 DEF BatchesAreSound
<1>4. ASSUME NEW c \in Connector, NEW answer \in Call,
             run[o].phase = "calling", Answered(o, c, answer)
      PROVE  Sound
  BY <1>2, <1>4, AnswerFields DEF BatchesAreSound
<1>5. ASSUME NEW row \in run[o].batch, Continue(o, run[o].batch \ {row}) PROVE Sound
  BY <1>2, <1>5, RunFields, ContinueFields
<1>6. CASE Start(o)
  <2>1. run'[o].phase = "next" /\ run'[o].batch = Batch /\ Batch # {} /\ event' = event
    BY <1>6, StartFields DEF Start
  <2>2. \A r \in Batch : r.delivered \subseteq event[r.event].delivered
    BY BatchFields
  <2> QED BY <2>1, <2>2, BatchFields
<1>7. CASE Deliver(o)
  <2>1. /\ run'[o].phase = "calling" /\ run'[o].batch = run[o].batch
        /\ run'[o].row \in run[o].batch
    BY <1>7, DeliverFields
  <2> QED BY <1>2, <2>1
<1>8. CASE Crash(o)
  BY <1>2, <1>8, CrashFields DEF Idle
<1>9. ASSUME NEW d \in Dispatcher, Step(d) \/ Crash(d), d # o PROVE run'[o] = run[o]
  BY <1>9, OthersGoOn
<1>10. CASE Step(o)
  BY <1>4, <1>5, <1>6, <1>7, <1>10, StepKinds
<1>11. CASE run' = run
  BY <1>3, <1>11
<1> QED BY <1>3, <1>8, <1>9, <1>10, <1>11 DEF Next, Publish, vars

-----------------------------------------------------------------------------
(* Calls and rows *)

(* What a connector took or refused stays taken or refused. *)
LEMMA AnswersStay ==
  ASSUME TypeOK, BatchesAreSound, [Next]_vars
  PROVE  /\ \A ec \in Event \X Connector : accepted[ec] > 0 => accepted'[ec] > 0
         /\ refused \subseteq refused'
<1> USE DEF TypeOK
<1>1. ASSUME NEW d \in Dispatcher, NEW c \in Connector, Accept(d, c) \/ FailRetryably(d, c)
      PROVE  /\ \A ec \in Event \X Connector : accepted[ec] > 0 => accepted'[ec] > 0
             /\ refused' = refused
  <2>1. PICK one : one = <<run[d].row.event, c>>
    OBVIOUS
  <2>2. refused' = refused /\ (accepted' = accepted \/ accepted' = [accepted EXCEPT ![one] = @ + 1])
    BY <1>1, <2>1 DEF Accept, FailRetryably
  <2>3. ASSUME NEW ec \in Event \X Connector, accepted[ec] > 0 PROVE accepted'[ec] > 0
    <3>1. accepted[ec] \in Nat /\ accepted'[ec] \in {accepted[ec], accepted[ec] + 1}
      BY <2>2
    <3> QED BY <2>3, <3>1
  <2> QED BY <2>2, <2>3
<1>2. ASSUME NEW d \in Dispatcher, Crash(d)
      PROVE  /\ \A ec \in Event \X Connector : accepted[ec] > 0 => accepted'[ec] > 0
             /\ refused' = refused
  BY <1>2 DEF Crash
<1>3. ASSUME NEW d \in Dispatcher, NEW c \in Connector, Refuse(d, c)
      PROVE  accepted' = accepted /\ refused \subseteq refused'
  BY <1>3 DEF Refuse
<1>4. CASE UNCHANGED <<accepted, refused>>
  BY <1>4
<1> QED
  BY <1>1, <1>2, <1>3, <1>4
     DEF Next, Step, vars, Publish, Start, Skip, Deliver, Record, Finish

(* Every step keeps what the runs hold of their calls true. *)
LEMMA NextCallsAreSound == IInv /\ [Next]_vars => CallsAreSound'
<1> SUFFICES ASSUME IInv, [Next]_vars, NEW o \in Dispatcher, run'[o].phase = "calling",
                    NEW c \in Connector
             PROVE  CallIsSound(o, c)'
  BY DEF CallsAreSound
<1> USE DEF IInv
<1>1. ASSUME run[o].phase = "calling", run'[o].row = run[o].row, run'[o].call[c] = run[o].call[c]
      PROVE  CallIsSound(o, c)'
  <2>1. CallIsSound(o, c) /\ run[o].row.event \in Event
    BY <1>1, RunFields DEF CallsAreSound
  <2> QED BY <1>1, <2>1, DeliveredGrows, AnswersStay DEF CallIsSound
<1>2. ASSUME NEW b \in Connector, NEW answer \in Call, run[o].phase = "calling",
             Answered(o, b, answer)
      PROVE  /\ run'[o].row = run[o].row
             /\ run'[o].call[c] = IF c = b THEN answer ELSE run[o].call[c]
  <2>1. run[o].call \in [Connector -> Call]
    BY <1>2, RunFields
  <2>2. run'[o].row = run[o].row /\ run'[o].call = [run[o].call EXCEPT ![b] = answer]
    BY <1>2, AnswerFields
  <2> QED BY <2>1, <2>2
<1>3. ASSUME run[o].phase = "calling", run[o].call[c] \in {"open", "accepted"}
      PROVE  /\ run[o].row.event \in Event /\ c \notin run[o].row.delivered
             /\ run[o].call[c] = "accepted" => accepted[<<run[o].row.event, c>>] > 0
  BY <1>3, RunFields DEF CallsAreSound, CallIsSound
<1>4. ASSUME NEW b \in Connector, Accept(o, b) PROVE CallIsSound(o, c)'
  <2>1. /\ run[o].phase = "calling" /\ run'[o].row = run[o].row
        /\ run'[o].call[c] = IF c = b THEN "accepted" ELSE run[o].call[c]
    BY <1>2, <1>4 DEF Accept, Call
  <2>2. CASE c = b
    <3>1. run[o].call[c] = "open"
      BY <1>4, <2>2 DEF Accept, Open, CallsThatAre
    <3>2. accepted'[<<run[o].row.event, c>>] > 0
      BY <1>3, <1>4, <2>1, <2>2, <3>1 DEF Accept, TypeOK
    <3> QED BY <1>3, <2>1, <2>2, <3>1, <3>2 DEF CallIsSound
  <2> QED BY <1>1, <2>1, <2>2
<1>5. ASSUME NEW b \in Connector, Refuse(o, b) PROVE CallIsSound(o, c)'
  <2>1. /\ run[o].phase = "calling" /\ run'[o].row = run[o].row
        /\ run'[o].call[c] = IF c = b THEN "refused" ELSE run[o].call[c]
    BY <1>2, <1>5 DEF Refuse, Call
  <2>2. CASE c = b
    <3>1. run[o].call[c] = "open"
      BY <1>5, <2>2 DEF Refuse, Open, CallsThatAre
    <3>2. <<run[o].row.event, c>> \in refused'
      BY <1>5, <2>2 DEF Refuse
    <3> QED BY <1>3, <2>1, <2>2, <3>1, <3>2 DEF CallIsSound
  <2> QED BY <1>1, <2>1, <2>2
<1>6. ASSUME NEW b \in Connector, FailRetryably(o, b) PROVE CallIsSound(o, c)'
  <2>1. /\ run[o].phase = "calling" /\ run'[o].row = run[o].row
        /\ run'[o].call[c] = IF c = b THEN "retryable" ELSE run[o].call[c]
    BY <1>2, <1>6 DEF FailRetryably, Call
  <2>2. CASE c = b
    <3>1. run[o].call[c] = "open"
      BY <1>6, <2>2 DEF FailRetryably, Open, CallsThatAre
    <3> QED BY <1>3, <2>1, <2>2, <3>1 DEF CallIsSound
  <2> QED BY <1>1, <2>1, <2>2
<1>7. ASSUME NEW b \in Connector, Record(o, b) PROVE CallIsSound(o, c)'
  <2>1. /\ run[o].phase = "calling" /\ run'[o].row = run[o].row
        /\ run'[o].call[c] = IF c = b THEN "recorded" ELSE run[o].call[c]
    BY <1>2, <1>7 DEF Record, Call
  <2>2. CASE c = b
    <3>1. run[o].call[c] = "accepted"
      BY <1>7, <2>2 DEF Record, CallsThatAre
    <3>2. c \in event'[run[o].row.event].delivered
      BY <1>3, <1>7, <2>1, <2>2, <3>1 DEF Record, TypeOK
    <3>3. accepted' = accepted
      BY <1>7 DEF Record
    <3> QED BY <1>3, <2>1, <2>2, <3>1, <3>2, <3>3 DEF CallIsSound
  <2> QED BY <1>1, <2>1, <2>2
<1>8. CASE Deliver(o)
  <2>1. PICK row : row = First(run[o].batch)
    OBVIOUS
  <2>2. /\ run'[o].row = row
        /\ run'[o].call = [b \in Connector |-> IF b \in ToCall(row) THEN "open" ELSE "none"]
    BY <1>8, <2>1, DeliverFields
  <2>3. run'[o].call[c] = IF c \in ToCall(row) THEN "open" ELSE "none"
    BY <2>2
  <2> QED BY <2>2, <2>3 DEF CallIsSound, ToCall
<1>9. ASSUME NEW row \in run[o].batch, Continue(o, run[o].batch \ {row}) PROVE FALSE
  <2>1. run[o].batch \ {row} \in SUBSET Row
    BY RunFields
  <2> QED BY <1>9, <2>1, ContinueFields
<1>10. CASE Start(o) \/ Crash(o)
  BY <1>10, StartFields, CrashFields DEF Idle
<1>11. CASE run'[o] = run[o]
  BY <1>1, <1>11
<1>12. CASE Step(o)
  BY <1>4, <1>5, <1>6, <1>7, <1>8, <1>9, <1>10, <1>12, SkipFields, FinishFields DEF Step
<1>13. ASSUME NEW d \in Dispatcher, Step(d) \/ Crash(d) PROVE d = o \/ run'[o] = run[o]
  BY <1>13, OthersGoOn
<1> QED BY <1>10, <1>11, <1>12, <1>13 DEF Next, Publish, vars

(* When a run settles an event, its answers are those of all connectors.   *)
LEMMA FinishSettles ==
  ASSUME IInv, NEW d \in Dispatcher, Finish(d)
  PROVE  LET e == run[d].row.event
             outcome == Outcome({run[d].call[c] : c \in Connector}) IN
         /\ outcome = "DELIVERED" => Handles[e] \subseteq event[e].delivered
         /\ outcome = "FAILED" =>
              \A c \in Handles[e] : c \in event[e].delivered \/ <<e, c>> \in refused
<1> USE DEF IInv
<1> DEFINE e == run[d].row.event
           answers == {run[d].call[c] : c \in Connector}
<1>1. /\ run[d].phase = "calling" /\ e \in Event /\ run[d].row \in run[d].batch
      /\ \A c \in Connector : run[d].call[c] \notin {"open", "accepted"}
  BY FinishFields
<1>2. run[d].row.delivered \subseteq event[e].delivered
  BY <1>1 DEF BatchesAreSound
<1>3. Handles[e] \subseteq Connector
  BY <1>1, DispatchAssumption
<1>4. ASSUME NEW c \in Handles[e], run[d].call[c] \in {"none", "recorded"}
      PROVE  c \in event[e].delivered
  BY <1>1, <1>2, <1>3, <1>4 DEF CallsAreSound, CallIsSound
<1>5. ASSUME NEW c \in Handles[e], run[d].call[c] = "refused" PROVE <<e, c>> \in refused
  BY <1>1, <1>3, <1>5 DEF CallsAreSound, CallIsSound
<1>6. ASSUME NEW c \in Handles[e], "retryable" \notin answers
      PROVE  run[d].call[c] \in {"none", "recorded", "refused"}
  <2>1. run[d].call \in [Connector -> Call] /\ c \in Connector
    BY <1>1, <1>3, RunFields
  <2>2. run[d].call[c] \in Call /\ run[d].call[c] \in answers
    BY <2>1
  <2> QED BY <1>1, <1>6, <2>1, <2>2 DEF Call
<1>7. ASSUME Outcome(answers) = "DELIVERED" PROVE "retryable" \notin answers /\ "refused" \notin answers
  BY <1>7 DEF Outcome
<1>8. ASSUME Outcome(answers) = "FAILED" PROVE "retryable" \notin answers
  BY <1>8 DEF Outcome
<1>9. \A c \in Handles[e] : run[d].call[c] \in answers
  BY <1>3
<1> QED BY <1>4, <1>5, <1>6, <1>7, <1>8, <1>9

(* Every step keeps the rows true. *)
LEMMA NextRowsAreSound == IInv /\ [Next]_vars => RecordsAreSound' /\ GivenUpWhenHopeless'
<1> SUFFICES ASSUME IInv, [Next]_vars, NEW e \in Event
             PROVE  /\ \A c \in event'[e].delivered : accepted'[<<e, c>>] > 0
                    /\ event'[e].status = "DELIVERED" => Handles[e] \subseteq event'[e].delivered
                    /\ event'[e].status = "FAILED" =>
                         \A c \in Handles[e] : c \in event'[e].delivered \/ <<e, c>> \in refused'
  BY DEF RecordsAreSound, GivenUpWhenHopeless
<1> USE DEF IInv
<1>1. /\ \A c \in event[e].delivered : accepted[<<e, c>>] > 0
      /\ event[e].status = "DELIVERED" => Handles[e] \subseteq event[e].delivered
      /\ event[e].status = "FAILED" =>
           \A c \in Handles[e] : c \in event[e].delivered \/ <<e, c>> \in refused
  BY DEF RecordsAreSound, GivenUpWhenHopeless
<1>2. /\ event[e].delivered \subseteq event'[e].delivered
      /\ event[e].delivered \subseteq Connector /\ Handles[e] \subseteq Connector
      /\ \A c \in Connector : accepted[<<e, c>>] > 0 => accepted'[<<e, c>>] > 0
      /\ refused \subseteq refused'
  BY DeliveredGrows, AnswersStay, DispatchAssumption DEF TypeOK
<1> DEFINE Rows ==
             /\ \A c \in event'[e].delivered : accepted'[<<e, c>>] > 0
             /\ event'[e].status = "DELIVERED" => Handles[e] \subseteq event'[e].delivered
             /\ event'[e].status = "FAILED" =>
                  \A c \in Handles[e] : c \in event'[e].delivered \/ <<e, c>> \in refused'
<1>3. CASE event'[e] = event[e]
  BY <1>1, <1>2, <1>3
<1>4. ASSUME NEW f \in Event, Publish(f) PROVE Rows
  <2>1. /\ event'[e].delivered = event[e].delivered
        /\ event'[e].status \in {"PENDING", event[e].status}
    BY <1>4 DEF Publish, TypeOK
  <2> QED BY <1>1, <1>2, <2>1
<1>5. ASSUME NEW d \in Dispatcher, NEW c \in Connector, Record(d, c) PROVE Rows
  <2>1. run[d].phase = "calling" /\ run[d].call[c] = "accepted" /\ run[d].row.event \in Event
    BY <1>5, RunFields DEF Record, CallsThatAre
  <2>2. accepted[<<run[d].row.event, c>>] > 0
    BY <2>1 DEF CallsAreSound, CallIsSound
  <2>3. CASE run[d].row.event = e
    <3>1. event'[e].delivered = event[e].delivered \cup {c} /\ event'[e].status = event[e].status
      BY <1>5, <2>1, <2>3 DEF Record, TypeOK
    <3>2. UNCHANGED <<accepted, refused>>
      BY <1>5 DEF Record
    <3> QED BY <1>1, <2>2, <2>3, <3>1, <3>2
  <2>4. CASE run[d].row.event # e
    <3>1. event'[e] = event[e]
      BY <1>5, <2>4 DEF Record, TypeOK
    <3> QED BY <1>3, <3>1
  <2> QED BY <2>3, <2>4
<1>6. ASSUME NEW d \in Dispatcher, Finish(d) PROVE Rows
  <2> DEFINE outcome == Outcome({run[d].call[c] : c \in Connector})
  <2>1. event'[e].delivered = event[e].delivered
    BY <1>6, FinishFields
  <2>2. CASE run[d].row.event = e /\ event'[e].status = outcome
    <3>1. /\ outcome = "DELIVERED" => Handles[e] \subseteq event[e].delivered
          /\ outcome = "FAILED" =>
               \A c \in Handles[e] : c \in event[e].delivered \/ <<e, c>> \in refused
      BY <1>6, <2>2, FinishSettles
    <3> QED BY <1>1, <1>2, <2>1, <2>2, <3>1
  <2>3. \/ event'[e] = event[e]
        \/ run[d].row.event = e /\ event'[e].status = outcome
    BY <1>6, FinishFields
  <2> QED BY <1>3, <2>2, <2>3
<1>7. CASE event' = event
  BY <1>3, <1>7
<1> QED
  BY <1>4, <1>5, <1>6, <1>7
     DEF Next, Step, vars, Start, Skip, Deliver, Accept, Refuse, FailRetryably, Crash

(* The initial states satisfy the inductive invariant. *)
LEMMA InitIInv == Init => IInv
<1> SUFFICES ASSUME Init PROVE IInv
  OBVIOUS
<1>1. TypeOK
  BY InitTypeOK
<1>2. \A d \in Dispatcher : run[d].phase = "idle" /\ run[d].batch = {}
  BY DEF Init, Idle
<1>3. BatchesAreSound /\ CallsAreSound
  BY <1>2 DEF BatchesAreSound, CallsAreSound, OneRowEach
<1>4. RecordsAreSound /\ GivenUpWhenHopeless
  BY DEF Init, RecordsAreSound, GivenUpWhenHopeless
<1> QED BY <1>1, <1>3, <1>4 DEF IInv

(* The inductive invariant holds in every reachable state. *)
LEMMA Invariance == Spec => []IInv
<1>1. IInv /\ [Next]_vars => IInv'
  BY NextTypeOK, NextBatchesAreSound, NextCallsAreSound, NextRowsAreSound DEF IInv
<1> QED BY <1>1, InitIInv, PTL DEF Spec

(* Whatever runs, faults and crashes interleave: a DELIVERED event was     *)
(* taken by each of its connectors, and a recorded success was one         *)
(* (dispatch.ts:33-58, 76-89).                                             *)
THEOREM DeliveriesAreReal == Spec => []DeliveredWasAccepted
<1>1. IInv => DeliveredWasAccepted
  BY DispatchAssumption DEF IInv, RecordsAreSound, DeliveredWasAccepted, TypeOK
<1> QED BY <1>1, Invariance, PTL

(* An event is given up only when each connector has taken or refused it,  *)
(* even if runs raced (dispatch.ts:50-58).                                 *)
THEOREM GivenUpIsHopeless == Spec => []GivenUpWhenHopeless
<1>1. IInv => GivenUpWhenHopeless
  BY DEF IInv
<1> QED BY <1>1, Invariance, PTL

-----------------------------------------------------------------------------
(* Events that no two runs had in hand at once *)

InHand(d, e) == \E r \in run[d].batch : r.event = e

(* One run at most has such an event in hand. *)
OneOwner ==
  \A e \in Event \ raced : \A d, o \in Dispatcher : InHand(d, e) /\ InHand(o, e) => d = o

(* Its copy is exact: the event is PENDING, and what was delivered since   *)
(* the copy was made are the successes the run itself has recorded.        *)
CopiesAreExact ==
  \A d \in Dispatcher : \A r \in run[d].batch : r.event \notin raced =>
    /\ event[r.event].status = "PENDING"
    /\ event[r.event].delivered =
         IF run[d].phase = "calling" /\ run[d].row = r
         THEN r.delivered \cup CallsThatAre(d, "recorded") ELSE r.delivered

(* Run d was told that c took e, and has not recorded it yet. *)
KnowsTaken(d, e, c) ==
  run[d].phase = "calling" /\ run[d].row.event = e /\ run[d].call[c] = "accepted"

(* What a connector took, once, is recorded or about to be. *)
TakenIsKnown ==
  \A e \in Event \ raced, c \in Connector : <<e, c>> \notin unsure =>
    /\ accepted[<<e, c>>] <= 1
    /\ accepted[<<e, c>>] = 1 =>
         c \in event[e].delivered \/ \E d \in Dispatcher : KnowsTaken(d, e, c)

(* The inductive invariant behind AcceptedOnce and SettledForGood. *)
AloneInv == IInv /\ OneOwner /\ CopiesAreExact /\ TakenIsKnown

(* No step but Start takes rows in hand, and nothing leaves the history.   *)
LEMMA HandsEmpty ==
  ASSUME TypeOK, BatchesAreSound, [Next]_vars, NEW o \in Dispatcher
  PROVE  Start(o) \/ run'[o].batch \subseteq run[o].batch
<1>1. ASSUME NEW row \in run[o].batch, Continue(o, run[o].batch \ {row})
      PROVE  run'[o].batch \subseteq run[o].batch
  <2>1. run[o].batch \ {row} \in SUBSET Row
    BY RunFields
  <2> QED BY <1>1, <2>1, ContinueFields
<1>2. ASSUME NEW c \in Connector, NEW answer \in Call, run[o].phase = "calling",
             Answered(o, c, answer)
      PROVE  run'[o].batch \subseteq run[o].batch
  BY <1>2, AnswerFields
<1>3. CASE Deliver(o)
  BY <1>3, DeliverFields
<1>4. CASE Crash(o)
  BY <1>4, CrashFields DEF Idle
<1>5. CASE run'[o] = run[o]
  BY <1>5
<1>6. CASE Step(o)
  BY <1>1, <1>2, <1>3, <1>6, StepKinds
<1>7. ASSUME NEW d \in Dispatcher, Step(d) \/ Crash(d) PROVE d = o \/ run'[o] = run[o]
  BY <1>7, OthersGoOn
<1> QED BY <1>4, <1>5, <1>6, <1>7 DEF Next, Publish, vars

LEMMA HistoryGrows ==
  ASSUME [Next]_vars
  PROVE  raced \subseteq raced' /\ unsure \subseteq unsure'
<1>1. ASSUME NEW d \in Dispatcher, NEW c \in Connector, FailRetryably(d, c)
      PROVE  raced' = raced /\ unsure \subseteq unsure'
  BY <1>1 DEF FailRetryably
<1>2. ASSUME NEW d \in Dispatcher, Crash(d) PROVE raced' = raced /\ unsure \subseteq unsure'
  BY <1>2 DEF Crash
<1>3. ASSUME NEW d \in Dispatcher, Start(d) PROVE raced \subseteq raced' /\ unsure' = unsure
  BY <1>3 DEF Start
<1>4. CASE UNCHANGED <<raced, unsure>>
  BY <1>4
<1> QED
  BY <1>1, <1>2, <1>3, <1>4
     DEF Next, Step, vars, Publish, Skip, Deliver, Accept, Refuse, Record, Finish

(* A run that starts marks what others have in hand. *)
LEMMA StartMarks ==
  ASSUME TypeOK, NEW d \in Dispatcher, Start(d), NEW o \in Dispatcher \ {d},
         NEW e \in Event \ raced', NEW r \in Batch, r.event = e
  PROVE  ~InHand(o, e)
<1>1. e \in Events(Batch) /\ (InHand(o, e) => e \in Events(run[o].batch))
  BY DEF Events, InHand
<1> QED BY <1>1 DEF Start

(* Every step keeps the owner of such an event alone. *)
LEMMA NextOneOwner == AloneInv /\ [Next]_vars => OneOwner'
<1> SUFFICES ASSUME AloneInv, [Next]_vars, NEW e \in Event \ raced',
                    NEW d \in Dispatcher, NEW o \in Dispatcher, d # o,
                    InHand(d, e)', InHand(o, e)'
             PROVE  FALSE
  BY DEF OneOwner
<1> USE DEF AloneInv, IInv
<1>1. e \notin raced
  BY HistoryGrows
<1>2. ASSUME NEW x \in Dispatcher, InHand(x, e)', ~InHand(x, e)
      PROVE  Start(x) /\ \E r \in Batch : r.event = e
  <2>1. Start(x)
    BY <1>2, HandsEmpty DEF InHand
  <2>2. run'[x].batch = Batch
    BY <2>1, StartFields
  <2> QED BY <1>2, <2>1, <2>2 DEF InHand
<1>3. ASSUME NEW x \in Dispatcher, NEW y \in Dispatcher \ {x}, Start(x),
             \E r \in Batch : r.event = e, InHand(y, e)'
      PROVE  FALSE
  <2>1. run'[y] = run[y]
    BY <1>3, StartFields
  <2>2. InHand(y, e)
    BY <1>3, <2>1 DEF InHand
  <2> QED BY <1>3, <2>2, StartMarks
<1>4. InHand(d, e) /\ InHand(o, e) => FALSE
  BY <1>1 DEF OneOwner
<1> QED BY <1>2, <1>3, <1>4

(* The row of such an event changes only by the run that has it in hand;   *)
(* an event that is settled has left all hands. *)
LEMMA OnlyTheOwnerWrites ==
  ASSUME AloneInv, [Next]_vars, NEW e \in Event \ raced, event'[e] # event[e]
  PROVE  \/ event[e].status = "NONE" /\ event'[e].delivered = event[e].delivered
         \/ \E d \in Dispatcher :
              /\ run[d].phase = "calling" /\ run[d].row \in run[d].batch
              /\ run[d].row.event = e /\ event[e].status = "PENDING"
              /\ Finish(d) \/ \E c \in Connector : Record(d, c)
<1> USE DEF AloneInv, IInv
<1>1. ASSUME NEW f \in Event, Publish(f)
      PROVE  event[e].status = "NONE" /\ event'[e].delivered = event[e].delivered
  BY <1>1 DEF Publish, TypeOK
<1>2. ASSUME NEW d \in Dispatcher, Finish(d) \/ \E c \in Connector : Record(d, c)
      PROVE  /\ run[d].phase = "calling" /\ run[d].row \in run[d].batch
             /\ run[d].row.event = e /\ event[e].status = "PENDING"
  <2>1. run[d].phase = "calling" /\ run[d].row \in run[d].batch
    BY <1>2 DEF Finish, Record, BatchesAreSound
  <2>2. run[d].row.event = e
    BY <1>2, FinishFields DEF Record, TypeOK
  <2> QED BY <2>1, <2>2 DEF CopiesAreExact
<1> QED
  BY <1>1, <1>2
     DEF Next, Step, vars, Start, Skip, Deliver, Accept, Refuse, FailRetryably, Crash

(* Every step keeps the copies exact. *)
LEMMA NextCopiesAreExact == AloneInv /\ [Next]_vars => CopiesAreExact'
<1> SUFFICES ASSUME AloneInv, [Next]_vars, NEW o \in Dispatcher, NEW r \in run'[o].batch,
                    r.event \notin raced'
             PROVE  /\ event'[r.event].status = "PENDING"
                    /\ event'[r.event].delivered =
                         IF run'[o].phase = "calling" /\ run'[o].row = r
                         THEN r.delivered \cup {c \in Connector : run'[o].call[c] = "recorded"}
                         ELSE r.delivered
  BY DEF CopiesAreExact, CallsThatAre
<1> USE DEF AloneInv, IInv
<1> DEFINE e == r.event
           Exact == /\ event'[e].status = "PENDING"
                    /\ event'[e].delivered =
                         IF run'[o].phase = "calling" /\ run'[o].row = r
                         THEN r.delivered \cup {c \in Connector : run'[o].call[c] = "recorded"}
                         ELSE r.delivered
<1>0. e \notin raced
  BY HistoryGrows
<1>1. CASE Start(o)
  <2>1. run'[o].batch = Batch /\ run'[o].phase = "next" /\ event' = event
    BY <1>1, StartFields DEF Start
  <2> QED BY <2>1, BatchFields
<1>2. ASSUME ~Start(o)
      PROVE  /\ r \in run[o].batch /\ r \in Row /\ e \in Event
             /\ event[e].status = "PENDING"
             /\ event[e].delivered =
                  IF run[o].phase = "calling" /\ run[o].row = r
                  THEN r.delivered \cup {c \in Connector : run[o].call[c] = "recorded"}
                  ELSE r.delivered
  <2>1. r \in run[o].batch
    BY <1>2, HandsEmpty
  <2>2. r \in Row /\ e \in Event
    BY <2>1, RunFields DEF Row
  <2> QED BY <1>0, <2>1, <2>2 DEF CopiesAreExact, CallsThatAre
<1>3. ASSUME ~Start(o), NEW d \in Dispatcher \ {o}, Step(d) \/ Crash(d) PROVE Exact
  <2>1. run'[o] = run[o]
    BY <1>3, OthersGoOn
  <2>2. event'[e] = event[e]
    <3>1. ASSUME event'[e] # event[e] PROVE FALSE
      <4>1. PICK x \in Dispatcher :
              /\ run[x].phase = "calling" /\ run[x].row \in run[x].batch
              /\ run[x].row.event = e
              /\ Finish(x) \/ \E c \in Connector : Record(x, c)
        BY <1>0, <1>2, <1>3, <3>1, OnlyTheOwnerWrites
      <4>2. x = o
        BY <1>0, <1>2, <1>3, <4>1 DEF OneOwner, InHand
      <4>3. run'[x] # run[x]
        <5>1. CASE Finish(x)
          <6>1. Continue(x, run[x].batch \ {run[x].row})
            BY <5>1, FinishFields
          <6>2. run[x].batch \ {run[x].row} \in SUBSET Row
            BY RunFields
          <6> QED BY <4>1, <6>1, <6>2, ContinueFields
        <5>2. ASSUME NEW c \in Connector, Record(x, c) PROVE run'[x] # run[x]
          <6>1. run[x].call \in [Connector -> Call] /\ run[x].call[c] = "accepted"
            BY <4>1, <5>2, RunFields DEF Record, CallsThatAre
          <6>2. run'[x].call = [run[x].call EXCEPT ![c] = "recorded"]
            BY <4>1, <5>2, AnswerFields DEF Record, Call
          <6> QED BY <6>1, <6>2
        <5> QED BY <4>1, <5>1, <5>2
      <4> QED BY <2>1, <4>2, <4>3
    <3> QED BY <3>1
  <2> QED BY <1>2, <1>3, <2>1, <2>2
<1>4. CASE Deliver(o)
  <2>1. /\ run[o].phase = "next" /\ run'[o].phase = "calling" /\ event' = event
        /\ \A c \in Connector : run'[o].call[c] # "recorded"
    BY <1>4, DeliverFields DEF Deliver
  <2>2. ~Start(o)
    BY <2>1 DEF Start, Idle
  <2> QED BY <1>2, <2>1, <2>2
<1>5. ASSUME NEW b \in Connector, Accept(o, b) \/ Refuse(o, b) \/ FailRetryably(o, b) PROVE Exact
  <2>1. PICK answer \in Call \ {"recorded"} : Answered(o, b, answer)
    BY <1>5 DEF Accept, Refuse, FailRetryably, Call
  <2>2. /\ run[o].phase = "calling" /\ run[o].call[b] = "open" /\ event' = event
        /\ run[o].call \in [Connector -> Call]
    BY <1>5, RunFields DEF Accept, Refuse, FailRetryably, Open, CallsThatAre
  <2>3. /\ run'[o].phase = "calling" /\ run'[o].row = run[o].row
        /\ run'[o].call = [run[o].call EXCEPT ![b] = answer]
    BY <2>1, <2>2, AnswerFields
  <2>4. \A c \in Connector : run'[o].call[c] = "recorded" <=> run[o].call[c] = "recorded"
    BY <2>1, <2>2, <2>3
  <2>5. ~Start(o)
    BY <2>2 DEF Start, Idle
  <2> QED BY <1>2, <2>2, <2>3, <2>4, <2>5
<1>6. ASSUME NEW b \in Connector, Record(o, b) PROVE Exact
  <2>1. /\ run[o].phase = "calling" /\ run[o].row.event \in Event
        /\ run[o].call \in [Connector -> Call] /\ run[o].row \in run[o].batch
    BY <1>6, RunFields DEF Record, BatchesAreSound
  <2>2. /\ run'[o].phase = "calling" /\ run'[o].row = run[o].row
        /\ run'[o].call = [run[o].call EXCEPT ![b] = "recorded"]
    BY <1>6, <2>1, AnswerFields DEF Record, Call
  <2>3. \A c \in Connector : run'[o].call[c] = "recorded" <=> run[o].call[c] = "recorded" \/ c = b
    BY <2>1, <2>2
  <2>4. ~Start(o)
    BY <2>1 DEF Start, Idle
  <2>5. CASE run[o].row = r
    <3>1. event'[e].status = event[e].status /\ event'[e].delivered = event[e].delivered \cup {b}
      BY <1>6, <2>1, <2>5 DEF Record, TypeOK
    <3> QED BY <1>2, <2>1, <2>2, <2>3, <2>4, <2>5, <3>1
  <2>6. CASE run[o].row # r
    <3>1. run[o].row.event # e
      BY <1>2, <2>1, <2>4, <2>6 DEF BatchesAreSound, OneRowEach
    <3>2. event'[e] = event[e]
      BY <1>2, <1>6, <2>4, <3>1 DEF Record, TypeOK
    <3> QED BY <1>2, <2>2, <2>4, <2>6, <3>2
  <2> QED BY <2>5, <2>6
<1>7. CASE Skip(o)
  <2>1. PICK row \in run[o].batch : Continue(o, run[o].batch \ {row})
    BY <1>7, SkipFields
  <2>2. run[o].batch \ {row} \in SUBSET Row
    BY RunFields
  <2>3. run'[o].phase # "calling" /\ run[o].phase = "next" /\ event' = event
    BY <1>7, <2>1, <2>2, ContinueFields DEF Skip
  <2>4. ~Start(o)
    BY <2>3 DEF Start, Idle
  <2> QED BY <1>2, <2>3, <2>4
<1>8. CASE Finish(o)
  <2>1. /\ run[o].phase = "calling" /\ run[o].row \in run[o].batch
        /\ Continue(o, run[o].batch \ {run[o].row})
        /\ \A f \in Event \ {run[o].row.event} : event'[f] = event[f]
    BY <1>8, FinishFields
  <2>2. run[o].batch \ {run[o].row} \in SUBSET Row
    BY RunFields
  <2>3. run'[o].phase # "calling" /\ r \in run[o].batch \ {run[o].row}
    BY <2>1, <2>2, ContinueFields
  <2>4. ~Start(o)
    BY <2>1 DEF Start, Idle
  <2>5. r.event # run[o].row.event
    BY <2>1, <2>3 DEF BatchesAreSound, OneRowEach
  <2> QED BY <1>2, <2>1, <2>3, <2>4, <2>5
<1>9. ASSUME Crash(o) PROVE FALSE
  BY <1>9, CrashFields DEF Idle
<1>10. ASSUME NEW f \in Event, Publish(f) PROVE Exact
  <2>1. run' = run /\ ~Start(o) /\ event[f].status = "NONE"
        /\ \A x \in Event \ {f} : event'[x] = event[x]
    <3>1. run' = run /\ event[f].status = "NONE"
      BY <1>10 DEF Publish
    <3>2. ~Start(o)
      BY <3>1, StartFields DEF Start, Idle
    <3> QED BY <1>10, <3>1, <3>2 DEF Publish, TypeOK
  <2>2. e # f
    BY <1>2, <2>1
  <2> QED BY <1>2, <2>1, <2>2
<1>11. CASE UNCHANGED vars
  <2>1. run' = run /\ event' = event
    BY <1>11 DEF vars
  <2>2. ~Start(o)
    BY <2>1, StartFields DEF Start, Idle
  <2> QED BY <1>2, <2>1, <2>2
<1>12. CASE Step(o)
  BY <1>1, <1>4, <1>5, <1>6, <1>7, <1>8, <1>12 DEF Step
<1> QED BY <1>1, <1>3, <1>9, <1>10, <1>11, <1>12 DEF Next

(* A run that has an accepted answer in hand keeps it until it records it  *)
(* or crashes. *)
LEMMA KnowledgeStays ==
  ASSUME AloneInv, [Next]_vars, NEW d \in Dispatcher, NEW e \in Event, NEW c \in Connector,
         KnowsTaken(d, e, c)
  PROVE  \/ KnowsTaken(d, e, c)'
         \/ Record(d, c) /\ c \in event'[e].delivered
         \/ Crash(d) /\ <<e, c>> \in unsure'
<1> USE DEF AloneInv, IInv
<1>1. /\ run[d].phase = "calling" /\ run[d].row.event = e /\ run[d].call[c] = "accepted"
      /\ run[d].call \in [Connector -> Call]
  BY RunFields DEF KnowsTaken
<1>2. CASE run'[d] = run[d]
  BY <1>1, <1>2 DEF KnowsTaken
<1>3. ASSUME NEW b \in Connector, NEW answer \in Call, Answered(d, b, answer), b # c
      PROVE  KnowsTaken(d, e, c)'
  <2>1. /\ run'[d].phase = "calling" /\ run'[d].row = run[d].row
        /\ run'[d].call = [run[d].call EXCEPT ![b] = answer]
    BY <1>1, <1>3, AnswerFields
  <2>2. run'[d].call[c] = "accepted"
    BY <1>1, <1>3, <2>1
  <2> QED BY <1>1, <2>1, <2>2 DEF KnowsTaken
<1>4. ASSUME NEW b \in Connector, Accept(d, b) \/ Refuse(d, b) \/ FailRetryably(d, b)
      PROVE  KnowsTaken(d, e, c)'
  <2>1. b # c
    BY <1>1, <1>4 DEF Accept, Refuse, FailRetryably, Open, CallsThatAre
  <2>2. \E answer \in Call : Answered(d, b, answer)
    BY <1>4 DEF Accept, Refuse, FailRetryably, Call
  <2> QED BY <1>3, <2>1, <2>2
<1>5. ASSUME NEW b \in Connector, Record(d, b)
      PROVE  KnowsTaken(d, e, c)' \/ (Record(d, c) /\ c \in event'[e].delivered)
  <2>1. CASE b = c
    BY <1>1, <1>5, <2>1 DEF Record, TypeOK
  <2>2. CASE b # c
    <3>1. Answered(d, b, "recorded") /\ "recorded" \in Call
      BY <1>5 DEF Record, Call
    <3> QED BY <1>3, <2>2, <3>1
  <2> QED BY <2>1, <2>2
<1>6. CASE Crash(d)
  <2>1. c \in CallsThatAre(d, "accepted")
    BY <1>1 DEF CallsThatAre
  <2>2. PICK late \in SUBSET Open(d) :
          unsure' = unsure \cup ({e} \X (late \cup CallsThatAre(d, "accepted")))
    BY <1>1, <1>6 DEF Crash
  <2> QED BY <1>6, <2>1, <2>2
<1>7. ASSUME Start(d) \/ Skip(d) \/ Deliver(d) \/ Finish(d) PROVE FALSE
  <2>1. ~Finish(d)
    BY <1>1, FinishFields
  <2> QED BY <1>1, <1>7, <2>1 DEF Start, Skip, Deliver, Idle
<1>8. CASE Step(d)
  BY <1>4, <1>5, <1>7, <1>8 DEF Step
<1>9. ASSUME NEW o \in Dispatcher \ {d}, Step(o) \/ Crash(o) PROVE run'[d] = run[d]
  BY <1>9, OthersGoOn
<1> QED BY <1>2, <1>6, <1>8, <1>9 DEF Next, Publish, vars

(* A connector is asked only for what nobody recorded or knows it took.    *)
LEMMA AskedIsUnknown ==
  ASSUME AloneInv, NEW d \in Dispatcher, run[d].phase = "calling", NEW c \in Open(d),
         run[d].row.event \notin raced
  PROVE  /\ c \notin event[run[d].row.event].delivered
         /\ \A o \in Dispatcher : ~KnowsTaken(o, run[d].row.event, c)
<1> USE DEF AloneInv, IInv
<1> DEFINE e == run[d].row.event
<1>1. /\ c \in Connector /\ run[d].call[c] = "open" /\ e \in Event
      /\ run[d].row \in run[d].batch
  BY RunFields DEF Open, CallsThatAre, BatchesAreSound
<1>2. c \notin run[d].row.delivered
  BY <1>1 DEF CallsAreSound, CallIsSound
<1>3. event[e].delivered = run[d].row.delivered \cup CallsThatAre(d, "recorded")
  BY <1>1 DEF CopiesAreExact
<1>4. c \notin CallsThatAre(d, "recorded")
  BY <1>1 DEF CallsThatAre
<1>5. ASSUME NEW o \in Dispatcher, KnowsTaken(o, e, c) PROVE FALSE
  <2>1. run[o].row \in run[o].batch /\ run[o].row.event = e
    BY <1>5 DEF KnowsTaken, BatchesAreSound
  <2>2. o = d
    BY <1>1, <2>1 DEF OneOwner, InHand
  <2> QED BY <1>1, <1>5, <2>2 DEF KnowsTaken
<1> QED BY <1>2, <1>3, <1>4, <1>5

(* Every step keeps what was taken known. *)
LEMMA NextTakenIsKnown == AloneInv /\ [Next]_vars => TakenIsKnown'
<1> SUFFICES ASSUME AloneInv, [Next]_vars, NEW e \in Event \ raced', NEW c \in Connector,
                    <<e, c>> \notin unsure'
             PROVE  /\ accepted'[<<e, c>>] <= 1
                    /\ accepted'[<<e, c>>] = 1 =>
                         c \in event'[e].delivered \/ \E d \in Dispatcher : KnowsTaken(d, e, c)'
  BY DEF TakenIsKnown
<1> USE DEF AloneInv, IInv
<1> DEFINE Known == c \in event'[e].delivered \/ \E d \in Dispatcher : KnowsTaken(d, e, c)'
<1>1. /\ e \notin raced /\ <<e, c>> \notin unsure /\ <<e, c>> \in Event \X Connector
      /\ accepted[<<e, c>>] \in Nat
  BY HistoryGrows DEF TypeOK
<1>2. /\ accepted[<<e, c>>] <= 1
      /\ accepted[<<e, c>>] = 1 =>
           c \in event[e].delivered \/ \E d \in Dispatcher : KnowsTaken(d, e, c)
  BY <1>1 DEF TakenIsKnown
<1>3. ASSUME accepted[<<e, c>>] = 1 PROVE Known
  <2>1. CASE c \in event[e].delivered
    BY <2>1, DeliveredGrows
  <2>2. ASSUME NEW d \in Dispatcher, KnowsTaken(d, e, c) PROVE Known
    BY <2>2, KnowledgeStays
  <2> QED BY <1>2, <1>3, <2>1, <2>2
<1>4. CASE accepted'[<<e, c>>] = accepted[<<e, c>>]
  BY <1>2, <1>3, <1>4
<1>5. ASSUME NEW d \in Dispatcher, NEW b \in Connector, Accept(d, b)
      PROVE  accepted'[<<e, c>>] <= 1 /\ (accepted'[<<e, c>>] = 1 => Known)
  <2>1. PICK one : one = <<run[d].row.event, b>>
    OBVIOUS
  <2>2. accepted' = [accepted EXCEPT ![one] = @ + 1]
    BY <1>5, <2>1 DEF Accept
  <2>3. CASE one = <<e, c>>
    <3>1. run[d].row.event = e /\ b = c /\ run[d].phase = "calling" /\ c \in Open(d)
      BY <1>5, <2>1, <2>3 DEF Accept
    <3>2. c \notin event[e].delivered /\ \A o \in Dispatcher : ~KnowsTaken(o, e, c)
      BY <1>1, <3>1, AskedIsUnknown
    <3>3. accepted[<<e, c>>] = 0
      BY <1>1, <1>2, <3>2
    <3>4. accepted'[<<e, c>>] = 1
      BY <1>1, <2>2, <2>3, <3>3 DEF TypeOK
    <3>5. KnowsTaken(d, e, c)'
      <4>1. run[d].call \in [Connector -> Call]
        BY <3>1, RunFields
      <4>2. /\ run'[d].phase = "calling" /\ run'[d].row = run[d].row
            /\ run'[d].call = [run[d].call EXCEPT ![c] = "accepted"]
        BY <1>5, <3>1, AnswerFields DEF Accept, Call
      <4> QED BY <3>1, <4>1, <4>2 DEF KnowsTaken
    <3> QED BY <3>4, <3>5
  <2>4. CASE one # <<e, c>>
    <3>1. accepted'[<<e, c>>] = accepted[<<e, c>>]
      BY <1>1, <2>2, <2>4 DEF TypeOK
    <3> QED BY <1>4, <3>1
  <2> QED BY <2>3, <2>4
<1>6. ASSUME NEW d \in Dispatcher, NEW b \in Connector, FailRetryably(d, b)
      PROVE  accepted'[<<e, c>>] = accepted[<<e, c>>]
  <2>1. PICK one : one = <<run[d].row.event, b>>
    OBVIOUS
  <2>2. \/ accepted' = accepted
        \/ accepted' = [accepted EXCEPT ![one] = @ + 1] /\ one \in unsure'
    BY <1>6, <2>1 DEF FailRetryably
  <2> QED BY <1>1, <2>2 DEF TypeOK
<1>7. ASSUME NEW d \in Dispatcher, Crash(d) PROVE accepted'[<<e, c>>] = accepted[<<e, c>>]
  <2>1. CASE run[d].phase = "calling"
    <3>1. PICK late \in SUBSET Open(d) :
            /\ accepted' = [ec \in Event \X Connector |->
                              IF ec \in {run[d].row.event} \X late THEN accepted[ec] + 1
                                                                ELSE accepted[ec]]
            /\ unsure' = unsure \cup
                 ({run[d].row.event} \X (late \cup CallsThatAre(d, "accepted")))
      BY <1>7, <2>1 DEF Crash
    <3>2. <<e, c>> \notin {run[d].row.event} \X late
      BY <3>1
    <3> QED BY <1>1, <3>1, <3>2
  <2>2. CASE run[d].phase # "calling"
    BY <1>7, <2>2 DEF Crash
  <2> QED BY <2>1, <2>2
<1>8. CASE accepted' = accepted
  BY <1>4, <1>8
<1> QED
  BY <1>4, <1>5, <1>6, <1>7, <1>8
     DEF Next, Step, vars, Publish, Start, Skip, Deliver, Refuse, Record, Finish

(* The second invariant holds in every reachable state. *)
LEMMA AloneInvariance == Spec => []AloneInv
<1>1. ASSUME Init PROVE AloneInv
  <2>1. \A d \in Dispatcher : run[d].batch = {}
    BY <1>1 DEF Init, Idle
  <2>2. OneOwner /\ CopiesAreExact
    BY <2>1 DEF OneOwner, CopiesAreExact, InHand
  <2>3. TakenIsKnown
    BY <1>1 DEF Init, TakenIsKnown
  <2> QED BY <1>1, <2>2, <2>3, InitIInv DEF AloneInv
<1>2. AloneInv /\ [Next]_vars => AloneInv'
  BY NextTypeOK, NextBatchesAreSound, NextCallsAreSound, NextRowsAreSound,
     NextOneOwner, NextCopiesAreExact, NextTakenIsKnown DEF AloneInv, IInv
<1> QED BY <1>1, <1>2, PTL DEF Spec

(* A connector is made to take an event twice only by two runs at once, or *)
(* when its first answer was lost (dispatch.ts:24-48).                     *)
THEOREM TakenOnce == Spec => []AcceptedOnce
<1>1. ASSUME AloneInv PROVE AcceptedOnce
  <2> SUFFICES ASSUME NEW e \in Event \ raced, NEW c \in Connector,
                      accepted[<<e, c>>] > 1, <<e, c>> \notin unsure
               PROVE  FALSE
    BY DEF AcceptedOnce
  <2>1. accepted[<<e, c>>] <= 1 /\ accepted[<<e, c>>] \in Nat
    BY <1>1 DEF AloneInv, IInv, TypeOK, TakenIsKnown
  <2> QED BY <2>1
<1> QED BY <1>1, AloneInvariance, PTL

(* What one run at a time has settled stays settled (dispatch.ts:76-97).   *)
THEOREM SettledStays == Spec => SettledForGood
<1>1. AloneInv /\ [Next]_vars =>
        [\A e \in Event :
           event[e].status \in {"DELIVERED", "FAILED"} /\ event'[e] # event[e] => e \in raced]_vars
  BY OnlyTheOwnerWrites
<1> QED BY <1>1, AloneInvariance, PTL DEF Spec, SettledForGood
=============================================================================
