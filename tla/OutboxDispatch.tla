--------------------------- MODULE OutboxDispatch ---------------------------
(***************************************************************************)
(* Draining the transactional outbox: dispatchPendingEvents of             *)
(* src/lib/integrations/dispatch.ts, started by the in-process scheduler   *)
(* (scheduler.ts) and by POST /integrations/dispatch.                      *)
(*                                                                         *)
(* A run selects a batch of pending events without a lock and works on     *)
(* copies of their rows.  Each connector call, each record of a success    *)
(* and the final update of an event is a step of its own, so runs          *)
(* interleave.  A connector may fail, may accept an event and have its     *)
(* answer lost, and a run may die at any point; of these faults there are  *)
(* finitely many.                                                          *)
(***************************************************************************)
EXTENDS Naturals, FiniteSets

CONSTANTS Event,       \* events, in the order of their creation
          Connector,
          Handles,     \* Handles[e]: the connectors registered for e's type
          Dispatcher,  \* the runs that may be in progress at a time
          Limit,       \* size of a batch
          MaxFaults    \* bounds a behaviour: failures, lost answers, crashes

ASSUME DispatchAssumption ==
  /\ Event \subseteq Nat /\ IsFiniteSet(Event)
  /\ Handles \in [Event -> SUBSET Connector]
  /\ Limit \in Nat \ {0} /\ MaxFaults \in Nat

VARIABLES
  event,     \* integration_events: [status, attempts, delivered]
  run,       \* the dispatch runs in progress
  accepted,  \* external: how often a connector's system took an event
  refused,   \* history: <<e, c>>: c answered e with a non-retryable failure
  unsure,    \* history: <<e, c>>: c took e, and its success was never recorded
  raced,     \* history: events that were in two batches at once
  faults     \* how many faults have happened

vars == <<event, run, accepted, refused, unsure, raced, faults>>

Row == [event: Event, attempts: Nat, delivered: SUBSET Connector]
Call == {"none", "open", "accepted", "recorded", "retryable", "refused"}
Idle == [phase |-> "idle", batch |-> {}]

Runs == {Idle}
          \cup [phase: {"next"}, batch: SUBSET Row]
          \cup [phase: {"calling"}, batch: SUBSET Row, row: Row, call: [Connector -> Call]]

TypeOK ==
  /\ event \in [Event -> [status: {"NONE", "PENDING", "DELIVERED", "FAILED"},
                          attempts: Nat, delivered: SUBSET Connector]]
  /\ run \in [Dispatcher -> Runs]
  /\ accepted \in [Event \X Connector -> Nat]
  /\ refused \subseteq Event \X Connector
  /\ unsure \subseteq Event \X Connector
  /\ raced \subseteq Event
  /\ faults \in 0 .. MaxFaults

Init ==
  /\ event = [e \in Event |-> [status |-> "NONE", attempts |-> 0, delivered |-> {}]]
  /\ run = [d \in Dispatcher |-> Idle]
  /\ accepted = [ec \in Event \X Connector |-> 0]
  /\ refused = {} /\ unsure = {} /\ raced = {}
  /\ faults = 0

-----------------------------------------------------------------------------
(* A service stores e in the transaction of the change it reports. *)
Publish(e) ==
  /\ event[e].status = "NONE"
  /\ \A f \in Event : f < e => event[f].status # "NONE"
  /\ event' = [event EXCEPT ![e].status = "PENDING"]
  /\ UNCHANGED <<run, accepted, refused, unsure, raced, faults>>

-----------------------------------------------------------------------------
(* dispatchPendingEvents *)

(* Mutants of Eligible: whatever is not delivered is tried again; nothing  *)
(* is tried again.                                                         *)
EligibleUnlessDelivered(e) == event[e].status \in {"PENDING", "FAILED"}
EligibleOnce(e) == event[e].status = "PENDING" /\ event[e].attempts = 0

Eligible(e) == event[e].status = "PENDING"

(* Fewest attempts first, then in order of creation. *)
Before(r, s) == \/ r.attempts < s.attempts
                \/ r.attempts = s.attempts /\ r.event < s.event

Pending == {[event |-> e, attempts |-> event[e].attempts, delivered |-> event[e].delivered] :
              e \in {f \in Event : Eligible(f)}}

Batch == {r \in Pending : Cardinality({s \in Pending : Before(s, r)}) < Limit}

Events(batch) == {r.event : r \in batch}

(* A run begins; an empty batch ends it at once. *)
Start(d) ==
  /\ run[d] = Idle
  /\ Batch # {}
  /\ run' = [run EXCEPT ![d] = [phase |-> "next", batch |-> Batch]]
  /\ raced' = raced \cup (Events(Batch) \cap
                UNION {Events(run[o].batch) : o \in Dispatcher \ {d}})
  /\ UNCHANGED <<event, accepted, refused, unsure, faults>>

(* The run goes on with the rest of its batch. *)
Continue(d, batch) ==
  run' = [run EXCEPT ![d] = IF batch = {} THEN Idle ELSE [phase |-> "next", batch |-> batch]]

First(batch) == CHOOSE r \in batch : \A s \in batch \ {r} : Before(r, s)

(* Mutant of ToCall: a retry calls every connector again. *)
ToCallAll(row) == Handles[row.event]

(* deliverToPending calls the connectors the row has not recorded. *)
ToCall(row) == Handles[row.event] \ row.delivered

(* An event without connectors is skipped, and stays as it is. *)
Skip(d) ==
  /\ run[d].phase = "next"
  /\ Handles[First(run[d].batch).event] = {}
  /\ Continue(d, run[d].batch \ {First(run[d].batch)})
  /\ UNCHANGED <<event, accepted, refused, unsure, raced, faults>>

Deliver(d) ==
  /\ run[d].phase = "next"
  /\ LET row == First(run[d].batch) IN
     /\ Handles[row.event] # {}
     /\ run' = [run EXCEPT ![d] = [phase |-> "calling", batch |-> run[d].batch, row |-> row,
                                   call |-> [c \in Connector |->
                                               IF c \in ToCall(row) THEN "open" ELSE "none"]]]
  /\ UNCHANGED <<event, accepted, refused, unsure, raced, faults>>

CallsThatAre(d, state) == {c \in Connector : run[d].call[c] = state}
Open(d) == CallsThatAre(d, "open")
Answered(d, c, answer) == run' = [run EXCEPT ![d].call[c] = answer]

(* The connector's system takes the event and says so; the connector for   *)
(* mail does with an event nobody is to be told of, or when it has no      *)
(* transport.                                                              *)
Accept(d, c) ==
  /\ run[d].phase = "calling" /\ c \in Open(d)
  /\ Answered(d, c, "accepted")
  /\ accepted' = [accepted EXCEPT ![<<run[d].row.event, c>>] = @ + 1]
  /\ UNCHANGED <<event, refused, unsure, raced, faults>>

(* An answer that will not change: of the connectors here, a webhook's 4xx. *)
Refuse(d, c) ==
  /\ run[d].phase = "calling" /\ c \in Open(d)
  /\ Answered(d, c, "refused")
  /\ refused' = refused \cup {<<run[d].row.event, c>>}
  /\ UNCHANGED <<event, accepted, unsure, raced, faults>>

(* The call fails or throws, possibly after the event was taken: a mail    *)
(* server, a file system or a webhook does not answer, or with 5xx or 429. *)
FailRetryably(d, c) ==
  /\ run[d].phase = "calling" /\ c \in Open(d)
  /\ faults < MaxFaults
  /\ faults' = faults + 1
  /\ Answered(d, c, "retryable")
  /\ LET ec == <<run[d].row.event, c>> IN
     \/ UNCHANGED <<accepted, unsure>>
     \/ /\ accepted' = [accepted EXCEPT ![ec] = @ + 1]
        /\ unsure' = unsure \cup {ec}
  /\ UNCHANGED <<event, refused, raced>>

(* A success is recorded at once, beside what other runs recorded. *)
Record(d, c) ==
  /\ run[d].phase = "calling" /\ c \in CallsThatAre(d, "accepted")
  /\ Answered(d, c, "recorded")
  /\ event' = [event EXCEPT ![run[d].row.event].delivered = @ \cup {c}]
  /\ UNCHANGED <<accepted, refused, unsure, raced, faults>>

(* Mutants of Outcome: a non-retryable failure wins; one success is enough. *)
OutcomeRefusedFirst(answers) ==
  IF "refused" \in answers THEN "FAILED" ELSE
  IF "retryable" \in answers THEN "PENDING" ELSE "DELIVERED"
OutcomeAnySuccess(answers) ==
  IF "recorded" \in answers THEN "DELIVERED" ELSE "PENDING"

(* What becomes of an event: a retryable failure wins.                     *)
Outcome(answers) ==
  IF "retryable" \in answers THEN "PENDING" ELSE
  IF "refused" \in answers THEN "FAILED" ELSE "DELIVERED"

(* The event's row is updated from the copy the run works on: a success    *)
(* only while it is PENDING, a failure whatever it has become.             *)
Finish(d) ==
  /\ run[d].phase = "calling"
  /\ LET row == run[d].row
         answers == {run[d].call[c] : c \in Connector}
         outcome == Outcome(answers) IN
     /\ answers \cap {"open", "accepted"} = {}
     /\ event' = IF outcome = "DELIVERED" /\ event[row.event].status # "PENDING"
                 THEN event
                 ELSE [event EXCEPT ![row.event].status = outcome,
                                    ![row.event].attempts = row.attempts + 1]
     /\ Continue(d, run[d].batch \ {row})
  /\ UNCHANGED <<accepted, refused, unsure, raced, faults>>

(* The process of a run dies; calls that are under way may still arrive.   *)
Crash(d) ==
  /\ run[d] # Idle
  /\ faults < MaxFaults
  /\ faults' = faults + 1
  /\ run' = [run EXCEPT ![d] = Idle]
  /\ IF run[d].phase = "calling"
     THEN LET of(C) == {run[d].row.event} \X C IN
          \E late \in SUBSET Open(d) :
            /\ accepted' = [ec \in Event \X Connector |->
                              IF ec \in of(late) THEN accepted[ec] + 1 ELSE accepted[ec]]
            /\ unsure' = unsure \cup of(late \cup CallsThatAre(d, "accepted"))
     ELSE UNCHANGED <<accepted, unsure>>
  /\ UNCHANGED <<event, refused, raced>>

Step(d) ==
  \/ Start(d) \/ Skip(d) \/ Deliver(d) \/ Finish(d)
  \/ \E c \in Connector : Accept(d, c) \/ Refuse(d, c) \/ FailRetryably(d, c) \/ Record(d, c)

Next ==
  \/ \E e \in Event : Publish(e)
  \/ \E d \in Dispatcher : Step(d) \/ Crash(d)

(* The scheduler ticks for ever, and what a run waits for, a connector's   *)
(* answer or the database's, comes; nobody is obliged to publish or crash. *)
Fairness == \A d \in Dispatcher : WF_vars(Step(d))

Spec == Init /\ [][Next]_vars /\ Fairness

-----------------------------------------------------------------------------
(* Properties *)

(* "An event is DELIVERED once all of its connectors succeed"              *)
(* (README.md:75): whatever runs, faults and crashes interleaved, each of  *)
(* them has taken it, and no success is recorded that was none.            *)
DeliveredWasAccepted ==
  \A e \in Event, c \in Connector :
    (event[e].status = "DELIVERED" /\ c \in Handles[e]) \/ c \in event[e].delivered
      => accepted[<<e, c>>] > 0

(* A connector takes an event twice only if two runs had it in hand or it  *)
(* took it in a call whose success could not be recorded: otherwise "a     *)
(* failed connector is retried alone [...] while the others are not called *)
(* again" (README.md:75, dispatch.ts:24-26).                               *)
AcceptedOnce ==
  \A e \in Event \ raced, c \in Connector :
    accepted[<<e, c>>] > 1 => <<e, c>> \in unsure

(* "A non-retryable failure must not end retries for a connector that can  *)
(* still succeed" (dispatch.ts:53): when an event is given up, each of its *)
(* connectors has taken or refused it, even if runs raced.                 *)
GivenUpWhenHopeless ==
  \A e \in Event : event[e].status = "FAILED" =>
    \A c \in Handles[e] : c \in event[e].delivered \/ <<e, c>> \in refused

(* An event that one run at a time has in hand is delivered or given up    *)
(* for good: it "is not retried" (README.md:77).  Two runs at a time may   *)
(* undo it, because the failure branch (dispatch.ts:90-97) writes whatever *)
(* the status has become.                                                  *)
SettledForGood ==
  [][\A e \in Event :
       event[e].status \in {"DELIVERED", "FAILED"} /\ event'[e] # event[e] => e \in raced]_vars

(* As long as faults are finitely many and the events no connector handles *)
(* do not fill a batch, each event with connectors is delivered or given   *)
(* up in the end, and stays so even if runs race (dispatch.ts:59-102).     *)
EventuallySettled ==
  \A e \in Event : Handles[e] # {} =>
    (event[e].status = "PENDING") ~> [](event[e].status \in {"DELIVERED", "FAILED"})
=============================================================================
