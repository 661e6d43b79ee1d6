---------------------------- MODULE RunPageProofs ----------------------------
(***************************************************************************)
(* The page of a run offers what the engine accepts, for every catalog,    *)
(* any number of people who review entities elsewhere and any number of    *)
(* handlers of the page that cancel, as long as one handler starts,        *)
(* advances and decides the run: approving and rejecting disable each      *)
(* other, and advancing is never offered beside them.  That the domain     *)
(* decision behind a button is accepted rests on what waits at the gate:   *)
(* the entity generated last, which the run itself has not decided.        *)
(***************************************************************************)
EXTENDS RunPage, WorkflowOrderProofs

\* Everything but cancelling goes through handler h.
Steering == {"start", "advance", "approve", "reject"}
OneHandler(h) == \A r \in Requests \ {h} : MayIssue[r] \cap Steering = {}

(***************************************************************************)
(* The run, by the statement that h is about to execute                    *)
(***************************************************************************)
CanAdvance ==
    /\ run.status = "in_progress" /\ run.current \in Orders
    /\ steps[run.current].status = "pending"
    /\ def[run.current].kind \in Executable \cup {"skip"}
\* Who arms a run that still says it waits has approved its gate.
GatesPassed ==
    run.status = "waiting_for_approval" =>
        \A s \in Orders : IsGate(s) => steps[s].status = "approved"

Asking == {"advance", "skip", "begin"}
Judging == {"load_gate", "find_entity", "decide", "claim"}
InProgress == Running \cup {"create_steps", "output", "merge", "arm_report", "arm_gate"}
Waiting == {"audit", "approved_output", "reset", "reopen"}
Approved(q) ==
    \/ q.pc \in {"arm", "approved_output"}
    \/ q.pc = "audit" /\ q.decision = "approved"

\* The run is about to be parked on q.at.
ArmedOK(q) ==
    /\ q.mark = "waiting_for_approval" =>
          run.status = "in_progress" /\ IsGate(q.at)
             /\ steps[q.at].status = "waiting_for_approval"
    /\ q.mark = "in_progress" =>
          steps[q.at].status = "pending" /\ def[q.at].kind \in Executable \cup {"skip"}
    /\ q.pc = "mark" /\ q.mark \in {"in_progress", "waiting_for_approval"} =>
          run.current = q.at /\ q.at \in Orders

Steered(q) ==
    /\ q.pc = "idle" => CanAdvance \/ AtWaitingGate
    /\ q.pc \in Asking => CanAdvance /\ q.at = run.current
    /\ q.pc \in Judging => AtWaitingGate /\ q.at = run.current
    /\ q.pc \in InProgress => run.status = "in_progress"
    /\ q.pc \in Waiting => run.status = "waiting_for_approval"
    /\ Approved(q) => GatesPassed
    /\ q.pc \in {"arm_report", "arm_gate"} => IsGate(q.at) /\ steps[q.at].status = "pending"
    /\ q.pc = "arm_gate" => q.mark = "waiting_for_approval"
    /\ q.pc \in {"arm_current", "mark"} => ArmedOK(q)

(***************************************************************************)
(* The page                                                                *)
(***************************************************************************)
Reloads == {"load", "load_steps", "loaded"}
IsDetail(d) == d = [status |-> d.status, current |-> d.current, steps |-> d.steps]

PageTyped ==
    /\ phase \in [Requests -> {"none", "cancel"} \cup Steering \cup Reloads]
    /\ read = [r \in Requests |-> read[r]] /\ \A r \in Requests : IsDetail(read[r])

Ended == ~Live /\ run.status # "none"
\* The other handlers of the page only cancel; then the run has ended for good.
OthersCancel(h) == \A r \in Requests \ {h} :
    /\ req[r].pc = "idle"
    /\ phase[r] \in {"none", "cancel"} \cup Reloads
    /\ phase[r] \in Reloads => Ended

HandlerOK(h) ==
    /\ phase[h] \in {"none", "cancel"} \cup Reloads => req[h].pc = "idle"
    /\ phase[h] = "start" => req[h].pc \notin Asking \cup Judging
    /\ phase[h] \in {"approve", "reject"} => req[h].pc \notin Asking

Matches(d) == d.status = run.status /\ d.current = run.current /\ d.steps = steps
\* Nothing that a reload would show has changed since the last one.
Fresh(h) ==
    \/ phase[h] = "none"
    \/ phase[h] \in {"approve", "reject"} /\ req[h].pc \in {"idle"} \cup Judging
ShownOK(h) == Fresh(h) => shown = NoDetail \/ Matches(shown)
ReadOK(h) ==
    /\ phase[h] = "load_steps" => read[h].status = run.status /\ read[h].current = run.current
    /\ phase[h] = "loaded" => Matches(read[h])

PageInv(h) ==
    /\ TypeInv /\ PageTyped
    /\ OthersCancel(h)
    /\ HandlerOK(h)
    /\ Live => Steered(req[h]) /\ ShownOK(h) /\ ReadOK(h)

(***************************************************************************)
(* The run under one handler                                               *)
(***************************************************************************)
LEMMA ArmToEffect ==
    ASSUME TypeInv, NEW r \in Requests, NEW label, NEW s, NEW m, ArmTo(r, label, s, m)
    PROVE  req'[r].pc = label /\ req'[r].at = s /\ req'[r].mark = m
<1>1. req'[r] = [Idle EXCEPT !.pc = label, !.at = s, !.mark = m]
  BY DEF ArmTo, TypeInv
<1> QED
  BY <1>1 DEF Idle

\* The ways to go on that end what a request did.
LEMMA ArmIsSteered ==
    ASSUME TypeInv, NEW h \in Requests, Arm(h), GatesPassed'
    PROVE  Steered(req[h])'
<1>1. req'[h].pc = "arm"
  BY ArmEffect DEF Idle
<1> QED
  BY <1>1 DEF Steered, Asking, Judging, InProgress, Running, Waiting

LEMMA InProgressIsSteered ==
    ASSUME run'.status = "in_progress", NEW h \in Requests, req'[h].pc \in InProgress,
           req'[h].pc \notin {"arm_report", "arm_gate"}
    PROVE  Steered(req[h])'
  BY DEF Steered, Asking, Judging, InProgress, Running, Waiting, Approved

LEMMA WaitingIsSteered ==
    ASSUME run'.status = "waiting_for_approval", NEW h \in Requests, req'[h].pc \in Waiting,
           Approved(req'[h]) => GatesPassed'
    PROVE  Steered(req[h])'
  BY DEF Steered, Asking, Judging, InProgress, Running, Waiting

\* A statement that only moves on between reads, the run being ready.
LEMMA ReadIsSteered ==
    ASSUME NEW h \in Requests, UNCHANGED <<run, def, steps>>,
           \/ CanAdvance /\ req'[h].pc \in Asking /\ req'[h].at = run.current
           \/ AtWaitingGate /\ req'[h].pc \in Judging /\ req'[h].at = run.current
           \/ (CanAdvance \/ AtWaitingGate) /\ req'[h].pc = "idle"
    PROVE  Steered(req[h])'
<1>1. (CanAdvance' <=> CanAdvance) /\ (AtWaitingGate' <=> AtWaitingGate)
  BY DEF CanAdvance, AtWaitingGate, Orders, IsGate
<1>2. req'[h].pc \notin InProgress \cup Waiting \cup {"arm_report", "arm_gate", "arm_current", "mark"}
         /\ ~Approved(req'[h])
  BY DEF Asking, Judging, InProgress, Running, Waiting, Approved
<1>3. req'[h].pc = "idle" => req'[h].pc \notin Asking \cup Judging
  BY DEF Asking, Judging
<1>4. Asking \cap (Judging \cup {"idle"}) = {} /\ "idle" \notin Judging
  BY DEF Asking, Judging
<1> QED
  BY <1>1, <1>2, <1>3, <1>4 DEF Steered

LEMMA SteeredStarting ==
    ASSUME TypeInv, NEW h \in Requests, Starting(h), Live => Steered(req[h]), Live'
    PROVE  Steered(req[h])'
<1>1. CASE Start(h)
  <2>1. run'.status = "in_progress" /\ req'[h].pc = "create_steps"
    BY <1>1, GotoStays DEF Start, TypeInv, RowsOK, RunType, Stays
  <2> QED
    BY <2>1, InProgressIsSteered DEF InProgress
<1>2. CASE CreateSteps(h)
  <2>1. run'.status = "in_progress"
    BY <1>2 DEF CreateSteps, At, Live, Steered, InProgress
  <2> QED
    BY <1>2, <2>1, ArmIsSteered DEF CreateSteps, GatesPassed
<1> QED
  BY <1>1, <1>2 DEF Starting

LEMMA SteeredAdvancing ==
    ASSUME TypeInv, NEW h \in Requests, Advancing(h), Live => Steered(req[h]), Live'
    PROVE  Steered(req[h])'
<1> DEFINE s == req[h].at
<1>0. run'.status = run.status /\ Steered(req[h])
  BY DEF Advancing, Advance, ReadStep, Skip, Begin, Execute, Complete, SkipWithNote,
         RecordOutput, MergeOutput, FailStep, tables, TypeInv, RowsOK, RunType, Live
<1>1. CASE Advance(h)
  <2>1. CanAdvance
    BY <1>0, <1>1 DEF Advance, Receives, At, Steered, AtWaitingGate
  <2>2. req'[h].pc = "advance" /\ req'[h].at = run.current
    BY <1>1 DEF Advance, TypeInv, Idle
  <2> QED
    BY <1>1, <2>1, <2>2, ReadIsSteered DEF Advance, tables, Asking
<1>2. CASE ReadStep(h)
  <2>1. CanAdvance /\ s = run.current
    BY <1>0, <1>2 DEF ReadStep, At, Steered, Asking
  <2>2. \E label \in {"skip", "begin"} : Goto(h, label)
    BY <1>2, <2>1 DEF ReadStep, CanAdvance
  <2>3. req'[h].pc \in {"skip", "begin"} /\ req'[h].at = s
    BY <2>2, GotoStays DEF Stays
  <2> QED
    BY <1>2, <2>1, <2>3, ReadIsSteered DEF ReadStep, tables, Asking
<1>3. ~Advance(h) /\ ~ReadStep(h) => run'.status = "in_progress"
  BY <1>0 DEF Advancing, Skip, Begin, Execute, Complete, SkipWithNote, RecordOutput,
              MergeOutput, FailStep, At, Steered, CanAdvance, Asking, InProgress, Running
<1>4. CASE FailStep(h)
  <2>1. req'[h].pc = "mark" /\ req'[h].mark = "failed"
    BY <1>4, ArmToEffect DEF FailStep
  <2> QED
    BY <2>1 DEF Steered, Asking, Judging, InProgress, Running, Waiting, Approved, ArmedOK
<1>5. CASE ~Advance(h) /\ ~ReadStep(h) /\ ~FailStep(h)
  <2>1. \/ Arm(h)
        \/ \E label \in {"execute", "complete", "note", "fail", "output", "merge"} :
              Stays(h, label)
    BY <1>5, GotoStays, ExecuteEffect, BeginEffect
       DEF Advancing, Skip, Begin, Complete, SkipWithNote, RecordOutput, MergeOutput
  <2>2. CASE Arm(h)
    BY <1>3, <1>5, <2>2, ArmIsSteered DEF GatesPassed
  <2>3. CASE ~Arm(h)
    BY <1>3, <1>5, <2>1, <2>3, InProgressIsSteered DEF Stays, InProgress, Running
  <2> QED
    BY <2>2, <2>3
<1> QED
  BY <1>1, <1>2, <1>4, <1>5

LEMMA SteeredArming ==
    ASSUME TypeInv, NEW h \in Requests, Arming(h), Live => Steered(req[h]), Live'
    PROVE  Steered(req[h])'
<1> DEFINE s == req[h].at
<1>0. Live /\ Steered(req[h])
  BY DEF Arming, ArmNextStep, ReadReport, OpenGate, SetCurrentStep, MarkRun, tables, TypeInv,
         RowsOK, RunType, Live, MarkFrom
<1>1. req[h].pc \notin WithoutStep => s \in Orders
  BY WorksOnStep
<1>2. CASE ArmNextStep(h)
  <2>0. GatesPassed /\ UNCHANGED <<run, def, steps>>
    BY <1>0, <1>2 DEF ArmNextStep, At, Steered, Approved, tables
  <2>1. CASE Pending = {}
    <3>1. req'[h].pc = "mark" /\ req'[h].mark = "completed"
      BY <1>2, <2>1, ArmToEffect DEF ArmNextStep, NextPending
    <3> QED
      BY <3>1 DEF Steered, Asking, Judging, InProgress, Running, Waiting, Approved, ArmedOK
  <2>2. ASSUME NEW n \in NextPending, NEW label \in {"arm_report", "arm_gate"}, NEW m,
               ArmTo(h, label, n, m), def[n].kind = "gate",
               label = "arm_gate" => m = "waiting_for_approval"
        PROVE  Steered(req[h])'
    <3>1. req'[h].pc = label /\ req'[h].at = n /\ req'[h].mark = m
      BY <2>2, ArmToEffect
    <3>2. n \in Orders /\ steps[n].status = "pending" /\ IsGate(n)
      BY <2>2 DEF NextPending, Pending, IsGate
    <3>3. run.status = "in_progress"
      BY <1>0, <2>0, <3>2 DEF GatesPassed, Live
    <3> QED
      BY <2>0, <2>2, <3>1, <3>2, <3>3
         DEF Steered, Asking, Judging, InProgress, Running, Waiting, Approved, IsGate
  <2>3. ASSUME NEW n \in NextPending, NEW m \in {"blocked_future_feature", "in_progress"},
               ArmTo(h, "arm_current", n, m),
               m = "in_progress" => def[n].kind \in Executable \cup {"skip"}
        PROVE  Steered(req[h])'
    <3>1. req'[h].pc = "arm_current" /\ req'[h].at = n /\ req'[h].mark = m
      BY <2>3, ArmToEffect
    <3>2. steps[n].status = "pending"
      BY DEF NextPending, Pending
    <3> QED
      BY <2>0, <2>3, <3>1, <3>2
         DEF Steered, Asking, Judging, InProgress, Running, Waiting, Approved, ArmedOK
  <2> QED
    BY <1>2, <2>1, <2>2, <2>3 DEF ArmNextStep
<1>3. CASE ReadReport(h)
  <2>0. IsGate(s) /\ steps[s].status = "pending" /\ run.status = "in_progress"
          /\ UNCHANGED <<run, def, steps>>
    BY <1>0, <1>3 DEF ReadReport, At, Steered, InProgress, tables
  <2>1. \/ req'[h].pc = "arm_current" /\ req'[h].mark = "qa_failed"
        \/ /\ req'[h].pc = "arm_gate" /\ req'[h].mark = "waiting_for_approval"
           /\ req'[h].at = s
    BY <1>3, ArmToEffect DEF ReadReport
  <2> QED
    BY <2>0, <2>1
       DEF Steered, Asking, Judging, InProgress, Running, Waiting, Approved, ArmedOK, IsGate
<1>4. CASE OpenGate(h)
  <2>0. IsGate(s) /\ steps[s].status = "pending" /\ run.status = "in_progress"
          /\ req[h].mark = "waiting_for_approval" /\ s \in Orders
    BY <1>0, <1>1, <1>4 DEF OpenGate, At, Steered, InProgress, WithoutStep
  <2>1. steps'[s].status = "waiting_for_approval" /\ run' = run /\ def' = def
    BY <1>4, <2>0, SetStepEffect DEF OpenGate
  <2>2. /\ req'[h].pc = "arm_current" /\ req'[h].mark = "waiting_for_approval"
        /\ req'[h].at = s
    BY <1>4, <2>0, GotoStays DEF OpenGate, Stays
  <2> QED
    BY <2>0, <2>1, <2>2
       DEF Steered, Asking, Judging, InProgress, Running, Waiting, Approved, ArmedOK, IsGate
<1>5. CASE SetCurrentStep(h)
  <2>0. ArmedOK(req[h]) /\ s \in Orders
    BY <1>0, <1>1, <1>5 DEF SetCurrentStep, At, Steered, WithoutStep
  <2>1. /\ run'.status = run.status /\ run'.current = s /\ steps' = steps /\ def' = def
        /\ Orders' = Orders
    BY <1>5 DEF SetCurrentStep, TypeInv, RowsOK, RunType, Orders
  <2>2. req'[h].pc = "mark" /\ req'[h].mark = req[h].mark /\ req'[h].at = s
    BY <1>5, GotoStays DEF SetCurrentStep, Stays
  <2> QED
    BY <2>0, <2>1, <2>2
       DEF Steered, Asking, Judging, InProgress, Running, Waiting, Approved, ArmedOK, IsGate
<1>6. CASE MarkRun(h)
  <2>0. ArmedOK(req[h]) /\ req[h].mark \in Marks
    BY <1>0, <1>6 DEF MarkRun, At, Steered, TypeInv, Request
  <2>1. req[h].mark # "none"
    BY <1>6 DEF MarkRun, At, TypeInv, LocalOK, Markers
  <2>2. run.status \in MarkFrom(req[h].mark) \/ req[h].mark = "waiting_for_approval"
    BY <1>0, <2>0, <2>1 DEF MarkFrom, Live, Marks
  <2>3. run.status \in MarkFrom(req[h].mark)
    BY <1>6, <2>0, <2>2 DEF MarkFrom, ArmedOK
  <2>4. run'.status = req[h].mark /\ req[h].mark \in {"in_progress", "waiting_for_approval"}
          /\ run'.current = run.current
    BY <1>6, <2>3 DEF MarkRun, TypeInv, RowsOK, RunType, Live
  <2>5. run.current = s /\ s \in Orders /\ steps' = steps /\ def' = def /\ Orders' = Orders
    BY <1>6, <2>0, <2>4 DEF ArmedOK, MarkRun, At, Orders
  <2>6. CanAdvance' \/ AtWaitingGate'
    BY <2>0, <2>4, <2>5 DEF ArmedOK, CanAdvance, AtWaitingGate, IsGate
  <2>7. req'[h].pc = "idle"
    BY <1>6, ReplyEffect DEF MarkRun, Idle
  <2> QED
    BY <2>6, <2>7 DEF Steered, Asking, Judging, InProgress, Running, Waiting, Approved
<1> QED
  BY <1>2, <1>3, <1>4, <1>5, <1>6 DEF Arming

LEMMA SteeredDeciding ==
    ASSUME TypeInv, NEW h \in Requests, Deciding(h), Live => Steered(req[h]), Live'
    PROVE  Steered(req[h])'
<1> DEFINE s == req[h].at
<1>0. Live /\ Steered(req[h])
  BY DEF Deciding, ReceiveDecision, LoadGate, FindEntity, DecideEntity, ClaimGate,
         RecordDecision, RecordApprovedOutput, ResetForRevision, Reopen, tables, TypeInv,
         RowsOK, RunType, Live, MarkFrom
<1>1. req[h].pc \notin WithoutStep => s \in Orders
  BY WorksOnStep
<1>2. CASE ReceiveDecision(h)
  <2>1. AtWaitingGate
    BY <1>0, <1>2 DEF ReceiveDecision, Receives, At, Steered, CanAdvance
  <2>2. req'[h].pc = "load_gate" /\ req'[h].at = run.current
    BY <1>2 DEF ReceiveDecision, TypeInv, Idle
  <2> QED
    BY <1>2, <2>1, <2>2, ReadIsSteered DEF ReceiveDecision, tables, Judging
<1>3. CASE LoadGate(h) \/ FindEntity(h) \/ DecideEntity(h)
  <2>1. AtWaitingGate /\ s = run.current
    BY <1>0, <1>3 DEF LoadGate, FindEntity, DecideEntity, At, Steered, Judging
  <2>2. req'[h].pc \in Judging /\ req'[h].at = s
    BY <1>3, LoadGateEffect, FindEntityEffect, GotoStays DEF DecideEntity, Stays, Judging
  <2> QED
    BY <1>3, <2>1, <2>2, ReadIsSteered DEF LoadGate, FindEntity, DecideEntity, tables
<1>4. CASE ClaimGate(h)
  <2>1. AtWaitingGate /\ s = run.current /\ s \in Orders
    BY <1>0, <1>1, <1>4 DEF ClaimGate, At, Steered, Judging, WithoutStep
  <2>2. req'[h].pc = "audit" /\ req'[h].decision = req[h].decision
    BY <1>4, ClaimGateEffect DEF Stays
  <2>3. run' = run /\ def' = def /\ Orders' = Orders /\ steps'[s].status = req[h].decision
    BY <1>4, <2>1, SetStepEffect DEF ClaimGate
  <2>4. \A t \in Orders : IsGate(t) => t = s
    BY <2>1, StepRows, GatesAssumption DEF AtWaitingGate, IsGate
  <2>5. Approved(req'[h]) => GatesPassed'
    BY <2>2, <2>3, <2>4 DEF Approved, GatesPassed, IsGate
  <2> QED
    BY <2>1, <2>2, <2>3, <2>5, WaitingIsSteered DEF AtWaitingGate, Waiting
<1>5. CASE RecordDecision(h)
  <2>1. run.status = "waiting_for_approval" /\ UNCHANGED <<run, def, steps>>
    BY <1>0, <1>5 DEF RecordDecision, At, Steered, Waiting
  <2>2. CASE Stays(h, "approved_output") /\ req[h].decision = "approved"
    <3>1. GatesPassed'
      BY <1>0, <1>5, <2>1, <2>2
         DEF RecordDecision, At, Steered, Approved, GatesPassed, Orders, IsGate
    <3> QED
      BY <2>1, <2>2, <3>1, WaitingIsSteered DEF Stays, Waiting
  <2>3. CASE Stays(h, "reset")
    BY <2>1, <2>3, WaitingIsSteered DEF Stays, Waiting, Approved
  <2>4. CASE ArmTo(h, "mark", s, "failed")
    <3>1. req'[h].pc = "mark" /\ req'[h].mark = "failed"
      BY <2>4, ArmToEffect
    <3> QED
      BY <3>1 DEF Steered, Asking, Judging, InProgress, Running, Waiting, Approved, ArmedOK
  <2> QED
    BY <1>5, <2>2, <2>3, <2>4, GotoStays DEF RecordDecision
<1>6. CASE RecordApprovedOutput(h)
  <2>1. GatesPassed'
    BY <1>0, <1>6 DEF RecordApprovedOutput, At, Steered, Approved, GatesPassed, Orders, IsGate
  <2> QED
    BY <1>6, <2>1, ArmIsSteered DEF RecordApprovedOutput
<1>7. CASE ResetForRevision(h)
  <2>1. run'.status = "waiting_for_approval" /\ Stays(h, "reopen")
    BY <1>0, <1>7, GotoStays DEF ResetForRevision, At, Steered, Waiting
  <2> QED
    BY <2>1, WaitingIsSteered DEF Stays, Waiting, Approved
<1>8. CASE Reopen(h)
  <2>1. run'.status = "in_progress"
    BY <1>0, <1>8 DEF Reopen, Live, MarkFrom, TypeInv, RowsOK, RunType
  <2> QED
    BY <1>8, <2>1, ArmIsSteered DEF Reopen, GatesPassed
<1> QED
  BY <1>2, <1>3, <1>4, <1>5, <1>6, <1>7, <1>8 DEF Deciding

\* A refusal leaves the run as ready as the request found it.
LEMMA SteeredRefusal ==
    ASSUME TypeInv, NEW h \in Requests, Refuse(h), Steered(req[h])
    PROVE  Steered(req[h])'
<1>1. req[h].pc \in Asking \cup Judging
  BY DEF Refuse, At, Asking, Judging
<1>2. CanAdvance \/ AtWaitingGate
  BY <1>1 DEF Steered
<1>3. req'[h].pc = "idle"
  BY ReplyEffect DEF Refuse, Idle
<1> QED
  BY <1>2, <1>3, ReadIsSteered DEF Refuse, tables

\* A request that is under way.
Engine(h) == Starting(h) \/ Advancing(h) \/ Arming(h) \/ Deciding(h)

LEMMA EngineIsSteered ==
    ASSUME TypeInv, NEW h \in Requests, Engine(h) \/ Refuse(h), Live => Steered(req[h]), Live'
    PROVE  Steered(req[h])'
<1>1. CASE Refuse(h)
  <2>1. Live
    BY <1>1 DEF Refuse, tables, Live
  <2> QED
    BY <1>1, <2>1, SteeredRefusal
<1> QED
  BY <1>1, SteeredStarting, SteeredAdvancing, SteeredArming, SteeredDeciding DEF Engine

\* Where a request under way may come from.
LEMMA ComesFrom ==
    ASSUME TypeInv, NEW h \in Requests, Engine(h), ~At(h, "idle")
    PROVE  /\ OthersKeep(h)
           /\ req'[h].pc \in Asking => req[h].pc \in Asking
           /\ req'[h].pc \in Judging => req[h].pc \in Judging /\ UNCHANGED <<run, steps>>
<1> DEFINE Elsewhere == OthersKeep(h) /\ req'[h].pc \notin Asking \cup Judging
<1>1. ASSUME NEW label, Stays(h, label) PROVE OthersKeep(h) /\ req'[h].pc = label
  BY <1>1 DEF Stays
<1>2. \A label : Goto(h, label) => OthersKeep(h) /\ req'[h].pc = label
  BY <1>1, GotoStays
<1>3. Arm(h) \/ Reply(h) => Elsewhere
  BY ArmEffect, ReplyEffect DEF Idle, Asking, Judging
<1>4. ASSUME NEW label \in {"arm_report", "arm_gate", "arm_current", "mark"}, NEW s, NEW m,
             ArmTo(h, label, s, m)
      PROVE  Elsewhere
  BY <1>4, ArmToEffect DEF ArmTo, TypeInv, OthersKeep, Asking, Judging
<1>5. CASE Starting(h)
  BY <1>3, <1>5 DEF Starting, Start, CreateSteps, Receives
<1>6. CASE ReadStep(h)
  BY <1>2, <1>3, <1>6 DEF ReadStep, At, Asking, Judging
<1>7. CASE Advancing(h) /\ ~ReadStep(h)
  <2>1. Elsewhere
    BY <1>1, <1>2, <1>3, <1>4, <1>7, ExecuteEffect, BeginEffect
       DEF Advancing, Advance, Receives, Skip, Begin, Complete, SkipWithNote, RecordOutput,
           MergeOutput, FailStep, Asking, Judging
  <2> QED
    BY <2>1
<1>8. CASE Arming(h)
  <2>1. Elsewhere
    BY <1>2, <1>3, <1>4, <1>8
       DEF Arming, ArmNextStep, ReadReport, OpenGate, SetCurrentStep, MarkRun, Asking, Judging
  <2> QED
    BY <2>1
<1>9. CASE LoadGate(h) \/ FindEntity(h) \/ DecideEntity(h)
  <2>1. req[h].pc \in Judging /\ UNCHANGED <<run, steps>>
    BY <1>9 DEF LoadGate, FindEntity, DecideEntity, At, Judging, tables
  <2>2. OthersKeep(h) /\ req'[h].pc \in Judging
    BY <1>1, <1>2, <1>9, LoadGateEffect, FindEntityEffect DEF DecideEntity, Judging
  <2> QED
    BY <2>1, <2>2 DEF Asking, Judging
<1>10. CASE Deciding(h) /\ ~(LoadGate(h) \/ FindEntity(h) \/ DecideEntity(h))
  <2>1. Elsewhere
    BY <1>1, <1>2, <1>3, <1>4, <1>10, ClaimGateEffect
       DEF Deciding, ReceiveDecision, Receives, ClaimGate, RecordDecision,
           RecordApprovedOutput, ResetForRevision, Reopen, Asking, Judging
  <2> QED
    BY <2>1
<1> QED
  BY <1>5, <1>6, <1>7, <1>8, <1>9, <1>10 DEF Engine

\* A run is live from its start on until it ends, once.
LEMMA EndsOnce ==
    ASSUME TypeInv, NEW r \in Requests,
           \/ Engine(r) \/ Refuse(r) \/ Cancel(r) \/ ReviewDirectly(r)
    PROVE  (Ended => Ended') /\ (Live' => Live \/ Start(r))
<1>1. CASE Starting(r)
  BY <1>1 DEF Starting, Start, CreateSteps, Ended, Live
<1>2. CASE Advancing(r)
  <2>1. run'.status = run.status
    BY <1>2 DEF Advancing, Advance, ReadStep, Skip, Begin, Execute, Complete, SkipWithNote,
           RecordOutput, MergeOutput, FailStep, tables, TypeInv, RowsOK, RunType
  <2> QED
    BY <2>1 DEF Ended, Live
<1>3. CASE MarkRun(r)
  <2>1. run'.status = run.status \/ (run.status \in MarkFrom(req[r].mark)
                                    /\ run'.status = req[r].mark)
    BY <1>3 DEF MarkRun, TypeInv, RowsOK, RunType
  <2>2. req[r].mark \in Marks \ {"none"}
    BY <1>3 DEF MarkRun, At, TypeInv, LocalOK, Markers, Request
  <2> QED
    BY <2>1, <2>2 DEF Ended, Live, MarkFrom, Marks
<1>4. CASE Arming(r) /\ ~MarkRun(r)
  <2>1. run'.status = run.status
    BY <1>4 DEF Arming, ArmNextStep, ReadReport, OpenGate, SetCurrentStep, tables, TypeInv,
                RowsOK, RunType
  <2> QED
    BY <2>1 DEF Ended, Live
<1>5. CASE Reopen(r)
  BY <1>5 DEF Reopen, MarkFrom, TypeInv, RowsOK, RunType, Ended, Live
<1>6. CASE (Deciding(r) /\ ~Reopen(r)) \/ Refuse(r) \/ ReviewDirectly(r)
  <2>1. run' = run
    BY <1>6 DEF Deciding, ReceiveDecision, LoadGate, FindEntity, DecideEntity, ClaimGate,
                RecordDecision, RecordApprovedOutput, ResetForRevision, Refuse,
                ReviewDirectly, tables
  <2> QED
    BY <2>1 DEF Ended, Live
<1>7. CASE Cancel(r)
  BY <1>7 DEF Cancel, TypeInv, RowsOK, RunType, Ended, Live
<1> QED
  BY <1>1, <1>2, <1>3, <1>4, <1>5, <1>6, <1>7 DEF Engine

(***************************************************************************)
(* The page in front of it                                                 *)
(***************************************************************************)
LEMMA SameRun ==
    ASSUME NEW h \in Requests, UNCHANGED <<run, def, steps, req>>
    PROVE  /\ (Live' <=> Live) /\ (Ended' <=> Ended)
           /\ Steered(req[h])' <=> Steered(req[h])
  BY DEF Live, Ended, Steered, CanAdvance, AtWaitingGate, GatesPassed, ArmedOK, Approved, Orders,
         IsGate

LEMMA PageStepsAreSteps == PageNext => [Next]_vars
<1> SUFFICES ASSUME NEW r \in Requests,
                    \/ Click(r) \/ Receive(r) \/ Work(r)
                    \/ ReadRun(r) \/ ReadSteps(r) \/ Show(r) \/ OtherPerson(r)
             PROVE  [Next]_vars
  BY DEF PageNext
<1>1. CASE Click(r) \/ ReadRun(r) \/ ReadSteps(r) \/ Show(r)
  BY <1>1 DEF Click, ReadRun, ReadSteps, Show
<1>2. CASE Receive(r)
  BY <1>2 DEF Receive, Next, Starting, Advancing, Deciding
<1>3. CASE Work(r)
  BY <1>3 DEF Work, Next
<1>4. CASE OtherPerson(r)
  BY <1>4 DEF OtherPerson, Next
<1> QED
  BY <1>1, <1>2, <1>3, <1>4

\* A handler goes to its next phase and nothing happens to the run.
LEMMA OnlyPhase ==
    ASSUME NEW h \in Requests, PageInv(h), TypeInv', UNCHANGED <<run, def, steps, req>>,
           NEW r \in Requests, NEW p \in {"none", "cancel"} \cup Steering \cup Reloads,
           phase' = [phase EXCEPT ![r] = p], PageTyped',
           r # h => p \in {"none", "cancel"} \cup Reloads /\ (p \in Reloads => Ended),
           r = h => HandlerOK(h)',
           Live => ShownOK(h)' /\ ReadOK(h)'
    PROVE  PageInv(h)'
<1>1. (Live' <=> Live) /\ (Ended' <=> Ended) /\ (Steered(req[h])' <=> Steered(req[h]))
  BY SameRun
<1>2. \A q \in Requests : phase'[q] = IF q = r THEN p ELSE phase[q]
  BY DEF PageInv, PageTyped
<1>3. OthersCancel(h)'
  BY <1>1, <1>2 DEF PageInv, OthersCancel
<1>4. HandlerOK(h)'
  BY <1>2 DEF PageInv, HandlerOK
<1> QED
  BY <1>1, <1>3, <1>4 DEF PageInv

\* The other handlers, the run having ended or not.
LEMMA OthersStayDone ==
    ASSUME NEW h \in Requests, PageInv(h), NEW r \in Requests,
           Ended => Ended', \A q \in Requests \ {h} : req'[q] = req[q],
           \A q \in Requests \ {h} :
               \/ phase'[q] = phase[q]
               \/ phase'[q] \in Reloads /\ Ended'
    PROVE  OthersCancel(h)'
  BY DEF PageInv, OthersCancel

LEMMA ClickKeepsPage ==
    ASSUME NEW h \in Requests, OneHandler(h), PageInv(h), TypeInv', NEW r \in Requests, Click(r)
    PROVE  PageInv(h)'
<1>1. PICK op \in Offered \cap MayIssue[r] : phase' = [phase EXCEPT ![r] = op]
  BY DEF Click
<1>2. UNCHANGED <<run, def, steps, req, read, shown>> /\ phase[r] = "none"
  BY DEF Click, vars
<1>3. op \in {"advance", "approve", "reject", "cancel"}
  BY <1>1 DEF Offered
<1>4. r # h => op = "cancel"
  BY <1>1, <1>3 DEF OneHandler, Steering
<1>5. op \notin Reloads /\ op # "none" /\ op # "start" /\ op \in {"cancel"} \cup Steering
  BY <1>3 DEF Reloads, Steering
<1>6. PageTyped'
  BY <1>1, <1>2, <1>5 DEF PageInv, PageTyped
<1>7. phase'[r] = op /\ \A q \in Requests : q # r => phase'[q] = phase[q]
  BY <1>1 DEF PageInv, PageTyped
<1>8. r = h => HandlerOK(h)'
  <2>1. r = h => req'[h].pc = "idle"
    BY <1>2 DEF PageInv, HandlerOK
  <2> QED
    BY <1>5, <1>7, <2>1 DEF HandlerOK, Asking, Judging
<1>9. Live => ShownOK(h)' /\ ReadOK(h)'
  <2>1. Fresh(h)' => Fresh(h)
    BY <1>2, <1>7 DEF Fresh
  <2> QED
    BY <1>2, <1>5, <1>7, <2>1 DEF PageInv, ShownOK, ReadOK, Matches, Reloads
<1> QED
  BY <1>1, <1>2, <1>4, <1>5, <1>6, <1>8, <1>9, OnlyPhase

LEMMA ReloadKeepsPage ==
    ASSUME NEW h \in Requests, PageInv(h), TypeInv', NEW r \in Requests,
           ReadRun(r) \/ ReadSteps(r) \/ Show(r)
    PROVE  PageInv(h)'
<1>0. UNCHANGED <<run, def, steps, req>> /\ phase[r] \in Reloads
  BY DEF ReadRun, ReadSteps, Show, vars, Reloads
<1>1. r # h => Ended
  BY <1>0 DEF PageInv, OthersCancel
<1>2. req[h].pc = "idle" \/ r # h
  BY <1>0 DEF PageInv, HandlerOK
<1>3. IsDetail(NoDetail) /\ IsDetail(read[r]) /\ PageTyped
  BY DEF IsDetail, NoDetail, PageInv, PageTyped
<1>4. Ended => ~Live
  BY DEF Ended
<1>5. CASE ReadRun(r)
  <2> DEFINE d == [status |-> run.status, current |-> run.current, steps |-> << >>]
  <2>0. d = [NoDetail EXCEPT !.status = run.status, !.current = run.current]
    <3> DEFINE first == [NoDetail EXCEPT !.status = run.status]
    <3>1. first = [status |-> run.status, current |-> 0, steps |-> << >>]
      BY DEF NoDetail
    <3> HIDE DEF first
    <3>2. [first EXCEPT !.current = run.current] = d
      BY <3>1
    <3> QED
      BY <3>2 DEF first
  <2>1. /\ phase' = [phase EXCEPT ![r] = "load_steps"] /\ read' = [read EXCEPT ![r] = d]
        /\ shown' = shown
    BY <1>5, <2>0 DEF ReadRun
  <2>2. d.status = run.status /\ d.current = run.current /\ IsDetail(d)
    BY DEF IsDetail
  <2> HIDE DEF d
  <2>3. phase'[r] = "load_steps" /\ read'[r] = d
    BY <1>3, <2>1 DEF PageTyped
  <2>4. PageTyped'
    BY <1>3, <2>1, <2>2 DEF PageTyped, Reloads
  <2>5. r = h => HandlerOK(h)' /\ (ShownOK(h)' /\ ReadOK(h)')
    BY <1>0, <1>2, <2>2, <2>3 DEF HandlerOK, ShownOK, ReadOK, Fresh, Asking, Judging
  <2> QED
    BY <1>0, <1>1, <1>4, <2>1, <2>4, <2>5, OnlyPhase DEF Reloads
<1>6. CASE ReadSteps(r)
  <2> DEFINE d == [read[r] EXCEPT !.steps = steps]
  <2>1. /\ phase' = [phase EXCEPT ![r] = "loaded"] /\ read' = [read EXCEPT ![r] = d]
        /\ shown' = shown /\ phase[r] = "load_steps"
    BY <1>3, <1>6 DEF ReadSteps, PageTyped
  <2>2. d.status = read[r].status /\ d.current = read[r].current /\ d.steps = steps /\ IsDetail(d)
    BY <1>3 DEF IsDetail
  <2> HIDE DEF d
  <2>3. phase'[r] = "loaded" /\ read'[r] = d
    BY <1>3, <2>1 DEF PageTyped
  <2>4. PageTyped'
    BY <1>3, <2>1, <2>2 DEF PageTyped, Reloads
  <2>5. r = h => HandlerOK(h)' /\ (Live => ShownOK(h)' /\ ReadOK(h)')
    <3>1. r = h /\ Live => ReadOK(h)
      BY DEF PageInv
    <3> QED
      BY <1>0, <1>2, <2>1, <2>2, <2>3, <3>1
         DEF HandlerOK, ShownOK, ReadOK, Fresh, Asking, Judging, Matches
  <2> QED
    BY <1>0, <1>1, <1>4, <2>1, <2>4, <2>5, OnlyPhase DEF Reloads
<1>7. CASE Show(r)
  <2>1. /\ phase' = [phase EXCEPT ![r] = "none"] /\ read' = [read EXCEPT ![r] = NoDetail]
        /\ shown' = NoDetail \/ (phase[r] = "loaded" /\ shown' = read[r])
    BY <1>7 DEF Show
  <2>2. PageTyped'
    BY <1>3, <2>1 DEF PageTyped
  <2>3. phase'[r] = "none"
    BY <1>3, <2>1 DEF PageTyped
  <2>4. r = h => HandlerOK(h)' /\ (Live => ShownOK(h)' /\ ReadOK(h)')
    <3>1. r = h /\ Live => ReadOK(h)
      BY DEF PageInv
    <3> QED
      BY <1>0, <1>2, <2>1, <2>3, <3>1 DEF HandlerOK, ShownOK, ReadOK, Asking, Judging, Matches
  <2> QED
    BY <1>0, <1>1, <1>4, <2>1, <2>2, <2>4, OnlyPhase
<1> QED
  BY <1>5, <1>6, <1>7

\* A call that h makes goes through the engine's first statements.
LEMMA CallsEnter ==
    ASSUME TypeInv, NEW h \in Requests,
           Start(h) \/ Advance(h) \/ ReceiveDecision(h)
    PROVE  /\ Engine(h) /\ OthersKeep(h)
           /\ Start(h) => req'[h].pc = "create_steps"
           /\ Advance(h) => req'[h].pc = "advance"
           /\ ReceiveDecision(h) => req'[h].pc = "load_gate" /\ UNCHANGED <<run, steps>>
<1>1. Start(h) => OthersKeep(h) /\ req'[h].pc = "create_steps"
  BY GotoStays DEF Start, Stays
<1>2. Advance(h) => OthersKeep(h) /\ req'[h].pc = "advance"
  BY DEF Advance, TypeInv, OthersKeep, Idle
<1>3. ReceiveDecision(h) =>
         OthersKeep(h) /\ req'[h].pc = "load_gate" /\ UNCHANGED <<run, steps>>
  BY DEF ReceiveDecision, TypeInv, OthersKeep, Idle, tables
<1> QED
  BY <1>1, <1>2, <1>3 DEF Engine, Starting, Advancing, Deciding

LEMMA ReceiveKeepsPage ==
    ASSUME NEW h \in Requests, OneHandler(h), PageInv(h), TypeInv', NEW r \in Requests,
           Receive(r)
    PROVE  PageInv(h)'
<1>0. TypeInv /\ PageTyped /\ read' = read /\ shown' = shown /\ phase[r] \in Operations
        /\ req[r].pc = "idle"
  BY DEF PageInv, Receive, At
<1>1. r # h => phase[r] = "cancel"
  BY <1>0 DEF PageInv, OthersCancel, Operations, Reloads
<1>2. CASE ~Admits(phase[r]) /\ phase' = [phase EXCEPT ![r] = AfterFailure(@)] /\ UNCHANGED vars
  <2> DEFINE p == AfterFailure(phase[r])
  <2>1. phase' = [phase EXCEPT ![r] = p] /\ p \in {"none", "load"}
          /\ (p = "load" => phase[r] = "advance")
    BY <1>0, <1>2 DEF AfterFailure, PageTyped
  <2> HIDE DEF p
  <2>2. UNCHANGED <<run, def, steps, req>>
    BY <1>2 DEF vars
  <2>3. phase'[r] = p /\ PageTyped'
    BY <1>0, <2>1 DEF PageTyped, Reloads
  <2>4. r = h => HandlerOK(h)'
    BY <1>0, <2>1, <2>2, <2>3 DEF HandlerOK, Asking, Judging
  <2>5. Live => phase[r] # "cancel"
    BY <1>2 DEF Admits, Live, Cancellable
  <2>6. phase[r] # "start"
    BY <1>2 DEF Admits
  <2>7. Live => ShownOK(h)' /\ ReadOK(h)'
    <3>1. CASE r # h
      BY <1>0, <1>1, <2>5, <3>1
    <3>2. CASE r = h /\ Live
      <4>1. phase[h] \in {"advance", "approve", "reject"}
        BY <1>0, <2>5, <2>6, <3>2 DEF PageTyped, Steering, Reloads, Operations
      <4>2. Fresh(h)' => Fresh(h)
        BY <1>0, <1>2, <2>1, <2>3, <3>2, <4>1 DEF Fresh, p, AfterFailure
      <4> QED
        BY <1>0, <2>1, <2>2, <2>3, <3>2, <4>2 DEF PageInv, ShownOK, ReadOK, Matches
    <3> QED
      BY <3>1, <3>2
  <2> QED
    BY <1>1, <2>1, <2>2, <2>3, <2>4, <2>7, OnlyPhase DEF Reloads
<1>3. CASE Cancel(r) /\ phase' = [phase EXCEPT ![r] = "load"]
  <2>1. Ended' /\ ~Live' /\ req' = req
    BY <1>0, <1>3 DEF Cancel, Ended, Live, TypeInv, RowsOK, RunType
  <2>2. \A q \in Requests : phase'[q] = IF q = r THEN "load" ELSE phase[q]
    BY <1>0, <1>3 DEF PageTyped
  <2>3. PageTyped'
    BY <1>0, <1>3 DEF PageTyped, Reloads
  <2>4. OthersCancel(h)'
    BY <2>1, <2>2, OthersStayDone DEF Reloads
  <2>5. HandlerOK(h)'
    BY <1>0, <2>1, <2>2 DEF PageInv, HandlerOK, Asking, Judging
  <2> QED
    BY <2>1, <2>3, <2>4, <2>5 DEF PageInv
<1>4. CASE /\ phase' = phase
           /\ \/ phase[r] = "start" /\ Start(r)
              \/ phase[r] = "advance" /\ Advance(r)
              \/ phase[r] \in {"approve", "reject"} /\ ReceiveDecision(r)
  <2>1. r = h
    BY <1>1, <1>4
  <2>2. Engine(h) /\ OthersKeep(h)
    BY <1>0, <1>4, <2>1, CallsEnter
  <2>3. \/ phase[h] = "start" /\ req'[h].pc = "create_steps"
        \/ phase[h] = "advance" /\ req'[h].pc = "advance"
        \/ /\ phase[h] \in {"approve", "reject"} /\ req'[h].pc = "load_gate"
           /\ UNCHANGED <<run, steps>>
    BY <1>0, <1>4, <2>1, CallsEnter
  <2>4. PageTyped' /\ HandlerOK(h)'
    BY <1>0, <1>4, <2>3 DEF PageTyped, HandlerOK, Reloads, Asking, Judging
  <2>5. OthersCancel(h)'
    BY <1>0, <1>4, <2>2, EndsOnce, OthersStayDone DEF OthersKeep
  <2>6. Live' => Steered(req[h])'
    BY <1>0, <2>2, EngineIsSteered DEF PageInv
  <2>7. Live' => ShownOK(h)' /\ ReadOK(h)'
    <3>1. Fresh(h)' => Fresh(h) /\ UNCHANGED <<run, steps>>
      BY <1>0, <1>4, <2>1, <2>3 DEF Fresh, Judging
    <3> QED
      BY <1>0, <1>4, <2>3, <3>1 DEF PageInv, ShownOK, ReadOK, Matches, Live
  <2> QED
    BY <2>4, <2>5, <2>6, <2>7 DEF PageInv
<1> QED
  BY <1>2, <1>3, <1>4 DEF Receive

LEMMA WorkKeepsPage ==
    ASSUME NEW h \in Requests, PageInv(h), TypeInv', NEW r \in Requests, Work(r)
    PROVE  PageInv(h)'
<1>0. TypeInv /\ PageTyped /\ read' = read /\ shown' = shown /\ ~At(h, "idle") /\ r = h
  BY DEF PageInv, Work, OthersCancel, At
<1>1. phase[h] \in Steering
  BY <1>0 DEF PageInv, HandlerOK, PageTyped, At
<1>2. Live' => Steered(req[h])'
  BY <1>0, EngineIsSteered DEF Work, Engine, PageInv
<1>3. Ended => Ended'
  BY <1>0, EndsOnce DEF Work, Engine
<1>4. CASE /\ Engine(h)
           /\ phase' = [phase EXCEPT ![h] = IF req'[h].pc = "idle" THEN "load" ELSE @]
  <2>1. /\ OthersKeep(h)
        /\ req'[h].pc \in Asking => req[h].pc \in Asking
        /\ req'[h].pc \in Judging => req[h].pc \in Judging /\ UNCHANGED <<run, steps>>
    BY <1>0, <1>4, ComesFrom
  <2>2. phase'[h] = IF req'[h].pc = "idle" THEN "load" ELSE phase[h]
    BY <1>0, <1>4 DEF PageTyped
  <2>3. \A q \in Requests \ {h} : phase'[q] = phase[q]
    BY <1>0, <1>4 DEF PageTyped
  <2>4. PageTyped'
    BY <1>0, <1>1, <1>4 DEF PageTyped, Reloads
  <2>5. HandlerOK(h)'
    BY <1>1, <2>1, <2>2 DEF PageInv, HandlerOK, Steering, Reloads
  <2>6. OthersCancel(h)'
    BY <1>0, <1>3, <2>1, <2>3, OthersStayDone DEF OthersKeep
  <2>7. Live' => ShownOK(h)' /\ ReadOK(h)'
    <3>1. Fresh(h)' => Fresh(h) /\ UNCHANGED <<run, steps>>
      BY <1>1, <2>1, <2>2 DEF Fresh, Steering
    <3> QED
      BY <1>0, <1>1, <2>2, <3>1 DEF PageInv, ShownOK, ReadOK, Matches, Live, Steering
  <2> QED
    BY <1>2, <2>4, <2>5, <2>6, <2>7 DEF PageInv
<1>5. CASE Refuse(h) /\ phase' = [phase EXCEPT ![h] = AfterFailure(@)]
  <2>1. /\ OthersKeep(h) /\ req'[h].pc = "idle" /\ UNCHANGED <<run, steps>>
        /\ req[h].pc \in Asking \cup Judging
    BY <1>0, <1>5, ReplyEffect DEF Refuse, tables, Idle, At, Asking, Judging
  <2>2. phase[h] \in {"advance", "approve", "reject"}
          /\ (phase[h] # "advance" => req[h].pc \in Judging)
    BY <1>1, <2>1 DEF PageInv, HandlerOK, Steering
  <2>3. phase'[h] = IF phase[h] = "advance" THEN "load" ELSE "none"
    BY <1>0, <1>5 DEF PageTyped, AfterFailure
  <2>4. \A q \in Requests \ {h} : phase'[q] = phase[q]
    BY <1>0, <1>5 DEF PageTyped
  <2>5. PageTyped'
    BY <1>0, <1>5 DEF PageTyped, AfterFailure, Reloads
  <2>6. HandlerOK(h)'
    BY <2>1, <2>3 DEF HandlerOK, Asking, Judging
  <2>7. OthersCancel(h)'
    BY <1>0, <1>3, <2>1, <2>4, OthersStayDone DEF OthersKeep
  <2>8. Live' => ShownOK(h)' /\ ReadOK(h)'
    <3>1. Fresh(h)' => Fresh(h)
      BY <2>2, <2>3 DEF Fresh
    <3> QED
      BY <1>0, <2>1, <2>3, <3>1 DEF PageInv, ShownOK, ReadOK, Matches, Live
  <2> QED
    BY <1>2, <2>5, <2>6, <2>7, <2>8 DEF PageInv
<1> QED
  BY <1>0, <1>4, <1>5 DEF Work, Engine

LEMMA ReviewKeepsPage ==
    ASSUME NEW h \in Requests, PageInv(h), TypeInv', NEW r \in Requests, OtherPerson(r)
    PROVE  PageInv(h)'
<1>1. UNCHANGED <<run, def, steps, req, phase, read, shown>>
  BY DEF OtherPerson, ReviewDirectly, pageVars
<1> QED
  BY <1>1, SameRun
     DEF PageInv, PageTyped, OthersCancel, HandlerOK, ShownOK, ReadOK, Fresh, Matches

LEMMA PageInvStep ==
    ASSUME NEW h \in Requests, OneHandler(h)
    PROVE  PageInv(h) /\ [PageNext]_<<vars, pageVars>> => PageInv(h)'
<1> SUFFICES ASSUME PageInv(h), [PageNext]_<<vars, pageVars>> PROVE PageInv(h)'
  OBVIOUS
<1>0. TypeInv'
  BY PageStepsAreSteps, TypeInvStep DEF PageInv, vars
<1>1. CASE PageNext
  <2>1. PICK r \in Requests :
           \/ Click(r) \/ Receive(r) \/ Work(r)
           \/ ReadRun(r) \/ ReadSteps(r) \/ Show(r) \/ OtherPerson(r)
    BY <1>1 DEF PageNext
  <2> QED
    BY <1>0, <2>1, ClickKeepsPage, ReceiveKeepsPage, WorkKeepsPage, ReloadKeepsPage,
       ReviewKeepsPage
<1>2. CASE UNCHANGED <<vars, pageVars>>
  <2>1. UNCHANGED <<run, def, steps, req, phase, read, shown>>
    BY <1>2 DEF vars, pageVars
  <2> QED
    BY <1>0, <2>1, SameRun
       DEF PageInv, PageTyped, OthersCancel, HandlerOK, ShownOK, ReadOK, Fresh, Matches
<1> QED
  BY <1>1, <1>2

LEMMA InitPage ==
    ASSUME NEW h \in Requests, OneHandler(h)
    PROVE  PageInit => PageInv(h)
<1> SUFFICES ASSUME PageInit PROVE PageInv(h)
  OBVIOUS
<1>1. TypeInv /\ run.status = "none"
  BY InitTyped DEF PageInit, Init
<1>2. \A r \in Requests : req[r].pc = "idle"
  BY DEF PageInit, Init, Idle
<1>3. PageTyped
  <2>1. IsDetail(NoDetail)
    BY DEF IsDetail, NoDetail
  <2> QED
    BY <2>1 DEF PageInit, PageTyped, Steering
<1>4. \A r \in Requests : phase[r] \in {"start", "none"} /\ (r # h => phase[r] = "none")
  BY DEF PageInit, OneHandler, Steering
<1>5. OthersCancel(h) /\ HandlerOK(h)
  BY <1>2, <1>4 DEF OthersCancel, HandlerOK, Reloads, Asking, Judging
<1> QED
  BY <1>1, <1>3, <1>5 DEF PageInv, Live

LEMMA PageInvAlways ==
    ASSUME NEW h \in Requests, OneHandler(h)
    PROVE  PageSpec => []PageInv(h)
<1>1. PageInit => PageInv(h)
  BY InitPage
<1>2. PageInv(h) /\ [PageNext]_<<vars, pageVars>> => PageInv(h)'
  BY PageInvStep
<1> QED
  BY <1>1, <1>2, PTL DEF PageSpec

(***************************************************************************)
(* What waits at a gate.  The entity shown there was generated after every *)
(* decision of the trail, so whoever has decided it did so elsewhere.      *)
(***************************************************************************)
\* The gates whose page names the entity of the newest output row.
ByLastOutput == {"content_idea", "layout_plan", "creative_qa"}
TrailIsMade == \A i \in DOMAIN approvals : approvals[i].ent \in Made
TrailBehind == \A i \in DOMAIN approvals : approvals[i].ent < Len(entities)
\* A gate that is open, or can open, is to be reached over a new generation first.
ToRegenerate(g) ==
    /\ def[g].returnTo # 0 /\ def[g].gate # "brand_profile_future"
    /\ steps[RevisionTarget(def[g].returnTo)].status # "completed"
TrailOK ==
    \A g \in Orders : IsGate(g) /\ steps[g].status \in {"pending", "waiting_for_approval"} =>
        TrailBehind \/ ToRegenerate(g)

Handing(q) == q.pc \in {"complete", "output"} /\ def[q.at].kind = "generate"
HandsOK(q) ==
    /\ q.pc \in {"advance", "skip", "begin", "execute"} => q.ent = 0
    /\ Handing(q) => q.ent = Len(entities)
    /\ Handing(q) /\ q.pc = "complete" => TrailBehind
    /\ q.pc = "complete" /\ ~Handing(q) /\ GateOf(def) \in ByLastOutput => q.ent = 0
    /\ q.pc = "output" /\ GateOf(def) \in ByLastOutput => Handing(q)
    /\ q.pc = "approved_output" => IsGate(q.at) /\ steps[q.at].status = "approved"
Unapproved == \A g \in Orders : IsGate(g) => steps[g].status # "approved"
LatestOK(q) ==
    GateOf(def) \in ByLastOutput /\ Unapproved /\ ~Handing(q) /\ Len(entities) # 0 =>
        outputs # << >> /\ outputs[Len(outputs)].ent = Len(entities)

FreshInv(h) ==
    /\ Orders = {} => Len(entities) = 0
    /\ TrailIsMade /\ TrailOK
    /\ HandsOK(req[h]) /\ LatestOK(req[h])

\* Statements that write at most one step row, and no entity, output or approval anew.
LEMMA FreshFrame ==
    ASSUME NEW h \in Requests, OrderInv, FreshInv(h),
           UNCHANGED <<def, outputs, approvals>>, Len(entities') = Len(entities),
           Orders' = Orders,
           \A t \in Orders : steps'[t] # steps[t] =>
              /\ steps[t].status # "approved" /\ steps'[t].status # "pending"
              /\ steps'[t].status = "waiting_for_approval" => steps[t].status = "pending"
              /\ steps'[t].status = "completed" /\ def[t].kind = "generate" => TrailBehind,
           Handing(req[h]) => Handing(req'[h]), HandsOK(req[h])'
    PROVE  FreshInv(h)'
<1>0. TypeInv /\ TrailIsMade /\ TrailOK /\ LatestOK(req[h])
  BY OrderTypes DEF FreshInv
<1>1. TrailIsMade' /\ (TrailBehind' <=> TrailBehind)
  BY <1>0 DEF TrailIsMade, TrailBehind, Made
<1>2. TrailOK'
  <2> SUFFICES ASSUME NEW g \in Orders, IsGate(g),
                      steps'[g].status \in {"pending", "waiting_for_approval"},
                      ~TrailBehind
               PROVE  ToRegenerate(g)'
    BY <1>1 DEF TrailOK, IsGate
  <2> DEFINE target == RevisionTarget(def[g].returnTo)
  <2>1. steps[g].status \in {"pending", "waiting_for_approval"}
    OBVIOUS
  <2>2. def[g].returnTo # 0 /\ def[g].gate # "brand_profile_future"
          /\ steps[target].status # "completed"
    BY <1>0, <2>1 DEF TrailOK, ToRegenerate
  <2>3. target \in Orders /\ def[target].kind = "generate"
    BY <1>0, <2>2, TargetRegenerates DEF IsGate
  <2>4. RevisionTarget(def[g].returnTo)' = target
    BY DEF RevisionTarget
  <2>5. steps'[target].status # "completed"
    BY <2>2, <2>3
  <2> QED
    BY <2>2, <2>4, <2>5 DEF ToRegenerate
<1>3. LatestOK(req[h])'
  <2>1. Unapproved' => Unapproved
    BY DEF Unapproved, IsGate
  <2>2. Handing(req[h])' <=> Handing(req'[h])
    BY DEF Handing
  <2>3. outputs' = outputs /\ GateOf(def)' = GateOf(def)
    BY DEF GateOf
  <2> QED
    BY <1>0, <2>1, <2>2, <2>3 DEF LatestOK
<1>4. Orders' = {} => Len(entities') = 0
  BY DEF FreshInv
<1> QED
  BY <1>1, <1>2, <1>3, <1>4 DEF FreshInv

LEMMA FreshStarting ==
    ASSUME NEW h \in Requests, OrderInv, FreshInv(h), Starting(h)
    PROVE  FreshInv(h)'
<1>0. FutureInv /\ RowsTaken /\ TypeInv
  BY OrderTypes DEF OrderInv, FutureInv, ClaimInv
<1>1. CASE Start(h)
  <2>1. /\ Orders = {} /\ Orders' = {} /\ UNCHANGED <<entities, outputs, approvals>>
        /\ req'[h].pc = "create_steps"
    BY <1>0, <1>1, StartEffect DEF Start, Stays
  <2>2. DOMAIN approvals = {}
    BY <1>0, <2>1 DEF RowsTaken, Taken
  <2>3. HandsOK(req[h])'
    BY <2>1 DEF HandsOK, Handing
  <2> QED
    BY <2>1, <2>2, <2>3 DEF FreshInv, TrailIsMade, TrailOK, LatestOK
<1>2. CASE CreateSteps(h)
  <2>1. /\ Orders = {} /\ Orders' # {} /\ UNCHANGED <<entities, outputs, approvals>>
        /\ req'[h].pc = "arm"
    BY <1>0, <1>2, CreateStepsEffect DEF CreateSteps, Idle
  <2>2. DOMAIN approvals = {} /\ Len(entities) = 0
    BY <1>0, <2>1 DEF RowsTaken, Taken, FreshInv
  <2>3. HandsOK(req[h])'
    BY <2>1 DEF HandsOK, Handing
  <2> QED
    BY <2>1, <2>2, <2>3 DEF FreshInv, TrailIsMade, TrailBehind, TrailOK, LatestOK
<1> QED
  BY <1>1, <1>2 DEF Starting

LEMMA FreshExecute ==
    ASSUME NEW h \in Requests, OrderInv, LowInv, FreshInv(h), Execute(h)
    PROVE  FreshInv(h)'
<1> DEFINE s == req[h].at
<1>0. /\ TypeInv /\ UNCHANGED <<run, def, steps, outputs, approvals>> /\ Orders' = Orders
      /\ req[h].pc = "execute" /\ req[h].ent = 0 /\ ~Handing(req[h])
  BY OrderTypes DEF Execute, At, FreshInv, HandsOK, Handing, Orders
<1>1. \A label : Goto(h, label) =>
         req'[h].pc = label /\ req'[h].at = s /\ req'[h].ent = req[h].ent
  BY <1>0, GotoStays DEF Stays
<1>2. ASSUME NEW e, req' = [req EXCEPT ![h].pc = "complete", ![h].ent = e]
      PROVE  req'[h].pc = "complete" /\ req'[h].at = s /\ req'[h].ent = e
  BY <1>0, <1>2 DEF TypeInv, Request
<1>3. CASE Generate(h)
  <2>1. PICK low \in BOOLEAN : entities' = Append(entities, [status |-> "generated", low |-> low])
    BY <1>3 DEF Generate
  <2>2. EntitiesGrow /\ Len(entities') = Len(entities) + 1
    BY <1>0, <2>1, GeneratedEntityGrows
  <2>3. def[s].kind = "generate" /\ req'[h].pc = "complete" /\ req'[h].at = s
          /\ req'[h].ent = Len(entities')
    BY <1>2, <1>3, <2>2 DEF Generate
  <2>4. TrailIsMade' /\ TrailBehind'
    BY <1>0, <2>2 DEF FreshInv, TrailIsMade, TrailBehind, Made, EntitiesGrow
  <2>5. Handing(req[h])'
    BY <1>0, <2>3 DEF Handing
  <2>6. HandsOK(req[h])'
    BY <2>3, <2>4, <2>5 DEF HandsOK
  <2>7. Orders # {}
    BY <1>0, WorksOnStep DEF WithoutStep
  <2> QED
    BY <1>0, <2>4, <2>5, <2>6, <2>7 DEF FreshInv, TrailOK, LatestOK
<1>4. CASE ~Generate(h)
  <2>1. entities' = entities
    BY <1>4 DEF Execute, RecordContext, ReadGenerated, VerifyApproved, Throw
  <2>2. \/ req'[h].pc \in {"note", "fail"}
        \/ /\ req'[h].pc = "complete" /\ req'[h].at = s /\ def[s].kind # "generate"
           /\ GateOf(def) \in ByLastOutput => req'[h].ent = 0
    <3>1. CASE RecordContext(h) \/ Throw(h)
      BY <1>0, <1>1, <3>1 DEF RecordContext, Throw
    <3>2. CASE ReadGenerated(h)
      BY <1>0, <1>1, <1>2, <3>2
         DEF ReadGenerated, ReadQaFact, VerifyGeneratedDna, ByLastOutput
    <3>3. CASE VerifyApproved(h)
      <4>1. PICK e : req' = [req EXCEPT ![h].pc = "complete",
                        ![h].ent = IF GateOf(def) \in {"design_dna", "design_brief"}
                                   THEN e ELSE 0]
        BY <3>3 DEF VerifyApproved
      <4> QED
        BY <1>2, <3>3, <4>1 DEF VerifyApproved, ByLastOutput
    <3> QED
      BY <1>4, <3>1, <3>2, <3>3 DEF Execute
  <2>3. HandsOK(req[h])' /\ ~Handing(req[h])'
    BY <1>0, <2>2 DEF HandsOK, Handing, GateOf
  <2> QED
    BY <1>0, <2>1, <2>3, FreshFrame
<1> QED
  BY <1>3, <1>4

LEMMA FreshOutput ==
    ASSUME NEW h \in Requests, OrderInv, FreshInv(h), RecordOutput(h)
    PROVE  FreshInv(h)'
<1> DEFINE s == req[h].at
<1>0. /\ TypeInv /\ UNCHANGED <<run, def, steps, entities, approvals>> /\ Orders' = Orders
      /\ req[h].pc = "output" /\ outputs' = Append(outputs, OutputRow(h))
  BY OrderTypes DEF RecordOutput, At, Orders
<1>1. req'[h].pc \in {"merge", "arm"}
  BY <1>0, GotoStays, ArmEffect DEF RecordOutput, Stays, Idle
<1>2. HandsOK(req[h])'
  BY <1>1 DEF HandsOK, Handing
<1>3. outputs \in Seq(OutputType) /\ outputs' # << >>
        /\ outputs'[Len(outputs')] = OutputRow(h)
  <2> DEFINE row == OutputRow(h)
  <2>1. outputs \in Seq(OutputType) /\ outputs' = Append(outputs, row)
    BY <1>0 DEF TypeInv, RowsOK
  <2> HIDE DEF row
  <2>2. Len(outputs) \in Nat /\ Len(outputs') = Len(outputs) + 1
          /\ outputs'[Len(outputs) + 1] = row
    BY <2>1, AppendedRow
  <2>3. outputs' # << >>
    BY <2>1, <2>2
  <2> QED
    BY <2>1, <2>2, <2>3 DEF row
<1>4. LatestOK(req[h])'
  <2>1. GateOf(def) \in ByLastOutput => req[h].ent = Len(entities)
    BY <1>0 DEF FreshInv, HandsOK
  <2>2. OutputRow(h).ent = req[h].ent
    BY DEF OutputRow
  <2> QED
    BY <1>0, <1>3, <2>1, <2>2 DEF LatestOK, GateOf
<1>5. TrailIsMade' /\ TrailOK'
  <2>1. TrailIsMade /\ TrailOK
    BY DEF FreshInv
  <2>2. TrailBehind' <=> TrailBehind
    BY <1>0 DEF TrailBehind
  <2>3. \A g : (ToRegenerate(g)' <=> ToRegenerate(g)) /\ (IsGate(g)' <=> IsGate(g))
    BY <1>0 DEF ToRegenerate, RevisionTarget, IsGate
  <2>4. TrailIsMade'
    BY <1>0, <2>1 DEF TrailIsMade, Made
  <2>5. TrailOK'
    BY <1>0, <2>1, <2>2, <2>3 DEF TrailOK
  <2> QED
    BY <2>4, <2>5
<1> QED
  BY <1>0, <1>2, <1>4, <1>5 DEF FreshInv

LEMMA FreshAdvancing ==
    ASSUME NEW h \in Requests, OrderInv, RevInv, LowInv, FreshInv(h), Advancing(h)
    PROVE  FreshInv(h)'
<1> DEFINE s == req[h].at
<1>0. TypeInv /\ HandsOK(req[h]) /\ MakesRight(h)
  BY OrderTypes DEF FreshInv, RevInv
<1>1. req[h].pc \notin WithoutStep => s \in Orders
  BY <1>0, WorksOnStep
<1>2. \A label : Goto(h, label) =>
         req'[h].pc = label /\ req'[h].at = s /\ req'[h].ent = req[h].ent
  BY <1>0, GotoStays DEF Stays
<1>3. Arm(h) => req'[h].pc = "arm"
  BY <1>0, ArmEffect DEF Idle
<1>4. CASE Advance(h) \/ ReadStep(h) \/ MergeOutput(h)
  <2>1. UNCHANGED <<def, steps, entities, outputs, approvals>> /\ Orders' = Orders
    BY <1>4 DEF Advance, ReadStep, MergeOutput, tables, Orders
  <2>2. req[h].pc \in {"idle", "advance", "merge"}
    BY <1>4 DEF Advance, ReadStep, MergeOutput, Receives, At
  <2>3. \/ req'[h].pc = "arm"
        \/ req'[h].pc \in {"advance", "skip", "begin"} /\ req'[h].ent = 0
    <3>1. CASE Advance(h)
      BY <1>0, <3>1 DEF Advance, TypeInv, Idle
    <3>2. CASE ReadStep(h)
      <4>1. req[h].ent = 0
        BY <1>0, <3>2 DEF ReadStep, At, HandsOK
      <4> QED
        BY <1>2, <1>3, <3>2, <4>1 DEF ReadStep
    <3> QED
      BY <1>3, <1>4, <3>1, <3>2 DEF MergeOutput
  <2>4. ~Handing(req[h]) /\ HandsOK(req[h])'
    BY <2>2, <2>3 DEF Handing, HandsOK
  <2> QED
    BY <2>1, <2>4, FreshFrame
<1>5. CASE Skip(h) \/ SkipWithNote(h) \/ FailStep(h) \/ Begin(h)
  <2>1. /\ s \in Orders /\ UNCHANGED <<def, entities, outputs, approvals>>
        /\ req[h].pc \in {"skip", "note", "fail", "begin"}
    BY <1>1, <1>5 DEF Skip, SkipWithNote, FailStep, Begin, At, WithoutStep
  <2>2. \/ UNCHANGED steps
        \/ /\ steps[s].status \in {"pending", "in_progress"}
           /\ \E x \in {"skipped", "failed", "in_progress"} : SetStep(s, x)
    BY <1>5 DEF Skip, SkipWithNote, FailStep, Begin
  <2>3. /\ Orders' = Orders
        /\ \A t \in Orders : steps'[t] # steps[t] =>
              /\ steps[t].status # "approved"
              /\ steps'[t].status \in {"skipped", "failed", "in_progress"}
    <3>1. CASE UNCHANGED steps
      BY <3>1 DEF Orders
    <3>2. ASSUME NEW x \in {"skipped", "failed", "in_progress"}, SetStep(s, x),
                 steps[s].status \in {"pending", "in_progress"}
          PROVE  /\ Orders' = Orders
                 /\ \A t \in Orders : steps'[t] # steps[t] =>
                       /\ steps[t].status # "approved"
                       /\ steps'[t].status \in {"skipped", "failed", "in_progress"}
      BY <1>0, <2>1, <3>2, SetStepEffect
    <3> QED
      BY <2>2, <3>1, <3>2
  <2>4. req'[h].pc \in {"arm", "mark"} \/ (req'[h].pc = "execute" /\ req'[h].ent = 0)
    <3>1. CASE Begin(h)
      <4>1. req[h].ent = 0
        BY <1>0, <3>1 DEF Begin, At, HandsOK
      <4>2. req'[h].pc = "execute" /\ req'[h].ent = req[h].ent
        BY <1>0, <3>1 DEF Begin, TypeInv, Request
      <4> QED
        BY <4>1, <4>2
    <3>2. CASE FailStep(h)
      BY <1>0, <3>2, ArmToEffect DEF FailStep
    <3> QED
      BY <1>3, <1>5, <3>1, <3>2 DEF Skip, SkipWithNote
  <2>5. ~Handing(req[h]) /\ HandsOK(req[h])'
    BY <2>1, <2>4 DEF Handing, HandsOK
  <2> QED
    BY <2>1, <2>3, <2>5, FreshFrame
<1>6. CASE Execute(h)
  BY <1>6, FreshExecute
<1>7. CASE Complete(h)
  <2>1. /\ s \in Orders /\ UNCHANGED <<def, entities, outputs, approvals>>
        /\ req[h].pc = "complete" /\ def[s].kind \in Executable /\ ~IsGate(s)
    BY <1>1, <1>7 DEF Complete, At, WithoutStep, OrderInv, Right, Running, Executable, IsGate
  <2>2. UNCHANGED steps \/ (steps[s].status = "in_progress" /\ SetStep(s, "completed"))
    BY <1>7 DEF Complete
  <2>3. /\ Orders' = Orders
        /\ \A t \in Orders : steps'[t] # steps[t] =>
              t = s /\ steps[t].status = "in_progress" /\ steps'[t].status = "completed"
    <3>1. CASE UNCHANGED steps
      BY <3>1 DEF Orders
    <3>2. CASE SetStep(s, "completed") /\ steps[s].status = "in_progress"
      BY <1>0, <2>1, <3>2, SetStepEffect
    <3> QED
      BY <2>2, <3>1, <3>2
  <2>4. def[s].kind = "generate" => TrailBehind /\ req[h].ent = Len(entities) /\ req[h].ent # 0
    BY <1>0, <2>1 DEF HandsOK, Handing, MakesRight, Making
  <2>5. req[h].ent # 0 => req'[h].pc = "output" /\ req'[h].at = s /\ req'[h].ent = req[h].ent
    BY <1>2, <1>7 DEF Complete
  <2>6. req[h].ent = 0 => req'[h].pc = "arm"
    BY <1>3, <1>7 DEF Complete
  <2>7. (Handing(req[h]) => Handing(req'[h])) /\ HandsOK(req[h])'
    <3>1. CASE req[h].ent = 0
      BY <2>1, <2>4, <2>6, <3>1 DEF Handing, HandsOK
    <3>2. CASE req[h].ent # 0
      <4>1. GateOf(def) \in ByLastOutput => def[s].kind = "generate"
        BY <1>0, <2>1, <3>2 DEF HandsOK, Handing
      <4> QED
        BY <2>1, <2>4, <2>5, <3>2, <4>1 DEF Handing, HandsOK, GateOf
    <3> QED
      BY <3>1, <3>2
  <2> QED
    BY <2>1, <2>3, <2>4, <2>7, FreshFrame
<1>8. CASE RecordOutput(h)
  BY <1>8, FreshOutput
<1> QED
  BY <1>4, <1>5, <1>6, <1>7, <1>8 DEF Advancing

LEMMA FreshArming ==
    ASSUME NEW h \in Requests, OrderInv, FreshInv(h), Arming(h)
    PROVE  FreshInv(h)'
<1> DEFINE s == req[h].at
<1>0. TypeInv /\ UNCHANGED <<def, entities, outputs, approvals>>
  BY OrderTypes DEF Arming, ArmNextStep, ReadReport, OpenGate, SetCurrentStep, MarkRun, tables
<1>1. req[h].pc \in {"arm", "arm_report", "arm_gate", "arm_current", "mark"}
  BY DEF Arming, ArmNextStep, ReadReport, OpenGate, SetCurrentStep, MarkRun, At
<1>2. req'[h].pc \in {"arm_report", "arm_gate", "arm_current", "mark", "idle"}
  BY <1>0, ArmToEffect, GotoStays, ReplyEffect
     DEF Arming, ArmNextStep, ReadReport, OpenGate, SetCurrentStep, MarkRun, Stays, Idle
<1>3. \/ UNCHANGED steps
      \/ /\ req[h].pc = "arm_gate" /\ steps[s].status = "pending"
         /\ SetStep(s, "waiting_for_approval")
  BY DEF Arming, ArmNextStep, ReadReport, OpenGate, SetCurrentStep, MarkRun, tables, At
<1>4. /\ Orders' = Orders
      /\ \A t \in Orders : steps'[t] # steps[t] =>
            steps[t].status = "pending" /\ steps'[t].status = "waiting_for_approval"
  <2>1. CASE UNCHANGED steps
    BY <2>1 DEF Orders
  <2>2. CASE /\ req[h].pc = "arm_gate" /\ steps[s].status = "pending"
             /\ SetStep(s, "waiting_for_approval")
    BY <1>0, <2>2, WorksOnStep, SetStepEffect DEF WithoutStep
  <2> QED
    BY <1>3, <2>1, <2>2
<1>5. ~Handing(req[h]) /\ HandsOK(req[h])'
  BY <1>1, <1>2 DEF Handing, HandsOK
<1> QED
  BY <1>0, <1>4, <1>5, FreshFrame

\* The audit row names an entity that is there, and the gate is decided by then.
LEMMA FreshAudit ==
    ASSUME NEW h \in Requests, OrderInv, LowInv, FreshInv(h), RecordDecision(h)
    PROVE  FreshInv(h)'
<1> DEFINE s == req[h].at
           row == [step |-> s, rev |-> req[h].rev, seen |-> req[h].seen, ent |-> req[h].ent,
                   decision |-> req[h].decision]
<1>0. /\ TypeInv /\ UNCHANGED <<run, def, steps, entities, outputs>> /\ Orders' = Orders
      /\ req[h].pc = "audit" /\ approvals' = Append(approvals, row)
  BY OrderTypes DEF RecordDecision, At, Orders
<1>1. /\ req'[h].pc \in {"approved_output", "reset", "mark"}
      /\ req'[h].pc = "approved_output" => req'[h].at = s /\ req[h].decision = "approved"
  BY <1>0, GotoStays, ArmToEffect DEF RecordDecision, Stays
<1>2. ~Handing(req[h]) /\ ~Handing(req[h])' /\ HandsOK(req[h])'
  <2>1. IsGate(s) /\ steps[s].status = req[h].decision
    BY <1>0 DEF OrderInv, Right, IsGate
  <2> QED
    BY <1>0, <1>1, <2>1 DEF Handing, HandsOK, IsGate
<1>3. TrailIsMade'
  <2>1. req[h].ent \in Made /\ row.ent = req[h].ent
    BY <1>0 DEF LowInv, AllNamed, Named, WithEntity
  <2>2. approvals \in Seq(ApprovalType)
    BY <1>0 DEF TypeInv, RowsOK
  <2> HIDE DEF row
  <2>3. \A i \in DOMAIN approvals' :
           (i \in DOMAIN approvals /\ approvals'[i] = approvals[i]) \/ approvals'[i] = row
    BY <1>0, <2>2, AppendedRow
  <2> QED
    BY <1>0, <2>1, <2>3 DEF FreshInv, TrailIsMade, Made
<1>4. TrailOK'
  <2>1. /\ s \in Orders /\ IsGate(s) /\ steps[s].status = req[h].decision
        /\ req[h].decision \in {"approved", "rejected"}
    BY <1>0, WorksOnStep DEF OrderInv, Right, IsGate, WithoutStep, TypeInv, LocalOK, Request,
                             Deciders
  <2>2. \A g \in Orders : IsGate(g) => g = s
    BY <1>0, <2>1, OneGate
  <2> QED
    BY <1>0, <2>1, <2>2 DEF TrailOK, IsGate
<1>5. LatestOK(req[h])'
  BY <1>0, <1>2 DEF FreshInv, LatestOK, Unapproved, GateOf, IsGate
<1> QED
  BY <1>0, <1>2, <1>3, <1>4, <1>5 DEF FreshInv

LEMMA FreshApproval ==
    ASSUME NEW h \in Requests, OrderInv, FreshInv(h), RecordApprovedOutput(h)
    PROVE  FreshInv(h)'
<1>0. /\ TypeInv /\ UNCHANGED <<run, def, steps, entities, approvals>> /\ Orders' = Orders
      /\ req[h].pc = "approved_output" /\ req'[h].pc = "arm"
  BY OrderTypes, ArmEffect DEF RecordApprovedOutput, At, Orders, Idle
<1>1. HandsOK(req[h])'
  BY <1>0 DEF HandsOK, Handing
<1>2. ~Unapproved
  <2>1. req[h].at \in Orders
    BY <1>0, WorksOnStep DEF WithoutStep
  <2> QED
    BY <1>0, <2>1 DEF FreshInv, HandsOK, Unapproved
<1>3. LatestOK(req[h])'
  BY <1>0, <1>2 DEF LatestOK, Unapproved, GateOf, IsGate
<1>4. TrailIsMade' /\ TrailOK'
  <2>1. TrailIsMade /\ TrailOK
    BY DEF FreshInv
  <2>2. TrailBehind' <=> TrailBehind
    BY <1>0 DEF TrailBehind
  <2>3. \A g : (ToRegenerate(g)' <=> ToRegenerate(g)) /\ (IsGate(g)' <=> IsGate(g))
    BY <1>0 DEF ToRegenerate, RevisionTarget, IsGate
  <2>4. TrailIsMade'
    BY <1>0, <2>1 DEF TrailIsMade, Made
  <2>5. TrailOK'
    BY <1>0, <2>1, <2>2, <2>3 DEF TrailOK
  <2> QED
    BY <2>4, <2>5
<1> QED
  BY <1>0, <1>1, <1>3, <1>4 DEF FreshInv

LEMMA FreshReset ==
    ASSUME NEW h \in Requests, OrderInv, FreshInv(h), ResetForRevision(h)
    PROVE  FreshInv(h)'
<1>a. PICK g : g = req[h].at
  OBVIOUS
<1> DEFINE target == RevisionTarget(def[g].returnTo)
<1>0. /\ TypeInv /\ UNCHANGED <<run, def, entities, outputs, approvals>>
      /\ req[h].pc = "reset"
  BY OrderTypes DEF ResetForRevision, At
<1>1. /\ g \in Orders /\ IsGate(g) /\ def[g].gate # "brand_profile_future"
      /\ def[g].returnTo # 0 /\ steps[g].status = "rejected"
      /\ target \in Orders /\ target <= g
      /\ Orders' = Orders /\ req'[h].pc = "reopen"
      /\ \A s \in Orders : target <= s /\ s <= g => steps'[s].status = "pending"
  BY <1>a, ResetEffect DEF IsGate, Stays
<1>2. \A s \in Orders : IsGate(s) => s = g
  BY <1>0, <1>1, OneGate
<1>3. HandsOK(req[h])' /\ ~Handing(req[h])
  BY <1>0, <1>1 DEF HandsOK, Handing
<1>4. TrailOK'
  <2>1. steps'[target].status = "pending"
    BY <1>0, <1>1, StepRows
  <2>2. ToRegenerate(g)'
    BY <1>0, <1>1, <2>1 DEF ToRegenerate, RevisionTarget
  <2> QED
    BY <1>0, <1>1, <1>2, <2>2 DEF TrailOK, IsGate
<1>5. LatestOK(req[h])'
  <2>1. Unapproved
    BY <1>1, <1>2 DEF Unapproved
  <2> QED
    BY <1>0, <1>3, <2>1 DEF FreshInv, LatestOK, GateOf
<1> QED
  BY <1>0, <1>1, <1>3, <1>4, <1>5 DEF FreshInv, TrailIsMade, Made

LEMMA FreshDeciding ==
    ASSUME NEW h \in Requests, OrderInv, LowInv, FreshInv(h), Deciding(h)
    PROVE  FreshInv(h)'
<1> DEFINE s == req[h].at
<1>0. TypeInv
  BY OrderTypes
<1>1. CASE ReceiveDecision(h) \/ LoadGate(h) \/ FindEntity(h) \/ DecideEntity(h) \/ Reopen(h)
  <2>1. UNCHANGED <<def, steps, outputs, approvals>> /\ Orders' = Orders
    BY <1>1 DEF ReceiveDecision, LoadGate, FindEntity, DecideEntity, Reopen, tables, Orders
  <2>2. Len(entities') = Len(entities)
    <3>1. CASE DecideEntity(h)
      <4>1. PICK status \in Outcomes(def[s].gate, entities[req[h].ent].status, req[h].decision) :
               entities' = [entities EXCEPT ![req[h].ent].status = status]
        BY <3>1 DEF DecideEntity
      <4>2. status # "generated"
        BY <4>1, OutcomeDecides
      <4> QED
        BY <1>0, <4>1, <4>2, DecidedEntityStays
    <3> QED
      BY <1>1, <3>1 DEF ReceiveDecision, LoadGate, FindEntity, Reopen, tables
  <2>3. req[h].pc \notin {"complete", "output"}
    BY <1>1 DEF ReceiveDecision, LoadGate, FindEntity, DecideEntity, Reopen, Receives, At
  <2>4. req'[h].pc \in {"load_gate", "find_entity", "decide", "claim", "arm"}
    <3>1. CASE ReceiveDecision(h)
      BY <1>0, <3>1 DEF ReceiveDecision, TypeInv, Idle
    <3> QED
      BY <1>0, <1>1, <3>1, LoadGateEffect, FindEntityEffect, GotoStays, ArmEffect
         DEF DecideEntity, Reopen, Stays, Idle
  <2>5. ~Handing(req[h]) /\ HandsOK(req[h])'
    BY <2>3, <2>4 DEF Handing, HandsOK
  <2> QED
    BY <2>1, <2>2, <2>5, FreshFrame
<1>2. CASE ClaimGate(h)
  <2>1. /\ UNCHANGED <<def, entities, outputs, approvals>> /\ req[h].pc = "claim"
        /\ steps[s].status = "waiting_for_approval" /\ SetStep(s, req[h].decision)
    BY <1>2 DEF ClaimGate, At
  <2>2. s \in Orders /\ req[h].decision \in {"approved", "rejected"}
    BY <1>0, <2>1, WorksOnStep DEF WithoutStep, Deciders, TypeInv, LocalOK, Request
  <2>3. /\ Orders' = Orders
        /\ \A t \in Orders : steps'[t] # steps[t] =>
              t = s /\ steps'[t].status \in {"approved", "rejected"}
    BY <1>0, <2>1, <2>2, SetStepEffect
  <2>4. req'[h].pc = "audit"
    BY <1>0, <1>2, ClaimGateEffect DEF Stays
  <2>5. ~Handing(req[h]) /\ HandsOK(req[h])'
    BY <2>1, <2>4 DEF Handing, HandsOK
  <2> QED
    BY <2>1, <2>3, <2>5, FreshFrame
<1> QED
  BY <1>1, <1>2, FreshAudit, FreshApproval, FreshReset DEF Deciding

\* What the others do, the people who review entities elsewhere among them.
LEMMA FreshOthers ==
    ASSUME NEW h \in Requests, OrderInv, FreshInv(h), NEW r \in Requests,
           Refuse(h) \/ Cancel(r) \/ ReviewDirectly(r)
    PROVE  FreshInv(h)'
<1>0. TypeInv
  BY OrderTypes
<1>1. CASE Refuse(h)
  <2>1. UNCHANGED <<run, def, steps, entities, outputs, approvals>> /\ Orders' = Orders
    BY <1>1 DEF Refuse, tables, Orders
  <2>2. req'[h].pc = "idle" /\ req[h].pc \notin {"complete", "output"}
    BY <1>0, <1>1, ReplyEffect DEF Refuse, Idle, At
  <2>3. ~Handing(req[h]) /\ HandsOK(req[h])'
    BY <2>2 DEF Handing, HandsOK
  <2> QED
    BY <2>1, <2>3, FreshFrame DEF FreshInv
<1>2. CASE Cancel(r)
  <2>1. UNCHANGED <<def, steps, entities, outputs, approvals, req>> /\ Orders' = Orders
    BY <1>2 DEF Cancel, Orders
  <2>2. HandsOK(req[h])'
    BY <2>1 DEF FreshInv, HandsOK, Handing, GateOf, TrailBehind, IsGate
  <2>3. Handing(req[h]) => Handing(req'[h])
    BY <2>1
  <2> QED
    BY <2>1, <2>2, <2>3, FreshFrame
<1>3. CASE ReviewDirectly(r)
  <2>1. UNCHANGED <<run, def, steps, outputs, approvals, req>> /\ Orders' = Orders
    BY <1>3 DEF ReviewDirectly, Orders
  <2>2. Len(entities') = Len(entities)
    <3>1. \E e \in DOMAIN entities, decision \in {"approved", "rejected"} :
             \E status \in Outcomes(GateOf(def), entities[e].status, decision) :
                entities' = [entities EXCEPT ![e].status = status]
      BY <1>3 DEF ReviewDirectly
    <3> QED
      BY <1>0, <3>1, OutcomeDecides, DecidedEntityStays
  <2>3. HandsOK(req[h])'
    BY <2>1, <2>2 DEF FreshInv, HandsOK, Handing, GateOf, TrailBehind, IsGate
  <2>4. Handing(req[h]) => Handing(req'[h])
    BY <2>1
  <2> QED
    BY <2>1, <2>2, <2>3, <2>4, FreshFrame DEF FreshInv
<1> QED
  BY <1>1, <1>2, <1>3

\* What a step of the page is to the run: a statement of h, or what somebody else may do.
LEMMA PageMoves ==
    ASSUME NEW h \in Requests, PageInv(h), PageNext
    PROVE  \/ UNCHANGED vars
           \/ Engine(h) \/ Refuse(h)
           \/ \E r \in Requests : Cancel(r) \/ ReviewDirectly(r)
<1>1. PICK r \in Requests :
         \/ Click(r) \/ Receive(r) \/ Work(r)
         \/ ReadRun(r) \/ ReadSteps(r) \/ Show(r) \/ OtherPerson(r)
  BY DEF PageNext
<1>2. CASE Click(r) \/ ReadRun(r) \/ ReadSteps(r) \/ Show(r)
  BY <1>2 DEF Click, ReadRun, ReadSteps, Show
<1>3. CASE Receive(r)
  <2>1. r # h => phase[r] = "cancel"
    BY <1>3 DEF PageInv, OthersCancel, Receive, Operations, Reloads
  <2> QED
    BY <1>3, <2>1 DEF Receive, Engine, Starting, Advancing, Deciding
<1>4. CASE Work(r)
  <2>1. r = h
    BY <1>4 DEF PageInv, OthersCancel, Work, At
  <2> QED
    BY <1>4, <2>1 DEF Work, Engine
<1>5. CASE OtherPerson(r)
  BY <1>5 DEF OtherPerson
<1> QED
  BY <1>1, <1>2, <1>3, <1>4, <1>5

LEMMA FreshInvStep ==
    ASSUME NEW h \in Requests, PageInv(h), OrderInv, RevInv, LowInv, FreshInv(h),
           [PageNext]_<<vars, pageVars>>
    PROVE  FreshInv(h)'
<1>1. CASE UNCHANGED vars
  <2>1. UNCHANGED <<def, steps, entities, outputs, approvals, req>> /\ Orders' = Orders
    BY <1>1 DEF vars, Orders
  <2>2. HandsOK(req[h])'
    BY <2>1 DEF FreshInv, HandsOK, Handing, GateOf, TrailBehind, IsGate
  <2>3. Handing(req[h]) => Handing(req'[h])
    BY <2>1
  <2> QED
    BY <2>1, <2>2, <2>3, FreshFrame
<1>2. CASE PageNext
  <2>1. CASE Engine(h)
    BY <2>1, FreshStarting, FreshAdvancing, FreshArming, FreshDeciding DEF Engine
  <2> QED
    BY <1>1, <1>2, <2>1, PageMoves, FreshOthers
<1> QED
  BY <1>1, <1>2

LEMMA InitFresh ==
    ASSUME NEW h \in Requests, Init
    PROVE  FreshInv(h)
<1>1. /\ Orders = {} /\ Len(entities) = 0 /\ DOMAIN approvals = {}
      /\ req[h].pc = "idle"
  BY DEF Init, Orders, Idle
<1> QED
  BY <1>1 DEF FreshInv, TrailIsMade, TrailOK, HandsOK, Handing, LatestOK

(***************************************************************************)
(* All that holds along the page                                           *)
(***************************************************************************)
RunInv(h) == PageInv(h) /\ OrderInv /\ RevInv /\ LowInv /\ FreshInv(h)

LEMMA RunInvAlways ==
    ASSUME NEW h \in Requests, OneHandler(h), ~Restarts
    PROVE  PageSpec => []RunInv(h)
<1>0. SingleDriver
  BY DEF SingleDriver, Driver, OneHandler, Steering
<1>1. PageInit => RunInv(h)
  BY InitPage, InitOrder, InitRev, InitLow, InitFresh DEF PageInit, RunInv
<1>2. RunInv(h) /\ [PageNext]_<<vars, pageVars>> => RunInv(h)'
  <2> SUFFICES ASSUME RunInv(h), [PageNext]_<<vars, pageVars>> PROVE RunInv(h)'
    OBVIOUS
  <2>1. [Next]_vars
    BY PageStepsAreSteps DEF vars
  <2>2. OrderInv' /\ RevInv' /\ LowInv'
    BY <1>0, <2>1, OrderInvStep, RevInvStep, LowInvStep DEF RunInv
  <2>3. PageInv(h)' /\ FreshInv(h)'
    BY PageInvStep, FreshInvStep DEF RunInv
  <2> QED
    BY <2>2, <2>3 DEF RunInv
<1> QED
  BY <1>1, <1>2, PTL DEF PageSpec

\* At a quiet waiting gate the entity generated last is there, the trail names only older
\* ones, and the page shows it.
LEMMA WaitsForLatest ==
    ASSUME NEW h \in Requests, RunInv(h), Quiet, AtWaitingGate,
           GateKind # "brand_profile_future"
    PROVE  /\ TrailBehind /\ Len(entities) \in Made /\ outputs # << >>
           /\ GateOf(def) = GateKind
           /\ GateKind \in ByLastOutput => Newest = {Len(entities)}
<1> DEFINE g == run.current
           target == RevisionTarget(def[g].returnTo)
<1>0. /\ TypeInv /\ OrderInv /\ FreshInv(h) /\ AllNamed /\ KindsFit /\ GeneratedOK
      /\ g \in Orders /\ IsGate(g) /\ steps[g].status = "waiting_for_approval"
      /\ def[g].gate # "brand_profile_future"
  BY OrderTypes DEF RunInv, AtWaitingGate, LowInv, GateKind, RevInv, OrderInv
<1>1. IsFront(g) /\ def \in Catalog /\ Orders = DOMAIN def
  BY <1>0, WaitingIsFree, StepRows
<1>2. GateOf(def) = GateKind /\ \A t \in Orders : IsGate(t) => t = g
  BY <1>0, OneGate DEF GateKind
<1>3. ASSUME NEW s \in Orders, s <= g, def[s].kind = "generate"
      PROVE  steps[s].status = "completed"
  <2>1. s # g /\ s \in Nat /\ g \in Nat
    BY <1>0, <1>3, StepRows DEF IsGate
  <2>2. steps[s].status \in Done
    BY <1>0, <1>1, <1>3, <2>1, BehindFront
  <2> QED
    BY <1>0, <1>3, <2>2 DEF KindsFit, KindFits, Done
<1>4. TrailBehind
  <2>1. ToRegenerate(g) => FALSE
    BY <1>0, <1>3, TargetRegenerates DEF ToRegenerate, IsGate
  <2> QED
    BY <1>0, <2>1 DEF FreshInv, TrailOK
<1>5. outputs # << >>
  <2>1. PICK s \in Orders : s < g /\ def[s].kind = "generate"
    BY <1>0, <1>1, SubjectAssumption DEF IsGate
  <2>2. steps[s].status = "completed"
    BY <1>0, <1>3, <2>1, StepRows
  <2>3. Recorded(s, steps[s].rev)
    BY <1>0, <2>1, <2>2 DEF GeneratedOK, RecordedSoon, Quiet, At
  <2> QED
    BY <2>3 DEF Recorded
<1>6. Len(entities) \in Nat /\ Len(entities) # 0 /\ Len(entities) \in Made
  <2>1. Len(entities) \in Nat /\ Newest # {} /\ Newest \subseteq Made
    BY <1>0, <1>5, NewestIsMade DEF TypeInv, RowsOK, Newest
  <2>2. PICK e \in 1 .. Len(entities) : TRUE
    BY <2>1 DEF Made
  <2> QED
    BY <2>1, <2>2 DEF Made
<1>7. GateKind \in ByLastOutput => Newest = {Len(entities)}
  <2>1. LatestOK(req[h]) /\ ~Handing(req[h])
    BY <1>0 DEF FreshInv, Handing, Quiet, At
  <2>2. Unapproved
    BY <1>0, <1>2 DEF Unapproved
  <2> QED
    BY <1>2, <1>5, <1>6, <2>1, <2>2 DEF LatestOK, Newest
<1> QED
  BY <1>2, <1>4, <1>5, <1>6, <1>7

\* So a decision of it is carried out, or refused because it was decided elsewhere.
LEMMA DecisionsAreTaken ==
    ASSUME NEW h \in Requests, RunInv(h), Quiet, AtWaitingGate,
           NEW decision \in {"approved", "rejected"}
    PROVE  Decidable(decision) \/ PlaceholderGate \/ DecidedElsewhere
<1> DEFINE e == Len(entities)
<1> SUFFICES ASSUME ~PlaceholderGate PROVE Decidable(decision) \/ DecidedElsewhere
  OBVIOUS
<1>0. /\ TypeInv /\ AllNamed /\ TrailBehind /\ e \in Made /\ outputs # << >>
      /\ GateKind \in ByLastOutput => Newest = {e}
  BY OrderTypes, WaitsForLatest DEF RunInv, LowInv, PlaceholderGate
<1>1. GateKind \in Gates \cup {"none"}
  <2>1. def \in Seq(StepDefinition) /\ run.current \in DOMAIN def
    BY <1>0, StepRows DEF AtWaitingGate
  <2>2. def[run.current] \in StepDefinition
    BY <2>1, ElementOfSeq, LenProperties
  <2> QED
    BY <2>2 DEF GateKind, StepDefinition
<1>2. CASE GateKind \in {"design_brief", "none"}
  <2>1. PICK b \in Selectable : b \in Made
    <3>1. Newest # {} /\ Newest \subseteq Made
      BY <1>0, NewestIsMade DEF Newest
    <3>2. run.output \in Made \cup {0}
      BY <1>0 DEF AllNamed
    <3>3. Newest \subseteq Linked
      BY <1>0, EmptySeq DEF Newest, Linked, TypeInv, RowsOK
    <3> QED
      BY <1>2, <3>1, <3>2, <3>3 DEF Selectable, Candidates
  <2>2. entities[b].status \in EntityStatus
    <3>1. entities[b] \in EntityType
      BY <1>0, <2>1, ElementOfSeq DEF Made, TypeInv, RowsOK
    <3> QED
      BY <3>1 DEF EntityType
  <2> QED
    BY <1>2, <2>1, <2>2 DEF Decidable, Outcomes, ApproveFrom, RejectFrom, RejectTo
<1>3. CASE GateKind \notin {"design_brief", "none"}
  <2>1. e \in Selectable
    BY <1>0, <1>1, <1>3 DEF Selectable, Candidates, ByLastOutput, Made, Gates, PlaceholderGate
  <2>2. CASE entities[e].status = "generated"
    BY <1>1, <1>3, <2>1, <2>2
       DEF Decidable, Outcomes, ApproveFrom, RejectFrom, RejectTo, EntityStatus
  <2>3. CASE entities[e].status # "generated"
    <3>1. \A i \in DOMAIN approvals : approvals[i].ent # e
      BY <1>0 DEF TrailBehind, Made
    <3> QED
      BY <2>1, <2>3, <3>1 DEF DecidedElsewhere
  <2> QED
    BY <2>2, <2>3
<1> QED
  BY <1>2, <1>3

\* What a quiet page shows is the run as it is, and the run is parked where the engine
\* accepts the next call.
LEMMA QuietPage ==
    ASSUME NEW h \in Requests, RunInv(h)
    PROVE  OfferIsAccepted
<1> SUFFICES ASSUME Quiet, shown # NoDetail, \A r \in Requests : phase[r] = "none", Live
             PROVE  /\ Offered \ {"cancel"} # {}
                    /\ \A op \in Offered :
                          \/ Accepts(op)
                          \/ /\ op \in {"approve", "reject"} /\ AtWaitingGate
                             /\ PlaceholderGate \/ DecidedElsewhere
  BY DEF OfferIsAccepted, Live
<1>1. Steered(req[h]) /\ ShownOK(h)
  BY DEF RunInv, PageInv
<1>2. CanAdvance \/ AtWaitingGate
  BY <1>1 DEF Quiet, At, Steered
<1>3. shown.status = run.status /\ shown.current = run.current /\ shown.steps = steps
  BY <1>1 DEF ShownOK, Fresh, Matches
<1>4. CASE CanAdvance
  <2>1. Offered = {"advance", "cancel"}
    BY <1>3, <1>4 DEF CanAdvance, Offered, ShowAdvance, Cancellable, Orders
  <2> QED
    BY <1>4, <2>1 DEF CanAdvance, Accepts, Cancellable
<1>5. CASE AtWaitingGate
  <2>1. Offered = {"approve", "reject", "cancel"}
    BY <1>3, <1>5 DEF AtWaitingGate, Offered, ShowAdvance, Cancellable
  <2>2. Accepts("cancel")
    BY <1>5 DEF AtWaitingGate, Accepts, Cancellable
  <2>3. Accepts("approve") \/ PlaceholderGate \/ DecidedElsewhere
    BY <1>5, DecisionsAreTaken DEF Accepts
  <2>4. Accepts("reject") \/ PlaceholderGate \/ DecidedElsewhere
    BY <1>5, DecisionsAreTaken DEF Accepts
  <2> QED
    BY <1>5, <2>1, <2>2, <2>3, <2>4
<1> QED
  BY <1>2, <1>4, <1>5

\* The page of a run never leaves its user without a way to go on, and the engine carries
\* out what its buttons ask for, through every check before the first write: an open gate
\* stands over an entity that is newer than all the run has decided, unless somebody
\* decided that one through its own route.  For every catalog, any number of cancel
\* handlers beside the one that steers, reloads that fail, are torn or overtake each
\* other, and any reviewers elsewhere.
THEOREM OffersAreAccepted ==
    ASSUME NEW h \in Requests, OneHandler(h), ~Restarts
    PROVE  PageSpec => []OfferIsAccepted
<1>1. RunInv(h) => OfferIsAccepted
  BY QuietPage
<1>2. PageSpec => []RunInv(h)
  BY RunInvAlways
<1> QED
  BY <1>1, <1>2, PTL
=============================================================================
