------------------------- MODULE WorkflowOrderProofs -------------------------
(***************************************************************************)
(* The order of the steps.  First what no caller and no crash can break: a *)
(* future step is never passed.  Then what holds as long as one request at *)
(* a time drives a run and none dies: the engine implements                *)
(* WorkflowPromise, and what its gates say of revisions and scores.  Last, *)
(* when a decision lands on the revision its reviewer was shown, and that  *)
(* no revision is without its rejection in the trail.                      *)
(***************************************************************************)
EXTENDS WorkflowEngineProofs, FiniteSetTheorems, WellFoundedInduction

(***************************************************************************)
(* What the moves of a request leave in its local variables                *)
(***************************************************************************)
LEMMA ReplyEffect ==
    ASSUME TypeInv, NEW r \in Requests, Reply(r)
    PROVE  OthersKeep(r) /\ req'[r] = Idle
  BY DEF Reply, TypeInv, OthersKeep

LEMMA ArmEffect ==
    ASSUME TypeInv, NEW r \in Requests, Arm(r)
    PROVE  OthersKeep(r) /\ req'[r] = [Idle EXCEPT !.pc = "arm"]
  BY DEF Arm, TypeInv, OthersKeep

\* A statement that sets some local variables and leaves the step it works on.
Stays(r, label) ==
    /\ OthersKeep(r)
    /\ req'[r].pc = label /\ req'[r].at = req[r].at /\ req'[r].mark = req[r].mark
    /\ req'[r].decision = req[r].decision /\ req'[r].out = req[r].out

LEMMA GotoStays ==
    ASSUME TypeInv, NEW r \in Requests, NEW label, Goto(r, label)
    PROVE  Stays(r, label) /\ req'[r].rev = req[r].rev /\ req'[r].ent = req[r].ent
  BY DEF Goto, TypeInv, OthersKeep, Stays, Request

LEMMA ExecuteEffect ==
    ASSUME TypeInv, NEW r \in Requests, Execute(r)
    PROVE  /\ req'[r].rev = req[r].rev
           /\ \/ Stays(r, "complete")
              \/ Stays(r, "note") /\ def[req[r].at].kind = "read"
              \/ Stays(r, "fail")
<1>1. \A label : Goto(r, label) => Stays(r, label) /\ req'[r].rev = req[r].rev
  BY GotoStays
<1>2. ASSUME NEW e, req' = [req EXCEPT ![r].pc = "complete", ![r].ent = e]
      PROVE  Stays(r, "complete") /\ req'[r].rev = req[r].rev
  BY <1>2 DEF TypeInv, OthersKeep, Stays, Request
<1>3. CASE Generate(r)
  BY <1>2, <1>3 DEF Generate
<1>4. CASE RecordContext(r) \/ Throw(r)
  BY <1>1, <1>4 DEF RecordContext, Throw
<1>5. CASE ReadGenerated(r)
  BY <1>1, <1>2, <1>5 DEF ReadGenerated, ReadQaFact, VerifyGeneratedDna
<1>6. CASE VerifyApproved(r)
  <2>1. \E e : req' = [req EXCEPT ![r].pc = "complete", ![r].ent = e]
    BY <1>6 DEF VerifyApproved
  <2> QED
    BY <1>2, <2>1
<1> QED
  BY <1>3, <1>4, <1>5, <1>6 DEF Execute

LEMMA BeginEffect ==
    ASSUME TypeInv, NEW r \in Requests, Begin(r)
    PROVE  Stays(r, "execute") /\ req'[r].rev = steps[req[r].at].rev
  BY DEF Begin, TypeInv, OthersKeep, Stays, Request

LEMMA LoadGateEffect ==
    ASSUME TypeInv, NEW r \in Requests, LoadGate(r)
    PROVE  Stays(r, "find_entity")
  BY DEF LoadGate, TypeInv, OthersKeep, Stays, Request

LEMMA FindEntityEffect ==
    ASSUME TypeInv, NEW r \in Requests, FindEntity(r)
    PROVE  \E e \in Candidates(def[req[r].at].gate, req[r].out) :
              req'[r].ent = e /\ (Stays(r, "decide") \/ Stays(r, "claim"))
<1>1. ASSUME NEW e, NEW label \in {"decide", "claim"},
             req' = [req EXCEPT ![r].pc = label, ![r].ent = e]
      PROVE  req'[r].ent = e /\ Stays(r, label)
  BY <1>1 DEF TypeInv, OthersKeep, Stays, Request
<1> QED
  BY <1>1 DEF FindEntity

LEMMA ClaimGateEffect ==
    ASSUME TypeInv, NEW r \in Requests, ClaimGate(r)
    PROVE  Stays(r, "audit") /\ req'[r].rev = steps[req[r].at].rev /\ req'[r].ent = req[r].ent
  BY DEF ClaimGate, TypeInv, OthersKeep, Stays, Request

\* The rows of a run, as functions and numbers.
LEMMA StepRows ==
    ASSUME TypeInv, NEW s \in Orders
    PROVE  /\ s \in Nat /\ s # 0
           /\ steps \in [DOMAIN def -> StepType] /\ Orders = DOMAIN def
           /\ Orders = 1 .. Len(def) /\ Len(def) \in Nat
           /\ def \in Catalog /\ def \in Seq(StepDefinition)
           /\ steps[s].status \in StepStatus /\ steps[s].rev \in Nat
<1>1. steps \in [DOMAIN def -> StepType] /\ Orders = DOMAIN def /\ def # << >>
  BY DEF TypeInv, RowsOK, Orders
<1>2. def \in Catalog
  BY <1>1 DEF TypeInv, RowsOK
<1>3. def \in Seq(StepDefinition)
  BY <1>2, CatalogAssumption
<1>4. DOMAIN def = 1 .. Len(def) /\ Len(def) \in Nat
  BY <1>3, LenProperties
<1> QED
  BY <1>1, <1>2, <1>3, <1>4 DEF StepType

\* Every definition has one gate at most.
LEMMA OneGate ==
    ASSUME TypeInv, NEW g \in Orders, IsGate(g)
    PROVE  GateOf(def) = def[g].gate /\ \A t \in Orders : IsGate(t) => t = g
<1>1. def \in Catalog /\ Orders = DOMAIN def
  BY StepRows
<1>2. \A t \in DOMAIN def : def[t].kind = "gate" => t = g
  BY <1>1, GatesAssumption DEF IsGate
<1>3. {s \in DOMAIN def : def[s].kind = "gate"} = {g}
  BY <1>1, <1>2 DEF IsGate
<1> QED
  BY <1>1, <1>2, <1>3 DEF GateOf, IsGate

LEMMA SetStepEffect ==
    ASSUME TypeInv, NEW s \in Orders, NEW x, SetStep(s, x)
    PROVE  /\ Orders' = Orders
           /\ steps'[s].status = x
           /\ \A t \in Orders : t # s => steps'[t] = steps[t]
           /\ \A t \in Orders : steps'[t].rev = steps[t].rev
  BY StepRows DEF SetStep, Orders, StepType

(***************************************************************************)
(* A future step is never passed, whoever calls and whatever dies          *)
(***************************************************************************)
Unborn == {"idle", "create_steps"}
CanWrite == {"skip", "begin", "execute", "complete", "note", "output", "merge", "fail",
             "arm_report", "arm_gate", "find_entity", "decide", "claim", "audit",
             "approved_output", "reset", "reopen"}

\* A request is never behind a future step and writes to none; no run with one is
\* about to be marked completed.
NotBehind(r) ==
    /\ req[r].pc \in Unborn => req[r].at = 0 /\ req[r].mark = "none"
    /\ req[r].pc \in CanWrite => def[req[r].at].kind # "future"
    /\ \A s \in Orders : def[s].kind = "future" => req[r].at <= s /\ req[r].mark # "completed"
RowsNotBehind ==
    \A s \in Orders : def[s].kind = "future" =>
        /\ run.status # "completed"
        /\ run.current <= s
        /\ \A t \in Orders : s <= t => steps[t].status = "pending"
\* Nothing but the creation of the step rows goes on before they exist.
EmptyOK == Orders = {} =>
    /\ run.status # "completed"
    /\ \A r \in Requests : req[r].pc \in Unborn
    /\ \A r \in Requests : req[r].pc = "create_steps" => def # << >>

FutureInv ==
    /\ ClaimInv
    /\ EmptyOK
    /\ RowsNotBehind
    /\ \A r \in Requests : NotBehind(r)

\* A statement of a run whose step rows exist.
LEMMA FutureFrame ==
    ASSUME FutureInv, ClaimInv', NEW r \in Requests, OthersKeep(r), def' = def,
           Orders' = Orders, Orders # {}, RowsNotBehind', NotBehind(r)'
    PROVE  FutureInv'
<1>1. EmptyOK'
  BY DEF EmptyOK
<1>2. ASSUME NEW q \in Requests PROVE NotBehind(q)'
  <2>1. CASE q # r
    BY <2>1 DEF FutureInv, NotBehind, OthersKeep
  <2> QED
    BY <2>1
<1> QED
  BY <1>1, <1>2 DEF FutureInv

LEMMA RowsStayPut ==
    ASSUME FutureInv, UNCHANGED <<run, def, steps>>
    PROVE  RowsNotBehind' /\ Orders' = Orders
  BY DEF FutureInv, RowsNotBehind, Orders

\* Writing the step a request works on, which is before every future step.
LEMMA WriteInFront ==
    ASSUME FutureInv, NEW r \in Requests, NEW x, UNCHANGED <<run, def>>,
           req[r].pc \in CanWrite, SetStep(req[r].at, x)
    PROVE  RowsNotBehind' /\ Orders' = Orders
<1> DEFINE s == req[r].at
<1>1. TypeInv /\ s \in Orders
  BY WorksOnStep DEF FutureInv, ClaimInv, CanWrite, WithoutStep
<1>2. /\ Orders' = Orders
      /\ \A t \in Orders : t # s => steps'[t] = steps[t]
  BY <1>1, SetStepEffect
<1>3. \A t \in Orders : def[t].kind = "future" => s < t
  BY <1>1, StepRows DEF FutureInv, NotBehind
<1>4. ASSUME NEW t \in Orders, NEW u \in Orders, def[t].kind = "future", t <= u
      PROVE  u # s
  BY <1>1, <1>3, <1>4, StepRows
<1> QED
  BY <1>2, <1>4 DEF FutureInv, RowsNotBehind

\* Moves that keep a request in front of the future steps.
LEMMA LeavesNotBehind ==
    ASSUME FutureInv, NEW r \in Requests, def' = def, Orders' = Orders, Reply(r) \/ Arm(r)
    PROVE  NotBehind(r)' /\ OthersKeep(r)
<1>0. TypeInv
  BY DEF FutureInv, ClaimInv
<1>1. OthersKeep(r) /\ req'[r].at = 0 /\ req'[r].mark = "none" /\ req'[r].pc \notin CanWrite
  BY <1>0, ReplyEffect, ArmEffect DEF Idle, CanWrite
<1> QED
  BY <1>0, <1>1, StepRows DEF NotBehind

LEMMA StaysNotBehind ==
    ASSUME FutureInv, NEW r \in Requests, def' = def, Orders' = Orders, NEW label,
           Stays(r, label), req[r].at \in Orders,
           label \notin Unborn, label \in CanWrite => def[req[r].at].kind # "future"
    PROVE  NotBehind(r)' /\ OthersKeep(r)
  BY DEF Stays, FutureInv, NotBehind

LEMMA ArmToNotBehind ==
    ASSUME FutureInv, NEW r \in Requests, def' = def, Orders' = Orders,
           NEW label, NEW s, NEW m, ArmTo(r, label, s, m), label \notin Unborn,
           label \in CanWrite => def[s].kind # "future",
           \A t \in Orders : def[t].kind = "future" => s <= t /\ m # "completed"
    PROVE  NotBehind(r)' /\ OthersKeep(r)
<1>0. TypeInv
  BY DEF FutureInv, ClaimInv
<1>1. OthersKeep(r) /\ req'[r] = [Idle EXCEPT !.pc = label, !.at = s, !.mark = m]
  BY <1>0 DEF ArmTo, TypeInv, OthersKeep
<1>2. req'[r].pc = label /\ req'[r].at = s /\ req'[r].mark = m
  BY <1>1 DEF Idle
<1> QED
  BY <1>1, <1>2 DEF NotBehind

LEMMA UnderWayHasRows ==
    ASSUME FutureInv, NEW r \in Requests, req[r].pc \notin Unborn
    PROVE  Orders # {}
  BY DEF FutureInv, EmptyOK

\* The two statements that make a run meet nobody else's.
LEMMA StartEffect ==
    ASSUME FutureInv, NEW r \in Requests, Start(r)
    PROVE  /\ Orders = {} /\ Orders' = {} /\ def' # << >>
           /\ run'.status = "in_progress"
           /\ Stays(r, "create_steps")
           /\ \A q \in Requests :
                 req[q].pc = "idle" /\ req[q].at = 0 /\ req[q].mark = "none"
<1>0. TypeInv /\ CreatedOnce
  BY DEF FutureInv, ClaimInv
<1>1. Orders = {} /\ Orders' = {}
  <2>1. def = << >> /\ DOMAIN << >> = {}
    BY <1>0 DEF Start, TypeInv, RowsOK
  <2>2. steps \in [{} -> StepType] \cup {<< >>}
    BY <1>0, <2>1 DEF TypeInv, RowsOK
  <2>3. \A f \in [{} -> StepType] : f = << >>
    OBVIOUS
  <2> QED
    BY <2>1, <2>2, <2>3 DEF Start, Orders
<1>2. \A q \in Requests : req[q].pc = "idle"
  BY <1>0 DEF Start, CreatedOnce
<1>3. \A q \in Requests : req[q].at = 0 /\ req[q].mark = "none"
  BY <1>2 DEF FutureInv, NotBehind, Unborn
<1>4. Stays(r, "create_steps")
  BY <1>0, GotoStays DEF Start
<1>5. run'.status = "in_progress"
  BY <1>0 DEF Start, TypeInv, RowsOK, RunType
<1>6. def' # << >>
  BY CatalogAssumption DEF Start
<1> QED
  BY <1>1, <1>2, <1>3, <1>4, <1>5, <1>6

LEMMA CreateStepsEffect ==
    ASSUME FutureInv, NEW r \in Requests, CreateSteps(r)
    PROVE  /\ Orders = {} /\ Orders' # {} /\ Orders' \subseteq Nat
           /\ \A t \in Orders' : steps'[t].status = "pending" /\ steps'[t].rev = 0
           /\ run' = run /\ def' = def /\ run.current = 0 /\ run.status # "completed"
           /\ OthersKeep(r) /\ req'[r] = [Idle EXCEPT !.pc = "arm"]
           /\ \A q \in Requests : q # r =>
                 req[q].pc = "idle" /\ req[q].at = 0 /\ req[q].mark = "none"
<1>0. TypeInv /\ CreatedOnce
  BY DEF FutureInv, ClaimInv
<1>1. Orders = {} /\ \A q \in Requests : req[q].pc = "create_steps" => q = r
  BY <1>0 DEF CreateSteps, At, CreatedOnce
<1>2. \A q \in Requests : q # r =>
         req[q].pc = "idle" /\ req[q].at = 0 /\ req[q].mark = "none"
  BY <1>1 DEF FutureInv, EmptyOK, NotBehind, Unborn
<1>3. OthersKeep(r) /\ req'[r] = [Idle EXCEPT !.pc = "arm"]
  BY <1>0, ArmEffect DEF CreateSteps
<1>4. run' = run /\ def' = def /\ run.current = 0 /\ run.status # "completed"
  BY <1>0, <1>1 DEF CreateSteps, TypeInv, RowsOK, FutureInv, EmptyOK
<1>5. def # << >> /\ def \in Seq(StepDefinition)
  BY <1>0, <1>1, CatalogAssumption DEF CreateSteps, At, FutureInv, EmptyOK, TypeInv, RowsOK
<1>6. Orders' = DOMAIN def /\ DOMAIN def = 1 .. Len(def) /\ Len(def) \in Nat
  BY <1>5, LenProperties DEF CreateSteps, Orders
<1>7. \A t \in Orders' : steps'[t].status = "pending" /\ steps'[t].rev = 0
  BY <1>6 DEF CreateSteps
<1>8. Orders' # {} /\ Orders' \subseteq Nat
  <2>1. Len(def) # 0
    BY <1>5, EmptySeq
  <2> QED
    BY <1>6, <2>1
<1> QED
  BY <1>1, <1>2, <1>3, <1>4, <1>7, <1>8

LEMMA FutureStarting ==
    ASSUME FutureInv, ClaimInv', NEW r \in Requests, Starting(r)
    PROVE  FutureInv'
<1>1. CASE Start(r)
  <2>1. \A q \in Requests : NotBehind(q)' /\ req'[q].pc \in Unborn
    BY <1>1, StartEffect DEF Stays, OthersKeep, Unborn, NotBehind, CanWrite
  <2>2. EmptyOK' /\ RowsNotBehind'
    BY <1>1, <2>1, StartEffect DEF EmptyOK, RowsNotBehind
  <2> QED
    BY <2>1, <2>2 DEF FutureInv
<1>2. CASE CreateSteps(r)
  <2>1. ASSUME NEW q \in Requests PROVE NotBehind(q)'
    <3>1. req'[q].at = 0 /\ req'[q].mark = "none" /\ req'[q].pc \notin CanWrite
      <4>1. CASE q = r
        BY <1>2, <4>1, CreateStepsEffect DEF Idle, CanWrite
      <4>2. CASE q # r
        BY <1>2, <4>2, CreateStepsEffect DEF OthersKeep, CanWrite
      <4> QED
        BY <4>1, <4>2
    <3> QED
      BY <1>2, <3>1, CreateStepsEffect DEF NotBehind
  <2>2. EmptyOK'
    BY <1>2, CreateStepsEffect DEF EmptyOK
  <2>3. RowsNotBehind'
    BY <1>2, CreateStepsEffect DEF RowsNotBehind
  <2> QED
    BY <2>1, <2>2, <2>3 DEF FutureInv
<1> QED
  BY <1>1, <1>2 DEF Starting

LEMMA FutureAdvancing ==
    ASSUME FutureInv, ClaimInv', NEW r \in Requests, Advancing(r)
    PROVE  FutureInv'
<1> DEFINE s == req[r].at
<1>0. TypeInv /\ NotBehind(r)
  BY DEF FutureInv, ClaimInv
<1>1. req[r].pc \notin WithoutStep => s \in Orders /\ Orders # {}
  BY <1>0, WorksOnStep
<1>2. \A label : Goto(r, label) => Stays(r, label)
  BY <1>0, GotoStays
<1>3. CASE Advance(r)
  <2>1. run.current \in Orders
    BY <1>0, <1>3 DEF Advance, TypeInv, RowsOK
  <2>2. RowsNotBehind' /\ Orders' = Orders /\ def' = def
    BY <1>3, RowsStayPut DEF Advance, tables
  <2>3. /\ OthersKeep(r) /\ req'[r].pc = "advance" /\ req'[r].at = run.current
        /\ req'[r].mark = "none"
    BY <1>0, <1>3 DEF Advance, TypeInv, OthersKeep, Idle
  <2>4. NotBehind(r)'
    BY <2>2, <2>3 DEF FutureInv, RowsNotBehind, NotBehind, CanWrite, Unborn
  <2> QED
    BY <2>1, <2>2, <2>3, <2>4, FutureFrame
<1>4. CASE ReadStep(r)
  <2>1. RowsNotBehind' /\ Orders' = Orders /\ def' = def
    BY <1>4, RowsStayPut DEF ReadStep, tables
  <2>2. s \in Orders /\ Orders # {}
    BY <1>1, <1>4 DEF ReadStep, At, WithoutStep
  <2>3. \/ Arm(r)
        \/ \E label \in {"skip", "begin"} : Stays(r, label) /\ def[s].kind # "future"
    BY <1>2, <1>4 DEF ReadStep, Executable
  <2>4. NotBehind(r)' /\ OthersKeep(r)
    BY <2>1, <2>2, <2>3, LeavesNotBehind, StaysNotBehind DEF Unborn
  <2> QED
    BY <2>1, <2>2, <2>4, FutureFrame
<1>5. CASE Skip(r) \/ Begin(r) \/ Complete(r) \/ SkipWithNote(r) \/ FailStep(r)
  <2>1. req[r].pc \in CanWrite /\ s \in Orders /\ Orders # {}
    BY <1>1, <1>5 DEF Skip, Begin, Complete, SkipWithNote, FailStep, At, CanWrite, WithoutStep
  <2>2. UNCHANGED <<run, def>> /\ (UNCHANGED steps \/ \E x : SetStep(s, x))
    BY <1>5 DEF Skip, Begin, Complete, SkipWithNote, FailStep
  <2>3. RowsNotBehind' /\ Orders' = Orders /\ def' = def
    BY <2>1, <2>2, RowsStayPut, WriteInFront
  <2>4. def[s].kind # "future"
    BY <1>0, <2>1 DEF NotBehind
  <2>5. \/ Arm(r)
        \/ \E label \in {"execute", "output"} : Stays(r, label)
        \/ ArmTo(r, "mark", s, "failed")
    BY <1>0, <1>2, <1>5, BeginEffect DEF Skip, Begin, Complete, SkipWithNote, FailStep
  <2>6. NotBehind(r)' /\ OthersKeep(r)
    <3>1. CASE ArmTo(r, "mark", s, "failed")
      BY <1>0, <2>3, <2>4, <3>1, ArmToNotBehind DEF Unborn, NotBehind
    <3>2. CASE \E label \in {"execute", "output"} : Stays(r, label)
      BY <2>1, <2>3, <2>4, <3>2, StaysNotBehind DEF Unborn
    <3> QED
      BY <2>3, <2>5, <3>1, <3>2, LeavesNotBehind
  <2> QED
    BY <2>1, <2>3, <2>6, FutureFrame
<1>6. CASE Execute(r) \/ RecordOutput(r) \/ MergeOutput(r)
  <2>1. req[r].pc \in CanWrite /\ s \in Orders /\ Orders # {}
    BY <1>1, <1>6 DEF Execute, RecordOutput, MergeOutput, At, CanWrite, WithoutStep
  <2>2. RowsNotBehind' /\ Orders' = Orders /\ def' = def
    <3>1. CASE MergeOutput(r)
      <4>1. run'.status = run.status /\ run'.current = run.current /\ Orders' = Orders
               /\ steps' = steps /\ def' = def
        BY <1>0, <3>1 DEF MergeOutput, TypeInv, RowsOK, RunType, Orders
      <4> QED
        BY <4>1 DEF FutureInv, RowsNotBehind
    <3> QED
      BY <1>6, <3>1, RowsStayPut DEF Execute, RecordOutput
  <2>3. def[s].kind # "future"
    BY <1>0, <2>1 DEF NotBehind
  <2>4. \/ Arm(r)
        \/ \E label \in {"complete", "note", "fail", "merge"} : Stays(r, label)
    BY <1>0, <1>2, <1>6, ExecuteEffect DEF RecordOutput, MergeOutput
  <2>5. NotBehind(r)' /\ OthersKeep(r)
    BY <2>1, <2>2, <2>3, <2>4, LeavesNotBehind, StaysNotBehind DEF Unborn
  <2> QED
    BY <2>1, <2>2, <2>5, FutureFrame
<1> QED
  BY <1>3, <1>4, <1>5, <1>6 DEF Advancing

LEMMA FutureArming ==
    ASSUME FutureInv, ClaimInv', NEW r \in Requests, Arming(r)
    PROVE  FutureInv'
<1> DEFINE s == req[r].at
<1>0. TypeInv /\ NotBehind(r)
  BY DEF FutureInv, ClaimInv
<1>1. Orders # {}
  BY UnderWayHasRows DEF Arming, ArmNextStep, ReadReport, OpenGate, SetCurrentStep, MarkRun, At,
                         Unborn
<1>2. req[r].pc \notin WithoutStep => s \in Orders
  BY <1>0, WorksOnStep
<1>3. CASE ArmNextStep(r)
  <2>1. RowsNotBehind' /\ Orders' = Orders /\ def' = def
    BY <1>3, RowsStayPut DEF ArmNextStep, tables
  <2>2. \A t \in Orders : def[t].kind = "future" => t \in Pending
    BY <1>0, StepRows DEF FutureInv, RowsNotBehind, Pending
  <2>3. \A n \in NextPending, t \in Orders : def[t].kind = "future" => n <= t
    BY <2>2 DEF NextPending
  <2>4. CASE Pending = {}
    BY <1>1, <1>3, <2>1, <2>2, <2>4, ArmToNotBehind, FutureFrame
       DEF ArmNextStep, Unborn, CanWrite, NextPending
  <2>5. ASSUME NEW n \in NextPending, NEW label, NEW m, ArmTo(r, label, n, m), m # "completed",
               \/ label \in {"arm_report", "arm_gate"} /\ def[n].kind = "gate"
               \/ label = "arm_current"
        PROVE  FutureInv'
    <3>1. label \notin Unborn /\ (label \in CanWrite => def[n].kind # "future")
      BY <2>5 DEF Unborn, CanWrite
    <3>2. NotBehind(r)' /\ OthersKeep(r)
      BY <2>1, <2>3, <2>5, <3>1, ArmToNotBehind
    <3> QED
      BY <1>1, <2>1, <3>2, FutureFrame
  <2> QED
    BY <1>3, <2>4, <2>5 DEF ArmNextStep
<1>4. CASE ReadReport(r)
  <2>1. RowsNotBehind' /\ Orders' = Orders /\ def' = def
    BY <1>4, RowsStayPut DEF ReadReport, tables
  <2>2. \A t \in Orders : def[t].kind = "future" => s <= t
    BY <1>0 DEF NotBehind
  <2>3. def[s].kind # "future"
    BY <1>0, <1>4 DEF ReadReport, At, NotBehind, CanWrite
  <2>4. \/ ArmTo(r, "arm_current", s, "qa_failed")
        \/ ArmTo(r, "arm_gate", s, "waiting_for_approval")
    BY <1>4 DEF ReadReport
  <2>5. NotBehind(r)' /\ OthersKeep(r)
    BY <2>1, <2>2, <2>3, <2>4, ArmToNotBehind DEF Unborn
  <2> QED
    BY <1>1, <2>1, <2>5, FutureFrame
<1>5. CASE OpenGate(r)
  <2>1. req[r].pc \in CanWrite /\ s \in Orders
    BY <1>2, <1>5 DEF OpenGate, At, CanWrite, WithoutStep
  <2>2. RowsNotBehind' /\ Orders' = Orders /\ def' = def
    BY <1>5, <2>1, RowsStayPut, WriteInFront DEF OpenGate
  <2>3. Stays(r, "arm_current")
    BY <1>0, <1>5, GotoStays DEF OpenGate
  <2>4. NotBehind(r)' /\ OthersKeep(r)
    BY <2>1, <2>2, <2>3, StaysNotBehind DEF Unborn, CanWrite
  <2> QED
    BY <1>1, <2>2, <2>4, FutureFrame
<1>6. CASE SetCurrentStep(r)
  <2>1. s \in Orders
    BY <1>2, <1>6 DEF SetCurrentStep, At, WithoutStep
  <2>2. /\ run'.status = run.status /\ run'.current = s /\ Orders' = Orders
        /\ steps' = steps /\ def' = def
    BY <1>0, <1>6 DEF SetCurrentStep, TypeInv, RowsOK, RunType, Orders
  <2>3. RowsNotBehind'
    BY <1>0, <2>2 DEF FutureInv, RowsNotBehind, NotBehind
  <2>4. Stays(r, "mark")
    BY <1>0, <1>6, GotoStays DEF SetCurrentStep
  <2>5. NotBehind(r)' /\ OthersKeep(r)
    BY <2>1, <2>2, <2>4, StaysNotBehind DEF Unborn, CanWrite
  <2> QED
    BY <1>1, <2>2, <2>3, <2>5, FutureFrame
<1>7. CASE MarkRun(r)
  <2>1. Orders' = Orders /\ steps' = steps /\ def' = def /\ Reply(r)
    BY <1>7 DEF MarkRun, Orders
  <2>2. run'.current \in {run.current, 0} /\ run'.status \in {run.status, req[r].mark}
    BY <1>0, <1>7 DEF MarkRun, TypeInv, RowsOK, RunType
  <2>3. RowsNotBehind'
    <3> SUFFICES ASSUME NEW t \in Orders, def[t].kind = "future"
                 PROVE  run'.status # "completed" /\ run'.current <= t
      BY <2>1 DEF FutureInv, RowsNotBehind
    <3>1. t \in Nat
      BY <1>0, StepRows
    <3> QED
      BY <1>0, <2>2, <3>1 DEF FutureInv, RowsNotBehind, NotBehind
  <2> QED
    BY <1>1, <2>1, <2>3, LeavesNotBehind, FutureFrame
<1> QED
  BY <1>3, <1>4, <1>5, <1>6, <1>7 DEF Arming

LEMMA FutureDeciding ==
    ASSUME FutureInv, ClaimInv', NEW r \in Requests, Deciding(r)
    PROVE  FutureInv'
<1> DEFINE s == req[r].at
<1>0. TypeInv /\ NotBehind(r)
  BY DEF FutureInv, ClaimInv
<1>1. req[r].pc \notin WithoutStep => s \in Orders /\ Orders # {}
  BY <1>0, WorksOnStep
<1>2. \A label : Goto(r, label) => Stays(r, label)
  BY <1>0, GotoStays
<1>3. CASE ReceiveDecision(r)
  <2>1. run.current \in Orders
    BY <1>0, <1>3 DEF ReceiveDecision, TypeInv, RowsOK
  <2>2. RowsNotBehind' /\ Orders' = Orders /\ def' = def
    BY <1>3, RowsStayPut DEF ReceiveDecision, tables
  <2>3. /\ OthersKeep(r) /\ req'[r].pc = "load_gate" /\ req'[r].at = run.current
        /\ req'[r].mark = "none"
    BY <1>0, <1>3 DEF ReceiveDecision, TypeInv, OthersKeep, Idle
  <2>4. NotBehind(r)'
    BY <2>2, <2>3 DEF FutureInv, RowsNotBehind, NotBehind, CanWrite, Unborn
  <2> QED
    BY <2>1, <2>2, <2>3, <2>4, FutureFrame
<1>4. CASE LoadGate(r) \/ FindEntity(r) \/ DecideEntity(r)
  <2>1. RowsNotBehind' /\ Orders' = Orders /\ def' = def
    BY <1>4, RowsStayPut DEF LoadGate, FindEntity, DecideEntity, tables
  <2>2. s \in Orders /\ Orders # {} /\ (req[r].pc \in CanWrite \/ def[s].kind = "gate")
    BY <1>1, <1>4 DEF LoadGate, FindEntity, DecideEntity, At, WithoutStep, CanWrite
  <2>3. \E label \in {"find_entity", "decide", "claim"} : Stays(r, label)
    BY <1>0, <1>2, <1>4, LoadGateEffect, FindEntityEffect DEF DecideEntity
  <2>4. def[s].kind # "future"
    BY <1>0, <2>2 DEF NotBehind
  <2>5. NotBehind(r)' /\ OthersKeep(r)
    BY <2>1, <2>2, <2>3, <2>4, StaysNotBehind DEF Unborn
  <2> QED
    BY <2>1, <2>2, <2>5, FutureFrame
<1>5. CASE ClaimGate(r)
  <2>1. req[r].pc \in CanWrite /\ s \in Orders /\ Orders # {}
    BY <1>1, <1>5 DEF ClaimGate, At, CanWrite, WithoutStep
  <2>2. RowsNotBehind' /\ Orders' = Orders /\ def' = def
    BY <1>5, <2>1, WriteInFront DEF ClaimGate
  <2>3. NotBehind(r)' /\ OthersKeep(r)
    BY <1>0, <1>5, <2>1, <2>2, ClaimGateEffect, StaysNotBehind DEF Unborn, NotBehind
  <2> QED
    BY <2>1, <2>2, <2>3, FutureFrame
<1>6. CASE RecordDecision(r) \/ RecordApprovedOutput(r)
  <2>1. RowsNotBehind' /\ Orders' = Orders /\ def' = def
    BY <1>6, RowsStayPut DEF RecordDecision, RecordApprovedOutput
  <2>2. req[r].pc \in CanWrite /\ s \in Orders /\ Orders # {}
    BY <1>1, <1>6 DEF RecordDecision, RecordApprovedOutput, At, CanWrite, WithoutStep
  <2>3. def[s].kind # "future"
    BY <1>0, <2>2 DEF NotBehind
  <2>4. \/ Arm(r)
        \/ \E label \in {"approved_output", "reset"} : Stays(r, label)
        \/ ArmTo(r, "mark", s, "failed")
    BY <1>2, <1>6 DEF RecordDecision, RecordApprovedOutput
  <2>5. NotBehind(r)' /\ OthersKeep(r)
    <3>1. CASE ArmTo(r, "mark", s, "failed")
      BY <1>0, <2>1, <2>3, <3>1, ArmToNotBehind DEF Unborn, NotBehind
    <3>2. CASE \E label \in {"approved_output", "reset"} : Stays(r, label)
      BY <2>1, <2>2, <2>3, <3>2, StaysNotBehind DEF Unborn
    <3> QED
      BY <2>1, <2>4, <3>1, <3>2, LeavesNotBehind
  <2> QED
    BY <2>1, <2>2, <2>5, FutureFrame
<1>7. CASE ResetForRevision(r)
  <2>1. req[r].pc \in CanWrite /\ s \in Orders /\ Orders # {}
    BY <1>1, <1>7 DEF ResetForRevision, At, CanWrite, WithoutStep
  <2>2. Orders' = Orders /\ def' = def /\ run' = run
    BY <1>7 DEF ResetForRevision, Orders
  <2>3. \A t \in Orders : steps'[t].status \in {steps[t].status, "pending"}
    BY <1>7 DEF ResetForRevision
  <2>4. RowsNotBehind'
    BY <2>2, <2>3 DEF FutureInv, RowsNotBehind
  <2>5. NotBehind(r)' /\ OthersKeep(r)
    BY <1>0, <1>2, <1>7, <2>1, <2>2, StaysNotBehind DEF ResetForRevision, Unborn, NotBehind
  <2> QED
    BY <2>1, <2>2, <2>4, <2>5, FutureFrame
<1>8. CASE Reopen(r)
  <2>1. Orders' = Orders /\ steps' = steps /\ def' = def /\ Arm(r) /\ Orders # {}
    BY <1>1, <1>8 DEF Reopen, Orders, At, WithoutStep
  <2>2. run'.current = run.current /\ run'.status \in {run.status, "in_progress"}
    BY <1>0, <1>8 DEF Reopen, TypeInv, RowsOK, RunType
  <2>3. RowsNotBehind'
    BY <2>1, <2>2 DEF FutureInv, RowsNotBehind
  <2> QED
    BY <2>1, <2>3, LeavesNotBehind, FutureFrame
<1> QED
  BY <1>3, <1>4, <1>5, <1>6, <1>7, <1>8 DEF Deciding

LEMMA FutureOthers ==
    ASSUME FutureInv, ClaimInv', NEW r \in Requests,
           Refuse(r) \/ Cancel(r) \/ ReviewDirectly(r) \/ Interrupt(r)
    PROVE  FutureInv'
<1>0. TypeInv
  BY DEF FutureInv, ClaimInv
<1>1. CASE Refuse(r) \/ Interrupt(r)
  <2>1. RowsNotBehind' /\ Orders' = Orders /\ def' = def /\ run' = run
    BY <1>1, RowsStayPut DEF Refuse, Interrupt, tables
  <2>2. NotBehind(r)' /\ OthersKeep(r) /\ req'[r].pc = "idle"
    BY <1>0, <1>1, <2>1, LeavesNotBehind, ReplyEffect DEF Refuse, Interrupt, Idle
  <2>3. EmptyOK'
    BY <2>1, <2>2 DEF FutureInv, EmptyOK, OthersKeep, Unborn
  <2>4. ASSUME NEW q \in Requests PROVE NotBehind(q)'
    <3>1. CASE q # r
      BY <2>1, <2>2, <3>1 DEF FutureInv, NotBehind, OthersKeep
    <3> QED
      BY <2>2, <3>1
  <2> QED
    BY <2>1, <2>3, <2>4 DEF FutureInv
<1>2. CASE Cancel(r) \/ ReviewDirectly(r)
  <2>1. req' = req /\ steps' = steps /\ def' = def /\ Orders' = Orders
    BY <1>2 DEF Cancel, ReviewDirectly, Orders
  <2>2. run'.current = run.current /\ run'.status \in {run.status, "cancelled"}
    BY <1>0, <1>2 DEF Cancel, ReviewDirectly, TypeInv, RowsOK, RunType
  <2> QED
    BY <2>1, <2>2 DEF FutureInv, EmptyOK, RowsNotBehind, NotBehind
<1> QED
  BY <1>1, <1>2

LEMMA InitFuture == Init => FutureInv
<1> SUFFICES ASSUME Init PROVE FutureInv
  OBVIOUS
<1>1. Orders = {}
  BY DEF Init, Orders
<1>2. \A r \in Requests : req[r] = Idle
  BY DEF Init
<1>3. \A r \in Requests : NotBehind(r)
  BY <1>1, <1>2 DEF NotBehind, Idle, CanWrite, Unborn
<1>4. run.status = "none"
  BY DEF Init
<1>5. EmptyOK
  BY <1>2, <1>4 DEF EmptyOK, Idle, Unborn
<1> QED
  BY <1>1, <1>3, <1>5, InitClaims DEF FutureInv, RowsNotBehind

LEMMA FutureInvStep == FutureInv /\ [Next]_vars => FutureInv'
<1> SUFFICES ASSUME FutureInv, [Next]_vars PROVE FutureInv'
  OBVIOUS
<1>0. ClaimInv'
  BY ClaimInvStep DEF FutureInv
<1>1. CASE Next
  <2>1. PICK r \in Requests :
           \/ Starting(r) \/ Advancing(r) \/ Arming(r) \/ Deciding(r)
           \/ Refuse(r) \/ Cancel(r) \/ ReviewDirectly(r) \/ Interrupt(r)
    BY <1>1 DEF Next
  <2> QED
    BY <1>0, <2>1, FutureStarting, FutureAdvancing, FutureArming, FutureDeciding, FutureOthers
<1>2. CASE UNCHANGED vars
  BY <1>0, <1>2 DEF vars, FutureInv, EmptyOK, RowsNotBehind, NotBehind, Orders
<1> QED
  BY <1>1, <1>2

LEMMA FutureInvAlways == Spec => []FutureInv
  BY InitFuture, FutureInvStep, PTL DEF Spec

\* Unimplemented features block the run, never faked as success: for every catalog,
\* any callers and with requests dying anywhere, no request ever works behind a future
\* step, so nothing at or after one leaves pending and the run never completes.
THEOREM FutureIsNeverPassed == Spec => []FutureNeverPassed
<1>1. FutureInv => FutureNeverPassed
  BY DEF FutureInv, RowsNotBehind, FutureNeverPassed
<1> QED
  BY <1>1, FutureInvAlways, PTL

(***************************************************************************)
(* The order of the steps, while one slot drives and no request dies       *)
(***************************************************************************)
\* Who starts or advances a run.  Any number of others may decide, review and cancel.
Driver(r) == MayIssue[r] \cap {"start", "advance"} # {}
SingleDriver == \A q, r \in Requests : Driver(q) /\ Driver(r) => q = r

Done == {"completed", "approved", "skipped"}
InOrder ==
    \A s, t \in Orders : s < t /\ steps[s].status \notin Done => steps[t].status = "pending"
IsFront(s) ==
    /\ s \in Orders /\ steps[s].status \notin Done
    /\ \A t \in Orders : t < s => steps[t].status \in Done
\* No step is under way: all are done or pending.
Clean == \A s \in Orders : steps[s].status \in Done \cup {"pending"}
AllDone == \A s \in Orders : steps[s].status \in Done

\* What a step may become depends on what it is.
KindFits(s, status) ==
    /\ status \in {"waiting_for_approval", "approved", "rejected"} => def[s].kind = "gate"
    /\ status \in {"in_progress", "completed", "failed"} => def[s].kind \in Executable
    /\ status = "skipped" => def[s].kind \in {"skip", "read"}
KindsFit == \A s \in Orders : KindFits(s, steps[s].status)

\* Advance does nothing on a gate or a future step.
Parked(s) == s \in Orders /\ def[s].kind \in {"gate", "future"}

\* A request holds the run from the claim of a step, or of a gate, until it has set the
\* current step to one that can be advanced, or has parked it.
Running == {"execute", "complete", "note", "fail"}
Settled == {"output", "merge", "arm", "arm_report", "arm_gate", "approved_output", "reopen"}
Working == Running \cup Settled \cup {"create_steps", "audit", "reset"}
Holds(r) == req[r].pc \in Working \/ (req[r].pc = "arm_current" /\ ~Parked(req[r].at))
Free == \A r \in Requests : ~Holds(r)
OneHolder == \A q, r \in Requests : Holds(q) /\ Holds(r) => q = r

\* A step an advance may be about: it finds the front, or it finds nothing to do.
Reachable(s) == Parked(s) \/ (IsFront(s) /\ Free)

Right(r) ==
    LET q == req[r]
        s == req[r].at
    IN
    /\ q.pc = "create_steps" => Orders = {}
    /\ q.pc \in {"begin", "output", "merge"} \cup Running => def[s].kind \in Executable
    /\ q.pc = "note" => def[s].kind = "read"
    /\ q.pc = "skip" => def[s].kind = "skip"
    /\ q.pc \in Running => steps[s].status = "in_progress"
    /\ q.pc \in Settled => Clean
    /\ q.pc \in {"arm_report", "arm_gate"} => def[s].kind = "gate" /\ IsFront(s)
    /\ q.pc \in {"arm_gate", "arm_current"} => q.mark # "completed"
    /\ q.pc = "arm_current" /\ ~Parked(s) => Clean /\ IsFront(s)
    /\ q.pc \in {"find_entity", "decide", "claim", "audit", "reset"} =>
          def[s].kind = "gate" /\ def[s].gate # "brand_profile_future"
    /\ q.pc \in {"audit", "reset"} => steps[s].status = q.decision
    /\ q.pc = "audit" /\ q.decision = "approved" => Clean
    /\ q.pc = "reset" => q.decision = "rejected" /\ def[s].returnTo # 0
    /\ q.pc = "mark" /\ q.mark = "completed" => AllDone
    /\ q.pc \in {"advance", "skip", "begin"} => Driver(r) /\ Reachable(s)

\* Until its driver replies, current_step_id may still name a step that is done.
Live == run.status \in {"in_progress", "waiting_for_approval"}
BusyWith(r) ==
    /\ Driver(r)
    /\ \/ Holds(r) \/ req[r].pc = "arm_current"
       \/ req[r].pc = "mark" /\ req[r].mark \in {"completed", "failed"}
CurrentOK ==
    Live /\ run.current # 0 /\ (\A r \in Requests : ~BusyWith(r)) => Reachable(run.current)
EndOK == run.status = "completed" => AllDone

OrderInv ==
    /\ FutureInv
    /\ InOrder
    /\ KindsFit
    /\ OneHolder
    /\ \A r \in Requests : Right(r)
    /\ CurrentOK
    /\ EndOK

LEMMA OrderTypes == OrderInv => TypeInv /\ ClaimInv /\ FutureInv
  BY DEF OrderInv, FutureInv, ClaimInv

\* At most one step is under way, and it is the front.
LEMMA UnderWayIsFront ==
    ASSUME OrderInv, NEW s \in Orders, steps[s].status \notin Done \cup {"pending"}
    PROVE  IsFront(s)
<1> SUFFICES ASSUME NEW t \in Orders, t < s PROVE steps[t].status \in Done
  BY DEF IsFront
<1> QED
  BY DEF OrderInv, InOrder

LEMMA FrontIsOne ==
    ASSUME TypeInv, NEW s, NEW t, IsFront(s), IsFront(t)
    PROVE  s = t
<1>1. s \in Nat /\ t \in Nat
  BY StepRows DEF IsFront
<1> QED
  BY <1>1 DEF IsFront

\* Behind the front everything is pending.
LEMMA BehindFront ==
    ASSUME OrderInv, NEW s, IsFront(s), NEW t \in Orders, t # s
    PROVE  \/ t < s /\ steps[t].status \in Done
           \/ s < t /\ steps[t].status = "pending"
<1>1. s \in Nat /\ t \in Nat
  BY OrderTypes, StepRows DEF IsFront
<1>2. InOrder
  BY DEF OrderInv
<1> QED
  BY <1>1, <1>2 DEF IsFront, InOrder

\* While a gate waits, nobody holds the run.
LEMMA WaitingIsFree ==
    ASSUME OrderInv, NEW s \in Orders, steps[s].status = "waiting_for_approval"
    PROVE  Free /\ IsFront(s)
<1>1. IsFront(s)
  BY UnderWayIsFront DEF Done
<1>2. ASSUME NEW r \in Requests, Holds(r) PROVE FALSE
  <2>0. Right(r) /\ ~Clean /\ Orders # {}
    BY DEF OrderInv, Clean, Done
  <2>1. req[r].pc \in Running \cup {"audit", "reset"}
    BY <1>2, <2>0 DEF Right, Holds, Working
  <2>2. req[r].at \in Orders /\ req[r].decision \in {"none", "approved", "rejected"}
          /\ (req[r].pc \in Deciders => req[r].decision # "none")
    BY <2>1, OrderTypes, WorksOnStep
       DEF Running, WithoutStep, TypeInv, LocalOK, Request, Deciders
  <2>3. steps[req[r].at].status \in {"in_progress", "rejected"}
    BY <2>0, <2>1, <2>2 DEF Right, Running, Deciders
  <2>4. IsFront(req[r].at)
    BY <2>2, <2>3, UnderWayIsFront DEF Done
  <2>5. req[r].at = s
    BY <1>1, <2>4, OrderTypes, FrontIsOne
  <2> QED
    BY <2>3, <2>5
<1> QED
  BY <1>1, <1>2 DEF Free

(***************************************************************************)
(* Statements that leave the step rows alone                               *)
(***************************************************************************)
LEMMA SameRows ==
    ASSUME UNCHANGED <<steps, def>>
    PROVE  /\ Orders' = Orders /\ (InOrder' <=> InOrder) /\ (KindsFit' <=> KindsFit)
           /\ (Clean' <=> Clean) /\ (AllDone' <=> AllDone)
           /\ \A s : (IsFront(s)' <=> IsFront(s)) /\ (Parked(s)' <=> Parked(s))
  BY DEF Orders, InOrder, KindsFit, KindFits, Clean, AllDone, IsFront, Parked

LEMMA OthersHold ==
    ASSUME NEW r \in Requests, OthersKeep(r), def' = def, Orders' = Orders,
           NEW q \in Requests, q # r
    PROVE  (Holds(q)' <=> Holds(q)) /\ (BusyWith(q)' <=> BusyWith(q))
  BY DEF OthersKeep, Holds, BusyWith, Parked

\* Others stay right when the rows do not change and r takes hold of nothing.
LEMMA OthersStayRight ==
    ASSUME OrderInv, NEW r \in Requests, OthersKeep(r), UNCHANGED <<steps, def>>,
           Holds(r)' => Holds(r), NEW q \in Requests, q # r
    PROVE  Right(q)'
<1>1. Free => Free'
  BY OthersHold, SameRows DEF Free
<1>2. \A s : Reachable(s) => Reachable(s)'
  BY <1>1, SameRows DEF Reachable
<1>3. req'[q] = req[q] /\ Right(q)
  BY DEF OthersKeep, OrderInv
<1> QED
  BY <1>2, <1>3, SameRows DEF Right

LEMMA OrderFrame ==
    ASSUME OrderInv, FutureInv', NEW r \in Requests, OthersKeep(r), UNCHANGED <<steps, def>>,
           Holds(r)' => Holds(r), Right(r)', CurrentOK', EndOK'
    PROVE  OrderInv'
<1>1. InOrder' /\ KindsFit'
  BY SameRows DEF OrderInv
<1>2. OneHolder'
  <2>1. \A q \in Requests : Holds(q)' => Holds(q)
    BY OthersHold, SameRows
  <2> QED
    BY <2>1 DEF OrderInv, OneHolder
<1>3. \A q \in Requests : Right(q)'
  BY OthersStayRight
<1> QED
  BY <1>1, <1>2, <1>3 DEF OrderInv

\* The current step stays right when the run row does and r stays busy if it was.
LEMMA CurrentFrame ==
    ASSUME OrderInv, NEW r \in Requests, OthersKeep(r), UNCHANGED <<steps, def>>,
           Holds(r)' => Holds(r), Live' => Live, run'.current = run.current,
           BusyWith(r) => BusyWith(r)'
    PROVE  CurrentOK'
<1> SUFFICES ASSUME Live', run'.current # 0, \A q \in Requests : ~BusyWith(q)'
             PROVE  Reachable(run.current)'
  BY DEF CurrentOK
<1>1. \A q \in Requests : ~BusyWith(q)
  BY OthersHold, SameRows
<1>2. Live /\ run.current # 0 /\ run'.current = run.current => Reachable(run.current)
  BY <1>1 DEF OrderInv, CurrentOK
<1>3. Free => Free'
  BY OthersHold, SameRows DEF Free
<1> QED
  BY <1>2, <1>3, SameRows DEF Reachable

\* The common case: only local variables change, or rows nobody here looks at.
LEMMA LocalStep ==
    ASSUME OrderInv, FutureInv', NEW r \in Requests, OthersKeep(r),
           UNCHANGED <<run, steps, def>>,
           Holds(r)' => Holds(r), BusyWith(r) => BusyWith(r)', Right(r)'
    PROVE  OrderInv'
<1>1. CurrentOK'
  BY CurrentFrame DEF Live
<1>2. EndOK'
  BY SameRows DEF OrderInv, EndOK
<1> QED
  BY <1>1, <1>2, OrderFrame

(***************************************************************************)
(* Statements that write the front                                         *)
(***************************************************************************)
WritesFront(r, s, x) ==
    /\ s = req[r].at /\ IsFront(s) /\ SetStep(s, x) /\ KindFits(s, x)
    /\ Holds(r) \/ (Free /\ (Driver(r) \/ Parked(s)))
    /\ UNCHANGED <<run, def>>
    /\ OthersKeep(r)

LEMMA FrontRows ==
    ASSUME OrderInv, NEW s, IsFront(s), NEW x, SetStep(s, x), def' = def
    PROVE  /\ Orders' = Orders /\ s \in Orders
           /\ steps'[s].status = x
           /\ \A t \in Orders : t # s => steps'[t] = steps[t]
           /\ \A t : Parked(t)' <=> Parked(t)
           /\ x \in Done \cup {"pending"} => Clean'
           /\ x \notin Done => IsFront(s)'
<1>1. /\ Orders' = Orders /\ s \in Orders
      /\ steps'[s].status = x
      /\ \A t \in Orders : t # s => steps'[t] = steps[t]
  BY OrderTypes, SetStepEffect DEF IsFront
<1>2. \A t \in Orders : t # s => steps[t].status \in Done \cup {"pending"}
  BY BehindFront
<1>3. x \in Done \cup {"pending"} => Clean'
  BY <1>1, <1>2 DEF Clean
<1>4. x \notin Done => IsFront(s)'
  <2>1. \A t \in Orders : t < s => t # s
    BY OrderTypes, StepRows DEF IsFront
  <2> QED
    BY <1>1, <2>1 DEF IsFront
<1> QED
  BY <1>1, <1>3, <1>4 DEF Parked

LEMMA WriteKeepsOrder ==
    ASSUME OrderInv, NEW r \in Requests, NEW s, NEW x, WritesFront(r, s, x)
    PROVE  InOrder' /\ KindsFit' /\ EndOK'
<1> USE DEF WritesFront
<1>1. /\ Orders' = Orders /\ s \in Orders /\ steps'[s].status = x
      /\ \A t \in Orders : t # s => steps'[t] = steps[t]
  BY FrontRows
<1>2. \A t \in Orders : t \in Nat
  BY OrderTypes, StepRows
<1>3. InOrder'
  <2> SUFFICES ASSUME NEW t \in Orders, NEW u \in Orders, t < u, steps'[t].status \notin Done
               PROVE  steps'[u].status = "pending"
    BY <1>1 DEF InOrder
  <2>1. t = s \/ s < t
    BY <1>1, BehindFront
  <2>2. s < u /\ u # s
    BY <1>1, <1>2, <2>1
  <2> QED
    BY <1>1, <1>2, <2>2, BehindFront
<1>4. KindsFit'
  BY <1>1 DEF OrderInv, KindsFit, KindFits
<1>5. EndOK'
  BY <1>1 DEF OrderInv, EndOK, AllDone, IsFront
<1> QED
  BY <1>3, <1>4, <1>5

LEMMA WriteKeepsOthers ==
    ASSUME OrderInv, SingleDriver, NEW r \in Requests, NEW s, NEW x, WritesFront(r, s, x),
           NEW q \in Requests, q # r
    PROVE  Right(q)' /\ ~Holds(q)
<1> USE DEF WritesFront
<1>1. /\ Orders' = Orders /\ s \in Orders /\ \A t : Parked(t)' <=> Parked(t)
  BY FrontRows
<1>2. ~Holds(q)
  BY DEF OrderInv, OneHolder, Free
<1>3. req'[q] = req[q] /\ Right(q)
  BY DEF OthersKeep, OrderInv
<1>4. ~AllDone
  BY DEF AllDone, IsFront
<1>5. req[q].pc \in {"advance", "skip", "begin"} => Driver(q) /\ Parked(req[q].at)
  <2> SUFFICES ASSUME req[q].pc \in {"advance", "skip", "begin"}, ~Parked(req[q].at)
               PROVE  FALSE
    BY <1>3 DEF Right
  <2>1. Driver(q) /\ Free /\ IsFront(req[q].at)
    BY <1>3 DEF Right, Reachable
  <2>2. req[q].at = s
    BY <2>1, OrderTypes, FrontIsOne
  <2>3. Driver(r)
    BY <2>1, <2>2 DEF Free
  <2> QED
    BY <2>1, <2>3 DEF SingleDriver
<1>6. req[q].pc \notin Working /\ ~(req[q].pc = "arm_current" /\ ~Parked(req[q].at))
  BY <1>2 DEF Holds
<1> QED
  BY <1>1, <1>2, <1>3, <1>4, <1>5, <1>6 DEF Right, Working, Running, Settled, Reachable

\* The step r writes is not what current_step_id asks for, or r goes on working.
LEMMA WriteKeepsCurrent ==
    ASSUME OrderInv, NEW r \in Requests, OthersKeep(r), UNCHANGED <<run, def>>,
           Orders' = Orders, Driver(r) => BusyWith(r)',
           Holds(r) \/ \E s : IsFront(s) /\ Parked(s)
    PROVE  CurrentOK'
<1> SUFFICES ASSUME Live', run'.current # 0, \A q \in Requests : ~BusyWith(q)'
             PROVE  Reachable(run.current)'
  BY DEF CurrentOK
<1>1. \A q \in Requests : ~BusyWith(q)
  BY OthersHold DEF BusyWith
<1>2. Reachable(run.current)
  BY <1>1 DEF OrderInv, CurrentOK, Live
<1>3. Parked(run.current)
  BY <1>2, OrderTypes, FrontIsOne DEF Reachable, Free
<1> QED
  BY <1>3 DEF Reachable, Parked

LEMMA WriteStep ==
    ASSUME OrderInv, FutureInv', SingleDriver, NEW r \in Requests, NEW s, NEW x,
           WritesFront(r, s, x), Right(r)', Driver(r) => BusyWith(r)'
    PROVE  OrderInv'
<1>1. InOrder' /\ KindsFit' /\ EndOK'
  BY WriteKeepsOrder
<1>2. \A q \in Requests : q # r => Right(q)' /\ ~Holds(q)
  BY WriteKeepsOthers
<1>3. OneHolder'
  BY <1>2, OthersHold, FrontRows DEF OneHolder, WritesFront
<1>4. CurrentOK'
  <2>1. Orders' = Orders
    BY FrontRows DEF WritesFront
  <2>2. CASE Holds(r) \/ Parked(s)
    BY <2>1, <2>2, WriteKeepsCurrent DEF WritesFront
  <2>3. CASE Driver(r)
    BY <2>3 DEF CurrentOK
  <2> QED
    BY <2>2, <2>3 DEF WritesFront
<1> QED
  BY <1>1, <1>2, <1>3, <1>4 DEF OrderInv

(***************************************************************************)
(* The actions                                                             *)
(***************************************************************************)
LEMMA OrderStarting ==
    ASSUME OrderInv, FutureInv', NEW r \in Requests, Starting(r)
    PROVE  OrderInv'
<1>0. FutureInv
  BY DEF OrderInv
<1>1. CASE Start(r)
  <2>1. /\ Orders' = {} /\ req'[r].pc = "create_steps"
        /\ \A q \in Requests : q # r => req'[q].pc = "idle"
    BY <1>0, <1>1, StartEffect DEF Stays, OthersKeep
  <2>2. \A q \in Requests : q # r => ~Holds(q)'
    BY <2>1 DEF Holds, Working, Running, Settled
  <2>3. \A q \in Requests : Right(q)'
    BY <2>1 DEF Right, Running, Settled
  <2>4. run'.current = 0
    BY <2>1 DEF FutureInv, ClaimInv, TypeInv, RowsOK
  <2> QED
    BY <2>1, <2>2, <2>3, <2>4
       DEF OrderInv, InOrder, KindsFit, OneHolder, CurrentOK, EndOK, AllDone
<1>2. CASE CreateSteps(r)
  <2>1. /\ Orders' # {} /\ \A t \in Orders' : steps'[t].status = "pending"
        /\ run'.current = 0 /\ run'.status # "completed"
        /\ req'[r].pc = "arm"
        /\ \A q \in Requests : q # r => req'[q].pc = "idle"
    BY <1>0, <1>2, CreateStepsEffect DEF OthersKeep, Idle
  <2>2. \A q \in Requests : q # r => ~Holds(q)'
    BY <2>1 DEF Holds, Working, Running, Settled
  <2>3. \A q \in Requests : Right(q)'
    BY <2>1 DEF Right, Running, Settled, Clean
  <2> QED
    BY <2>1, <2>2, <2>3
       DEF OrderInv, InOrder, KindsFit, KindFits, OneHolder, CurrentOK, EndOK
<1> QED
  BY <1>1, <1>2 DEF Starting

\* An advance reads a step that nobody has done: its self-heal is never needed.
LEMMA NothingToHeal ==
    ASSUME OrderInv, NEW s \in Orders, Reachable(s)
    PROVE  steps[s].status \notin {"completed", "skipped"}
<1>1. KindFits(s, steps[s].status)
  BY DEF OrderInv, KindsFit
<1> QED
  BY <1>1 DEF Reachable, Parked, KindFits, IsFront, Done, Executable

LEMMA OrderAdvancing ==
    ASSUME OrderInv, FutureInv', SingleDriver, NEW r \in Requests, Advancing(r)
    PROVE  OrderInv'
<1> DEFINE s == req[r].at
<1>0. TypeInv /\ FutureInv /\ Right(r)
  BY OrderTypes DEF OrderInv
<1>1. req[r].pc \notin WithoutStep => s \in Orders
  BY <1>0, WorksOnStep
<1>2. \A label : Goto(r, label) => Stays(r, label)
  BY <1>0, GotoStays
<1>3. Arm(r) => OthersKeep(r) /\ req'[r].pc = "arm"
  BY <1>0, ArmEffect DEF Idle
<1>4. CASE Advance(r)
  <2>1. Live /\ run.current # 0 /\ Driver(r) /\ req[r].pc = "idle"
    BY <1>4 DEF Advance, Live, Receives, At, Driver
  <2>2. \A q \in Requests : ~BusyWith(q)
    BY <2>1 DEF BusyWith, Holds, Working, Running, Settled, SingleDriver
  <2>3. Reachable(run.current)
    BY <2>1, <2>2 DEF OrderInv, CurrentOK
  <2>4. OthersKeep(r) /\ req'[r].pc = "advance" /\ req'[r].at = run.current
    BY <1>0, <1>4 DEF Advance, TypeInv, OthersKeep, Idle
  <2>5. UNCHANGED <<run, steps, def>>
    BY <1>4 DEF Advance, tables
  <2>6. ~Holds(r)'
    BY <2>4 DEF Holds, Working, Running, Settled
  <2>7. Reachable(run.current)'
    BY <2>3, <2>4, <2>5, <2>6, SameRows, OthersHold DEF Reachable, Free
  <2>8. Right(r)'
    BY <2>1, <2>4, <2>5, <2>7 DEF Right, Running, Settled, Reachable
  <2> QED
    BY <2>2, <2>4, <2>5, <2>6, <2>8, LocalStep
<1>5. CASE ReadStep(r)
  <2>1. s \in Orders /\ Driver(r) /\ Reachable(s)
    BY <1>0, <1>1, <1>5 DEF ReadStep, At, WithoutStep, Right
  <2>2. UNCHANGED <<run, steps, def>>
    BY <1>5 DEF ReadStep, tables
  <2>3. \/ Stays(r, "skip") /\ def[s].kind = "skip"
        \/ Stays(r, "begin") /\ def[s].kind \in Executable
    BY <1>2, <1>5, <2>1, NothingToHeal DEF ReadStep
  <2>4. /\ OthersKeep(r) /\ req'[r].pc \in {"skip", "begin"} /\ req'[r].at = s
    BY <2>3 DEF Stays
  <2>5. ~Holds(r)' /\ ~BusyWith(r)
    BY <1>5, <2>4 DEF ReadStep, At, BusyWith, Holds, Working, Running, Settled
  <2>6. Reachable(s)'
    BY <2>1, <2>2, <2>4, <2>5, SameRows, OthersHold DEF Reachable, Free
  <2>7. Right(r)'
    BY <2>1, <2>2, <2>3, <2>6 DEF Right, Running, Settled, Stays
  <2> QED
    BY <2>2, <2>4, <2>5, <2>7, LocalStep
<1>6. CASE Skip(r) \/ Begin(r)
  <2>1. s \in Orders /\ Driver(r) /\ Reachable(s) /\ ~Parked(s)
    BY <1>0, <1>1, <1>6 DEF Skip, Begin, At, WithoutStep, Right, Parked, Executable
  <2>2. IsFront(s) /\ Free
    BY <2>1 DEF Reachable
  <2>3. \/ SetStep(s, "skipped") /\ KindFits(s, "skipped") /\ Arm(r)
        \/ SetStep(s, "in_progress") /\ KindFits(s, "in_progress") /\ Stays(r, "execute")
    BY <1>0, <1>6, BeginEffect DEF Skip, Begin, At, Right, KindFits
  <2>4. \E x : WritesFront(r, s, x)
    BY <1>3, <1>6, <2>1, <2>2, <2>3 DEF WritesFront, Skip, Begin, Stays
  <2>5. Right(r)'
    <3>1. CASE Arm(r)
      <4>1. Clean'
        BY <1>6, <2>2, <2>3, <3>1, FrontRows DEF Skip, Begin, Done, Arm, Stays, At
      <4> QED
        BY <1>3, <3>1, <4>1 DEF Right, Running, Settled
    <3>2. CASE SetStep(s, "in_progress") /\ KindFits(s, "in_progress") /\ Stays(r, "execute")
      <4>1. steps'[s].status = "in_progress" /\ def' = def
        BY <1>6, <2>2, <3>2, FrontRows DEF Skip, Begin
      <4> QED
        BY <3>2, <4>1 DEF Right, Running, Settled, Stays, KindFits
    <3> QED
      BY <2>3, <3>1, <3>2
  <2>6. BusyWith(r)'
    BY <1>3, <2>1, <2>3 DEF BusyWith, Holds, Working, Running, Settled, Stays
  <2> QED
    BY <2>4, <2>5, <2>6, WriteStep
<1>7. CASE Execute(r)
  <2>1. req[r].pc = "execute" /\ UNCHANGED <<run, steps, def>>
    BY <1>7 DEF Execute, At
  <2>2. \/ Stays(r, "complete") \/ Stays(r, "fail")
        \/ Stays(r, "note") /\ def[s].kind = "read"
    BY <1>0, <1>7, ExecuteEffect
  <2>3. Right(r)'
    BY <1>0, <2>1, <2>2 DEF Right, Running, Settled, Stays
  <2>4. Holds(r) /\ Holds(r)'
    BY <2>1, <2>2 DEF Holds, Working, Running, Stays
  <2> QED
    BY <2>1, <2>2, <2>3, <2>4, LocalStep DEF Stays, BusyWith
<1>8. CASE Complete(r) \/ SkipWithNote(r) \/ FailStep(r)
  <2>1. s \in Orders /\ req[r].pc \in Running
    BY <1>1, <1>8 DEF Complete, SkipWithNote, FailStep, At, WithoutStep, Running
  <2>2. steps[s].status = "in_progress" /\ Holds(r) /\ def[s].kind \in Executable
    BY <1>0, <2>1 DEF Right, Holds, Working
  <2>3. IsFront(s)
    BY <2>1, <2>2, UnderWayIsFront DEF Done
  <2>4. \E x \in Done \cup {"failed"} :
           /\ SetStep(s, x) /\ KindFits(s, x)
           /\ \/ x \in Done /\ (Arm(r) \/ Stays(r, "output"))
              \/ ArmTo(r, "mark", s, "failed")
    BY <1>0, <1>2, <1>8, <2>2
       DEF Complete, SkipWithNote, FailStep, At, Right, KindFits, Done
  <2>5. PICK x \in Done \cup {"failed"} :
           /\ SetStep(s, x) /\ KindFits(s, x)
           /\ \/ x \in Done /\ (Arm(r) \/ Stays(r, "output"))
              \/ ArmTo(r, "mark", s, "failed")
    BY <2>4
  <2>6. /\ OthersKeep(r)
        /\ \/ x \in Done /\ req'[r].pc = "arm"
           \/ x \in Done /\ req'[r].pc = "output" /\ req'[r].at = s
           \/ req'[r].pc = "mark" /\ req'[r].mark = "failed"
    <3>1. CASE ArmTo(r, "mark", s, "failed")
      BY <1>0, <3>1 DEF ArmTo, Idle, TypeInv, OthersKeep
    <3> QED
      BY <1>3, <2>5, <3>1 DEF Stays
  <2>7. UNCHANGED <<run, def>>
    BY <1>8 DEF Complete, SkipWithNote, FailStep
  <2>8. WritesFront(r, s, x)
    BY <2>2, <2>3, <2>5, <2>6, <2>7 DEF WritesFront
  <2>9. x \in Done => Clean'
    BY <2>3, <2>5, <2>7, FrontRows
  <2>10. Right(r)'
    BY <2>2, <2>6, <2>7, <2>9 DEF Right, Running, Settled
  <2>11. Driver(r) => BusyWith(r)'
    BY <2>6 DEF BusyWith, Holds, Working, Settled
  <2> QED
    BY <2>8, <2>10, <2>11, WriteStep
<1>9. CASE RecordOutput(r) \/ MergeOutput(r)
  <2>1. req[r].pc \in Settled /\ UNCHANGED <<steps, def>> /\ run'.status = run.status
           /\ run'.current = run.current
    BY <1>0, <1>9 DEF RecordOutput, MergeOutput, At, Settled, TypeInv, RowsOK, RunType
  <2>2. Arm(r) \/ (Stays(r, "merge") /\ req[r].pc = "output")
    BY <1>2, <1>9 DEF RecordOutput, MergeOutput, At
  <2>3. /\ OthersKeep(r)
        /\ \/ req'[r].pc = "arm"
           \/ req'[r].pc = "merge" /\ req'[r].at = s /\ def[s].kind \in Executable
    BY <1>0, <1>3, <2>2 DEF Stays, Right
  <2>4. Clean'
    BY <1>0, <2>1, SameRows DEF Right
  <2>5. Right(r)'
    BY <2>1, <2>3, <2>4 DEF Right, Running, Settled
  <2>6. Holds(r) /\ Holds(r)'
    BY <2>1, <2>3 DEF Holds, Working, Settled
  <2>7. CurrentOK'
    BY <2>1, <2>3, <2>6, CurrentFrame DEF BusyWith, Live
  <2>8. EndOK'
    BY <2>1, SameRows DEF OrderInv, EndOK
  <2> QED
    BY <2>1, <2>3, <2>5, <2>6, <2>7, <2>8, OrderFrame
<1> QED
  BY <1>4, <1>5, <1>6, <1>7, <1>8, <1>9 DEF Advancing

LEMMA OrderArming ==
    ASSUME OrderInv, FutureInv', SingleDriver, NEW r \in Requests, Arming(r)
    PROVE  OrderInv'
<1> DEFINE s == req[r].at
<1>0. TypeInv /\ FutureInv /\ Right(r)
  BY OrderTypes DEF OrderInv
<1>1. req[r].pc \notin WithoutStep => s \in Orders
  BY <1>0, WorksOnStep
<1>2. ASSUME NEW label, NEW t, NEW m, ArmTo(r, label, t, m)
      PROVE  OthersKeep(r) /\ req'[r].pc = label /\ req'[r].at = t /\ req'[r].mark = m
  BY <1>0, <1>2 DEF ArmTo, Idle, TypeInv, OthersKeep
<1>3. CASE ArmNextStep(r)
  <2>1. req[r].pc = "arm" /\ Holds(r) /\ Clean /\ UNCHANGED <<run, steps, def>>
    BY <1>0, <1>3 DEF ArmNextStep, At, tables, Right, Settled, Holds, Working
  <2>2. ASSUME NEW n \in NextPending PROVE IsFront(n)
    <3>1. n \in Orders /\ steps[n].status = "pending"
             /\ \A t \in Orders : t < n => steps[t].status # "pending"
      <4>1. \A t \in Pending : n <= t
        BY DEF NextPending
      <4>2. \A t \in Orders : t \in Nat
        BY <1>0, StepRows
      <4> QED
        BY <4>1, <4>2 DEF NextPending, Pending
    <3> QED
      BY <2>1, <3>1 DEF IsFront, Clean, Done
  <2>3. CASE Pending = {}
    <3>1. AllDone
      BY <2>1, <2>3 DEF AllDone, Clean, Pending
    <3>2. OthersKeep(r) /\ req'[r].pc = "mark" /\ req'[r].mark = "completed"
      BY <1>2, <1>3, <2>3 DEF ArmNextStep, NextPending
    <3>3. Right(r)'
      BY <2>1, <3>1, <3>2, SameRows DEF Right, Running, Settled
    <3> QED
      BY <2>1, <3>2, <3>3, LocalStep DEF BusyWith
  <2>4. ASSUME NEW n \in NextPending, NEW label \in {"arm_report", "arm_gate", "arm_current"},
               NEW m, ArmTo(r, label, n, m), m # "completed",
               label # "arm_current" => def[n].kind = "gate"
        PROVE  OrderInv'
    <3>1. OthersKeep(r) /\ req'[r].pc = label /\ req'[r].at = n /\ req'[r].mark = m
      BY <1>2, <2>4
    <3>2. Clean' /\ IsFront(n)'
      BY <2>1, <2>2, SameRows
    <3>3. Right(r)'
      BY <2>1, <2>4, <3>1, <3>2 DEF Right, Running, Settled
    <3>4. Driver(r) => BusyWith(r)'
      BY <3>1 DEF BusyWith, Holds, Working, Settled
    <3> QED
      BY <2>1, <3>1, <3>3, <3>4, LocalStep DEF BusyWith
  <2> QED
    BY <1>3, <2>3, <2>4 DEF ArmNextStep
<1>4. CASE ReadReport(r)
  <2>1. req[r].pc = "arm_report" /\ Holds(r) /\ Clean /\ UNCHANGED <<run, steps, def>>
           /\ def[s].kind = "gate" /\ IsFront(s)
    BY <1>0, <1>4 DEF ReadReport, At, tables, Right, Settled, Holds, Working
  <2>2. \E label \in {"arm_gate", "arm_current"}, m \in {"qa_failed", "waiting_for_approval"} :
           ArmTo(r, label, s, m)
    BY <1>4 DEF ReadReport
  <2>3. /\ OthersKeep(r) /\ req'[r].pc \in {"arm_gate", "arm_current"} /\ req'[r].at = s
        /\ req'[r].mark # "completed"
    BY <1>2, <2>2
  <2>4. Clean' /\ IsFront(s)'
    BY <2>1, <2>3, SameRows
  <2>5. Right(r)'
    BY <2>1, <2>3, <2>4 DEF Right, Running, Settled
  <2>6. Driver(r) => BusyWith(r)'
    BY <2>3 DEF BusyWith, Holds, Working, Settled
  <2> QED
    BY <2>1, <2>3, <2>5, <2>6, LocalStep DEF BusyWith
<1>5. CASE OpenGate(r)
  <2>1. /\ req[r].pc = "arm_gate" /\ Holds(r) /\ def[s].kind = "gate" /\ IsFront(s)
        /\ steps[s].status = "pending" /\ req[r].mark # "completed"
    BY <1>0, <1>5 DEF OpenGate, At, Right, Settled, Holds, Working, Clean, IsFront, Done
  <2>2. SetStep(s, "waiting_for_approval") /\ UNCHANGED <<run, def>> /\ Stays(r, "arm_current")
    BY <1>0, <1>5, <2>1, GotoStays DEF OpenGate
  <2>3. WritesFront(r, s, "waiting_for_approval")
    BY <2>1, <2>2 DEF WritesFront, KindFits, Stays, Executable
  <2>4. Parked(s)'
    BY <1>0, <2>1, <2>2, FrontRows DEF Parked, Stays
  <2>5. Right(r)'
    BY <2>1, <2>2, <2>4 DEF Right, Running, Settled, Stays
  <2>6. Driver(r) => BusyWith(r)'
    BY <2>2 DEF BusyWith, Stays
  <2> QED
    BY <2>3, <2>5, <2>6, WriteStep
<1>6. CASE SetCurrentStep(r)
  <2>1. /\ req[r].pc = "arm_current" /\ UNCHANGED <<steps, def>> /\ s \in Orders
        /\ req[r].mark # "completed" /\ (~Parked(s) => Holds(r) /\ IsFront(s))
    BY <1>0, <1>1, <1>6 DEF SetCurrentStep, At, WithoutStep, Right, Holds
  <2>2. run'.status = run.status /\ run'.current = s
    BY <1>0, <1>6 DEF SetCurrentStep, TypeInv, RowsOK, RunType
  <2>3. /\ OthersKeep(r) /\ req'[r].pc = "mark" /\ req'[r].mark # "completed"
        /\ req'[r].at = s
    BY <1>0, <1>6, <2>1, GotoStays DEF SetCurrentStep, Stays
  <2>4. ~Holds(r)'
    BY <2>3 DEF Holds, Working, Running, Settled
  <2>5. Right(r)'
    BY <2>3 DEF Right, Running, Settled
  <2>6. Reachable(s)'
    <3>1. CASE Parked(s)
      BY <2>1, <2>3, <3>1, SameRows DEF Reachable
    <3>2. CASE ~Parked(s)
      <4>1. \A q \in Requests : q # r => ~Holds(q)
        BY <2>1, <3>2 DEF OrderInv, OneHolder
      <4>2. Free'
        BY <2>1, <2>3, <2>4, <4>1, SameRows, OthersHold DEF Free
      <4> QED
        BY <2>1, <2>3, <3>2, <4>2, SameRows DEF Reachable
    <3> QED
      BY <3>1, <3>2
  <2>7. CurrentOK'
    BY <2>2, <2>3, <2>6 DEF CurrentOK, Reachable
  <2>8. EndOK'
    BY <2>1, <2>2, SameRows DEF OrderInv, EndOK
  <2> QED
    BY <2>1, <2>3, <2>4, <2>5, <2>7, <2>8, OrderFrame
<1>7. CASE MarkRun(r)
  <2>1. req[r].pc = "mark" /\ UNCHANGED <<steps, def>>
    BY <1>7 DEF MarkRun, At
  <2>2. OthersKeep(r) /\ req'[r].pc = "idle"
    BY <1>0, <1>7, ReplyEffect DEF MarkRun, Idle
  <2>3. /\ ~Holds(r)' /\ Right(r)'
    BY <2>2 DEF Holds, Working, Right, Running, Settled
  <2>4. \/ run' = run /\ run.status \notin MarkFrom(req[r].mark)
        \/ /\ run.status \in MarkFrom(req[r].mark) /\ run'.status = req[r].mark
           /\ req[r].mark # "completed" => run'.current = run.current
    BY <1>0, <1>7 DEF MarkRun, TypeInv, RowsOK, RunType
  <2>5. EndOK'
    BY <1>0, <2>1, <2>4, SameRows DEF OrderInv, EndOK, Right
  <2>6. CurrentOK'
    <3>1. Live' => Live /\ run'.current = run.current /\ ~BusyWith(r)
      BY <2>1, <2>4 DEF Live, MarkFrom, BusyWith, Holds, Working, Running, Settled
    <3>2. CASE Live'
      BY <2>1, <2>2, <2>3, <3>1, <3>2, CurrentFrame
    <3> QED
      BY <3>2 DEF CurrentOK
  <2> QED
    BY <2>1, <2>2, <2>3, <2>5, <2>6, OrderFrame
<1> QED
  BY <1>3, <1>4, <1>5, <1>6, <1>7 DEF Arming

(***************************************************************************)
(* resolveRevisionTargetOrder takes the greatest of a set of orders         *)
(***************************************************************************)
LEMMA HasGreatest ==
    ASSUME NEW n \in Nat, NEW S \in SUBSET (0 .. n), S # {}
    PROVE  \E x \in S : \A y \in S : y <= x
<1> DEFINE above == {x .. n : x \in S}
           order == StrictSubsetOrdering(0 .. n)
<1>1. IsFiniteSet(0 .. n)
  BY FS_Interval
<1>2. IsWellFoundedOn(order, FiniteSubsetsOf(0 .. n))
  BY <1>1, FS_StrictSubsetOrderingWellFounded
<1>3. \A x \in S : x .. n \in FiniteSubsetsOf(0 .. n)
  <2> TAKE x \in S
  <2>1. x .. n \in SUBSET (0 .. n)
    OBVIOUS
  <2>2. IsFiniteSet(x .. n)
    BY <1>1, <2>1, FS_Subset
  <2> QED
    BY <2>1, <2>2 DEF FiniteSubsetsOf
<1>4. above \subseteq FiniteSubsetsOf(0 .. n) /\ above # {}
  BY <1>3
<1>5. PICK least \in above : \A other \in above : ~(<<other, least>> \in order)
  <2> HIDE DEF above, order
  <2> QED
    BY <1>2, <1>4, WFMin
<1>6. PICK x \in S : least = x .. n
  BY <1>5
<1>7. ASSUME NEW y \in S, x < y PROVE FALSE
  <2>1. y .. n \in above /\ y .. n \in SUBSET (0 .. n) /\ x .. n \in SUBSET (0 .. n)
    OBVIOUS
  <2>2. x \in x .. n /\ x \notin y .. n
    BY <1>7
  <2>3. y .. n \subseteq x .. n /\ y .. n # x .. n
    BY <1>7, <2>2
  <2>4. <<y .. n, x .. n>> \in order
    BY <2>1, <2>3 DEF StrictSubsetOrdering
  <2> QED
    BY <1>5, <1>6, <2>1, <2>4
<1> QED
  BY <1>7

\* A gate that can be rejected into a revision returns to a generating step before it.
LEMMA TargetRegenerates ==
    ASSUME TypeInv, NEW g \in Orders, def[g].kind = "gate",
           def[g].gate # "brand_profile_future", def[g].returnTo # 0
    PROVE  LET target == RevisionTarget(def[g].returnTo)
           IN  target \in Orders /\ target <= g /\ def[target].kind = "generate"
<1> DEFINE literal == def[g].returnTo
           regenerating == {s \in DOMAIN def : s <= literal /\ def[s].kind = "generate"}
<1>1. /\ def \in Catalog /\ Orders = DOMAIN def /\ Orders = 1 .. Len(def)
      /\ g \in Nat /\ def \in Seq(StepDefinition)
  BY StepRows
<1>2. literal \in Nat
  <2>1. def[g] \in StepDefinition
    BY <1>1, ElementOfSeq
  <2> QED
    BY <2>1 DEF StepDefinition
<1>3. literal <= g /\ regenerating # {}
  BY <1>1, GatesAssumption
<1>4. regenerating \in SUBSET (0 .. literal)
  BY <1>1, <1>2
<1>5. \E x \in regenerating : \A y \in regenerating : y <= x
  BY <1>2, <1>3, <1>4, HasGreatest
<1>6. RevisionTarget(literal) = CHOOSE x \in regenerating : \A y \in regenerating : y <= x
  BY <1>3 DEF RevisionTarget
<1>7. RevisionTarget(literal) \in regenerating
  BY <1>5, <1>6
<1> QED
  BY <1>1, <1>2, <1>3, <1>7

LEMMA ResetEffect ==
    ASSUME OrderInv, NEW r \in Requests, ResetForRevision(r)
    PROVE  LET g == req[r].at
               target == RevisionTarget(def[g].returnTo)
           IN  /\ req[r].pc = "reset" /\ g \in Orders
               /\ def[g].kind = "gate" /\ def[g].gate # "brand_profile_future"
               /\ def[g].returnTo # 0 /\ steps[g].status = "rejected" /\ IsFront(g)
               /\ target \in Orders /\ target <= g /\ def[target].kind = "generate"
               /\ Stays(r, "reopen") /\ UNCHANGED <<run, def>> /\ Orders' = Orders
               /\ \A s \in Orders :
                     IF target <= s /\ s <= g
                     THEN steps'[s].status = "pending" /\ steps'[s].rev = steps[s].rev + 1
                     ELSE steps'[s] = steps[s]
<1> DEFINE g == req[r].at
           target == RevisionTarget(def[g].returnTo)
<1>1. TypeInv /\ Right(r) /\ req[r].pc = "reset"
  BY OrderTypes DEF OrderInv, ResetForRevision, At
<1>2. g \in Orders
  BY <1>1, WorksOnStep DEF WithoutStep
<1>3. /\ def[g].kind = "gate" /\ def[g].gate # "brand_profile_future"
      /\ def[g].returnTo # 0 /\ steps[g].status = "rejected"
  BY <1>1 DEF Right
<1>4. IsFront(g)
  BY <1>2, <1>3, UnderWayIsFront DEF Done
<1>5. target \in Orders /\ target <= g /\ def[target].kind = "generate"
  BY <1>1, <1>2, <1>3, TargetRegenerates
<1>6. Stays(r, "reopen") /\ UNCHANGED <<run, def>> /\ Orders' = Orders
  BY <1>1, GotoStays DEF ResetForRevision, Orders
<1>7. \A s \in Orders :
         IF target <= s /\ s <= g
         THEN steps'[s].status = "pending" /\ steps'[s].rev = steps[s].rev + 1
         ELSE steps'[s] = steps[s]
  BY DEF ResetForRevision
<1> QED
  BY <1>1, <1>2, <1>3, <1>4, <1>5, <1>6, <1>7

LEMMA ResetKeepsOrder ==
    ASSUME OrderInv, FutureInv', NEW r \in Requests, ResetForRevision(r)
    PROVE  OrderInv'
<1> DEFINE g == req[r].at
           target == RevisionTarget(def[g].returnTo)
<1>1. /\ req[r].pc = "reset" /\ g \in Orders
      /\ steps[g].status = "rejected" /\ IsFront(g)
      /\ target \in Orders /\ target <= g
      /\ Stays(r, "reopen") /\ UNCHANGED <<run, def>> /\ Orders' = Orders
      /\ \A s \in Orders :
            IF target <= s /\ s <= g
            THEN steps'[s].status = "pending"
            ELSE steps'[s] = steps[s]
  BY ResetEffect
<1>2. \A s \in Orders : s \in Nat
  BY OrderTypes, StepRows
<1>3. \A s \in Orders :
         \/ s < target /\ steps'[s].status \in Done
         \/ target <= s /\ steps'[s].status = "pending"
  BY <1>1, <1>2, BehindFront
<1>4. InOrder' /\ Clean'
  BY <1>1, <1>2, <1>3 DEF InOrder, Clean, Done
<1>5. KindsFit'
  BY <1>1 DEF OrderInv, KindsFit, KindFits
<1>6. ~AllDone
  BY <1>1 DEF AllDone, Done
<1>7. EndOK'
  BY <1>1, <1>6 DEF OrderInv, EndOK
<1>8. Holds(r) /\ Holds(r)' /\ Right(r)'
  BY <1>1, <1>4 DEF Holds, Working, Settled, Running, Right, Stays
<1>9. \A q \in Requests : q # r => ~Holds(q) /\ ~Holds(q)'
  BY <1>1, <1>8, OthersHold DEF OrderInv, OneHolder, Stays
<1>10. ASSUME NEW q \in Requests, q # r PROVE Right(q)'
  <2>1. req'[q] = req[q] /\ Right(q)
    BY <1>1, <1>10 DEF Stays, OthersKeep, OrderInv
  <2>2. req[q].pc \notin Working /\ ~(req[q].pc = "arm_current" /\ ~Parked(req[q].at))
    BY <1>9, <1>10 DEF Holds
  <2>3. \A t : Parked(t)' <=> Parked(t)
    BY <1>1 DEF Parked
  <2>4. ~Free
    BY <1>8 DEF Free
  <2> QED
    BY <1>1, <1>6, <2>1, <2>2, <2>3, <2>4
       DEF Right, Working, Running, Settled, Reachable
<1>11. OneHolder'
  BY <1>9 DEF OneHolder
<1>12. CurrentOK'
  BY <1>1, <1>8, WriteKeepsCurrent DEF Stays, BusyWith
<1> QED
  BY <1>4, <1>5, <1>7, <1>8, <1>10, <1>11, <1>12 DEF OrderInv

LEMMA OrderDeciding ==
    ASSUME OrderInv, FutureInv', SingleDriver, NEW r \in Requests, Deciding(r)
    PROVE  OrderInv'
<1> DEFINE s == req[r].at
<1>0. TypeInv /\ FutureInv /\ Right(r)
  BY OrderTypes DEF OrderInv
<1>1. req[r].pc \notin WithoutStep => s \in Orders
  BY <1>0, WorksOnStep
<1>2. \A label : Goto(r, label) => Stays(r, label)
  BY <1>0, GotoStays
<1>3. Arm(r) => OthersKeep(r) /\ req'[r].pc = "arm"
  BY <1>0, ArmEffect DEF Idle
<1>4. CASE ReceiveDecision(r)
  <2>1. OthersKeep(r) /\ req[r].pc = "idle" /\ req'[r].pc = "load_gate"
    BY <1>0, <1>4 DEF ReceiveDecision, Receives, At, TypeInv, OthersKeep, Idle
  <2>2. ~Holds(r)' /\ ~BusyWith(r) /\ Right(r)'
    BY <2>1 DEF BusyWith, Holds, Working, Running, Settled, Right
  <2> QED
    BY <1>4, <2>1, <2>2, LocalStep DEF ReceiveDecision, tables
<1>5. CASE LoadGate(r) \/ FindEntity(r) \/ DecideEntity(r)
  <2>1. /\ UNCHANGED <<run, steps, def>>
        /\ req[r].pc \in {"load_gate", "find_entity", "decide"}
        /\ def[s].kind = "gate" /\ def[s].gate # "brand_profile_future"
    BY <1>0, <1>5 DEF LoadGate, FindEntity, DecideEntity, tables, At, Right
  <2>2. \E label \in {"find_entity", "decide", "claim"} : Stays(r, label)
    BY <1>0, <1>2, <1>5, LoadGateEffect, FindEntityEffect DEF DecideEntity
  <2>3. ~Holds(r)' /\ ~BusyWith(r) /\ Right(r)'
    BY <2>1, <2>2 DEF BusyWith, Holds, Working, Running, Settled, Right, Stays
  <2> QED
    BY <2>1, <2>2, <2>3, LocalStep DEF Stays
<1>6. CASE ClaimGate(r)
  <2>1. /\ req[r].pc = "claim" /\ s \in Orders
        /\ def[s].kind = "gate" /\ def[s].gate # "brand_profile_future"
        /\ req[r].decision \in {"approved", "rejected"}
    BY <1>0, <1>1, <1>6
       DEF ClaimGate, At, WithoutStep, Right, TypeInv, LocalOK, Deciders, Request
  <2>2. Free /\ IsFront(s)
    BY <1>6, <2>1, WaitingIsFree DEF ClaimGate
  <2>3. Stays(r, "audit") /\ SetStep(s, req[r].decision) /\ UNCHANGED <<run, def>>
    BY <1>0, <1>6, ClaimGateEffect DEF ClaimGate
  <2>4. WritesFront(r, s, req[r].decision)
    BY <2>1, <2>2, <2>3 DEF WritesFront, KindFits, Parked, Stays
  <2>5. steps'[s].status = req[r].decision /\ (req[r].decision = "approved" => Clean')
    BY <2>2, <2>3, FrontRows DEF Done
  <2>6. Right(r)'
    BY <2>1, <2>3, <2>5 DEF Right, Running, Settled, Stays
  <2>7. Driver(r) => BusyWith(r)'
    BY <2>3 DEF BusyWith, Holds, Working, Stays
  <2>8. PICK x : x = req[r].decision
    OBVIOUS
  <2>9. WritesFront(r, s, x)
    BY <2>4, <2>8
  <2> QED
    BY <2>6, <2>7, <2>9, WriteStep
<1>7. CASE RecordDecision(r) \/ RecordApprovedOutput(r)
  <2>1. /\ req[r].pc \in {"audit", "approved_output"} /\ Holds(r)
        /\ UNCHANGED <<run, steps, def>>
    BY <1>7 DEF RecordDecision, RecordApprovedOutput, At, Holds, Working, Settled
  <2>2. \/ Arm(r) /\ req[r].pc = "approved_output"
        \/ /\ req[r].pc = "audit"
           /\ \/ Stays(r, "approved_output") /\ req[r].decision = "approved"
              \/ Stays(r, "reset") /\ req[r].decision = "rejected" /\ def[s].returnTo # 0
              \/ ArmTo(r, "mark", s, "failed")
    BY <1>0, <1>2, <1>7
       DEF RecordDecision, RecordApprovedOutput, At, TypeInv, LocalOK, Deciders, Request
  <2>3. CASE Arm(r) /\ req[r].pc = "approved_output"
    <3>1. Clean' /\ req'[r].pc = "arm"
      BY <1>0, <1>3, <2>1, <2>3, SameRows DEF Right, Settled
    <3>2. Right(r)' /\ Holds(r)'
      BY <3>1 DEF Right, Running, Settled, Holds, Working
    <3> QED
      BY <1>3, <2>1, <2>3, <3>2, LocalStep DEF BusyWith
  <2>4. CASE req[r].pc = "audit" /\ Stays(r, "approved_output") /\ req[r].decision = "approved"
    <3>1. Clean'
      BY <1>0, <2>1, <2>4, SameRows DEF Right
    <3>2. Right(r)' /\ Holds(r)'
      BY <2>4, <3>1 DEF Right, Running, Settled, Holds, Working, Stays
    <3> QED
      BY <2>1, <2>4, <3>2, LocalStep DEF BusyWith, Stays
  <2>5. CASE /\ req[r].pc = "audit" /\ Stays(r, "reset")
             /\ req[r].decision = "rejected" /\ def[s].returnTo # 0
    <3>1. Right(r)' /\ Holds(r)'
      BY <1>0, <2>1, <2>5 DEF Right, Running, Settled, Holds, Working, Stays
    <3> QED
      BY <2>1, <2>5, <3>1, LocalStep DEF BusyWith, Stays
  <2>6. CASE ArmTo(r, "mark", s, "failed")
    <3>1. OthersKeep(r) /\ req'[r].pc = "mark" /\ req'[r].mark = "failed"
      BY <1>0, <2>6 DEF ArmTo, Idle, TypeInv, OthersKeep
    <3>2. Right(r)'
      BY <3>1 DEF Right, Running, Settled
    <3> QED
      BY <2>1, <3>1, <3>2, LocalStep DEF BusyWith
  <2> QED
    BY <2>2, <2>3, <2>4, <2>5, <2>6
<1>8. CASE ResetForRevision(r)
  BY <1>8, ResetKeepsOrder
<1>9. CASE Reopen(r)
  <2>1. req[r].pc = "reopen" /\ Holds(r) /\ UNCHANGED <<steps, def>> /\ Clean
    BY <1>0, <1>9 DEF Reopen, At, Holds, Working, Settled, Right
  <2>2. OthersKeep(r) /\ req'[r].pc = "arm"
    BY <1>3, <1>9 DEF Reopen
  <2>3. /\ run'.current = run.current
        /\ run'.status = run.status \/ (run.status \in MarkFrom("in_progress")
                                        /\ run'.status = "in_progress")
    BY <1>0, <1>9 DEF Reopen, TypeInv, RowsOK, RunType
  <2>4. Clean'
    BY <2>1, SameRows
  <2>5. Right(r)' /\ Holds(r)'
    BY <2>2, <2>4 DEF Right, Running, Settled, Holds, Working
  <2>6. CurrentOK'
    BY <2>1, <2>2, <2>3, <2>5, CurrentFrame DEF BusyWith, Live, MarkFrom
  <2>7. EndOK'
    BY <2>1, <2>3, SameRows DEF OrderInv, EndOK
  <2> QED
    BY <2>1, <2>2, <2>5, <2>6, <2>7, OrderFrame
<1> QED
  BY <1>4, <1>5, <1>6, <1>7, <1>8, <1>9 DEF Deciding

LEMMA OrderOthers ==
    ASSUME OrderInv, FutureInv', ~Restarts, NEW r \in Requests,
           Refuse(r) \/ Cancel(r) \/ ReviewDirectly(r) \/ Interrupt(r)
    PROVE  OrderInv'
<1>0. TypeInv
  BY OrderTypes
<1>1. CASE Refuse(r)
  <2>1. UNCHANGED <<run, steps, def>>
           /\ req[r].pc \in {"advance", "skip", "begin", "load_gate", "find_entity",
                             "decide", "claim"}
    BY <1>1 DEF Refuse, tables, At
  <2>2. OthersKeep(r) /\ req'[r].pc = "idle"
    BY <1>0, <1>1, ReplyEffect DEF Refuse, Idle
  <2>3. ~Holds(r)' /\ ~BusyWith(r) /\ Right(r)'
    BY <2>1, <2>2 DEF BusyWith, Holds, Working, Running, Settled, Right
  <2> QED
    BY <2>1, <2>2, <2>3, LocalStep
<1>2. CASE ReviewDirectly(r) \/ Cancel(r)
  <2>1. /\ req' = req /\ UNCHANGED <<steps, def>> /\ run'.current = run.current
        /\ run'.status = run.status \/ run'.status = "cancelled"
    BY <1>0, <1>2 DEF ReviewDirectly, Cancel, TypeInv, RowsOK, RunType
  <2>2. \A q \in Requests : /\ Holds(q)' <=> Holds(q)
                            /\ BusyWith(q)' <=> BusyWith(q)
    BY <2>1, SameRows DEF Holds, BusyWith
  <2>3. Free' <=> Free
    BY <2>2 DEF Free
  <2>4. \A q \in Requests : Right(q)'
    BY <2>1, <2>3, SameRows DEF OrderInv, Right, Reachable
  <2>5. CurrentOK'
    BY <2>1, <2>2, <2>3, SameRows DEF OrderInv, CurrentOK, Live, Reachable
  <2> QED
    BY <2>1, <2>2, <2>4, <2>5, SameRows DEF OrderInv, OneHolder, EndOK
<1> QED
  BY <1>1, <1>2 DEF Interrupt

LEMMA InitOrder == Init => OrderInv
<1> SUFFICES ASSUME Init PROVE OrderInv
  OBVIOUS
<1>1. Orders = {} /\ run.current = 0 /\ \A r \in Requests : req[r].pc = "idle"
  BY DEF Init, Orders, Idle
<1>2. \A r \in Requests : Right(r) /\ ~Holds(r)
  BY <1>1 DEF Right, Holds, Working, Running, Settled
<1> QED
  BY <1>1, <1>2, InitFuture
     DEF OrderInv, InOrder, KindsFit, OneHolder, CurrentOK, EndOK, AllDone

LEMMA OrderInvStep ==
    ASSUME SingleDriver, ~Restarts, OrderInv, [Next]_vars
    PROVE  OrderInv'
<1>0. FutureInv'
  BY FutureInvStep DEF OrderInv
<1>1. CASE Next
  <2>1. PICK r \in Requests :
           \/ Starting(r) \/ Advancing(r) \/ Arming(r) \/ Deciding(r)
           \/ Refuse(r) \/ Cancel(r) \/ ReviewDirectly(r) \/ Interrupt(r)
    BY <1>1 DEF Next
  <2> QED
    BY <1>0, <2>1, OrderStarting, OrderAdvancing, OrderArming, OrderDeciding, OrderOthers
<1>2. CASE UNCHANGED vars
  <2>1. req' = req /\ UNCHANGED <<run, steps, def>>
    BY <1>2 DEF vars
  <2>2. \A q \in Requests : (Holds(q)' <=> Holds(q)) /\ (BusyWith(q)' <=> BusyWith(q))
    BY <2>1, SameRows DEF Holds, BusyWith
  <2>3. Free' <=> Free
    BY <2>2 DEF Free
  <2>4. \A q \in Requests : Right(q)'
    BY <2>1, <2>3, SameRows DEF OrderInv, Right, Reachable
  <2>5. CurrentOK'
    BY <2>1, <2>2, <2>3, SameRows DEF OrderInv, CurrentOK, Live, Reachable
  <2> QED
    BY <1>0, <2>1, <2>2, <2>4, <2>5, SameRows DEF OrderInv, OneHolder, EndOK
<1> QED
  BY <1>1, <1>2

LEMMA OrderInvAlways == ASSUME SingleDriver, ~Restarts PROVE Spec => []OrderInv
<1>1. OrderInv /\ [Next]_vars => OrderInv'
  BY OrderInvStep
<1> QED
  BY <1>1, InitOrder, PTL DEF Spec

\* "Approval gates cannot be skipped": true of every catalog and any number of racing
\* reviewers, cancellations and reviews elsewhere, as long as one request at a time
\* drives the run and none dies.
THEOREM GatesAreNotSkipped == ASSUME SingleDriver, ~Restarts PROVE Spec => []NoGateSkipped
<1>1. OrderInv => NoGateSkipped
  <2> SUFFICES ASSUME OrderInv, NEW s \in Orders, IsGate(s), steps[s].status # "approved"
               PROVE  /\ run.status # "completed"
                      /\ \A t \in Orders : s < t => steps[t].status = "pending"
    BY DEF NoGateSkipped
  <2>1. steps[s].status \notin Done
    BY DEF OrderInv, KindsFit, KindFits, Done, IsGate, Executable
  <2> QED
    BY <2>1 DEF OrderInv, InOrder, EndOK, AllDone
<1> QED
  BY <1>1, OrderInvAlways, PTL

(***************************************************************************)
(* The engine keeps the promise of WorkflowPromise                         *)
(***************************************************************************)
LEMMA CountUpTo == \A k \in Nat : Cardinality(1 .. k) = k
<1> TAKE k \in Nat
<1> QED
  BY FS_Interval

\* The front is where the done steps end.
LEMMA DoneBeforeFront ==
    ASSUME OrderInv, NEW s, IsFront(s)
    PROVE  /\ s \in 1 .. Len(def) /\ Len(def) \in Nat
           /\ DoneSteps = 1 .. (s - 1) /\ DonePromised = s - 1
<1>1. s \in Orders /\ Orders = 1 .. Len(def) /\ Len(def) \in Nat
  BY OrderTypes, StepRows DEF IsFront
<1>2. \A t \in Orders : t \in DoneSteps <=> t < s
  BY <1>1, BehindFront DEF DoneSteps, Done, IsFront
<1>3. DoneSteps = 1 .. (s - 1)
  BY <1>1, <1>2 DEF DoneSteps
<1>4. Cardinality(DoneSteps) = s - 1
  BY <1>1, <1>3, CountUpTo
<1> QED
  BY <1>1, <1>3, <1>4 DEF DonePromised

LEMMA AllDoneCount ==
    ASSUME OrderInv, AllDone, Orders # {}
    PROVE  DonePromised = Len(def)
<1>1. Orders = 1 .. Len(def) /\ Len(def) \in Nat
  BY OrderTypes, StepRows
<1>2. DoneSteps = 1 .. Len(def)
  BY <1>1 DEF DoneSteps, AllDone, Done
<1> QED
  BY <1>1, <1>2, CountUpTo DEF DonePromised

LEMMA NothingDoneCount == DoneSteps = {} => DonePromised = 0
<1>1. Cardinality(1 .. 0) = 0
  BY CountUpTo
<1>2. 1 .. 0 = {}
  OBVIOUS
<1> QED
  BY <1>1, <1>2 DEF DonePromised

\* What a step of the engine does to the step rows.
SetsFront(s, x) == IsFront(s) /\ SetStep(s, x) /\ UNCHANGED <<run, def>>
LEMMA RowsMove ==
    ASSUME SingleDriver, ~Restarts, OrderInv, NEW r \in Requests,
           \/ Advancing(r) \/ Arming(r) \/ Deciding(r)
           \/ Refuse(r) \/ Cancel(r) \/ ReviewDirectly(r) \/ Interrupt(r)
    PROVE  \/ UNCHANGED <<steps, def>>
           \/ run.status # "none" /\ \E x : SetsFront(req[r].at, x)
           \/ ResetForRevision(r)
<1> DEFINE s == req[r].at
<1>0. TypeInv /\ Right(r)
  BY OrderTypes DEF OrderInv
<1>1. req[r].pc \notin WithoutStep => s \in Orders /\ run.status # "none"
  BY <1>0, WorksOnStep
<1>2. CASE Skip(r) \/ Begin(r)
  <2>1. s \in Orders /\ run.status # "none" /\ Reachable(s) /\ ~Parked(s)
    BY <1>0, <1>1, <1>2 DEF Skip, Begin, At, WithoutStep, Right, Parked, Executable
  <2>2. IsFront(s)
    BY <2>1 DEF Reachable
  <2>3. \E x : SetStep(s, x) /\ UNCHANGED <<run, def>>
    BY <1>2 DEF Skip, Begin
  <2> QED
    BY <2>1, <2>2, <2>3 DEF SetsFront
<1>3. CASE Complete(r) \/ SkipWithNote(r) \/ FailStep(r)
  <2>1. s \in Orders /\ run.status # "none" /\ req[r].pc \in Running
    BY <1>1, <1>3 DEF Complete, SkipWithNote, FailStep, At, WithoutStep, Running
  <2>2. steps[s].status = "in_progress"
    BY <1>0, <2>1 DEF Right
  <2>3. IsFront(s)
    BY <2>1, <2>2, UnderWayIsFront DEF Done
  <2>4. \E x : SetStep(s, x) /\ UNCHANGED <<run, def>>
    BY <1>3, <2>2 DEF Complete, SkipWithNote, FailStep
  <2> QED
    BY <2>1, <2>3, <2>4 DEF SetsFront
<1>4. CASE OpenGate(r) /\ steps' # steps
  <2>1. IsFront(s) /\ run.status # "none"
    BY <1>0, <1>1, <1>4 DEF OpenGate, At, WithoutStep, Right
  <2>2. \E x : SetStep(s, x) /\ UNCHANGED <<run, def>>
    BY <1>4 DEF OpenGate
  <2> QED
    BY <2>1, <2>2 DEF SetsFront
<1>5. CASE ClaimGate(r)
  <2>1. s \in Orders /\ run.status # "none" /\ steps[s].status = "waiting_for_approval"
    BY <1>1, <1>5 DEF ClaimGate, At, WithoutStep
  <2>2. IsFront(s)
    BY <2>1, WaitingIsFree
  <2>3. \E x : SetStep(s, x) /\ UNCHANGED <<run, def>>
    BY <1>5 DEF ClaimGate
  <2> QED
    BY <2>1, <2>2, <2>3 DEF SetsFront
<1>6. CASE \/ Advance(r) \/ ReadStep(r) \/ Execute(r) \/ RecordOutput(r) \/ MergeOutput(r)
  BY <1>6 DEF Advance, ReadStep, Execute, RecordOutput, MergeOutput, tables
<1>7. CASE ArmNextStep(r) \/ ReadReport(r) \/ SetCurrentStep(r) \/ MarkRun(r)
           \/ (OpenGate(r) /\ steps' = steps)
  BY <1>7 DEF ArmNextStep, ReadReport, SetCurrentStep, MarkRun, OpenGate, tables
<1>8. CASE \/ ReceiveDecision(r) \/ LoadGate(r) \/ FindEntity(r) \/ DecideEntity(r)
           \/ RecordDecision(r) \/ RecordApprovedOutput(r) \/ Reopen(r)
  BY <1>8 DEF ReceiveDecision, LoadGate, FindEntity, DecideEntity, RecordDecision,
              RecordApprovedOutput, Reopen, tables
<1>9. CASE Refuse(r) \/ Cancel(r) \/ ReviewDirectly(r) \/ Interrupt(r)
  BY <1>9 DEF Refuse, Cancel, ReviewDirectly, Interrupt, tables
<1> QED
  BY <1>2, <1>3, <1>4, <1>5, <1>6, <1>7, <1>8, <1>9 DEF Advancing, Arming, Deciding

\* What a step of the engine does to the status of a started run.
Ends(old, new) ==
    \/ /\ old \in {"in_progress", "waiting_for_approval"}
       /\ new \in {"failed", "cancelled", "qa_failed", "blocked_future_feature"}
    \/ /\ old \in {"qa_failed", "blocked_future_feature"}
       /\ new \in {"failed", "cancelled"}
LEMMA StatusMove ==
    ASSUME OrderInv, NEW r \in Requests,
           \/ Advancing(r) \/ Arming(r) \/ Deciding(r)
           \/ Refuse(r) \/ Cancel(r) \/ ReviewDirectly(r) \/ Interrupt(r)
    PROVE  \/ StatusPromised' = StatusPromised
           \/ UNCHANGED <<steps, def>> /\ Ends(run.status, run'.status)
           \/ /\ UNCHANGED <<steps, def>> /\ Live /\ run'.status = "completed"
              /\ AllDone /\ Orders # {}
<1>0. TypeInv /\ FutureInv /\ Right(r)
  BY OrderTypes DEF OrderInv
<1>1. CASE MarkRun(r)
  <2>1. UNCHANGED <<steps, def>> /\ req[r].pc = "mark"
    BY <1>1 DEF MarkRun, At
  <2>2. \/ run' = run
        \/ run.status \in MarkFrom(req[r].mark) /\ run'.status = req[r].mark
    BY <1>0, <1>1 DEF MarkRun, TypeInv, RowsOK, RunType
  <2>3. req[r].mark \in Marks \ {"none"}
    BY <1>0, <2>1 DEF TypeInv, LocalOK, Markers, Request
  <2>4. req[r].mark = "completed" => AllDone /\ Orders # {}
    BY <1>0, <2>1, UnderWayHasRows DEF Right, Unborn
  <2> QED
    BY <2>1, <2>2, <2>3, <2>4 DEF Marks, MarkFrom, StatusPromised, Ends, Live
<1>2. CASE Cancel(r)
  BY <1>0, <1>2 DEF Cancel, TypeInv, RowsOK, RunType, Ends
<1>3. CASE Reopen(r)
  <2>1. \/ run'.status = run.status
        \/ run.status \in MarkFrom("in_progress") /\ run'.status = "in_progress"
    BY <1>0, <1>3 DEF Reopen, TypeInv, RowsOK, RunType
  <2> QED
    BY <2>1 DEF MarkFrom, StatusPromised
<1>4. CASE MergeOutput(r) \/ SetCurrentStep(r)
  BY <1>0, <1>4 DEF MergeOutput, SetCurrentStep, TypeInv, RowsOK, RunType, StatusPromised
<1>5. CASE \/ Advance(r) \/ ReadStep(r) \/ Skip(r) \/ Begin(r) \/ Execute(r) \/ Complete(r)
           \/ SkipWithNote(r) \/ RecordOutput(r) \/ FailStep(r)
           \/ ArmNextStep(r) \/ ReadReport(r) \/ OpenGate(r)
  <2>1. run' = run
    BY <1>5 DEF Advance, ReadStep, Skip, Begin, Execute, Complete, SkipWithNote,
                RecordOutput, FailStep, ArmNextStep, ReadReport, OpenGate, tables
  <2> QED
    BY <2>1 DEF StatusPromised
<1>6. CASE \/ ReceiveDecision(r) \/ LoadGate(r) \/ FindEntity(r) \/ DecideEntity(r)
           \/ ClaimGate(r) \/ RecordDecision(r) \/ RecordApprovedOutput(r)
           \/ ResetForRevision(r) \/ Refuse(r) \/ ReviewDirectly(r) \/ Interrupt(r)
  <2>1. run' = run
    BY <1>6 DEF ReceiveDecision, LoadGate, FindEntity, DecideEntity, ClaimGate, RecordDecision,
                RecordApprovedOutput, ResetForRevision, Refuse, ReviewDirectly, Interrupt, tables
  <2> QED
    BY <2>1 DEF StatusPromised
<1> QED
  BY <1>1, <1>2, <1>3, <1>4, <1>5, <1>6 DEF Advancing, Arming, Deciding

LEMMA InitPromised == Init => Promise!Init
<1> SUFFICES ASSUME Init PROVE Promise!Init
  OBVIOUS
<1>1. DoneSteps = {}
  BY DEF Init, DoneSteps, Orders
<1> QED
  BY <1>1, NothingDoneCount DEF Init, Promise!Init, StatusPromised

LEMMA StartingPromised ==
    ASSUME OrderInv, NEW r \in Requests, Starting(r)
    PROVE  Promise!Start \/ UNCHANGED Promise!vars
<1>0. FutureInv
  BY DEF OrderInv
<1>1. CASE Start(r)
  <2>1. Orders' = {} /\ run'.status = "in_progress"
    BY <1>0, <1>1, StartEffect
  <2>2. DoneSteps' = {}
    BY <2>1 DEF DoneSteps
  <2>3. DonePromised' = 0
    <3>1. Cardinality(1 .. 0) = 0 /\ 1 .. 0 = {}
      BY CountUpTo
    <3> QED
      BY <2>2, <3>1 DEF DonePromised
  <2>4. run.status = "none" /\ def' \in Catalog
    BY <1>1 DEF Start
  <2> QED
    BY <2>1, <2>3, <2>4 DEF Promise!Start, StatusPromised
<1>2. CASE CreateSteps(r)
  <2>1. /\ Orders = {} /\ \A t \in Orders' : steps'[t].status = "pending"
        /\ run' = run /\ def' = def
    BY <1>0, <1>2, CreateStepsEffect
  <2>2. DoneSteps = {} /\ DoneSteps' = {}
    BY <2>1 DEF DoneSteps
  <2> QED
    BY <2>1, <2>2 DEF Promise!vars, StatusPromised, DonePromised
<1> QED
  BY <1>1, <1>2 DEF Starting

LEMMA FrontPromised ==
    ASSUME OrderInv, NEW s, NEW x, SetsFront(s, x), run.status # "none",
           StatusPromised' = StatusPromised
    PROVE  Promise!DoNextStep \/ UNCHANGED Promise!vars
<1>1. /\ s \in 1 .. Len(def) /\ Len(def) \in Nat /\ def' = def
      /\ DoneSteps = 1 .. (s - 1) /\ DonePromised = s - 1
  BY DoneBeforeFront DEF SetsFront
<1>2. /\ Orders' = Orders /\ s \in Orders /\ steps'[s].status = x
      /\ \A t \in Orders : t # s => steps'[t] = steps[t]
  BY FrontRows DEF SetsFront
<1>3. CASE x \in Done
  <2>1. DoneSteps' = 1 .. s
    <3>1. DoneSteps' = DoneSteps \cup {s}
      BY <1>2, <1>3 DEF DoneSteps, Done
    <3> QED
      BY <1>1, <3>1
  <2>2. DonePromised' = s
    BY <1>1, <2>1, CountUpTo DEF DonePromised
  <2>3. StatusPromised \notin {"none", "completed"}
    BY <1>2 DEF OrderInv, EndOK, AllDone, SetsFront, IsFront, StatusPromised
  <2> QED
    BY <1>1, <2>2, <2>3 DEF Promise!DoNextStep
<1>4. CASE x \notin Done
  <2>1. DoneSteps' = DoneSteps
    BY <1>2, <1>4 DEF DoneSteps, Done, SetsFront, IsFront
  <2> QED
    BY <1>1, <2>1 DEF Promise!vars, DonePromised
<1> QED
  BY <1>3, <1>4

LEMMA ResetPromised ==
    ASSUME OrderInv, NEW r \in Requests, ResetForRevision(r), StatusPromised' = StatusPromised
    PROVE  Promise!Reopen
<1> DEFINE g == req[r].at
           target == RevisionTarget(def[g].returnTo)
<1>1. /\ req[r].pc = "reset" /\ IsFront(g) /\ target \in Orders /\ target <= g
      /\ UNCHANGED <<run, def>> /\ Orders' = Orders
      /\ \A s \in Orders :
            IF target <= s /\ s <= g THEN steps'[s].status = "pending"
            ELSE steps'[s] = steps[s]
  BY ResetEffect
<1>2. /\ g \in 1 .. Len(def) /\ Len(def) \in Nat
      /\ DoneSteps = 1 .. (g - 1) /\ DonePromised = g - 1
  BY <1>1, DoneBeforeFront
<1>3. Orders = 1 .. Len(def)
  BY <1>1, OrderTypes, StepRows
<1>4. DoneSteps' = {s \in DoneSteps : s < target}
  BY <1>1, <1>2, <1>3 DEF DoneSteps, IsFront, Done
<1>5. DoneSteps' = 1 .. (target - 1)
  BY <1>1, <1>2, <1>3, <1>4
<1>6. DonePromised' = target - 1
  BY <1>1, <1>3, <1>5, CountUpTo DEF DonePromised
<1>7. StatusPromised \notin {"none", "completed"}
  <2>1. run.status # "none"
    BY <1>1, OrderTypes, WorksOnStep DEF WithoutStep
  <2> QED
    BY <1>1, <2>1 DEF OrderInv, EndOK, AllDone, IsFront, StatusPromised
<1> QED
  BY <1>1, <1>2, <1>3, <1>6, <1>7 DEF Promise!Reopen

LEMMA StepPromised ==
    ASSUME SingleDriver, ~Restarts, OrderInv, [Next]_vars
    PROVE  [Promise!Next]_(Promise!vars)
<1>1. CASE UNCHANGED vars
  <2>1. DoneSteps' = DoneSteps
    BY <1>1 DEF vars, DoneSteps, Orders
  <2> QED
    BY <1>1, <2>1 DEF vars, Promise!vars, StatusPromised, DonePromised
<1>2. ASSUME NEW r \in Requests, Starting(r) PROVE [Promise!Next]_(Promise!vars)
  BY <1>2, StartingPromised DEF Promise!Next
<1>3. ASSUME NEW r \in Requests,
             \/ Advancing(r) \/ Arming(r) \/ Deciding(r)
             \/ Refuse(r) \/ Cancel(r) \/ ReviewDirectly(r) \/ Interrupt(r)
      PROVE  [Promise!Next]_(Promise!vars)
  <2>1. CASE UNCHANGED <<steps, def>>
    <3>1. DoneSteps' = DoneSteps
      BY <2>1 DEF DoneSteps, Orders
    <3>2. DonePromised' = DonePromised /\ Len(def') = Len(def)
      BY <2>1, <3>1 DEF DonePromised
    <3>3. CASE StatusPromised' = StatusPromised
      BY <3>2, <3>3 DEF Promise!vars
    <3>4. CASE Ends(run.status, run'.status)
      BY <3>2, <3>4 DEF Ends, StatusPromised, Promise!Next, Promise!Stop
    <3>5. CASE Live /\ run'.status = "completed" /\ AllDone /\ Orders # {}
      BY <3>2, <3>5, AllDoneCount DEF Live, StatusPromised, Promise!Next, Promise!Complete
    <3> QED
      BY <1>3, <3>3, <3>4, <3>5, StatusMove
  <2>2. CASE ~(UNCHANGED <<steps, def>>)
    <3>1. StatusPromised' = StatusPromised
      BY <1>3, <2>2, StatusMove
    <3>2. \/ run.status # "none" /\ \E x : SetsFront(req[r].at, x)
          \/ ResetForRevision(r)
      BY <1>3, <2>2, RowsMove
    <3> QED
      BY <3>1, <3>2, FrontPromised, ResetPromised DEF Promise!Next
  <2> QED
    BY <2>1, <2>2
<1> QED
  BY <1>1, <1>2, <1>3 DEF Next

\* The engine implements its promise, for every catalog and any number of racing
\* reviewers, cancellations and reviews elsewhere: the rows of the run always map to a
\* number of leading done steps, and every statement does the next step, takes a suffix
\* of them back after a rejection, ends the run, completes it with all steps done, or
\* changes nothing of it.
THEOREM EngineKeepsPromise == ASSUME SingleDriver, ~Restarts PROVE Spec => KeepsPromise
<1>1. OrderInv /\ [Next]_vars => [Promise!Next]_(Promise!vars)
  BY StepPromised
<1> QED
  BY <1>1, InitPromised, OrderInvAlways, PTL DEF Spec, KeepsPromise, Promise!Spec

(***************************************************************************)
(* The revision loop                                                       *)
(***************************************************************************)
\* Only a rejection counts revisions, and those of all steps it takes back together.
RevsFit ==
    \A g \in Orders : IsGate(g) =>
        /\ def[g].returnTo = 0 \/ def[g].gate = "brand_profile_future" => steps[g].rev = 0
        /\ \A s \in Orders : RevisionTarget(def[g].returnTo) <= s /\ s <= g =>
              steps[s].rev = steps[g].rev

\* A generating request works on the revision it claimed, and hands its entity over.
Making(r) == req[r].pc \in {"execute", "complete", "output"} /\ def[req[r].at].kind = "generate"
MakesRight(r) ==
    Making(r) => /\ req[r].rev = steps[req[r].at].rev
                 /\ req[r].pc = "complete" => req[r].ent # 0

Recorded(s, n) == \E i \in DOMAIN outputs : outputs[i].step = s /\ outputs[i].rev = n
RecordedSoon(s) == \E r \in Requests : req[r].pc = "output" /\ req[r].at = s
GeneratedOK ==
    \A s \in Orders : def[s].kind = "generate" /\ steps[s].status = "completed" =>
        Recorded(s, steps[s].rev) \/ RecordedSoon(s)

Rejections(s) ==
    {i \in DOMAIN approvals : approvals[i].step = s /\ approvals[i].decision = "rejected"}
Resetting(s) == \E r \in Requests : req[r].pc = "reset" /\ req[r].at = s
CountOK ==
    \A g \in Orders : IsGate(g) /\ def[g].returnTo # 0 =>
        Cardinality(Rejections(g)) = steps[g].rev + (IF Resetting(g) THEN 1 ELSE 0)

RevInv == RevsFit /\ (\A r \in Requests : MakesRight(r)) /\ GeneratedOK /\ CountOK

OutputsGrow ==
    \A i \in DOMAIN outputs : i \in DOMAIN outputs' /\ outputs'[i] = outputs[i]

LEMMA AppendedRow ==
    ASSUME NEW S, NEW rows \in Seq(S), NEW row
    PROVE  /\ Len(rows) \in Nat /\ DOMAIN rows = 1 .. Len(rows)
           /\ DOMAIN Append(rows, row) = 1 .. Len(rows) + 1
           /\ \A i \in 1 .. Len(rows) : Append(rows, row)[i] = rows[i]
           /\ Append(rows, row)[Len(rows) + 1] = row
           /\ Len(Append(rows, row)) = Len(rows) + 1
  OBVIOUS

\* Steps that reset nothing and decide nothing.
LEMMA RevFrame ==
    ASSUME OrderInv, RevInv, NEW r \in Requests, OthersKeep(r), def' = def, Orders' = Orders,
           \A t \in Orders : steps'[t].rev = steps[t].rev,
           OutputsGrow, approvals' = approvals,
           req[r].pc # "reset", req'[r].pc # "reset", MakesRight(r)',
           \A s \in Orders :
              def[s].kind = "generate" /\ steps'[s].status = "completed" =>
                 steps[s].status = "completed" \/ (req'[r].pc = "output" /\ req'[r].at = s),
           req[r].pc = "output" => \/ req'[r].pc = "output" /\ req'[r].at = req[r].at
                                   \/ def[req[r].at].kind # "generate"
                                   \/ \E i \in DOMAIN outputs' :
                                         /\ outputs'[i].step = req[r].at
                                         /\ outputs'[i].rev = steps[req[r].at].rev
    PROVE  RevInv'
<1>1. RevsFit'
  BY DEF RevInv, RevsFit, IsGate, RevisionTarget
<1>2. ASSUME NEW q \in Requests, q # r PROVE MakesRight(q)'
  <2>1. req'[q] = req[q] /\ MakesRight(q)
    BY <1>2 DEF OthersKeep, RevInv
  <2>2. Making(q) => req[q].at \in Orders
    BY OrderTypes, WorksOnStep DEF Making, WithoutStep
  <2> QED
    BY <2>1, <2>2 DEF MakesRight, Making
<1>3. GeneratedOK'
  <2> SUFFICES ASSUME NEW s \in Orders, def[s].kind = "generate", steps'[s].status = "completed"
               PROVE  Recorded(s, steps[s].rev)' \/ RecordedSoon(s)'
    BY DEF GeneratedOK, Recorded
  <2>1. CASE req'[r].pc = "output" /\ req'[r].at = s
    BY <2>1 DEF RecordedSoon
  <2>2. CASE Recorded(s, steps[s].rev)
    <3>1. steps'[s].rev = steps[s].rev
      OBVIOUS
    <3> QED
      BY <2>2, <3>1 DEF Recorded, OutputsGrow
  <2>3. CASE RecordedSoon(s)
    <3>1. PICK q \in Requests : req[q].pc = "output" /\ req[q].at = s
      BY <2>3 DEF RecordedSoon
    <3>2. CASE q # r
      BY <3>1, <3>2 DEF OthersKeep, RecordedSoon
    <3>3. CASE q = r
      <4>1. CASE req'[r].pc = "output" /\ req'[r].at = req[r].at
        BY <3>1, <3>3, <4>1 DEF RecordedSoon
      <4>2. CASE \E i \in DOMAIN outputs' : /\ outputs'[i].step = req[r].at
                                            /\ outputs'[i].rev = steps[req[r].at].rev
        BY <3>1, <3>3, <4>2 DEF Recorded
      <4> QED
        BY <3>1, <3>3, <4>1, <4>2
    <3> QED
      BY <3>2, <3>3
  <2> QED
    BY <2>1, <2>2, <2>3 DEF RevInv, GeneratedOK
<1>4. CountOK'
  <2>1. \A g : Resetting(g)' <=> Resetting(g)
    BY DEF Resetting, OthersKeep
  <2> QED
    BY <2>1 DEF RevInv, CountOK, Rejections, IsGate
<1> QED
  BY <1>1, <1>2, <1>3, <1>4 DEF RevInv

\* In particular those that leave step, output and approval rows alone.
LEMMA RevLocal ==
    ASSUME OrderInv, RevInv, NEW r \in Requests, OthersKeep(r),
           UNCHANGED <<def, steps, outputs, approvals>>,
           req[r].pc \notin {"reset", "output"}, req'[r].pc # "reset", MakesRight(r)'
    PROVE  RevInv'
  BY RevFrame DEF Orders, OutputsGrow

\* And those that only write the status of a step.
LEMMA RevWrite ==
    ASSUME OrderInv, RevInv, NEW r \in Requests, OthersKeep(r), NEW s \in Orders, NEW x,
           SetStep(s, x), UNCHANGED <<def, outputs, approvals>>,
           req[r].pc \notin {"reset", "output"}, req'[r].pc # "reset", MakesRight(r)',
           x = "completed" /\ def[s].kind = "generate" =>
              req'[r].pc = "output" /\ req'[r].at = s
    PROVE  RevInv'
<1>1. /\ Orders' = Orders /\ \A t \in Orders : steps'[t].rev = steps[t].rev
      /\ steps'[s].status = x /\ \A t \in Orders : t # s => steps'[t] = steps[t]
  BY OrderTypes, SetStepEffect
<1> QED
  BY <1>1, RevFrame DEF OutputsGrow

LEMMA GenerateHandsOver ==
    ASSUME TypeInv, NEW r \in Requests, Execute(r), def[req[r].at].kind = "generate",
           req'[r].pc = "complete"
    PROVE  req'[r].ent # 0
<1>1. Generate(r) \/ Throw(r)
  BY DEF Execute, RecordContext, ReadGenerated, VerifyApproved
<1>2. CASE Generate(r)
  <2>1. Len(entities) + 1 # 0
    BY DEF TypeInv, RowsOK
  <2> QED
    BY <1>2, <2>1 DEF Generate, TypeInv, Request
<1>3. CASE Throw(r)
  BY <1>3, GotoStays DEF Throw, Stays
<1> QED
  BY <1>1, <1>2, <1>3

LEMMA RevStarting ==
    ASSUME OrderInv, NEW r \in Requests, Starting(r)
    PROVE  RevInv'
<1>0. FutureInv /\ RowsTaken
  BY DEF OrderInv, FutureInv, ClaimInv
<1>1. CASE Start(r)
  <2>1. /\ Orders' = {} /\ req'[r].pc = "create_steps"
        /\ \A q \in Requests : q # r => req'[q].pc = "idle"
    BY <1>0, <1>1, StartEffect DEF Stays, OthersKeep
  <2> QED
    BY <2>1 DEF RevInv, RevsFit, MakesRight, Making, GeneratedOK, CountOK
<1>2. CASE CreateSteps(r)
  <2>1. /\ Orders = {} /\ \A t \in Orders' : steps'[t].status = "pending" /\ steps'[t].rev = 0
        /\ req'[r].pc = "arm"
        /\ \A q \in Requests : q # r => req'[q].pc = "idle"
    BY <1>0, <1>2, CreateStepsEffect DEF OthersKeep, Idle
  <2>2. DOMAIN approvals = {} /\ approvals' = approvals
    BY <1>0, <1>2, <2>1 DEF RowsTaken, Taken, CreateSteps
  <2>3. \A g : Rejections(g)' = {} /\ ~Resetting(g)'
    BY <2>1, <2>2 DEF Rejections, Resetting
  <2>4. Cardinality({}) = 0
    BY FS_EmptySet
  <2>5. RevsFit' /\ GeneratedOK'
    BY <2>1 DEF RevsFit, GeneratedOK
  <2>6. CountOK'
    BY <2>1, <2>3, <2>4 DEF CountOK
  <2>7. \A q \in Requests : MakesRight(q)'
    BY <2>1 DEF MakesRight, Making
  <2> QED
    BY <2>5, <2>6, <2>7 DEF RevInv
<1> QED
  BY <1>1, <1>2 DEF Starting

LEMMA RevAdvancing ==
    ASSUME OrderInv, RevInv, NEW r \in Requests, Advancing(r)
    PROVE  RevInv'
<1> DEFINE s == req[r].at
<1>0. TypeInv /\ Right(r) /\ MakesRight(r)
  BY OrderTypes DEF OrderInv, RevInv
<1>1. req[r].pc \notin WithoutStep => s \in Orders
  BY <1>0, WorksOnStep
<1>2. \A label : Goto(r, label) => Stays(r, label) /\ req'[r].rev = req[r].rev
                                   /\ req'[r].ent = req[r].ent
  BY <1>0, GotoStays
<1>3. Arm(r) => OthersKeep(r) /\ req'[r].pc = "arm"
  BY <1>0, ArmEffect DEF Idle
<1>4. CASE Advance(r) \/ ReadStep(r) \/ MergeOutput(r)
  <2>1. req[r].pc \in {"idle", "advance", "merge"} /\ UNCHANGED <<def, steps, outputs, approvals>>
    BY <1>4 DEF Advance, ReadStep, MergeOutput, Receives, At, tables
  <2>2. OthersKeep(r) /\ req'[r].pc \in {"advance", "arm", "skip", "begin"}
    <3>1. CASE Advance(r)
      BY <1>0, <3>1 DEF Advance, TypeInv, OthersKeep, Idle
    <3> QED
      BY <1>2, <1>3, <1>4, <3>1 DEF ReadStep, MergeOutput, Stays
  <2> QED
    BY <2>1, <2>2, RevLocal DEF MakesRight, Making
<1>5. CASE Skip(r) \/ SkipWithNote(r) \/ FailStep(r)
  <2>1. s \in Orders /\ req[r].pc \in {"skip", "note", "fail"}
           /\ UNCHANGED <<def, outputs, approvals>>
    BY <1>1, <1>5 DEF Skip, SkipWithNote, FailStep, At, WithoutStep
  <2>2. OthersKeep(r) /\ req'[r].pc \in {"arm", "mark"}
    <3>1. CASE ArmTo(r, "mark", s, "failed")
      BY <1>0, <3>1 DEF ArmTo, Idle, TypeInv, OthersKeep
    <3> QED
      BY <1>3, <1>5, <3>1 DEF Skip, SkipWithNote, FailStep
  <2>3. MakesRight(r)'
    BY <2>2 DEF MakesRight, Making
  <2>4. CASE UNCHANGED steps
    BY <2>1, <2>2, <2>3, <2>4, RevLocal
  <2>5. CASE ~UNCHANGED steps
    <3>1. SetStep(s, "skipped") \/ SetStep(s, "failed")
      BY <1>5, <2>5 DEF Skip, SkipWithNote, FailStep
    <3> QED
      BY <2>1, <2>2, <2>3, <3>1, RevWrite
  <2> QED
    BY <2>4, <2>5
<1>6. CASE Begin(r)
  <2>1. s \in Orders /\ req[r].pc = "begin" /\ UNCHANGED <<def, outputs, approvals>>
           /\ SetStep(s, "in_progress")
    BY <1>1, <1>6 DEF Begin, At, WithoutStep
  <2>2. Stays(r, "execute") /\ req'[r].rev = steps[s].rev
    BY <1>0, <1>6, BeginEffect
  <2>3. steps'[s].rev = steps[s].rev
    BY <1>0, <2>1, SetStepEffect
  <2>4. MakesRight(r)'
    BY <2>2, <2>3 DEF MakesRight, Making, Stays
  <2> QED
    BY <2>1, <2>2, <2>4, RevWrite DEF Stays
<1>7. CASE Execute(r)
  <2>1. req[r].pc = "execute" /\ UNCHANGED <<def, steps, outputs, approvals>>
    BY <1>7 DEF Execute, At
  <2>2. /\ req'[r].rev = req[r].rev
        /\ \E label \in {"complete", "note", "fail"} : Stays(r, label)
    BY <1>0, <1>7, ExecuteEffect
  <2>3. MakesRight(r)'
    BY <1>0, <1>7, <2>1, <2>2, GenerateHandsOver DEF MakesRight, Making, Stays
  <2> QED
    BY <2>1, <2>2, <2>3, RevLocal DEF Stays
<1>8. CASE Complete(r)
  <2>1. s \in Orders /\ req[r].pc = "complete" /\ UNCHANGED <<def, outputs, approvals>>
    BY <1>1, <1>8 DEF Complete, At, WithoutStep
  <2>2. SetStep(s, "completed")
    BY <1>0, <1>8, <2>1 DEF Complete, Right, Running
  <2>3. steps'[s].rev = steps[s].rev
    BY <1>0, <2>1, <2>2, SetStepEffect
  <2>4. \/ req[r].ent = 0 /\ OthersKeep(r) /\ req'[r].pc = "arm"
        \/ Stays(r, "output") /\ req'[r].rev = req[r].rev
    BY <1>2, <1>3, <1>8 DEF Complete
  <2>5. MakesRight(r)'
    BY <1>0, <2>1, <2>3, <2>4 DEF MakesRight, Making, Stays
  <2>6. def[s].kind = "generate" => Stays(r, "output")
    BY <1>0, <2>1, <2>4 DEF MakesRight, Making
  <2> QED
    BY <2>1, <2>2, <2>4, <2>5, <2>6, RevWrite DEF Stays
<1>9. CASE RecordOutput(r)
  <2>1. s \in Orders /\ req[r].pc = "output" /\ UNCHANGED <<def, steps, approvals>>
           /\ outputs' = Append(outputs, OutputRow(r))
    BY <1>1, <1>9 DEF RecordOutput, At, WithoutStep
  <2>2. OthersKeep(r) /\ req'[r].pc \in {"merge", "arm"}
    BY <1>2, <1>3, <1>9 DEF RecordOutput, Stays
  <2>3. outputs \in Seq(OutputType)
    BY <1>0 DEF TypeInv, RowsOK
  <2>4. OutputsGrow
    BY <2>1, <2>3, AppendedRow DEF OutputsGrow
  <2>5. Len(outputs) + 1 \in DOMAIN outputs' /\ outputs'[Len(outputs) + 1] = OutputRow(r)
    BY <2>1, <2>3, AppendedRow
  <2>6. def[s].kind = "generate" =>
           \E i \in DOMAIN outputs' : outputs'[i].step = s /\ outputs'[i].rev = steps[s].rev
    BY <1>0, <2>1, <2>5 DEF OutputRow, MakesRight, Making
  <2>7. MakesRight(r)' /\ Orders' = Orders
    BY <2>1, <2>2 DEF MakesRight, Making, Orders
  <2> QED
    BY <2>1, <2>2, <2>4, <2>6, <2>7, RevFrame
<1> QED
  BY <1>4, <1>5, <1>6, <1>7, <1>8, <1>9 DEF Advancing

LEMMA RevArming ==
    ASSUME OrderInv, RevInv, NEW r \in Requests, Arming(r)
    PROVE  RevInv'
<1> DEFINE s == req[r].at
<1>0. TypeInv
  BY OrderTypes
<1>1. ASSUME NEW label, NEW t, NEW m, ArmTo(r, label, t, m)
      PROVE  OthersKeep(r) /\ req'[r].pc = label
  BY <1>0, <1>1 DEF ArmTo, Idle, TypeInv, OthersKeep
<1>2. req[r].pc \in {"arm", "arm_report", "arm_gate", "arm_current", "mark"}
        /\ UNCHANGED <<def, outputs, approvals>>
  BY DEF Arming, ArmNextStep, ReadReport, OpenGate, SetCurrentStep, MarkRun, At, tables
<1>3. OthersKeep(r) /\ req'[r].pc \in {"arm_report", "arm_gate", "arm_current", "mark", "idle"}
  <2>1. CASE ArmNextStep(r)
    <3>1. \E label \in {"arm_report", "arm_gate", "arm_current", "mark"} : \E t, m :
             ArmTo(r, label, t, m)
      BY <2>1 DEF ArmNextStep
    <3> QED
      BY <1>1, <3>1
  <2>2. CASE ReadReport(r)
    BY <1>1, <2>2 DEF ReadReport
  <2>3. CASE OpenGate(r) \/ SetCurrentStep(r)
    BY <1>0, <2>3, GotoStays DEF OpenGate, SetCurrentStep, Stays
  <2>4. CASE MarkRun(r)
    BY <1>0, <2>4, ReplyEffect DEF MarkRun, Idle
  <2> QED
    BY <2>1, <2>2, <2>3, <2>4 DEF Arming
<1>4. MakesRight(r)'
  BY <1>3 DEF MakesRight, Making
<1>5. CASE UNCHANGED steps
  BY <1>2, <1>3, <1>4, <1>5, RevLocal
<1>6. CASE ~UNCHANGED steps
  <2>1. OpenGate(r) /\ SetStep(s, "waiting_for_approval")
    BY <1>6 DEF Arming, ArmNextStep, ReadReport, OpenGate, SetCurrentStep, MarkRun, tables
  <2>2. s \in Orders
    BY <1>0, <2>1, WorksOnStep DEF OpenGate, At, WithoutStep
  <2> QED
    BY <1>2, <1>3, <1>4, <2>1, <2>2, RevWrite
<1> QED
  BY <1>5, <1>6

\* The audit row of a decision: the only one of its revision while nobody else decides.
LEMMA RevRecordDecision ==
    ASSUME OrderInv, RevInv, NEW r \in Requests, RecordDecision(r)
    PROVE  RevInv'
<1> DEFINE s == req[r].at
<1>0. TypeInv /\ Right(r)
  BY OrderTypes DEF OrderInv
<1>1. /\ s \in Orders /\ req[r].pc = "audit" /\ def[s].kind = "gate" /\ Holds(r)
      /\ UNCHANGED <<def, steps, outputs>> /\ Orders' = Orders
      /\ req[r].decision \in {"approved", "rejected"}
  BY <1>0, WorksOnStep
     DEF RecordDecision, At, WithoutStep, Right, Holds, Working, Orders, TypeInv, LocalOK,
         Deciders, Request
<1>2. /\ OthersKeep(r)
      /\ \/ req'[r].pc = "approved_output" /\ req[r].decision = "approved"
         \/ req'[r].pc = "reset" /\ req'[r].at = s
              /\ req[r].decision = "rejected" /\ def[s].returnTo # 0
         \/ req'[r].pc = "mark" /\ def[s].returnTo = 0
  <2>1. CASE ArmTo(r, "mark", s, "failed") /\ def[s].returnTo = 0
    BY <1>0, <2>1 DEF ArmTo, Idle, TypeInv, OthersKeep
  <2>2. \A label : Goto(r, label) => Stays(r, label)
    BY <1>0, GotoStays
  <2> QED
    BY <1>1, <2>1, <2>2 DEF RecordDecision, Stays
<1>3. \A q \in Requests : q # r => req'[q] = req[q] /\ req[q].pc \notin {"reset", "output"}
  BY <1>1, <1>2 DEF OthersKeep, OrderInv, OneHolder, Holds, Working, Settled
<1>4. RevsFit' /\ GeneratedOK'
  <2>1. \A t : RecordedSoon(t) <=> RecordedSoon(t)'
    BY <1>1, <1>2, <1>3 DEF RecordedSoon
  <2> QED
    BY <1>1, <2>1
       DEF RevInv, RevsFit, IsGate, RevisionTarget, GeneratedOK, Recorded
<1>5. \A q \in Requests : MakesRight(q)'
  BY <1>1, <1>2, <1>3 DEF RevInv, MakesRight, Making
<1>6. ASSUME NEW g \in Orders, IsGate(g), def[g].returnTo # 0
      PROVE  Cardinality(Rejections(g)') = steps[g].rev + (IF Resetting(g)' THEN 1 ELSE 0)
  <2>1. g = s
    BY <1>0, <1>1, <1>6, StepRows, GatesAssumption DEF IsGate
  <2>2. ~Resetting(g)
    BY <1>1, <1>3 DEF Resetting
  <2>3. Cardinality(Rejections(g)) = steps[g].rev /\ steps[g].rev \in Nat
    BY <1>0, <1>6, <2>2, StepRows DEF RevInv, CountOK
  <2> DEFINE n == Len(approvals)
             row == [step |-> s, rev |-> req[r].rev, seen |-> req[r].seen,
                     ent |-> req[r].ent, decision |-> req[r].decision]
  <2>4. approvals \in Seq(ApprovalType) /\ approvals' = Append(approvals, row)
    BY <1>0 DEF RecordDecision, TypeInv, RowsOK
  <2>5. /\ n \in Nat /\ DOMAIN approvals = 1 .. n /\ DOMAIN approvals' = 1 .. n + 1
        /\ \A i \in 1 .. n : approvals'[i] = approvals[i]
        /\ approvals'[n + 1] = row
    <3> HIDE DEF row
    <3> QED
      BY <2>4, AppendedRow
  <2>6. IsFiniteSet(Rejections(g)) /\ n + 1 \notin Rejections(g)
    <3>1. Rejections(g) \subseteq 1 .. n /\ IsFiniteSet(1 .. n)
      BY <2>5, FS_Interval DEF Rejections
    <3> QED
      BY <2>5, <3>1, FS_Subset
  <2>7. CASE req[r].decision = "approved"
    <3>1. Rejections(g)' = Rejections(g)
      BY <2>5, <2>7 DEF Rejections
    <3>2. ~Resetting(g)'
      BY <1>2, <1>3, <2>7 DEF Resetting
    <3> QED
      BY <2>3, <3>1, <3>2
  <2>8. CASE req[r].decision = "rejected"
    <3>1. Rejections(g)' = Rejections(g) \cup {n + 1}
      BY <2>1, <2>5, <2>8 DEF Rejections
    <3>2. Resetting(g)'
      BY <1>2, <1>6, <2>1, <2>8 DEF Resetting
    <3>3. Cardinality(Rejections(g)') = Cardinality(Rejections(g)) + 1
      BY <2>6, <3>1, FS_AddElement
    <3> QED
      BY <2>3, <3>2, <3>3
  <2> QED
    BY <1>1, <2>7, <2>8
<1>7. CountOK'
  BY <1>1, <1>6 DEF CountOK, IsGate
<1> QED
  BY <1>4, <1>5, <1>7 DEF RevInv

LEMMA RevReset ==
    ASSUME OrderInv, RevInv, NEW r \in Requests, ResetForRevision(r)
    PROVE  RevInv'
<1> DEFINE g == req[r].at
           target == RevisionTarget(def[g].returnTo)
<1>0. TypeInv /\ OneHolder
  BY OrderTypes DEF OrderInv
<1>1. /\ req[r].pc = "reset" /\ g \in Orders
      /\ def[g].kind = "gate" /\ def[g].gate # "brand_profile_future"
      /\ def[g].returnTo # 0
      /\ target \in Orders /\ target <= g
      /\ Stays(r, "reopen") /\ UNCHANGED <<run, def>> /\ Orders' = Orders
      /\ \A s \in Orders :
            IF target <= s /\ s <= g
            THEN steps'[s].status = "pending" /\ steps'[s].rev = steps[s].rev + 1
            ELSE steps'[s] = steps[s]
  BY ResetEffect
<1>2. UNCHANGED <<outputs, approvals>>
  BY DEF ResetForRevision
<1>3. \A q \in Requests :
         q # r => req'[q] = req[q] /\ req[q].pc \notin {"reset", "execute", "complete", "output"}
  BY <1>0, <1>1 DEF Stays, OthersKeep, OneHolder, Holds, Working, Settled, Running
<1>4. \A h \in Orders : IsGate(h) => h = g
  BY <1>0, <1>1, StepRows, GatesAssumption DEF IsGate
<1>5. g \in Nat /\ steps[g].rev \in Nat /\ \A s \in Orders : s \in Nat
  BY <1>0, <1>1, StepRows
<1>6. RevsFit'
  <2>1. \A s \in Orders : target <= s /\ s <= g => steps[s].rev = steps[g].rev
    BY <1>1 DEF RevInv, RevsFit, IsGate
  <2>2. \A s \in Orders : target <= s /\ s <= g => steps'[s].rev = steps'[g].rev
    BY <1>1, <1>5, <2>1
  <2>3. \A n : RevisionTarget(n)' = RevisionTarget(n)
    BY <1>1 DEF RevisionTarget
  <2> QED
    BY <1>1, <1>4, <2>2, <2>3 DEF RevsFit, IsGate
<1>7. \A q \in Requests : MakesRight(q)'
  BY <1>1, <1>3 DEF MakesRight, Making, Stays
<1>8. GeneratedOK'
  <2> SUFFICES ASSUME NEW s \in Orders, def[s].kind = "generate", steps'[s].status = "completed"
               PROVE  Recorded(s, steps[s].rev)'
    BY <1>1 DEF GeneratedOK
  <2>1. steps'[s] = steps[s]
    BY <1>1
  <2>2. ~RecordedSoon(s)
    BY <1>1, <1>3 DEF RecordedSoon
  <2>3. Recorded(s, steps[s].rev)
    BY <2>1, <2>2 DEF RevInv, GeneratedOK
  <2> QED
    BY <1>2, <2>1, <2>3 DEF Recorded
<1>9. CountOK'
  <2>1. Resetting(g) /\ \A h : ~Resetting(h)'
    BY <1>1, <1>3 DEF Resetting, Stays
  <2>2. Cardinality(Rejections(g)) = steps[g].rev + 1
    BY <1>1, <2>1 DEF RevInv, CountOK, IsGate
  <2>3. steps'[g].rev = steps[g].rev + 1
    BY <1>1, <1>5
  <2>4. \A h : Rejections(h)' = Rejections(h)
    BY <1>2 DEF Rejections
  <2> QED
    BY <1>1, <1>4, <1>5, <2>1, <2>2, <2>3, <2>4 DEF CountOK, IsGate
<1> QED
  BY <1>6, <1>7, <1>8, <1>9 DEF RevInv

LEMMA RevDeciding ==
    ASSUME OrderInv, RevInv, NEW r \in Requests, Deciding(r)
    PROVE  RevInv'
<1> DEFINE s == req[r].at
<1>0. TypeInv
  BY OrderTypes
<1>1. \A label : Goto(r, label) => Stays(r, label)
  BY <1>0, GotoStays
<1>2. Arm(r) => OthersKeep(r) /\ req'[r].pc = "arm"
  BY <1>0, ArmEffect DEF Idle
<1>3. CASE ReceiveDecision(r)
  <2>1. OthersKeep(r) /\ req[r].pc = "idle" /\ req'[r].pc = "load_gate"
    BY <1>0, <1>3 DEF ReceiveDecision, Receives, At, TypeInv, OthersKeep, Idle
  <2>2. MakesRight(r)' /\ UNCHANGED <<def, steps, outputs, approvals>>
    BY <1>3, <2>1 DEF MakesRight, Making, ReceiveDecision, tables
  <2> QED
    BY <2>1, <2>2, RevLocal
<1>4. CASE LoadGate(r) \/ FindEntity(r) \/ DecideEntity(r) \/ Reopen(r)
  <2>1. /\ req[r].pc \in {"load_gate", "find_entity", "decide", "reopen"}
        /\ UNCHANGED <<def, steps, outputs, approvals>>
    BY <1>4 DEF LoadGate, FindEntity, DecideEntity, Reopen, At, tables
  <2>2. OthersKeep(r) /\ req'[r].pc \in {"find_entity", "decide", "claim", "arm"}
    BY <1>0, <1>1, <1>2, <1>4, LoadGateEffect, FindEntityEffect DEF DecideEntity, Reopen, Stays
  <2> QED
    BY <2>1, <2>2, RevLocal DEF MakesRight, Making
<1>5. CASE ClaimGate(r)
  <2>1. /\ req[r].pc = "claim" /\ s \in Orders /\ SetStep(s, req[r].decision)
        /\ UNCHANGED <<def, outputs, approvals>>
        /\ req[r].decision # "completed"
    BY <1>0, <1>5, WorksOnStep DEF ClaimGate, At, WithoutStep, TypeInv, Request
  <2>2. OthersKeep(r) /\ req'[r].pc = "audit"
    BY <1>0, <1>5, ClaimGateEffect DEF Stays
  <2> QED
    BY <2>1, <2>2, RevWrite DEF MakesRight, Making
<1>6. CASE RecordApprovedOutput(r)
  <2>1. /\ req[r].pc = "approved_output" /\ UNCHANGED <<def, steps, approvals>>
        /\ outputs' = Append(outputs, OutputRow(r)) /\ outputs \in Seq(OutputType)
    BY <1>0, <1>6 DEF RecordApprovedOutput, At, TypeInv, RowsOK
  <2>2. OutputsGrow
    BY <2>1, AppendedRow DEF OutputsGrow
  <2>3. OthersKeep(r) /\ req'[r].pc = "arm"
    BY <1>2, <1>6 DEF RecordApprovedOutput
  <2>4. MakesRight(r)' /\ Orders' = Orders
    BY <2>1, <2>3 DEF MakesRight, Making, Orders
  <2> QED
    BY <2>1, <2>2, <2>3, <2>4, RevFrame
<1> QED
  BY <1>3, <1>4, <1>5, <1>6, RevRecordDecision, RevReset DEF Deciding

LEMMA RevOthers ==
    ASSUME OrderInv, RevInv, ~Restarts, NEW r \in Requests,
           Refuse(r) \/ Cancel(r) \/ ReviewDirectly(r) \/ Interrupt(r)
    PROVE  RevInv'
<1>0. TypeInv
  BY OrderTypes
<1>1. CASE Refuse(r)
  <2>1. /\ UNCHANGED <<def, steps, outputs, approvals>> /\ req[r].pc \notin {"reset", "output"}
    BY <1>1 DEF Refuse, tables, At
  <2>2. OthersKeep(r) /\ req'[r].pc = "idle"
    BY <1>0, <1>1, ReplyEffect DEF Refuse, Idle
  <2> QED
    BY <2>1, <2>2, RevLocal DEF MakesRight, Making
<1>2. CASE ReviewDirectly(r) \/ Cancel(r)
  <2>1. UNCHANGED <<req, def, steps, outputs, approvals>>
    BY <1>2 DEF ReviewDirectly, Cancel
  <2> QED
    BY <2>1 DEF RevInv, RevsFit, IsGate, RevisionTarget, MakesRight, Making, GeneratedOK,
                Recorded, RecordedSoon, CountOK, Rejections, Resetting, Orders
<1> QED
  BY <1>1, <1>2 DEF Interrupt

LEMMA InitRev == Init => RevInv
<1> SUFFICES ASSUME Init PROVE RevInv
  OBVIOUS
<1>1. Orders = {} /\ \A r \in Requests : req[r].pc = "idle"
  BY DEF Init, Orders, Idle
<1> QED
  BY <1>1 DEF RevInv, RevsFit, MakesRight, Making, GeneratedOK, CountOK

LEMMA RevInvStep ==
    ASSUME ~Restarts, OrderInv, RevInv, [Next]_vars
    PROVE  RevInv'
<1>1. CASE Next
  BY <1>1, RevStarting, RevAdvancing, RevArming, RevDeciding, RevOthers DEF Next
<1>2. CASE UNCHANGED vars
  BY <1>2 DEF vars, RevInv, RevsFit, IsGate, RevisionTarget, MakesRight, Making, GeneratedOK,
              Recorded, RecordedSoon, CountOK, Rejections, Resetting, Orders
<1> QED
  BY <1>1, <1>2

LEMMA RevInvAlways == ASSUME SingleDriver, ~Restarts PROVE Spec => [](OrderInv /\ RevInv)
<1>1. (OrderInv /\ RevInv) /\ [Next]_vars => (OrderInv /\ RevInv)'
  BY OrderInvStep, RevInvStep
<1>2. Init => OrderInv /\ RevInv
  BY InitOrder, InitRev
<1> QED
  BY <1>1, <1>2, PTL DEF Spec

\* A gate that opens again shows an entity generated in that very revision: the steps the
\* rejection took back carry the gate's revision, and the generating one among them is
\* done again, with its output row written, before the gate waits.
THEOREM RevisionAlwaysRegenerates ==
    ASSUME SingleDriver, ~Restarts PROVE Spec => []RevisionRegenerates
<1>1. OrderInv /\ RevInv => RevisionRegenerates
  <2> SUFFICES ASSUME OrderInv, RevInv, NEW s \in Orders,
                      steps[s].status = "waiting_for_approval", steps[s].rev > 0
               PROVE  \E i \in DOMAIN outputs :
                         outputs[i].rev = steps[s].rev /\ def[outputs[i].step].kind = "generate"
    BY DEF RevisionRegenerates
  <2> DEFINE target == RevisionTarget(def[s].returnTo)
  <2>1. Free /\ IsFront(s) /\ TypeInv
    BY WaitingIsFree, OrderTypes
  <2>2. def[s].kind = "gate"
    BY DEF OrderInv, KindsFit, KindFits
  <2>3. def[s].returnTo # 0 /\ def[s].gate # "brand_profile_future"
    BY <2>2 DEF RevInv, RevsFit, IsGate
  <2>4. target \in Orders /\ target <= s /\ def[target].kind = "generate"
    BY <2>1, <2>2, <2>3, TargetRegenerates
  <2>5. steps[target].rev = steps[s].rev
    <3>1. target <= target
      BY <2>1, <2>4, StepRows
    <3> QED
      BY <2>2, <2>4, <3>1 DEF RevInv, RevsFit, IsGate
  <2>6. steps[target].status = "completed"
    <3>1. target # s
      BY <2>2, <2>4
    <3>2. steps[target].status \in Done
      BY <2>1, <2>4, <3>1, BehindFront, StepRows
    <3> QED
      BY <2>4, <3>2 DEF OrderInv, KindsFit, KindFits, Done
  <2>7. ~RecordedSoon(target)
    BY <2>1 DEF RecordedSoon, Free, Holds, Working, Settled
  <2>8. Recorded(target, steps[target].rev)
    BY <2>4, <2>6, <2>7 DEF RevInv, GeneratedOK
  <2> QED
    BY <2>4, <2>5, <2>8 DEF Recorded
<1> QED
  BY <1>1, RevInvAlways, PTL

\* The audit trail accounts for every revision, for every catalog and any number of
\* reviewers racing for the same gate.
THEOREM TrailAccountsForRevisions ==
    ASSUME SingleDriver, ~Restarts PROVE Spec => []RevisionsMatchRejections
<1>1. OrderInv /\ RevInv => RevisionsMatchRejections
  <2> SUFFICES ASSUME OrderInv, RevInv, Quiet, NEW g \in Orders, IsGate(g), def[g].returnTo # 0
               PROVE  steps[g].rev = Cardinality(Rejections(g))
    BY DEF RevisionsMatchRejections, Rejections
  <2>1. ~Resetting(g)
    BY DEF Quiet, At, Resetting
  <2>2. steps[g].rev \in Nat
    BY OrderTypes, StepRows
  <2> QED
    BY <2>1, <2>2 DEF RevInv, CountOK
<1> QED
  BY <1>1, RevInvAlways, PTL

(***************************************************************************)
(* The arrival rule of the Creative QA gate                                *)
(***************************************************************************)
\* Whatever names an entity names one that exists.
Made == 1 .. Len(entities)
WithEntity == {"output", "merge", "decide", "claim", "audit", "approved_output"}
Named(r) ==
    /\ req[r].ent \in Made \cup {0} /\ req[r].out \in Made \cup {0}
    /\ req[r].pc \in WithEntity => req[r].ent # 0
AllNamed ==
    /\ run.output \in Made \cup {0}
    /\ \A i \in DOMAIN outputs : outputs[i].ent \in Made
    /\ \A r \in Requests : Named(r)

Undecided(e) == entities[e].low /\ entities[e].status = "generated"
NoLow == \A e \in Newest : ~Undecided(e)
ArrivalOK ==
    /\ \A s \in Orders :
          steps[s].status = "waiting_for_approval" /\ def[s].gate = "creative_qa" => NoLow
    /\ \A r \in Requests :
          req[r].pc = "arm_gate" /\ def[req[r].at].gate = "creative_qa" => NoLow

LowInv == AllNamed /\ ArrivalOK

\* Entities are only added, and no decision undoes a decision.
EntitiesGrow ==
    /\ Len(entities) \in Nat /\ Len(entities') \in Nat /\ Len(entities) <= Len(entities')
    /\ \A e \in Made : entities'[e].low = entities[e].low
                       /\ (entities'[e].status = "generated" => entities[e].status = "generated")

LEMMA NewestIsMade == ASSUME TypeInv, AllNamed PROVE Newest \subseteq Made
<1>1. Len(outputs) \in Nat /\ DOMAIN outputs = 1 .. Len(outputs)
       /\ (outputs # << >> => Len(outputs) # 0)
  BY EmptySeq DEF TypeInv, RowsOK
<1> QED
  BY <1>1 DEF Newest, AllNamed

LEMMA CandidatesAreMade ==
    ASSUME TypeInv, AllNamed, NEW r \in Requests, NEW gate
    PROVE  Candidates(gate, req[r].out) \subseteq Made
<1>1. Len(entities) \in Nat
  BY DEF TypeInv, RowsOK
<1>2. Linked \subseteq Made
  BY DEF Linked, AllNamed
<1>3. req[r].out \in Made \cup {0}
  BY DEF AllNamed, Named
<1>4. {Len(entities)} \ {0} \subseteq Made
  BY <1>1 DEF Made
<1> QED
  BY <1>2, <1>3, <1>4, NewestIsMade DEF Candidates

LEMMA SameEntities == ASSUME TypeInv, entities' = entities PROVE EntitiesGrow
  BY DEF TypeInv, RowsOK, EntitiesGrow

\* Steps that write no output row.
LEMMA LowFrame ==
    ASSUME OrderInv, LowInv, NEW r \in Requests, OthersKeep(r), def' = def,
           outputs' = outputs, EntitiesGrow,
           run'.output = run.output \/ run'.output = req[r].ent,
           req'[r].ent \in Made' \cup {0}, req'[r].out \in Made \cup {0},
           req'[r].pc \in WithEntity => req'[r].ent # 0,
           \A s \in Orders' : steps'[s].status = "waiting_for_approval" =>
              \/ s \in Orders /\ steps[s].status = "waiting_for_approval"
              \/ req[r].pc = "arm_gate" /\ s = req[r].at,
           req'[r].pc = "arm_gate" /\ def[req'[r].at].gate = "creative_qa" => NoLow
    PROVE  LowInv'
<1>1. Made \subseteq Made' /\ Newest' = Newest /\ Newest \subseteq Made
  BY OrderTypes, NewestIsMade DEF EntitiesGrow, Made, Newest, LowInv
<1>2. NoLow => NoLow'
  BY <1>1 DEF NoLow, Undecided, EntitiesGrow
<1>3. AllNamed'
  <2>1. \A q \in Requests : Named(q)'
    BY <1>1 DEF LowInv, AllNamed, Named, OthersKeep
  <2>2. run'.output \in Made' \cup {0}
    BY <1>1 DEF LowInv, AllNamed, Named
  <2> QED
    BY <1>1, <2>1, <2>2 DEF LowInv, AllNamed
<1>4. ArrivalOK'
  <2>1. ASSUME NEW s \in Orders', steps'[s].status = "waiting_for_approval",
               def'[s].gate = "creative_qa"
        PROVE  NoLow'
    BY <1>2, <2>1 DEF LowInv, ArrivalOK
  <2>2. ASSUME NEW q \in Requests, req'[q].pc = "arm_gate",
               def'[req'[q].at].gate = "creative_qa"
        PROVE  NoLow'
    BY <1>2, <2>2 DEF LowInv, ArrivalOK, OthersKeep
  <2> QED
    BY <2>1, <2>2 DEF ArrivalOK
<1> QED
  BY <1>3, <1>4 DEF LowInv

\* An output row is written by the holder of the run: no gate waits or is about to.
LEMMA LowOutput ==
    ASSUME OrderInv, LowInv, NEW r \in Requests,
           req[r].pc \in {"output", "approved_output"}, OthersKeep(r),
           outputs' = Append(outputs, OutputRow(r)), UNCHANGED <<run, def, steps, entities>>,
           req'[r].ent \in Made \cup {0}, req'[r].out \in Made \cup {0},
           req'[r].pc \in WithEntity => req'[r].ent # 0, req'[r].pc # "arm_gate"
    PROVE  LowInv'
<1>1. Holds(r) /\ ~Free
  BY DEF Holds, Working, Settled, Free
<1>2. \A s \in Orders : steps[s].status # "waiting_for_approval"
  BY <1>1, WaitingIsFree
<1>3. \A q \in Requests : q # r => req'[q] = req[q] /\ req[q].pc # "arm_gate"
  BY <1>1 DEF OthersKeep, OrderInv, OneHolder, Holds, Working, Settled
<1>4. ArrivalOK'
  BY <1>2, <1>3 DEF ArrivalOK, Orders
<1>5. req[r].ent \in Made
  BY DEF LowInv, AllNamed, Named, WithEntity
<1>6. outputs \in Seq(OutputType)
  BY OrderTypes DEF TypeInv, RowsOK
<1>7. \A i \in DOMAIN outputs' : outputs'[i].ent \in Made
  <2>1. ASSUME NEW i \in DOMAIN outputs' PROVE outputs'[i].ent \in Made
    <3>1. \/ i \in DOMAIN outputs /\ outputs'[i] = outputs[i]
          \/ outputs'[i] = OutputRow(r)
      BY <1>6, <2>1, AppendedRow
    <3> QED
      BY <1>5, <3>1 DEF LowInv, AllNamed, OutputRow
  <2> QED
    BY <2>1
<1>8. AllNamed'
  BY <1>3, <1>7 DEF LowInv, AllNamed, Named, Made
<1> QED
  BY <1>4, <1>8 DEF LowInv

\* What a request leaves behind when it goes idle or arms from scratch.
LEMMA ForgetsEntities ==
    ASSUME TypeInv, NEW r \in Requests,
           Reply(r) \/ Arm(r) \/ \E label, s, m : ArmTo(r, label, s, m)
    PROVE  OthersKeep(r) /\ req'[r].ent = 0 /\ req'[r].out = 0
<1>1. CASE Reply(r) \/ Arm(r)
  BY <1>1 DEF Reply, Arm, Idle, TypeInv, OthersKeep
<1>2. ASSUME NEW label, NEW s, NEW m, ArmTo(r, label, s, m)
      PROVE  OthersKeep(r) /\ req'[r].ent = 0 /\ req'[r].out = 0
  BY <1>2 DEF ArmTo, Idle, TypeInv, OthersKeep
<1> QED
  BY <1>1, <1>2

LEMMA LowStarting ==
    ASSUME OrderInv, LowInv, NEW r \in Requests, Starting(r)
    PROVE  LowInv'
<1>0. FutureInv /\ TypeInv
  BY OrderTypes
<1>1. CASE Start(r)
  <2>1. /\ Orders' = {} /\ Stays(r, "create_steps") /\ UNCHANGED <<entities, outputs>>
        /\ \A q \in Requests : req[q].pc = "idle"
    BY <1>0, <1>1, StartEffect DEF Start
  <2>2. req'[r].ent = req[r].ent /\ run'.output = run.output
    BY <1>0, <1>1, GotoStays DEF Start, TypeInv, RowsOK, RunType
  <2>3. \A q \in Requests : Named(q)' /\ req'[q].pc \in {"idle", "create_steps"}
    BY <2>1, <2>2 DEF LowInv, AllNamed, Named, Stays, OthersKeep, WithEntity, Made
  <2> QED
    BY <2>1, <2>2, <2>3 DEF LowInv, AllNamed, ArrivalOK, Made
<1>2. CASE CreateSteps(r)
  <2>1. /\ \A t \in Orders' : steps'[t].status = "pending"
        /\ UNCHANGED <<run, def, entities, outputs>> /\ req'[r].pc = "arm"
    BY <1>0, <1>2, CreateStepsEffect DEF CreateSteps, Idle
  <2>2. OthersKeep(r) /\ req'[r].ent = 0 /\ req'[r].out = 0
    BY <1>0, <1>2, ForgetsEntities DEF CreateSteps
  <2> QED
    BY <1>0, <2>1, <2>2, SameEntities, LowFrame DEF WithEntity
<1> QED
  BY <1>1, <1>2 DEF Starting

LEMMA GeneratedEntityGrows ==
    ASSUME TypeInv, NEW low \in BOOLEAN,
           entities' = Append(entities, [status |-> "generated", low |-> low])
    PROVE  EntitiesGrow /\ Len(entities) + 1 \in Made' /\ Len(entities') = Len(entities) + 1
<1> DEFINE entity == [status |-> "generated", low |-> low]
<1>1. entities \in Seq(EntityType) /\ entities' = Append(entities, entity)
  BY DEF TypeInv, RowsOK
<1>2. /\ Len(entities) \in Nat
      /\ Len(entities') = Len(entities) + 1
      /\ \A i \in 1 .. Len(entities) : entities'[i] = entities[i]
  <2> HIDE DEF entity
  <2> QED
    BY <1>1, AppendedRow
<1> QED
  BY <1>2 DEF EntitiesGrow, Made

LEMMA DecidedEntityStays ==
    ASSUME TypeInv, NEW e, NEW status, status # "generated",
           entities' = [entities EXCEPT ![e].status = status]
    PROVE  EntitiesGrow /\ Len(entities') = Len(entities)
<1>1. entities \in Seq(EntityType) /\ Len(entities) \in Nat
  BY DEF TypeInv, RowsOK
<1>2. entities \in [1 .. Len(entities) -> EntityType]
  BY <1>1
<1>3. DOMAIN entities' = 1 .. Len(entities)
  BY <1>2
<1>4. Len(entities') = Len(entities)
  BY <1>1, <1>3
<1>5. \A i \in 1 .. Len(entities) :
         /\ entities'[i].low = entities[i].low
         /\ entities'[i].status = entities[i].status \/ entities'[i].status = status
  BY <1>2 DEF EntityType
<1> QED
  BY <1>1, <1>4, <1>5 DEF EntitiesGrow, Made

LEMMA ExecuteNames ==
    ASSUME TypeInv, AllNamed, NEW r \in Requests, Execute(r)
    PROVE  EntitiesGrow /\ req'[r].ent \in Made' \cup {0}
<1>1. \A label : Goto(r, label) => req'[r].ent = req[r].ent
  BY GotoStays
<1>2. ASSUME NEW e, req' = [req EXCEPT ![r].pc = "complete", ![r].ent = e]
      PROVE  req'[r].ent = e
  BY <1>2 DEF TypeInv, Request
<1>3. req[r].ent \in Made \cup {0}
  BY DEF AllNamed, Named
<1>4. CASE Generate(r)
  <2>1. \E low \in BOOLEAN : entities' = Append(entities, [status |-> "generated", low |-> low])
    BY <1>4 DEF Generate
  <2>2. req'[r].ent = Len(entities) + 1
    BY <1>2, <1>4 DEF Generate
  <2> QED
    BY <2>1, <2>2, GeneratedEntityGrows
<1>5. CASE RecordContext(r) \/ ReadGenerated(r) \/ VerifyApproved(r) \/ Throw(r)
  <2>1. entities' = entities
    BY <1>5 DEF RecordContext, ReadGenerated, VerifyApproved, Throw
  <2>2. req'[r].ent \in Made \cup {0}
    <3>1. CASE RecordContext(r) \/ Throw(r)
      BY <1>1, <1>3, <3>1 DEF RecordContext, Throw
    <3>2. CASE ReadGenerated(r)
      <4>1. \E e \in Candidates(GateOf(def), req[r].out) :
               \/ req'[r].ent = req[r].ent
               \/ req'[r].ent = e
        BY <1>1, <1>2, <3>2 DEF ReadGenerated, ReadQaFact, VerifyGeneratedDna
      <4> QED
        BY <1>3, <4>1, CandidatesAreMade
    <3>3. CASE VerifyApproved(r)
      <4>1. PICK e \in Candidates(GateOf(def), req[r].out) :
               req' = [req EXCEPT ![r].pc = "complete",
                         ![r].ent = IF GateOf(def) \in {"design_dna", "design_brief"}
                                    THEN e ELSE 0]
        BY <3>3 DEF VerifyApproved
      <4>2. req'[r].ent \in {e, 0}
        BY <1>2, <4>1
      <4> QED
        BY <4>1, <4>2, CandidatesAreMade
    <3> QED
      BY <1>5, <3>1, <3>2, <3>3
  <2> QED
    BY <2>1, <2>2, SameEntities DEF Made
<1> QED
  BY <1>4, <1>5 DEF Execute

LEMMA LowAdvancing ==
    ASSUME OrderInv, LowInv, NEW r \in Requests, Advancing(r)
    PROVE  LowInv'
<1> DEFINE s == req[r].at
<1>0. TypeInv /\ AllNamed /\ Named(r)
  BY OrderTypes DEF LowInv, AllNamed
<1>1. req[r].pc \notin WithoutStep => s \in Orders
  BY <1>0, WorksOnStep
<1>2. \A label : Goto(r, label) => Stays(r, label) /\ req'[r].ent = req[r].ent
  BY <1>0, GotoStays
<1>3. Arm(r) => OthersKeep(r) /\ req'[r].pc = "arm" /\ req'[r].ent = 0 /\ req'[r].out = 0
  BY <1>0, ForgetsEntities, ArmEffect DEF Idle
<1>4. CASE Advance(r) \/ ReadStep(r) \/ MergeOutput(r)
  <2>1. UNCHANGED <<def, steps, entities, outputs>>
    BY <1>4 DEF Advance, ReadStep, MergeOutput, tables
  <2>2. run'.output = run.output \/ run'.output = req[r].ent
    BY <1>0, <1>4 DEF Advance, ReadStep, MergeOutput, tables, TypeInv, RowsOK, RunType
  <2>3. /\ OthersKeep(r) /\ req'[r].pc \in {"advance", "arm", "skip", "begin"}
        /\ req'[r].ent \in Made \cup {0} /\ req'[r].out \in Made \cup {0}
    <3>1. CASE Advance(r)
      <4>1. /\ OthersKeep(r) /\ req'[r].pc = "advance"
            /\ req'[r].ent = 0 /\ req'[r].out = run.output
        BY <1>0, <3>1 DEF Advance, TypeInv, OthersKeep, Idle
      <4> QED
        BY <1>0, <4>1 DEF AllNamed
    <3> QED
      BY <1>0, <1>2, <1>3, <1>4, <3>1 DEF ReadStep, MergeOutput, Stays, Named
  <2> QED
    BY <1>0, <2>1, <2>2, <2>3, SameEntities, LowFrame DEF WithEntity, Made, Orders
<1>5. CASE Skip(r) \/ SkipWithNote(r) \/ FailStep(r) \/ Begin(r) \/ Complete(r)
  <2>1. s \in Orders /\ UNCHANGED <<run, def, outputs, entities>>
    BY <1>1, <1>5 DEF Skip, SkipWithNote, FailStep, Begin, Complete, At, WithoutStep
  <2>2. UNCHANGED steps \/ \E x \in {"skipped", "failed", "in_progress", "completed"} : SetStep(s, x)
    BY <1>5 DEF Skip, SkipWithNote, FailStep, Begin, Complete
  <2>3. /\ OthersKeep(r) /\ req'[r].pc \in {"arm", "mark", "execute", "output"}
        /\ req'[r].ent \in {0, req[r].ent} /\ req'[r].out \in {0, req[r].out}
        /\ req'[r].pc = "output" => req'[r].ent # 0
    <3>1. CASE Begin(r)
      BY <1>0, <3>1 DEF Begin, TypeInv, OthersKeep, Request
    <3>2. CASE Complete(r)
      BY <1>2, <1>3, <3>2 DEF Complete, Stays
    <3>3. CASE Skip(r) \/ SkipWithNote(r)
      BY <1>3, <3>3 DEF Skip, SkipWithNote
    <3>4. CASE FailStep(r)
      <4>1. ArmTo(r, "mark", s, "failed")
        BY <3>4 DEF FailStep
      <4> QED
        BY <1>0, <4>1 DEF ArmTo, Idle, TypeInv, OthersKeep
    <3> QED
      BY <1>5, <3>1, <3>2, <3>3, <3>4
  <2>4. \A t \in Orders' : steps'[t].status = "waiting_for_approval" =>
           t \in Orders /\ steps[t].status = "waiting_for_approval"
    <3>1. CASE UNCHANGED steps
      BY <3>1 DEF Orders
    <3>2. ASSUME NEW x \in {"skipped", "failed", "in_progress", "completed"}, SetStep(s, x)
          PROVE  \A t \in Orders' : steps'[t].status = "waiting_for_approval" =>
                    t \in Orders /\ steps[t].status = "waiting_for_approval"
      BY <1>0, <2>1, <3>2, SetStepEffect
    <3> QED
      BY <2>2, <3>1, <3>2
  <2> QED
    BY <1>0, <2>1, <2>3, <2>4, SameEntities, LowFrame DEF WithEntity, Made, Named
<1>6. CASE Execute(r)
  <2>1. UNCHANGED <<run, def, steps, outputs>>
    BY <1>6 DEF Execute
  <2>2. /\ OthersKeep(r) /\ req'[r].pc \in {"complete", "note", "fail"}
        /\ req'[r].out = req[r].out
    BY <1>0, <1>6, ExecuteEffect DEF Stays
  <2>3. EntitiesGrow /\ req'[r].ent \in Made' \cup {0}
    BY <1>0, <1>6, ExecuteNames
  <2> QED
    BY <1>0, <2>1, <2>2, <2>3, LowFrame DEF WithEntity, Named, Orders
<1>7. CASE RecordOutput(r)
  <2>1. /\ req[r].pc = "output" /\ UNCHANGED <<run, def, steps, entities>>
        /\ outputs' = Append(outputs, OutputRow(r))
    BY <1>7 DEF RecordOutput, At
  <2>2. /\ OthersKeep(r) /\ req'[r].pc \in {"merge", "arm"}
        /\ req'[r].ent \in {0, req[r].ent} /\ req'[r].out \in {0, req[r].out}
        /\ req'[r].pc = "merge" => req'[r].ent = req[r].ent
    BY <1>2, <1>3, <1>7 DEF RecordOutput, Stays
  <2> QED
    BY <1>0, <2>1, <2>2, LowOutput DEF WithEntity, Named
<1> QED
  BY <1>4, <1>5, <1>6, <1>7 DEF Advancing

LEMMA LowArming ==
    ASSUME OrderInv, LowInv, NEW r \in Requests, Arming(r)
    PROVE  LowInv'
<1> DEFINE s == req[r].at
<1>0. TypeInv /\ AllNamed /\ Named(r)
  BY OrderTypes DEF LowInv, AllNamed
<1>1. UNCHANGED <<def, entities, outputs>> /\ run'.output = run.output
  BY <1>0 DEF Arming, ArmNextStep, ReadReport, OpenGate, SetCurrentStep, MarkRun, tables,
              TypeInv, RowsOK, RunType
<1>2. ASSUME NEW label, NEW t, NEW m, ArmTo(r, label, t, m)
      PROVE  /\ OthersKeep(r) /\ req'[r].pc = label /\ req'[r].at = t
             /\ req'[r].ent = 0 /\ req'[r].out = 0
  BY <1>0, <1>2 DEF ArmTo, Idle, TypeInv, OthersKeep
<1>3. /\ OthersKeep(r) /\ req'[r].pc \notin WithEntity
      /\ req'[r].ent \in {0, req[r].ent} /\ req'[r].out \in {0, req[r].out}
      /\ req'[r].pc = "arm_gate" /\ def[req'[r].at].gate = "creative_qa" => NoLow
  <2>1. CASE ArmNextStep(r)
    <3>1. \E label \in {"arm_report", "arm_gate", "arm_current", "mark"} : \E t, m :
             ArmTo(r, label, t, m) /\ (label = "arm_gate" => def[t].gate # "creative_qa")
      BY <2>1 DEF ArmNextStep
    <3> QED
      BY <1>2, <3>1 DEF WithEntity
  <2>2. CASE ReadReport(r)
    <3>1. \/ ArmTo(r, "arm_current", s, "qa_failed")
          \/ ArmTo(r, "arm_gate", s, "waiting_for_approval") /\ NoLow
      BY <2>2 DEF ReadReport, NoLow, Undecided
    <3> QED
      BY <1>2, <3>1 DEF WithEntity
  <2>3. CASE OpenGate(r) \/ SetCurrentStep(r)
    BY <1>0, <2>3, GotoStays DEF OpenGate, SetCurrentStep, Stays, WithEntity
  <2>4. CASE MarkRun(r)
    BY <1>0, <2>4, ReplyEffect, ForgetsEntities DEF MarkRun, Idle, WithEntity
  <2> QED
    BY <2>1, <2>2, <2>3, <2>4 DEF Arming
<1>4. \A t \in Orders' : steps'[t].status = "waiting_for_approval" =>
         \/ t \in Orders /\ steps[t].status = "waiting_for_approval"
         \/ req[r].pc = "arm_gate" /\ t = s
  <2>1. CASE UNCHANGED steps
    BY <2>1 DEF Orders
  <2>2. CASE ~UNCHANGED steps
    <3>1. OpenGate(r) /\ SetStep(s, "waiting_for_approval")
      BY <2>2 DEF Arming, ArmNextStep, ReadReport, OpenGate, SetCurrentStep, MarkRun, tables
    <3>2. s \in Orders /\ req[r].pc = "arm_gate"
      BY <1>0, <3>1, WorksOnStep DEF OpenGate, At, WithoutStep
    <3> QED
      BY <1>0, <3>1, <3>2, SetStepEffect
  <2> QED
    BY <2>1, <2>2
<1> QED
  BY <1>0, <1>1, <1>3, <1>4, SameEntities, LowFrame DEF Made, Named

LEMMA OutcomeDecides ==
    ASSUME NEW gate, NEW status, NEW decision, NEW new \in Outcomes(gate, status, decision)
    PROVE  new # "generated"
  BY DEF Outcomes, RejectTo

LEMMA LowDeciding ==
    ASSUME OrderInv, LowInv, NEW r \in Requests, Deciding(r)
    PROVE  LowInv'
<1> DEFINE s == req[r].at
<1>0. TypeInv /\ AllNamed /\ Named(r)
  BY OrderTypes DEF LowInv, AllNamed
<1>1. \A label : Goto(r, label) => Stays(r, label) /\ req'[r].ent = req[r].ent
  BY <1>0, GotoStays
<1>2. Arm(r) => OthersKeep(r) /\ req'[r].pc = "arm" /\ req'[r].ent = 0 /\ req'[r].out = 0
  BY <1>0, ForgetsEntities, ArmEffect DEF Idle
<1>3. CASE ReceiveDecision(r) \/ LoadGate(r) \/ FindEntity(r) \/ DecideEntity(r) \/ Reopen(r)
  <2>1. UNCHANGED <<def, steps, outputs>> /\ run'.output = run.output
    BY <1>0, <1>3 DEF ReceiveDecision, LoadGate, FindEntity, DecideEntity, Reopen, tables,
                      TypeInv, RowsOK, RunType
  <2>2. EntitiesGrow
    <3>1. CASE DecideEntity(r)
      <4>1. PICK status \in Outcomes(def[s].gate, entities[req[r].ent].status, req[r].decision) :
               entities' = [entities EXCEPT ![req[r].ent].status = status]
        BY <3>1 DEF DecideEntity
      <4>2. status # "generated"
        BY <4>1, OutcomeDecides
      <4> QED
        BY <1>0, <4>1, <4>2, DecidedEntityStays
    <3> QED
      BY <1>0, <1>3, <3>1, SameEntities
         DEF ReceiveDecision, LoadGate, FindEntity, Reopen, tables
  <2>3. /\ OthersKeep(r) /\ req'[r].pc \in {"load_gate", "find_entity", "decide", "claim", "arm"}
        /\ req'[r].ent \in Made \cup {0} /\ req'[r].out \in Made \cup {0}
        /\ req'[r].pc \in {"decide", "claim"} => req'[r].ent # 0
    <3>1. CASE ReceiveDecision(r)
      <4>1. /\ OthersKeep(r) /\ req'[r].pc = "load_gate"
            /\ req'[r].ent = 0 /\ req'[r].out = run.output
        BY <1>0, <3>1 DEF ReceiveDecision, TypeInv, OthersKeep, Idle
      <4> QED
        BY <1>0, <4>1 DEF AllNamed
    <3>2. CASE LoadGate(r)
      BY <1>0, <3>2 DEF LoadGate, TypeInv, OthersKeep, Request, Named
    <3>3. CASE FindEntity(r)
      <4>1. \E e \in Candidates(def[s].gate, req[r].out) :
               req'[r].ent = e /\ (Stays(r, "decide") \/ Stays(r, "claim"))
        BY <1>0, <3>3, FindEntityEffect
      <4>2. Candidates(def[s].gate, req[r].out) \subseteq Made
        BY <1>0, CandidatesAreMade
      <4>3. 0 \notin Made
        BY DEF Made
      <4> QED
        BY <1>0, <4>1, <4>2, <4>3 DEF Stays, Named
    <3>4. CASE DecideEntity(r)
      BY <1>0, <1>1, <3>4 DEF DecideEntity, At, Stays, Named, WithEntity
    <3>5. CASE Reopen(r)
      BY <1>2, <3>5 DEF Reopen
    <3> QED
      BY <1>3, <3>1, <3>2, <3>3, <3>4, <3>5
  <2>4. Made \subseteq Made'
    BY <2>2 DEF EntitiesGrow, Made
  <2> QED
    BY <2>1, <2>2, <2>3, <2>4, LowFrame DEF WithEntity, Orders
<1>4. CASE ClaimGate(r)
  <2>1. /\ req[r].pc = "claim" /\ s \in Orders /\ SetStep(s, req[r].decision)
        /\ UNCHANGED <<run, def, entities, outputs>>
        /\ req[r].decision # "waiting_for_approval"
    BY <1>0, <1>4, WorksOnStep DEF ClaimGate, At, WithoutStep, TypeInv, Request
  <2>2. Stays(r, "audit") /\ req'[r].ent = req[r].ent
    BY <1>0, <1>4, ClaimGateEffect
  <2>3. \A t \in Orders' : steps'[t].status = "waiting_for_approval" =>
           t \in Orders /\ steps[t].status = "waiting_for_approval"
    BY <1>0, <2>1, SetStepEffect
  <2> QED
    BY <1>0, <2>1, <2>2, <2>3, SameEntities, LowFrame DEF WithEntity, Made, Named, Stays
<1>5. CASE RecordDecision(r)
  <2>1. req[r].pc = "audit" /\ UNCHANGED <<run, def, steps, entities, outputs>>
    BY <1>5 DEF RecordDecision, At
  <2>2. /\ OthersKeep(r) /\ req'[r].pc \in {"approved_output", "reset", "mark"}
        /\ req'[r].ent \in {0, req[r].ent} /\ req'[r].out \in {0, req[r].out}
        /\ req'[r].pc = "approved_output" => req'[r].ent = req[r].ent
    <3>1. CASE ArmTo(r, "mark", s, "failed")
      BY <1>0, <3>1 DEF ArmTo, Idle, TypeInv, OthersKeep
    <3> QED
      BY <1>1, <1>5, <3>1 DEF RecordDecision, Stays
  <2> QED
    BY <1>0, <2>1, <2>2, SameEntities, LowFrame DEF WithEntity, Made, Named, Orders
<1>6. CASE RecordApprovedOutput(r)
  <2>1. /\ req[r].pc = "approved_output" /\ UNCHANGED <<run, def, steps, entities>>
        /\ outputs' = Append(outputs, OutputRow(r))
    BY <1>6 DEF RecordApprovedOutput, At
  <2>2. OthersKeep(r) /\ req'[r].pc = "arm" /\ req'[r].ent = 0 /\ req'[r].out = 0
    BY <1>2, <1>6 DEF RecordApprovedOutput
  <2> QED
    BY <2>1, <2>2, LowOutput DEF WithEntity
<1>7. CASE ResetForRevision(r)
  <2>1. /\ Stays(r, "reopen") /\ req'[r].ent = req[r].ent /\ req[r].pc = "reset"
        /\ UNCHANGED <<run, def, entities, outputs>>
    BY <1>1, <1>7 DEF ResetForRevision, At
  <2>2. \A t \in Orders' : steps'[t].status = "waiting_for_approval" =>
           t \in Orders /\ steps[t].status = "waiting_for_approval"
    BY <1>7, ResetEffect
  <2> QED
    BY <1>0, <2>1, <2>2, SameEntities, LowFrame DEF WithEntity, Made, Named, Stays
<1> QED
  BY <1>3, <1>4, <1>5, <1>6, <1>7 DEF Deciding

LEMMA LowOthers ==
    ASSUME OrderInv, LowInv, ~Restarts, NEW r \in Requests,
           Refuse(r) \/ Cancel(r) \/ ReviewDirectly(r) \/ Interrupt(r)
    PROVE  LowInv'
<1>0. TypeInv /\ AllNamed /\ Named(r)
  BY OrderTypes DEF LowInv, AllNamed
<1>1. CASE Refuse(r)
  <2>1. UNCHANGED <<run, def, steps, entities, outputs>>
    BY <1>1 DEF Refuse, tables
  <2>2. OthersKeep(r) /\ req'[r].pc = "idle" /\ req'[r].ent = 0 /\ req'[r].out = 0
    BY <1>0, <1>1, ReplyEffect, ForgetsEntities DEF Refuse, Idle
  <2> QED
    BY <1>0, <2>1, <2>2, SameEntities, LowFrame DEF WithEntity, Orders
<1>2. CASE Cancel(r) \/ ReviewDirectly(r)
  <2>1. UNCHANGED <<req, def, steps, outputs>> /\ run'.output = run.output
    BY <1>0, <1>2 DEF Cancel, ReviewDirectly, TypeInv, RowsOK, RunType
  <2>2. EntitiesGrow
    <3>1. CASE ReviewDirectly(r)
      <4>1. \E e \in DOMAIN entities, decision \in {"approved", "rejected"} :
               \E status \in Outcomes(GateOf(def), entities[e].status, decision) :
                  entities' = [entities EXCEPT ![e].status = status]
        BY <3>1 DEF ReviewDirectly
      <4> QED
        BY <1>0, <4>1, OutcomeDecides, DecidedEntityStays
    <3> QED
      BY <1>0, <1>2, <3>1, SameEntities DEF Cancel
  <2>3. OthersKeep(r) /\ Made \subseteq Made'
    BY <2>1, <2>2 DEF OthersKeep, EntitiesGrow, Made
  <2> QED
    BY <1>0, <2>1, <2>2, <2>3, LowFrame DEF Named, LowInv, ArrivalOK, Orders
<1> QED
  BY <1>1, <1>2 DEF Interrupt

LEMMA LowInvStep ==
    ASSUME ~Restarts, OrderInv, LowInv, [Next]_vars
    PROVE  LowInv'
<1>1. CASE Next
  BY <1>1, LowStarting, LowAdvancing, LowArming, LowDeciding, LowOthers DEF Next
<1>2. CASE UNCHANGED vars
  BY <1>2 DEF vars, LowInv, AllNamed, Named, Made, ArrivalOK, NoLow, Undecided, Newest, Orders
<1> QED
  BY <1>1, <1>2

LEMMA InitLow == Init => LowInv
<1> SUFFICES ASSUME Init PROVE LowInv
  OBVIOUS
<1>1. Orders = {} /\ \A r \in Requests : req[r] = Idle
  BY DEF Init, Orders
<1> QED
  BY <1>1 DEF Init, LowInv, AllNamed, Named, ArrivalOK, Idle, WithEntity

LEMMA LowInvAlways == ASSUME SingleDriver, ~Restarts PROVE Spec => [](OrderInv /\ LowInv)
<1>1. (OrderInv /\ LowInv) /\ [Next]_vars => (OrderInv /\ LowInv)'
  BY OrderInvStep, LowInvStep
<1>2. Init => OrderInv /\ LowInv
  BY InitOrder, InitLow
<1> QED
  BY <1>1, <1>2, PTL DEF Spec

\* The arrival rule holds from the moment the report is read to the decision: between the
\* two nobody else can put another report in its place, and a decision through the
\* report's own route only takes it out of the rule.
THEOREM LowScoresStayBlocked ==
    ASSUME SingleDriver, ~Restarts PROVE Spec => []LowScoreBlocksGate
<1>1. LowInv => LowScoreBlocksGate
  BY DEF LowInv, ArrivalOK, NoLow, Undecided, LowScoreBlocksGate
<1> QED
  BY <1>1, LowInvAlways, PTL

(***************************************************************************)
(* Stale decisions.  ClaimGate compares the status of the gate and not its *)
(* revision, so a decision may land on a revision that its reviewer never  *)
(* saw (the run wf_stale_decision).  It takes a rejection by somebody else *)
(* in between: no other request counts a revision.                         *)
(***************************************************************************)
\* Who may reject is the only one to decide; or anybody approves and nobody rejects.
OneDecider ==
    \A q, r \in Requests :
        "reject" \in MayIssue[q] /\ MayIssue[r] \cap {"approve", "reject"} # {} => q = r

Seeing == {"find_entity", "decide", "claim"}
SeenOK(r) ==
    /\ req[r].pc \in Deciders => MayIssue[r] \cap {"approve", "reject"} # {}
    /\ req[r].pc \in Deciders /\ req[r].decision = "rejected" => "reject" \in MayIssue[r]
    /\ req[r].pc = "reset" => req[r].decision = "rejected"
    /\ req[r].pc \in Seeing => req[r].seen = steps[req[r].at].rev
    /\ req[r].pc = "audit" => req[r].seen = req[r].rev
SeenInv == ClaimInv /\ NoStaleDecision /\ \A r \in Requests : SeenOK(r)

RevsKept == \A s \in Orders : s \in Orders' /\ steps'[s].rev = steps[s].rev

\* A step of r that resets no revision and writes no approval row.
LEMMA SeesOn ==
    ASSUME SeenInv, ClaimInv', NEW r \in Requests, OthersKeep(r), approvals' = approvals,
           RevsKept, SeenOK(r)'
    PROVE  SeenInv'
<1>1. ASSUME NEW q \in Requests PROVE SeenOK(q)'
  <2>1. CASE q = r
    BY <2>1
  <2>2. CASE q # r
    <3>1. req'[q] = req[q] /\ SeenOK(q)
      BY <2>2 DEF OthersKeep, SeenInv
    <3>2. req[q].pc \in Seeing => req[q].at \in Orders
      BY WorksOnStep DEF SeenInv, ClaimInv, Seeing, WithoutStep
    <3> QED
      BY <3>1, <3>2 DEF SeenOK, RevsKept
  <2> QED
    BY <2>1, <2>2
<1> QED
  BY <1>1 DEF SeenInv, NoStaleDecision

\* A request that does not decide has seen nothing.
LEMMA SeesNothing ==
    ASSUME NEW r \in Requests, req'[r].pc \notin Deciders
    PROVE  SeenOK(r)'
  BY DEF SeenOK, Deciders, Seeing

LEMMA SameRevs == ASSUME UNCHANGED steps PROVE RevsKept /\ Orders' = Orders
  BY DEF RevsKept, Orders

LEMMA SetStepKeepsRevs ==
    ASSUME TypeInv, NEW r \in Requests, req[r].pc \notin WithoutStep,
           NEW x, SetStep(req[r].at, x)
    PROVE  RevsKept /\ Orders' = Orders
  BY WorksOnStep, SetStepEffect DEF RevsKept

LEMMA LeavesDeciding ==
    ASSUME TypeInv, NEW r \in Requests,
           \/ Leaves(r)
           \/ \E label : label \notin Deciders /\ (Goto(r, label) \/ Stays(r, label))
    PROVE  OthersKeep(r) /\ req'[r].pc \notin Deciders
<1>1. CASE Reply(r) \/ Arm(r)
  BY <1>1, ReplyEffect, ArmEffect DEF Idle, Deciders
<1>2. ASSUME NEW label \in {"arm_report", "arm_gate", "arm_current", "mark"}, NEW s, NEW m,
             ArmTo(r, label, s, m)
      PROVE  OthersKeep(r) /\ req'[r].pc \notin Deciders
  <2>1. OthersKeep(r) /\ req'[r].pc = label
    BY <1>2 DEF ArmTo, TypeInv, OthersKeep, Idle
  <2> QED
    BY <2>1 DEF Deciders
<1>3. ASSUME NEW label, label \notin Deciders, Goto(r, label) \/ Stays(r, label)
      PROVE  OthersKeep(r) /\ req'[r].pc \notin Deciders
  BY <1>3, GotoStays DEF Stays
<1> QED
  BY <1>1, <1>2, <1>3 DEF Leaves

\* A step of r that neither decides nor counts: revisions, step definitions and approval
\* rows stay, and a new step starts with revision 0.
DecidesNothing(r) ==
    /\ OthersKeep(r) /\ req'[r].pc \notin Deciders
    /\ RevsKept /\ approvals' = approvals
    /\ \A s \in Orders : def'[s] = def[s]
    /\ \A s \in Orders' : s \notin Orders => steps'[s].rev = 0

LEMMA StartingDecidesNothing ==
    ASSUME ClaimInv, NEW r \in Requests, Starting(r)
    PROVE  DecidesNothing(r)
<1>0. TypeInv
  BY DEF ClaimInv
<1>1. Orders = {}
  <2>1. CASE Start(r)
    BY <1>0, <2>1 DEF Start, TypeInv, RowsOK, Orders
  <2>2. CASE CreateSteps(r)
    BY <2>2 DEF CreateSteps, At, ClaimInv, CreatedOnce
  <2> QED
    BY <2>1, <2>2 DEF Starting
<1>2. Goto(r, "create_steps") \/ Arm(r)
  BY DEF Starting, Start, CreateSteps
<1>3. OthersKeep(r) /\ req'[r].pc \notin Deciders
  BY <1>0, <1>2, LeavesDeciding DEF Leaves, Deciders
<1>4. approvals' = approvals
  BY DEF Starting, Start, CreateSteps
<1>5. \A s \in Orders' : steps'[s].rev = 0
  BY <1>1 DEF Starting, Start, CreateSteps, Orders
<1> QED
  BY <1>1, <1>3, <1>4, <1>5 DEF RevsKept, DecidesNothing

LEMMA AdvancingDecidesNothing ==
    ASSUME ClaimInv, NEW r \in Requests, Advancing(r)
    PROVE  DecidesNothing(r)
<1>0. TypeInv
  BY DEF ClaimInv
<1>1. OthersKeep(r) /\ req'[r].pc \notin Deciders
  <2>1. CASE Advance(r)
    BY <1>0, <2>1 DEF Advance, TypeInv, OthersKeep, Idle, Deciders
  <2>2. CASE Begin(r) \/ Execute(r)
    BY <1>0, <2>2, BeginEffect, ExecuteEffect, LeavesDeciding DEF Deciders
  <2>3. CASE ReadStep(r) \/ Skip(r) \/ Complete(r) \/ SkipWithNote(r)
    BY <1>0, <2>3, LeavesDeciding DEF ReadStep, Skip, Complete, SkipWithNote, Leaves, Deciders
  <2>4. CASE RecordOutput(r) \/ MergeOutput(r) \/ FailStep(r)
    BY <1>0, <2>4, LeavesDeciding DEF RecordOutput, MergeOutput, FailStep, Leaves, Deciders
  <2> QED
    BY <2>1, <2>2, <2>3, <2>4 DEF Advancing
<1>2. RevsKept /\ Orders' = Orders
  <2>1. ASSUME UNCHANGED steps \/ \E x : SetStep(req[r].at, x), req[r].pc \notin WithoutStep
        PROVE  RevsKept /\ Orders' = Orders
    BY <1>0, <2>1, SameRevs, SetStepKeepsRevs
  <2>2. CASE Advance(r) \/ ReadStep(r) \/ Execute(r) \/ RecordOutput(r) \/ MergeOutput(r)
    BY <2>2, SameRevs DEF Advance, ReadStep, Execute, RecordOutput, MergeOutput, tables
  <2>3. CASE Skip(r) \/ Begin(r) \/ Complete(r) \/ SkipWithNote(r) \/ FailStep(r)
    BY <2>1, <2>3 DEF Skip, Begin, Complete, SkipWithNote, FailStep, At, WithoutStep
  <2> QED
    BY <2>2, <2>3 DEF Advancing
<1>3. approvals' = approvals /\ def' = def
  BY DEF Advancing, Advance, ReadStep, Skip, Begin, Execute, Complete, SkipWithNote,
         RecordOutput, MergeOutput, FailStep, tables
<1> QED
  BY <1>1, <1>2, <1>3 DEF DecidesNothing

LEMMA ArmingDecidesNothing ==
    ASSUME ClaimInv, NEW r \in Requests, Arming(r)
    PROVE  DecidesNothing(r)
<1>0. TypeInv
  BY DEF ClaimInv
<1>1. Leaves(r) \/ Goto(r, "arm_current") \/ Goto(r, "mark")
  BY DEF Arming, ArmNextStep, ReadReport, OpenGate, SetCurrentStep, MarkRun, Leaves
<1>2. OthersKeep(r) /\ req'[r].pc \notin Deciders
  BY <1>0, <1>1, LeavesDeciding DEF Deciders
<1>3. RevsKept /\ Orders' = Orders
  <2>1. CASE OpenGate(r)
    BY <1>0, <2>1, SameRevs, SetStepKeepsRevs DEF OpenGate, At, WithoutStep
  <2>2. CASE ~OpenGate(r)
    BY <2>2, SameRevs DEF Arming, ArmNextStep, ReadReport, SetCurrentStep, MarkRun, tables
  <2> QED
    BY <2>1, <2>2
<1>4. approvals' = approvals /\ def' = def
  BY DEF Arming, ArmNextStep, ReadReport, OpenGate, SetCurrentStep, MarkRun, tables
<1> QED
  BY <1>2, <1>3, <1>4 DEF DecidesNothing

LEMMA EndingDecidesNothing ==
    ASSUME ClaimInv, NEW r \in Requests, Refuse(r) \/ Interrupt(r)
    PROVE  DecidesNothing(r)
<1>1. OthersKeep(r) /\ req'[r].pc \notin Deciders
  BY LeavesDeciding DEF ClaimInv, Refuse, Interrupt, Leaves
<1> QED
  BY <1>1, SameRevs DEF Refuse, Interrupt, tables, DecidesNothing

LEMMA DecidingSees ==
    ASSUME OneDecider, SeenInv, ClaimInv', NEW r \in Requests, Deciding(r)
    PROVE  SeenInv'
<1> DEFINE s == req[r].at
<1>0. TypeInv /\ SeenOK(r) /\ req[r] \in Request
  BY DEF SeenInv, ClaimInv, TypeInv
<1>1. CASE ReceiveDecision(r)
  <2>1. OthersKeep(r) /\ req'[r].pc = "load_gate"
          /\ \/ req'[r].decision = "approved" /\ "approve" \in MayIssue[r]
             \/ req'[r].decision = "rejected" /\ "reject" \in MayIssue[r]
    BY <1>0, <1>1 DEF ReceiveDecision, Receives, TypeInv, OthersKeep, Idle
  <2>2. SeenOK(r)'
    BY <2>1 DEF SeenOK, Seeing
  <2> QED
    BY <1>1, <2>1, <2>2, SameRevs, SeesOn DEF ReceiveDecision, tables
<1>2. CASE LoadGate(r)
  <2>1. OthersKeep(r) /\ req'[r].pc = "find_entity" /\ req'[r].at = s
          /\ req'[r].decision = req[r].decision /\ req'[r].seen = steps[s].rev
    BY <1>0, <1>2 DEF LoadGate, TypeInv, OthersKeep, Request
  <2>2. SeenOK(r)'
    BY <1>0, <1>2, <2>1 DEF SeenOK, LoadGate, At, Deciders, tables
  <2> QED
    BY <1>2, <2>1, <2>2, SameRevs, SeesOn DEF LoadGate, tables
<1>3. CASE FindEntity(r) \/ DecideEntity(r)
  <2>1. OthersKeep(r) /\ req'[r].pc \in {"decide", "claim"} /\ req'[r].at = s
          /\ req'[r].decision = req[r].decision /\ req'[r].seen = req[r].seen
    <3>1. ASSUME NEW e, NEW label \in {"decide", "claim"},
                 \/ req' = [req EXCEPT ![r].pc = label, ![r].ent = e]
                 \/ Goto(r, label)
          PROVE  OthersKeep(r) /\ req'[r].pc \in {"decide", "claim"} /\ req'[r].at = s
                   /\ req'[r].decision = req[r].decision /\ req'[r].seen = req[r].seen
      BY <1>0, <3>1 DEF Goto, TypeInv, OthersKeep, Request
    <3> QED
      BY <1>3, <3>1 DEF FindEntity, DecideEntity
  <2>2. UNCHANGED <<steps, approvals>>
    BY <1>3 DEF FindEntity, DecideEntity, tables
  <2>3. SeenOK(r)'
    BY <1>0, <1>3, <2>1, <2>2 DEF SeenOK, FindEntity, DecideEntity, At, Deciders, Seeing
  <2> QED
    BY <2>1, <2>2, <2>3, SameRevs, SeesOn
<1>4. CASE ClaimGate(r)
  <2>1. OthersKeep(r) /\ req'[r].pc = "audit" /\ req'[r].at = s
          /\ req'[r].decision = req[r].decision /\ req'[r].seen = req[r].seen
          /\ req'[r].rev = steps[s].rev
    BY <1>0, <1>4 DEF ClaimGate, TypeInv, OthersKeep, Request
  <2>2. SeenOK(r)'
    BY <1>0, <1>4, <2>1 DEF SeenOK, ClaimGate, At, Deciders, Seeing
  <2>3. RevsKept
    BY <1>0, <1>4, SetStepKeepsRevs DEF ClaimGate, At, WithoutStep
  <2> QED
    BY <1>4, <2>1, <2>2, <2>3, SeesOn DEF ClaimGate
<1>5. CASE RecordDecision(r)
  <2> DEFINE row == [step |-> s, rev |-> req[r].rev, seen |-> req[r].seen,
                     ent |-> req[r].ent, decision |-> req[r].decision]
  <2>1. /\ row \in ApprovalType /\ row.seen = row.rev
        /\ req[r].decision \in {"approved", "rejected"}
    BY <1>0, <1>5
       DEF RecordDecision, At, ApprovalType, TypeInv, LocalOK, Request, Deciders, SeenOK
  <2>2. /\ DOMAIN approvals' = DOMAIN approvals \cup {Len(approvals) + 1}
        /\ approvals'[Len(approvals) + 1] = row
        /\ \A i \in DOMAIN approvals : approvals'[i] = approvals[i]
    BY <1>0, <1>5, <2>1, AppendRow DEF RecordDecision, TypeInv, RowsOK
  <2>3. NoStaleDecision'
    BY <2>1, <2>2 DEF NoStaleDecision, SeenInv
  <2>4. OthersKeep(r) /\ (req'[r].pc \in Deciders => req'[r].decision = req[r].decision)
          /\ (req'[r].pc = "reset" => req[r].decision = "rejected")
          /\ req'[r].pc \notin Seeing \cup {"audit"}
    <3>1. CASE Goto(r, "approved_output") \/ Goto(r, "reset")
      BY <1>0, <1>5, <2>1, <3>1 DEF RecordDecision, Goto, TypeInv, OthersKeep, Request, Seeing
    <3>2. CASE ArmTo(r, "mark", s, "failed")
      BY <1>0, <3>2, LeavesDeciding DEF Leaves, Deciders, Seeing
    <3> QED
      BY <1>5, <3>1, <3>2 DEF RecordDecision
  <2>5. SeenOK(r)'
    BY <1>0, <1>5, <2>4 DEF SeenOK, RecordDecision, At, Deciders
  <2>6. ASSUME NEW q \in Requests, q # r PROVE SeenOK(q)'
    BY <1>5, <2>4, <2>6 DEF SeenInv, SeenOK, OthersKeep, RecordDecision
  <2> QED
    BY <2>3, <2>5, <2>6 DEF SeenInv
<1>6. CASE RecordApprovedOutput(r) \/ Reopen(r)
  <2>1. OthersKeep(r) /\ req'[r].pc \notin Deciders
    BY <1>0, <1>6, LeavesDeciding DEF RecordApprovedOutput, Reopen, Leaves
  <2> QED
    BY <1>6, <2>1, SameRevs, SeesNothing, SeesOn DEF RecordApprovedOutput, Reopen
<1>7. CASE ResetForRevision(r)
  <2>1. "reject" \in MayIssue[r]
    BY <1>0, <1>7 DEF ResetForRevision, At, SeenOK, Deciders
  <2>2. OthersKeep(r) /\ req'[r].pc = "reopen" /\ req'[r].decision = req[r].decision
    BY <1>0, <1>7 DEF ResetForRevision, Goto, TypeInv, OthersKeep, Request
  <2>3. SeenOK(r)'
    BY <1>0, <1>7, <2>2 DEF SeenOK, ResetForRevision, At, Deciders, Seeing
  <2>4. ASSUME NEW q \in Requests, q # r PROVE SeenOK(q)'
    <3>1. req'[q] = req[q] /\ SeenOK(q)
      BY <2>2, <2>4 DEF OthersKeep, SeenInv
    <3>2. req[q].pc \notin Deciders
      BY <2>1, <2>4, <3>1 DEF OneDecider, SeenOK
    <3> QED
      BY <3>1, <3>2 DEF SeenOK, Deciders, Seeing
  <2> QED
    BY <1>7, <2>3, <2>4 DEF SeenInv, NoStaleDecision, ResetForRevision
<1> QED
  BY <1>1, <1>2, <1>3, <1>4, <1>5, <1>6, <1>7 DEF Deciding

LEMMA SeenInvAlways == ASSUME OneDecider PROVE Spec => []SeenInv
<1>1. Init => SeenInv
  BY InitClaims DEF Init, SeenInv, SeenOK, NoStaleDecision, Idle, Deciders, Seeing
<1>2. ASSUME SeenInv, [Next]_vars PROVE SeenInv'
  <2>1. ClaimInv'
    BY <1>2, ClaimInvStep DEF SeenInv
  <2>2. CASE Next
    <3>1. PICK r \in Requests :
             \/ Starting(r) \/ Advancing(r) \/ Arming(r) \/ Deciding(r)
             \/ Refuse(r) \/ Cancel(r) \/ ReviewDirectly(r) \/ Interrupt(r)
      BY <2>2 DEF Next
    <3>2. CASE Deciding(r)
      BY <1>2, <2>1, <3>2, DecidingSees
    <3>3. CASE Cancel(r) \/ ReviewDirectly(r)
      BY <1>2, <2>1, <3>3 DEF Cancel, ReviewDirectly, SeenInv, SeenOK, NoStaleDecision
    <3>4. CASE Starting(r) \/ Advancing(r) \/ Arming(r) \/ Refuse(r) \/ Interrupt(r)
      <4>1. DecidesNothing(r)
        BY <1>2, <3>4, StartingDecidesNothing, AdvancingDecidesNothing,
           ArmingDecidesNothing, EndingDecidesNothing DEF SeenInv
      <4> QED
        BY <1>2, <2>1, <4>1, SeesNothing, SeesOn DEF DecidesNothing
    <3> QED
      BY <3>1, <3>2, <3>3, <3>4
  <2>3. CASE UNCHANGED vars
    BY <1>2, <2>1, <2>3 DEF vars, SeenInv, SeenOK, NoStaleDecision
  <2> QED
    BY <1>2, <2>2, <2>3
<1> QED
  BY <1>1, <1>2, PTL DEF Spec

\* A reviewer decides what he was shown, with any number of drivers and with requests
\* dying anywhere, as long as nobody else can reject the gate meanwhile: what the run
\* wf_stale_decision refutes takes two people, one of whom rejects.
THEOREM DecisionsAreSeen == ASSUME OneDecider PROVE Spec => []NoStaleDecision
<1>1. SeenInv => NoStaleDecision
  BY DEF SeenInv
<1> QED
  BY <1>1, SeenInvAlways, PTL

(***************************************************************************)
(* The trail of a revision, whoever races and wherever requests die.  The  *)
(* claim gives a revision of the gate to one request; its row comes before *)
(* its reset, and no other request can count that revision.                *)
(***************************************************************************)
Rejection(s, n) ==
    \E i \in DOMAIN approvals : /\ approvals[i].step = s /\ approvals[i].rev = n
                                /\ approvals[i].decision = "rejected"
AuditOK(r) ==
    /\ req[r].pc \in Deciders \ {"load_gate"} => IsGate(req[r].at)
    /\ req[r].pc \in {"audit", "reset"} => req[r].rev = steps[req[r].at].rev
    /\ req[r].pc = "reset" => Rejection(req[r].at, req[r].rev)
OneReset ==
    \A q, r \in Requests :
        req[q].pc = "reset" /\ req[r].pc = "reset" /\ req[q].at = req[r].at => q = r
AuditInv ==
    /\ ClaimInv
    /\ RevisionsAreAudited
    /\ OneReset
    /\ \A r \in Requests : AuditOK(r)

\* Whoever is about to write a row for a revision of the gate has the only claim on it.
LEMMA NoOtherClaim ==
    ASSUME AuditInv, NEW q \in Requests, NEW r \in Requests, q # r, req[r].pc = "audit"
    PROVE  ~(req[q].pc = "reset" /\ req[q].at = req[r].at)
<1> SUFFICES ASSUME req[q].pc = "reset", req[q].at = req[r].at PROVE FALSE
  OBVIOUS
<1>1. /\ req[q].rev = req[r].rev
      /\ Rejection(req[q].at, req[q].rev)
  BY DEF AuditInv, AuditOK
<1> QED
  BY <1>1 DEF AuditInv, ClaimInv, AuditsAhead, Rejection

LEMMA AuditFrame ==
    ASSUME AuditInv, ClaimInv', NEW r \in Requests, OthersKeep(r), approvals' = approvals,
           RevsKept, \A s \in Orders : def'[s] = def[s],
           \A s \in Orders' : s \notin Orders => steps'[s].rev = 0,
           AuditOK(r)', req'[r].pc = "reset" => req[r].pc = "reset" /\ req'[r].at = req[r].at
    PROVE  AuditInv'
<1>1. ASSUME NEW q \in Requests, q # r PROVE AuditOK(q)'
  <2>1. req'[q] = req[q] /\ AuditOK(q)
    BY <1>1 DEF OthersKeep, AuditInv
  <2>2. req[q].pc \in Deciders => req[q].at \in Orders
    BY WorksOnStep DEF AuditInv, ClaimInv, Deciders, WithoutStep
  <2>3. {"audit", "reset"} \subseteq Deciders
    BY DEF Deciders
  <2> QED
    BY <2>1, <2>2, <2>3 DEF AuditOK, RevsKept, IsGate, Rejection
<1>2. RevisionsAreAudited'
  <2> SUFFICES ASSUME NEW s \in Orders', IsGate(s)', NEW n \in 0 .. steps'[s].rev,
                      n < steps'[s].rev
               PROVE  Rejection(s, n)'
    BY DEF RevisionsAreAudited, Rejection
  <2>1. s \in Orders
    OBVIOUS
  <2>2. IsGate(s) /\ steps'[s].rev = steps[s].rev
    BY <2>1 DEF IsGate, RevsKept
  <2> QED
    BY <2>1, <2>2 DEF AuditInv, RevisionsAreAudited, Rejection
<1>3. OneReset'
  BY DEF OneReset, OthersKeep, AuditInv
<1> QED
  BY <1>1, <1>2, <1>3 DEF AuditInv

LEMMA DecidingAudits ==
    ASSUME AuditInv, ClaimInv', NEW r \in Requests, Deciding(r)
    PROVE  AuditInv'
<1> DEFINE s == req[r].at
<1>0. TypeInv /\ AuditOK(r) /\ req[r] \in Request
  BY DEF AuditInv, ClaimInv, TypeInv
<1>1. CASE ReceiveDecision(r)
  <2>1. OthersKeep(r) /\ req'[r].pc = "load_gate"
    BY <1>0, <1>1 DEF ReceiveDecision, TypeInv, OthersKeep, Idle
  <2>2. AuditOK(r)'
    BY <2>1 DEF AuditOK
  <2> QED
    BY <1>1, <2>1, <2>2, SameRevs, AuditFrame DEF ReceiveDecision, tables
<1>2. CASE LoadGate(r)
  <2>1. OthersKeep(r) /\ req'[r].pc = "find_entity" /\ req'[r].at = s
    BY <1>0, <1>2 DEF LoadGate, TypeInv, OthersKeep, Request
  <2>2. AuditOK(r)'
    BY <1>2, <2>1 DEF AuditOK, LoadGate, IsGate, tables
  <2> QED
    BY <1>2, <2>1, <2>2, SameRevs, AuditFrame DEF LoadGate, tables
<1>3. CASE FindEntity(r) \/ DecideEntity(r)
  <2>1. OthersKeep(r) /\ req'[r].pc \in {"decide", "claim"} /\ req'[r].at = s
    <3>1. ASSUME NEW e, NEW label \in {"decide", "claim"},
                 \/ req' = [req EXCEPT ![r].pc = label, ![r].ent = e]
                 \/ Goto(r, label)
          PROVE  OthersKeep(r) /\ req'[r].pc \in {"decide", "claim"} /\ req'[r].at = s
      BY <1>0, <3>1 DEF Goto, TypeInv, OthersKeep, Request
    <3> QED
      BY <1>3, <3>1 DEF FindEntity, DecideEntity
  <2>2. UNCHANGED <<steps, approvals, def>> /\ req[r].pc \in Deciders \ {"load_gate"}
    BY <1>3 DEF FindEntity, DecideEntity, tables, At, Deciders
  <2>3. AuditOK(r)'
    BY <1>0, <2>1, <2>2 DEF AuditOK, IsGate
  <2> QED
    BY <2>1, <2>2, <2>3, SameRevs, AuditFrame
<1>4. CASE ClaimGate(r)
  <2>1. OthersKeep(r) /\ req'[r].pc = "audit" /\ req'[r].at = s /\ req'[r].rev = steps[s].rev
    BY <1>0, <1>4 DEF ClaimGate, TypeInv, OthersKeep, Request
  <2>2. RevsKept /\ Orders' = Orders /\ s \in Orders
    BY <1>0, <1>4, SetStepKeepsRevs, WorksOnStep DEF ClaimGate, At, WithoutStep
  <2>3. AuditOK(r)'
    BY <1>0, <1>4, <2>1, <2>2 DEF AuditOK, ClaimGate, At, Deciders, IsGate, RevsKept
  <2> QED
    BY <1>4, <2>1, <2>2, <2>3, AuditFrame DEF ClaimGate
<1>5. CASE RecordDecision(r)
  <2> DEFINE row == [step |-> s, rev |-> req[r].rev, seen |-> req[r].seen,
                     ent |-> req[r].ent, decision |-> req[r].decision]
             new == Len(approvals) + 1
  <2>0. req[r].pc = "audit" /\ UNCHANGED <<def, steps>>
    BY <1>5 DEF RecordDecision, At
  <2>1. row \in ApprovalType /\ req[r].decision \in {"approved", "rejected"}
    BY <1>0, <2>0 DEF ApprovalType, TypeInv, LocalOK, Request, Deciders
  <2>2. /\ DOMAIN approvals' = DOMAIN approvals \cup {new}
        /\ approvals'[new] = row
        /\ \A i \in DOMAIN approvals : approvals'[i] = approvals[i]
    BY <1>0, <1>5, <2>1, AppendRow DEF RecordDecision, TypeInv, RowsOK
  <2>3. \A t, n : Rejection(t, n) => Rejection(t, n)'
    BY <2>2 DEF Rejection
  <2>4. /\ OthersKeep(r)
        /\ req'[r].pc \in Deciders => req'[r].at = s /\ req'[r].rev = req[r].rev
        /\ req'[r].pc # "audit"
        /\ req'[r].pc = "reset" => req[r].decision = "rejected"
    <3>1. CASE Goto(r, "approved_output")
      BY <1>0, <3>1, GotoStays DEF Stays
    <3>2. CASE Goto(r, "reset") /\ req[r].decision # "approved"
      BY <1>0, <2>1, <3>2, GotoStays DEF Stays
    <3>3. CASE ArmTo(r, "mark", s, "failed")
      BY <1>0, <3>3, LeavesDeciding DEF Leaves, Deciders
    <3> QED
      BY <1>5, <3>1, <3>2, <3>3 DEF RecordDecision
  <2>5. ASSUME req'[r].pc = "reset" PROVE Rejection(req[r].at, req[r].rev)'
    <3>1. req'[r].at = s /\ req'[r].rev = req[r].rev /\ req[r].decision = "rejected"
      BY <2>4, <2>5 DEF Deciders
    <3>2. /\ new \in DOMAIN approvals'
          /\ approvals'[new].step = req'[r].at /\ approvals'[new].rev = req'[r].rev
          /\ approvals'[new].decision = "rejected"
      BY <2>2, <3>1
    <3> HIDE DEF new
    <3> QED
      BY <3>2 DEF Rejection
  <2>6. AuditOK(r)'
    <3>1. def'[s].kind = "gate" /\ req[r].rev = steps'[s].rev
      BY <1>0, <2>0 DEF AuditOK, Deciders, IsGate
    <3>2. "reset" \in Deciders
      BY DEF Deciders
    <3> QED
      BY <2>4, <2>5, <3>1, <3>2 DEF AuditOK, IsGate
  <2>7. ASSUME NEW q \in Requests, q # r PROVE AuditOK(q)'
    <3>1. req'[q] = req[q] /\ AuditOK(q)
      BY <2>4, <2>7 DEF OthersKeep, AuditInv
    <3> QED
      BY <2>0, <2>3, <3>1 DEF AuditOK, IsGate
  <2>8. RevisionsAreAudited'
    <3> SUFFICES ASSUME NEW t \in Orders, IsGate(t), NEW n \in 0 .. steps[t].rev,
                        n < steps[t].rev
                 PROVE  Rejection(t, n)'
      BY <2>0 DEF RevisionsAreAudited, Rejection, Orders, IsGate
    <3>1. Rejection(t, n)
      BY DEF AuditInv, RevisionsAreAudited, Rejection
    <3> QED
      BY <2>3, <3>1
  <2>9. OneReset'
    <3> SUFFICES ASSUME NEW q \in Requests, NEW p \in Requests, req'[q].pc = "reset",
                        req'[p].pc = "reset", req'[q].at = req'[p].at, q # p
                 PROVE  FALSE
      BY DEF OneReset
    <3>1. ASSUME NEW o \in Requests, o # r, req'[o].pc = "reset", req'[o].at = s PROVE FALSE
      BY <2>0, <2>4, <3>1, NoOtherClaim DEF OthersKeep
    <3>2. "reset" \in Deciders
      BY DEF Deciders
    <3>3. CASE q = r
      BY <2>4, <3>1, <3>2, <3>3
    <3>4. CASE p = r
      BY <2>4, <3>1, <3>2, <3>4
    <3>5. CASE q # r /\ p # r
      BY <2>4, <3>5 DEF OthersKeep, AuditInv, OneReset
    <3> QED
      BY <3>3, <3>4, <3>5
  <2> QED
    BY <2>6, <2>7, <2>8, <2>9 DEF AuditInv
<1>6. CASE RecordApprovedOutput(r)
  <2>1. OthersKeep(r) /\ req'[r].pc \notin Deciders
    BY <1>0, <1>6, LeavesDeciding DEF RecordApprovedOutput, Leaves
  <2>2. AuditOK(r)' /\ req'[r].pc # "reset"
    BY <2>1 DEF AuditOK, Deciders
  <2> QED
    BY <1>6, <2>1, <2>2, SameRevs, AuditFrame DEF RecordApprovedOutput
<1>7. CASE Reopen(r)
  <2>1. OthersKeep(r) /\ req'[r].pc \notin Deciders
    BY <1>0, <1>7, LeavesDeciding DEF Reopen, Leaves
  <2>2. AuditOK(r)' /\ req'[r].pc # "reset"
    BY <2>1 DEF AuditOK, Deciders
  <2> QED
    BY <1>7, <2>1, <2>2, SameRevs, AuditFrame DEF Reopen
<1>8. CASE ResetForRevision(r)
  <2>0. req[r].pc = "reset" /\ UNCHANGED <<def, approvals>>
    BY <1>8 DEF ResetForRevision, At
  <2>1. s \in Orders /\ IsGate(s) /\ req[r].rev = steps[s].rev /\ Rejection(s, steps[s].rev)
    BY <1>0, <2>0, WorksOnStep DEF WithoutStep, AuditOK, Deciders
  <2>2. OthersKeep(r) /\ req'[r].pc = "reopen" /\ req'[r].at = s
    BY <1>0, <1>8, GotoStays DEF ResetForRevision, Stays
  <2>3. Orders' = Orders
    BY <1>8 DEF ResetForRevision, Orders
  <2>4. ASSUME NEW q \in Requests, q # r PROVE req[q].pc \notin {"audit", "reset"}
    <3> SUFFICES ASSUME req[q].pc \in {"audit", "reset"} PROVE FALSE
      OBVIOUS
    <3>1. req[q].at \in Orders /\ IsGate(req[q].at)
      BY <1>0, WorksOnStep DEF WithoutStep, AuditInv, AuditOK, Deciders
    <3>2. req[q].at = s
      BY <1>0, <2>1, <3>1, OneGate
    <3> QED
      BY <2>0, <2>4, <3>2, NoOtherClaim DEF AuditInv, OneReset
  <2>5. ASSUME NEW q \in Requests PROVE AuditOK(q)'
    <3>1. CASE q = r
      BY <2>0, <2>1, <2>2, <3>1 DEF AuditOK, IsGate
    <3>2. CASE q # r
      <4>1. req'[q] = req[q] /\ AuditOK(q) /\ req[q].pc \notin {"audit", "reset"}
        BY <2>2, <2>4, <3>2 DEF OthersKeep, AuditInv
      <4> QED
        BY <2>0, <4>1 DEF AuditOK, IsGate
    <3> QED
      BY <3>1, <3>2
  <2>6. OneReset'
    BY <2>2, <2>4 DEF OneReset, OthersKeep
  <2>7. RevisionsAreAudited'
    <3> SUFFICES ASSUME NEW t \in Orders, IsGate(t), NEW n \in 0 .. steps'[t].rev,
                        n < steps'[t].rev
                 PROVE  Rejection(t, n)
      BY <2>0, <2>3 DEF RevisionsAreAudited, Rejection, IsGate
    <3>1. t = s
      BY <1>0, <2>1, OneGate
    <3>2. steps[s].rev \in Nat /\ steps'[s].rev \in {steps[s].rev, steps[s].rev + 1}
      <4>1. steps[s].rev \in Nat
        BY <1>0, <2>1, StepRows
      <4>2. steps'[s] = steps[s] \/ steps'[s].rev = steps[s].rev + 1
        BY <1>8, <2>1 DEF ResetForRevision
      <4> QED
        BY <4>1, <4>2
    <3>3. CASE n = steps[s].rev
      BY <2>1, <3>1, <3>3
    <3>4. CASE n < steps[s].rev
      <4>1. n \in 0 .. steps[s].rev
        BY <3>2, <3>4
      <4> QED
        BY <2>1, <3>1, <3>4, <4>1 DEF AuditInv, RevisionsAreAudited, Rejection
    <3>5. n = steps[s].rev \/ n < steps[s].rev
      BY <3>1, <3>2
    <3> QED
      BY <3>3, <3>4, <3>5
  <2> QED
    BY <2>5, <2>6, <2>7 DEF AuditInv
<1> QED
  BY <1>1, <1>2, <1>3, <1>4, <1>5, <1>6, <1>7, <1>8 DEF Deciding

LEMMA AuditInvAlways == Spec => []AuditInv
<1>1. Init => AuditInv
  BY InitClaims DEF Init, AuditInv, AuditOK, OneReset, RevisionsAreAudited, Idle, Deciders, Orders
<1>2. ASSUME AuditInv, [Next]_vars PROVE AuditInv'
  <2>1. ClaimInv'
    BY <1>2, ClaimInvStep DEF AuditInv
  <2>2. CASE Next
    <3>1. PICK r \in Requests :
             \/ Starting(r) \/ Advancing(r) \/ Arming(r) \/ Deciding(r)
             \/ Refuse(r) \/ Cancel(r) \/ ReviewDirectly(r) \/ Interrupt(r)
      BY <2>2 DEF Next
    <3>2. CASE Deciding(r)
      BY <1>2, <2>1, <3>2, DecidingAudits
    <3>3. CASE Cancel(r) \/ ReviewDirectly(r)
      BY <1>2, <2>1, <3>3 DEF Cancel, ReviewDirectly, AuditInv, AuditOK, OneReset,
                              RevisionsAreAudited, Rejection, IsGate, Orders
    <3>4. CASE Starting(r) \/ Advancing(r) \/ Arming(r) \/ Refuse(r) \/ Interrupt(r)
      <4>1. DecidesNothing(r)
        BY <1>2, <3>4, StartingDecidesNothing, AdvancingDecidesNothing,
           ArmingDecidesNothing, EndingDecidesNothing DEF AuditInv
      <4>2. AuditOK(r)' /\ req'[r].pc # "reset"
        BY <4>1 DEF DecidesNothing, AuditOK, Deciders
      <4> QED
        BY <1>2, <2>1, <4>1, <4>2, AuditFrame DEF DecidesNothing
    <3> QED
      BY <3>1, <3>2, <3>3, <3>4
  <2>3. CASE UNCHANGED vars
    BY <1>2, <2>1, <2>3 DEF vars, AuditInv, AuditOK, OneReset, RevisionsAreAudited, Rejection,
                            IsGate, Orders
  <2> QED
    BY <1>2, <2>2, <2>3
<1> QED
  BY <1>1, <1>2, PTL DEF Spec

\* Every revision a gate was sent back from has its rejection in the trail, at any moment,
\* for every catalog, whoever races and wherever requests die: claim, row and reset are
\* three statements, and a request that dies between them leaves no reset without its row.
THEOREM RevisionsHaveATrail == Spec => []RevisionsAreAudited
<1>1. AuditInv => RevisionsAreAudited
  BY DEF AuditInv
<1> QED
  BY <1>1, AuditInvAlways, PTL
=============================================================================
