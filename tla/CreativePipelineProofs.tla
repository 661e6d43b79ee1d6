------------------------ MODULE CreativePipelineProofs ------------------------
(***************************************************************************)
(* Proofs about CreativePipeline, for any number of requests in flight,    *)
(* any consistent database to start from, any number of references, ideas  *)
(* and alternatives.  Inv is inductive: it says which keys and statuses of *)
(* the tables fit together, and what each handler may rely on between the  *)
(* statement that read a row and the one that writes.  The second holds    *)
(* because the tables only grow in the sense of Grows.                     *)
(***************************************************************************)
EXTENDS CreativePipeline, FiniteSetTheorems, TLAPS

-----------------------------------------------------------------------------
(***************************************************************************)
(* The inductive invariant                                                 *)
(***************************************************************************)
Decided == {"approved", "rejected"}
TableOf(kind) ==
    CASE kind = "design_dna" -> DOMAIN dna
      [] kind = "layout_plan" -> DOMAIN plans
      [] kind = "creative_qa_report" -> DOMAIN reports
IsApproval(k, i, status) ==
    k \in DOMAIN approvals /\ approvals[k] = [idea |-> i, status |-> status]
UsedDna(d) == d \in DOMAIN dna /\ dna[d].approvedBy
\* What an entry, or a handler about to write one, says of a row.
Agreed(kind, i, status) ==
    /\ i \in TableOf(kind)
    /\ kind # "design_dna" /\ status \in Decided => StatusOf(kind, i) = status

DnaOK == \A d \in DOMAIN dna : /\ dna[d].version = d
                               /\ dna[d].status = "approved" => dna[d].approvedBy
IdeasOK == \A i \in DOMAIN ideas :
              ideas[i].status = "approved" => IsApproval(ideas[i].approval, i, "approved")
BriefsOK == \A k \in DOMAIN briefs :
               IsApproval(briefs[k].approval, briefs[k].idea, "approved")
PlansOK == \A p \in DOMAIN plans : /\ plans[p].brief \in DOMAIN briefs
                                   /\ plans[p].dna = 0 \/ UsedDna(plans[p].dna)
ReportsOK == \A q \in DOMAIN reports : /\ reports[q].plan \in DOMAIN plans
                                       /\ plans[reports[q].plan].status = "approved"
                                       /\ UsedDna(reports[q].dna)
KeysOK == DnaOK /\ IdeasOK /\ BriefsOK /\ PlansOK /\ ReportsOK
EntriesOK == \A e \in DOMAIN entries :
                Agreed(entries[e].kind, entries[e].row, entries[e].after)

AnalysisOK(r) ==
    /\ At(r, "analyse") => req[r].left \in 0 .. References
    /\ At(r, "insert_version") => req[r].ref \in 1 .. Len(dna) + 1
IdeaOK(r) ==
    /\ At(r, "outcome") => /\ req[r].row \in DOMAIN ideas /\ req[r].new \in Outcomes
                           /\ IsApproval(req[r].ref, req[r].row, req[r].new)
    /\ At(r, "create_brief") => IsApproval(req[r].ref, req[r].row, "approved")
    /\ At(r, "write_brief") => req[r].row \in DOMAIN briefs /\ req[r].new \in BriefStatuses
LayoutOK(r) ==
    /\ req[r].pc \in {"layout_dna", "layout_ai", "create_plan"} => req[r].row \in DOMAIN briefs
    /\ req[r].pc \in {"layout_ai", "create_plan"} => req[r].dna = 0 \/ UsedDna(req[r].dna)
QaOK(r) ==
    /\ req[r].pc \in {"qa_brief", "qa_dna", "qa_ai"} =>
          req[r].row \in DOMAIN plans /\ plans[req[r].row].status = "approved"
    /\ At(r, "qa_ai") => UsedDna(req[r].dna)
ReviewOK(r) ==
    /\ req[r].pc \in {"approve", "reject", "record"} =>
          req[r].kind \in Kinds /\ req[r].row \in TableOf(req[r].kind) /\ req[r].saw \in Statuses
    /\ At(r, "record") =>
          req[r].new \in Statuses /\ Agreed(req[r].kind, req[r].row, req[r].new)
LocalOK(r) == AnalysisOK(r) /\ IdeaOK(r) /\ LayoutOK(r) /\ QaOK(r) /\ ReviewOK(r)

Inv == TypeOK /\ KeysOK /\ EntriesOK /\ \A r \in Requests : LocalOK(r)

\* The tables after a statement: no row is lost, an approval is never changed, a
\* version a person approved remembers it, and a decided plan or report stays so.
Grows ==
    /\ DOMAIN ideas \subseteq DOMAIN ideas' /\ DOMAIN dna \subseteq DOMAIN dna'
    /\ DOMAIN briefs \subseteq DOMAIN briefs' /\ DOMAIN plans \subseteq DOMAIN plans'
    /\ DOMAIN reports \subseteq DOMAIN reports' /\ Len(dna) <= Len(dna')
    /\ \A k \in DOMAIN approvals : k \in DOMAIN approvals' /\ approvals'[k] = approvals[k]
    /\ \A d \in DOMAIN dna : dna[d].approvedBy => dna'[d].approvedBy
    /\ \A p \in DOMAIN plans :
          plans[p].status \in Decided => plans'[p].status = plans[p].status
    /\ \A q \in DOMAIN reports :
          reports[q].status \in Decided => reports'[q].status = reports[q].status

TablesTyped ==
    /\ analyses \in [1 .. References -> Nat]
    /\ ideas \in Seq(Idea) /\ approvals \in Seq(Approval)
    /\ dna \in Seq(Dna) /\ briefs \in Seq(Brief)
    /\ plans \in Seq(Plan) /\ reports \in Seq(Report)
    /\ entries \in Seq(Entry)

-----------------------------------------------------------------------------
(***************************************************************************)
(* What a step has to show                                                 *)
(***************************************************************************)
\* What another handler relies on survives the step: its own variables are its own,
\* and the tables grew.
LEMMA OthersKeep ==
    ASSUME Inv, Grows, NEW o \in Requests, req'[o] = req[o]
    PROVE  LocalOK(o)'
<1> USE DEF At
<1>1. LocalOK(o)
  BY DEF Inv
<1>2. \A k, i, status : IsApproval(k, i, status) => IsApproval(k, i, status)'
  BY DEF Grows, IsApproval
<1>3. \A d : UsedDna(d) => UsedDna(d)'
  BY DEF Grows, UsedDna
<1>4. AnalysisOK(o)'
  <2>1. Len(dna) \in Nat /\ Len(dna') \in Nat
    BY DEF Inv, TypeOK
  <2> QED
    BY <1>1 DEF LocalOK, AnalysisOK, Grows
<1>5. IdeaOK(o)'
  BY <1>1, <1>2 DEF LocalOK, IdeaOK, Grows
<1>6. LayoutOK(o)'
  BY <1>1, <1>3 DEF LocalOK, LayoutOK, Grows
<1>7. QaOK(o)'
  BY <1>1, <1>3 DEF LocalOK, QaOK, Grows, Decided
<1>8. ReviewOK(o)'
  BY <1>1 DEF LocalOK, ReviewOK, Grows, Agreed, TableOf, StatusOf, Kinds
<1> QED
  BY <1>4, <1>5, <1>6, <1>7, <1>8 DEF LocalOK

\* An entry goes on telling the truth.
LEMMA EntriesKeep ==
    ASSUME Inv, Grows, UNCHANGED entries
    PROVE  EntriesOK'
<1> SUFFICES ASSUME NEW e \in DOMAIN entries
             PROVE  Agreed(entries[e].kind, entries[e].row, entries[e].after)'
  BY DEF EntriesOK
<1>1. Agreed(entries[e].kind, entries[e].row, entries[e].after)
  BY DEF Inv, EntriesOK
<1>2. entries[e].kind \in Kinds
  <2>1. entries[e] \in Entry
    BY DEF Inv, TypeOK
  <2> QED
    BY <2>1 DEF Entry
<1>3. entries'[e] = entries[e]
  OBVIOUS
<1> QED
  BY <1>1, <1>2, <1>3 DEF Grows, Agreed, TableOf, StatusOf, Kinds

\* A step of handler r.
LEMMA OwnStep ==
    ASSUME Inv, NEW r \in Requests, NEW q \in Local,
           req' = [req EXCEPT ![r] = q],
           requests' \in Nat, failures' \in Nat,
           TablesTyped', KeysOK', EntriesOK', Grows, LocalOK(r)'
    PROVE  Inv'
<1>1. req' \in [Requests -> Local]
  BY DEF Inv, TypeOK
<1>2. TypeOK'
  BY <1>1 DEF TypeOK, TablesTyped
<1>3. ASSUME NEW o \in Requests PROVE LocalOK(o)'
  <2>1. CASE o = r
    BY <2>1
  <2>2. CASE o # r
    <3>1. req'[o] = req[o]
      BY <2>2 DEF Inv, TypeOK
    <3> QED
      BY <3>1, OthersKeep
  <2> QED
    BY <2>1, <2>2
<1> QED
  BY <1>2, <1>3 DEF Inv

LEMMA SameTables ==
    ASSUME Inv, UNCHANGED work
    PROVE  Grows
<1>1. Len(dna) \in Nat
  BY DEF Inv, TypeOK
<1> QED
  BY <1>1 DEF Grows, work

\* A step that leaves the tables alone only has to leave handler r in order.
LEMMA ReadStep ==
    ASSUME Inv, NEW r \in Requests, NEW q \in Local,
           req' = [req EXCEPT ![r] = q],
           requests' \in Nat, failures' \in Nat,
           UNCHANGED <<work, entries>>, LocalOK(r)'
    PROVE  Inv'
<1> USE DEF work
<1>1. Grows
  BY SameTables
<1>2. TablesTyped'
  BY DEF Inv, TypeOK, TablesTyped
<1>3. KeysOK'
  BY DEF Inv, KeysOK, DnaOK, IdeasOK, BriefsOK, PlansOK, ReportsOK, IsApproval, UsedDna
<1>4. EntriesOK'
  BY <1>1, EntriesKeep
<1> QED
  BY <1>1, <1>2, <1>3, <1>4, OwnStep

\* An idle handler relies on nothing.
LEMMA IdleIsLocal == Idle \in Local
  BY DEF Idle, Local, PCs

LEMMA IdleRelies ==
    ASSUME Inv, NEW r \in Requests, req' = [req EXCEPT ![r] = Idle]
    PROVE  LocalOK(r)'
<1>1. req'[r].pc = "idle"
  BY DEF Inv, TypeOK, Idle
<1> QED
  BY <1>1 DEF LocalOK, AnalysisOK, IdeaOK, LayoutOK, QaOK, ReviewOK, At

LEMMA RefusedStep ==
    ASSUME Inv, NEW r \in Requests, Refused(r)
    PROVE  Inv'
<1> USE DEF Refused, Reply, Goto
<1>1. requests' \in Nat /\ failures' \in Nat
  BY DEF Inv, TypeOK
<1> QED
  BY <1>1, IdleIsLocal, IdleRelies, ReadStep

-----------------------------------------------------------------------------
(***************************************************************************)
(* Handlers that read, ask a model, or answer                              *)
(***************************************************************************)
\* What a handler's variables may hold.
LEMMA LocalFields ==
    ASSUME Inv, NEW r \in Requests
    PROVE  /\ req[r] \in Local /\ req[r].pc \in PCs /\ req[r].kind \in Kinds \cup {"none"}
           /\ req[r].row \in Nat /\ req[r].dna \in Nat /\ req[r].ref \in Nat
           /\ req[r].left \in Nat
<1>1. req[r] \in Local
  BY DEF Inv, TypeOK
<1> QED
  BY <1>1 DEF Local

\* What a handler's variables become.
LEMMA LocalUpdates ==
    ASSUME NEW q \in Local, NEW pc \in PCs, NEW n \in Nat
    PROVE  /\ [q EXCEPT !.pc = pc] \in Local
           /\ [q EXCEPT !.pc = pc, !.ref = n] \in Local
           /\ [q EXCEPT !.pc = pc, !.dna = n] \in Local
           /\ [q EXCEPT !.pc = pc, !.left = n] \in Local
           /\ \A new \in Statuses : [q EXCEPT !.pc = pc, !.new = new] \in Local
           /\ [q EXCEPT !.left = n] \in Local
  BY DEF Local

\* The latest version is the last row, and NextVersion the number after it.
LEMMA LatestVersion ==
    ASSUME Inv
    PROVE  /\ Latest = Len(dna)
           /\ NextVersion = Len(dna) + 1
           /\ ApprovedLatest \in Nat
           /\ ApprovedLatest # 0 => UsedDna(ApprovedLatest)
<1>1. Len(dna) \in Nat /\ DOMAIN dna = 1 .. Len(dna)
  BY DEF Inv, TypeOK
<1>2. \A d \in DOMAIN dna : dna[d].version = d
  BY DEF Inv, KeysOK, DnaOK
<1>3. Latest = Len(dna)
  <2>1. CASE dna = << >>
    BY <2>1 DEF Latest
  <2>2. CASE dna # << >>
    <3>1. Len(dna) \in DOMAIN dna
      BY <1>1, <2>2 DEF Inv, TypeOK
    <3>2. \A d \in DOMAIN dna :
             (\A e \in DOMAIN dna : dna[e].version <= dna[d].version) <=> d = Len(dna)
      BY <1>1, <1>2, <3>1
    <3> QED
      BY <2>2, <3>1, <3>2 DEF Latest
  <2> QED
    BY <2>1, <2>2
<1>4. NextVersion = Len(dna) + 1
  <2>1. Versions = 1 .. Len(dna)
    BY <1>1, <1>2 DEF Versions
  <2>2. \A v \in 1 .. Len(dna) + 1 :
           (v \notin Versions /\ \A w \in Versions : w < v) <=> v = Len(dna) + 1
    BY <1>1, <2>1
  <2> QED
    BY <1>1, <2>2 DEF NextVersion
<1>5. ApprovedLatest \in Nat /\ (ApprovedLatest # 0 => UsedDna(ApprovedLatest))
  <2>1. Latest # 0 => Latest \in DOMAIN dna
    BY <1>1, <1>3
  <2> QED
    <3>1. \A d \in DOMAIN dna : dna[d].status = "approved" => UsedDna(d)
      BY DEF UsedDna, Inv, KeysOK, DnaOK
    <3>2. Latest \in Nat
      BY <1>1, <1>3
    <3>3. CASE ApprovedLatest = 0
      BY <3>3
    <3>4. CASE ApprovedLatest # 0
      <4>1. ApprovedLatest = Latest /\ Latest # 0 /\ dna[Latest].status = "approved"
        BY <3>4 DEF ApprovedLatest
      <4> QED
        BY <2>1, <3>1, <3>2, <4>1
    <3> QED
      BY <3>3, <3>4
<1> QED
  BY <1>3, <1>4, <1>5


\* A request arrives, or a handler goes on, and no table changes.
LEMMA AdmitReads ==
    ASSUME Inv, NEW r \in Requests, NEW q \in Local, Admit(r, q),
           UNCHANGED <<work, entries>>, LocalOK(r)'
    PROVE  Inv'
<1>1. requests' \in Nat /\ failures' \in Nat
  BY DEF Inv, TypeOK, Admit
<1> QED
  BY <1>1, ReadStep DEF Admit

LEMMA GotoReads ==
    ASSUME Inv, NEW r \in Requests, NEW q \in Local, Goto(r, q),
           UNCHANGED <<work, entries>>, LocalOK(r)'
    PROVE  Inv'
<1>1. requests' \in Nat /\ failures' \in Nat
  BY DEF Inv, TypeOK, Goto
<1> QED
  BY <1>1, ReadStep DEF Goto

LEMMA SlotOf ==
    ASSUME Inv, NEW r \in Requests, NEW q, req' = [req EXCEPT ![r] = q]
    PROVE  req'[r] = q
  BY DEF Inv, TypeOK

LEMMA StartAnalysisStep ==
    ASSUME Inv, NEW r \in Requests, StartAnalysis(r)
    PROVE  Inv'
<1> DEFINE q == [Idle EXCEPT !.pc = "analyse", !.left = References]
<1>1. q \in Local
  BY PipelineAssumption DEF Idle, Local, PCs
<1>2. Admit(r, q) /\ UNCHANGED <<work, entries>>
  BY DEF StartAnalysis
<1>3. req'[r].pc = "analyse" /\ req'[r].left = References
  <2>1. req'[r] = q
    BY <1>2, SlotOf DEF Admit
  <2> QED
    BY <2>1 DEF Idle
<1>4. LocalOK(r)'
  BY <1>3, PipelineAssumption
     DEF LocalOK, AnalysisOK, IdeaOK, LayoutOK, QaOK, ReviewOK, At
<1> QED
  BY <1>1, <1>2, <1>4, AdmitReads

LEMMA SynthesiseStep ==
    ASSUME Inv, NEW r \in Requests, SynthesiseDna(r)
    PROVE  Inv'
<1> DEFINE q == [req[r] EXCEPT !.pc = "insert_version", !.ref = NextVersion]
<1>1. CASE Refused(r)
  BY <1>1, RefusedStep
<1>2. CASE ~Refused(r)
  <2>1. Len(dna) \in Nat /\ NextVersion = Len(dna) + 1
    BY LatestVersion DEF Inv, TypeOK
  <2>2. req[r] \in Local /\ NextVersion \in Nat /\ "insert_version" \in PCs
    BY <2>1, LocalFields DEF PCs
  <2>3. q \in Local
    BY <2>2, LocalUpdates
  <2>4. Goto(r, q) /\ UNCHANGED <<work, entries>>
    BY <1>2 DEF SynthesiseDna
  <2>5. req'[r].pc = "insert_version" /\ req'[r].ref = Len(dna) + 1
    <3>1. req'[r] = q
      BY <2>4, SlotOf DEF Goto
    <3> QED
      BY <2>1, <2>2, <3>1 DEF Local
  <2>6. LocalOK(r)'
    BY <2>1, <2>4, <2>5
       DEF LocalOK, AnalysisOK, IdeaOK, LayoutOK, QaOK, ReviewOK, At, work
  <2> QED
    BY <2>3, <2>4, <2>6, GotoReads
<1> QED
  BY <1>1, <1>2

\* The gates of briefs, layouts and QA: what a handler read is what it relies on.
LEMMA GateReads ==
    ASSUME Inv, NEW r \in Requests,
           StartIdeation(r) \/ ReadIdea(r) \/ ReadBrief(r) \/ StartLayout(r) \/ StartQa(r)
    PROVE  Inv'
<1> USE DEF At
<1>1. CASE StartIdeation(r)
  <2>1. PICK n \in 1 .. MaxIdeas :
           Admit(r, [Idle EXCEPT !.pc = "create_idea", !.left = n])
    BY <1>1 DEF StartIdeation
  <2> DEFINE q == [Idle EXCEPT !.pc = "create_idea", !.left = n]
  <2>2. q \in Local
    <3>1. n \in Nat
      BY PipelineAssumption
    <3> QED
      BY <3>1 DEF Idle, Local, PCs
  <2>3. req'[r].pc = "create_idea"
    <3>1. req'[r] = q
      BY <2>1, SlotOf DEF Admit
    <3> QED
      BY <3>1 DEF Idle
  <2>4. LocalOK(r)'
    BY <2>3 DEF LocalOK, AnalysisOK, IdeaOK, LayoutOK, QaOK, ReviewOK
  <2> QED
    BY <1>1, <2>1, <2>2, <2>4, AdmitReads DEF StartIdeation
<1>2. CASE ReadIdea(r)
  <2>1. PICK i \in DOMAIN ideas :
           /\ ideas[i].status = "approved"
           /\ Admit(r, [Idle EXCEPT !.pc = "create_brief", !.row = i, !.ref = ideas[i].approval])
    BY <1>2 DEF ReadIdea
  <2> DEFINE q == [Idle EXCEPT !.pc = "create_brief", !.row = i, !.ref = ideas[i].approval]
  <2>2. i \in Nat /\ ideas[i] \in Idea
    BY DEF Inv, TypeOK
  <2>3. ideas[i].approval \in Nat
    BY <2>2 DEF Idea
  <2>4. q \in Local
    BY <2>2, <2>3 DEF Idle, Local, PCs
  <2>5. req'[r].pc = "create_brief" /\ req'[r].row = i /\ req'[r].ref = ideas[i].approval
    <3>1. req'[r] = q
      BY <2>1, SlotOf DEF Admit
    <3> QED
      BY <3>1 DEF Idle
  <2>6. IsApproval(ideas[i].approval, i, "approved")
    BY <2>1 DEF Inv, KeysOK, IdeasOK
  <2>7. UNCHANGED <<work, entries>>
    BY <1>2 DEF ReadIdea
  <2>8. LocalOK(r)'
    BY <2>5, <2>6, <2>7
       DEF LocalOK, AnalysisOK, IdeaOK, LayoutOK, QaOK, ReviewOK, IsApproval, work
  <2> QED
    BY <2>1, <2>4, <2>7, <2>8, AdmitReads
<1>3. CASE ReadBrief(r)
  <2>1. PICK k \in DOMAIN briefs, new \in {"approved", "needs_revision", "rejected"} :
           Admit(r, [Idle EXCEPT !.pc = "write_brief", !.row = k, !.new = new,
                                 !.saw = briefs[k].status])
    BY <1>3 DEF ReadBrief
  <2> DEFINE q == [Idle EXCEPT !.pc = "write_brief", !.row = k, !.new = new,
                               !.saw = briefs[k].status]
  <2>2. k \in Nat /\ briefs[k] \in Brief
    BY DEF Inv, TypeOK
  <2>3. briefs[k].status \in Statuses /\ new \in Statuses /\ new \in BriefStatuses
    BY <2>2 DEF Brief, Statuses, BriefStatuses
  <2>4. q \in Local
    BY <2>2, <2>3 DEF Idle, Local, PCs
  <2>5. req'[r].pc = "write_brief" /\ req'[r].row = k /\ req'[r].new = new
    <3>1. req'[r] = q
      BY <2>1, SlotOf DEF Admit
    <3> QED
      BY <3>1 DEF Idle
  <2>6. UNCHANGED <<work, entries>>
    BY <1>3 DEF ReadBrief
  <2>7. LocalOK(r)'
    BY <2>3, <2>5, <2>6 DEF LocalOK, AnalysisOK, IdeaOK, LayoutOK, QaOK, ReviewOK, work
  <2> QED
    BY <2>1, <2>4, <2>6, <2>7, AdmitReads
<1>4. CASE StartLayout(r)
  <2>1. PICK k \in DOMAIN briefs : Admit(r, [Idle EXCEPT !.pc = "layout_dna", !.row = k])
    BY <1>4 DEF StartLayout
  <2> DEFINE q == [Idle EXCEPT !.pc = "layout_dna", !.row = k]
  <2>2. k \in Nat
    BY DEF Inv, TypeOK
  <2>3. q \in Local
    BY <2>2 DEF Idle, Local, PCs
  <2>4. req'[r].pc = "layout_dna" /\ req'[r].row = k
    <3>1. req'[r] = q
      BY <2>1, SlotOf DEF Admit
    <3> QED
      BY <3>1 DEF Idle
  <2>5. UNCHANGED <<work, entries>>
    BY <1>4 DEF StartLayout
  <2>6. LocalOK(r)'
    BY <2>4, <2>5 DEF LocalOK, AnalysisOK, IdeaOK, LayoutOK, QaOK, ReviewOK, work
  <2> QED
    BY <2>1, <2>3, <2>5, <2>6, AdmitReads
<1>5. CASE StartQa(r)
  <2>1. PICK p \in DOMAIN plans :
           /\ plans[p].status = "approved"
           /\ Admit(r, [Idle EXCEPT !.pc = "qa_brief", !.row = p])
    BY <1>5 DEF StartQa
  <2> DEFINE q == [Idle EXCEPT !.pc = "qa_brief", !.row = p]
  <2>2. p \in Nat
    BY DEF Inv, TypeOK
  <2>3. q \in Local
    BY <2>2 DEF Idle, Local, PCs
  <2>4. req'[r].pc = "qa_brief" /\ req'[r].row = p
    <3>1. req'[r] = q
      BY <2>1, SlotOf DEF Admit
    <3> QED
      BY <3>1 DEF Idle
  <2>5. UNCHANGED <<work, entries>>
    BY <1>5 DEF StartQa
  <2>6. LocalOK(r)'
    BY <2>1, <2>4, <2>5 DEF LocalOK, AnalysisOK, IdeaOK, LayoutOK, QaOK, ReviewOK, work
  <2> QED
    BY <2>1, <2>3, <2>5, <2>6, AdmitReads
<1> QED
  BY <1>1, <1>2, <1>3, <1>4, <1>5

\* What a handler read before it asks the model stays true while it waits.
LEMMA ContextReads ==
    ASSUME Inv, NEW r \in Requests,
           ReadLayoutDna(r) \/ AskLayout(r) \/ ReadQaBrief(r) \/ ReadQaDna(r)
    PROVE  Inv'
<1> USE DEF At
<1>0. req[r] \in Local
  BY LocalFields
<1>1. CASE ReadLayoutDna(r)
  <2> DEFINE q == [req[r] EXCEPT !.pc = "layout_ai", !.dna = ApprovedLatest]
  <2>1. Goto(r, q) /\ UNCHANGED <<work, entries>> /\ req[r].pc = "layout_dna"
    BY <1>1 DEF ReadLayoutDna
  <2>2. ApprovedLatest \in Nat /\ (ApprovedLatest # 0 => UsedDna(ApprovedLatest))
    BY LatestVersion
  <2>3. q \in Local
    <3>1. "layout_ai" \in PCs
      BY DEF PCs
    <3> QED
      BY <1>0, <2>2, <3>1, LocalUpdates
  <2>4. req'[r].pc = "layout_ai" /\ req'[r].row = req[r].row /\ req'[r].dna = ApprovedLatest
    <3>1. req'[r] = q
      BY <2>1, SlotOf DEF Goto
    <3> QED
      BY <1>0, <2>2, <3>1 DEF Local
  <2>5. req[r].row \in DOMAIN briefs
    BY <2>1 DEF Inv, LocalOK, LayoutOK
  <2>6. LocalOK(r)'
    BY <2>1, <2>2, <2>4, <2>5
       DEF LocalOK, AnalysisOK, IdeaOK, LayoutOK, QaOK, ReviewOK, UsedDna, work
  <2> QED
    BY <2>1, <2>3, <2>6, GotoReads
<1>2. CASE AskLayout(r)
  <2>1. CASE Refused(r)
    BY <2>1, RefusedStep
  <2>2. CASE ~Refused(r)
    <3>1. PICK n \in MinAlternatives .. MaxAlternatives :
             Goto(r, [req[r] EXCEPT !.pc = "create_plan", !.left = n])
      BY <1>2, <2>2 DEF AskLayout
    <3> DEFINE q == [req[r] EXCEPT !.pc = "create_plan", !.left = n]
    <3>2. n \in Nat /\ "create_plan" \in PCs
      BY PipelineAssumption DEF PCs
    <3>3. q \in Local
      BY <1>0, <3>2, LocalUpdates
    <3>4. UNCHANGED <<work, entries>> /\ req[r].pc = "layout_ai"
      BY <1>2, <2>2 DEF AskLayout
    <3>5. req'[r].pc = "create_plan" /\ req'[r].row = req[r].row /\ req'[r].dna = req[r].dna
      <4>1. req'[r] = q
        BY <3>1, SlotOf DEF Goto
      <4> QED
        BY <1>0, <4>1 DEF Local
    <3>6. req[r].row \in DOMAIN briefs /\ (req[r].dna = 0 \/ UsedDna(req[r].dna))
      BY <3>4 DEF Inv, LocalOK, LayoutOK
    <3>7. LocalOK(r)'
      BY <3>4, <3>5, <3>6
         DEF LocalOK, AnalysisOK, IdeaOK, LayoutOK, QaOK, ReviewOK, UsedDna, work
    <3> QED
      BY <3>1, <3>3, <3>4, <3>7, GotoReads
  <2> QED
    BY <2>1, <2>2
<1>3. CASE ReadQaBrief(r)
  <2> DEFINE q == [req[r] EXCEPT !.pc = "qa_dna"]
  <2>1. UNCHANGED <<work, entries>> /\ req[r].pc = "qa_brief"
    BY <1>3 DEF ReadQaBrief
  <2>2. CASE Reply(r)
    BY <2>1, <2>2, RefusedStep DEF Refused
  <2>3. CASE Goto(r, q)
    <3>1. q \in Local
      <4>1. "qa_dna" \in PCs
        BY DEF PCs
      <4> QED
        BY <1>0, <4>1, LocalUpdates
    <3>2. req'[r].pc = "qa_dna" /\ req'[r].row = req[r].row
      <4>1. req'[r] = q
        BY <2>3, SlotOf DEF Goto
      <4> QED
        BY <1>0, <4>1 DEF Local
    <3>3. req[r].row \in DOMAIN plans /\ plans[req[r].row].status = "approved"
      BY <2>1 DEF Inv, LocalOK, QaOK
    <3>4. LocalOK(r)'
      BY <2>1, <3>2, <3>3
         DEF LocalOK, AnalysisOK, IdeaOK, LayoutOK, QaOK, ReviewOK, work
    <3> QED
      BY <2>1, <2>3, <3>1, <3>4, GotoReads
  <2> QED
    BY <1>3, <2>2, <2>3 DEF ReadQaBrief
<1>4. CASE ReadQaDna(r)
  <2> DEFINE q == [req[r] EXCEPT !.pc = "qa_ai", !.dna = ApprovedLatest]
  <2>1. UNCHANGED <<work, entries>> /\ req[r].pc = "qa_dna"
    BY <1>4 DEF ReadQaDna
  <2>2. CASE Reply(r)
    BY <2>1, <2>2, RefusedStep DEF Refused
  <2>3. CASE ~Reply(r)
    <3>1. Goto(r, q) /\ ApprovedLatest # 0
      BY <1>4, <2>3 DEF ReadQaDna
    <3>2. ApprovedLatest \in Nat /\ UsedDna(ApprovedLatest)
      BY <3>1, LatestVersion
    <3>3. q \in Local
      <4>1. "qa_ai" \in PCs
        BY DEF PCs
      <4> QED
        BY <1>0, <3>2, <4>1, LocalUpdates
    <3>4. req'[r].pc = "qa_ai" /\ req'[r].row = req[r].row /\ req'[r].dna = ApprovedLatest
      <4>1. req'[r] = q
        BY <3>1, SlotOf DEF Goto
      <4> QED
        BY <1>0, <3>2, <4>1 DEF Local
    <3>5. req[r].row \in DOMAIN plans /\ plans[req[r].row].status = "approved"
      BY <2>1 DEF Inv, LocalOK, QaOK
    <3>6. LocalOK(r)'
      BY <2>1, <3>2, <3>4, <3>5
         DEF LocalOK, AnalysisOK, IdeaOK, LayoutOK, QaOK, ReviewOK, UsedDna, work
    <3> QED
      BY <2>1, <3>1, <3>3, <3>6, GotoReads
  <2> QED
    BY <2>2, <2>3
<1> QED
  BY <1>1, <1>2, <1>3, <1>4

\* The row a review names has a status of its table.
LEMMA StatusTypes ==
    ASSUME Inv, NEW kind \in Kinds, NEW i \in TableOf(kind)
    PROVE  /\ i \in Nat \ {0} /\ StatusOf(kind, i) \in Statuses
           /\ kind = "design_dna" => dna[i] \in Dna
           /\ kind = "layout_plan" => plans[i] \in Plan
           /\ kind = "creative_qa_report" => reports[i] \in Report
<1>1. CASE kind = "design_dna"
  <2>1. i \in Nat \ {0} /\ dna[i] \in Dna
    BY <1>1 DEF TableOf, Inv, TypeOK
  <2> QED
    BY <1>1, <2>1 DEF StatusOf, Dna, Statuses
<1>2. CASE kind = "layout_plan"
  <2>1. i \in Nat \ {0} /\ plans[i] \in Plan
    BY <1>2 DEF TableOf, Inv, TypeOK
  <2> QED
    BY <1>2, <2>1 DEF StatusOf, Plan, Statuses
<1>3. CASE kind = "creative_qa_report"
  <2>1. i \in Nat \ {0} /\ reports[i] \in Report
    BY <1>3 DEF TableOf, Inv, TypeOK
  <2> QED
    BY <1>3, <2>1 DEF StatusOf, Report, Statuses
<1> QED
  BY <1>1, <1>2, <1>3 DEF Kinds

LEMMA ReadReviewedStep ==
    ASSUME Inv, NEW r \in Requests, ReadReviewed(r)
    PROVE  Inv'
<1>0. PICK kind \in Kinds, verb \in {"approve", "reject"} :
         \E i \in Reviewable(kind) :
            Admit(r, [Idle EXCEPT !.pc = verb, !.kind = kind, !.row = i,
                                  !.saw = StatusOf(kind, i)])
  BY DEF ReadReviewed
<1>1. PICK i \in Reviewable(kind) :
         Admit(r, [Idle EXCEPT !.pc = verb, !.kind = kind, !.row = i,
                               !.saw = StatusOf(kind, i)])
  BY <1>0
<1> DEFINE q == [Idle EXCEPT !.pc = verb, !.kind = kind, !.row = i,
                             !.saw = StatusOf(kind, i)]
<1>2. i \in TableOf(kind)
  <2>1. Latest = Len(dna)
    BY LatestVersion
  <2>2. CASE kind = "design_dna"
    <3>1. i = Len(dna) /\ i # 0
      BY <2>1, <2>2 DEF Reviewable
    <3>2. i \in DOMAIN dna
      BY <3>1 DEF Inv, TypeOK
    <3> QED
      BY <2>2, <3>2 DEF TableOf
  <2>3. CASE kind # "design_dna"
    BY <2>3 DEF Reviewable, TableOf, Kinds
  <2> QED
    BY <2>2, <2>3
<1>3. i \in Nat /\ StatusOf(kind, i) \in Statuses
  BY <1>2, StatusTypes
<1>4. q \in Local
  BY <1>3 DEF Idle, Local, PCs
<1>5. /\ req'[r].pc = verb /\ req'[r].kind = kind /\ req'[r].row = i
      /\ req'[r].saw = StatusOf(kind, i)
  <2>1. req'[r] = q
    BY <1>1, SlotOf DEF Admit
  <2> QED
    BY <2>1 DEF Idle
<1>6. UNCHANGED <<work, entries>>
  BY DEF ReadReviewed
<1>7. i \in TableOf(kind)'
  BY <1>2, <1>6 DEF TableOf, work
<1>8. LocalOK(r)'
  BY <1>3, <1>5, <1>7
     DEF LocalOK, AnalysisOK, IdeaOK, LayoutOK, QaOK, ReviewOK, At
<1> QED
  BY <1>1, <1>4, <1>6, <1>8, AdmitReads

LEMMA InterruptStep ==
    ASSUME Inv, NEW r \in Requests, Interrupt(r)
    PROVE  Inv'
<1>1. requests' \in Nat /\ failures' \in Nat
  BY DEF Inv, TypeOK, Interrupt
<1> QED
  BY <1>1, IdleIsLocal, IdleRelies, ReadStep DEF Interrupt

-----------------------------------------------------------------------------
(***************************************************************************)
(* Handlers that write a table                                             *)
(***************************************************************************)
LEMMA AppendFacts ==
    ASSUME NEW S, NEW s \in Seq(S), NEW e \in S
    PROVE  /\ Append(s, e) \in Seq(S)
           /\ Len(s) \in Nat /\ Len(Append(s, e)) = Len(s) + 1
           /\ DOMAIN s \subseteq DOMAIN Append(s, e)
           /\ \A k \in DOMAIN Append(s, e) : k \in DOMAIN s \/ k = Len(s) + 1
           /\ \A k \in DOMAIN s : Append(s, e)[k] = s[k]
           /\ Append(s, e)[Len(s) + 1] = e
  OBVIOUS

LEMMA ExceptFacts ==
    ASSUME NEW S, NEW s \in Seq(S), NEW i \in DOMAIN s, NEW e \in S
    PROVE  /\ [s EXCEPT ![i] = e] \in Seq(S)
           /\ DOMAIN [s EXCEPT ![i] = e] = DOMAIN s
           /\ Len([s EXCEPT ![i] = e]) = Len(s) /\ Len(s) \in Nat
           /\ [s EXCEPT ![i] = e][i] = e
           /\ \A k \in DOMAIN s : k # i => [s EXCEPT ![i] = e][k] = s[k]
  OBVIOUS

\* A handler writes a table and answers, or makes the next row, or goes on.
LEMMA ReplyWrites ==
    ASSUME Inv, NEW r \in Requests, Reply(r),
           UNCHANGED entries, TablesTyped', KeysOK', Grows
    PROVE  Inv'
<1>1. requests' \in Nat /\ failures' \in Nat /\ req' = [req EXCEPT ![r] = Idle]
  BY DEF Inv, TypeOK, Reply, Goto
<1> QED
  BY <1>1, IdleIsLocal, IdleRelies, EntriesKeep, OwnStep

LEMMA NextRowWrites ==
    ASSUME Inv, NEW r \in Requests, NextRow(r), req[r].pc \in {"create_idea", "create_plan"},
           UNCHANGED entries, TablesTyped', KeysOK', Grows
    PROVE  Inv'
<1>1. CASE Reply(r)
  BY <1>1, ReplyWrites
<1>2. CASE ~Reply(r)
  <2> DEFINE q == [req[r] EXCEPT !.left = @ - 1]
  <2>1. Goto(r, q) /\ req[r].left > 1
    BY <1>2 DEF NextRow
  <2>2. req[r] \in Local /\ req[r].left \in Nat /\ req[r].left - 1 \in Nat
    BY <2>1, LocalFields
  <2>3. q \in Local
    BY <2>2 DEF Local
  <2>4. req'[r].pc = req[r].pc /\ req'[r].row = req[r].row /\ req'[r].dna = req[r].dna
    <3>1. req'[r] = q
      BY <2>1, SlotOf DEF Goto
    <3> QED
      BY <2>2, <3>1 DEF Local
  <2>5. LayoutOK(r)
    BY DEF Inv, LocalOK
  <2>6. LocalOK(r)'
    <3>1. UsedDna(req[r].dna) => (req[r].dna \in DOMAIN dna' /\ dna'[req[r].dna].approvedBy)
      BY DEF Grows, UsedDna
    <3>2. LayoutOK(r)'
      BY <2>4, <2>5, <3>1 DEF LayoutOK, UsedDna, Grows
    <3> QED
      BY <2>4, <3>2 DEF LocalOK, AnalysisOK, IdeaOK, QaOK, ReviewOK, At
  <2>7. requests' \in Nat /\ failures' \in Nat /\ req' = [req EXCEPT ![r] = q]
    BY <2>1 DEF Inv, TypeOK, Goto
  <2> QED
    BY <2>3, <2>6, <2>7, EntriesKeep, OwnStep
<1> QED
  BY <1>1, <1>2

LEMMA AnalyseStep ==
    ASSUME Inv, NEW r \in Requests, AnalyseReference(r)
    PROVE  Inv'
<1>1. CASE Refused(r)
  BY <1>1, RefusedStep
<1>2. CASE ~Refused(r)
  <2> DEFINE q == [req[r] EXCEPT !.left = @ - 1]
  <2>1. /\ req[r].pc = "analyse" /\ req[r].left > 0 /\ Goto(r, q)
        /\ analyses' = [analyses EXCEPT ![req[r].left] = @ + 1]
        /\ UNCHANGED <<ideas, approvals, dna, briefs, plans, reports, entries>>
    BY <1>2 DEF AnalyseReference, At
  <2>2. req[r].left \in 1 .. References /\ References \in Nat
    BY <2>1, PipelineAssumption DEF Inv, LocalOK, AnalysisOK, At
  <2>3. req[r] \in Local /\ req[r].left - 1 \in 0 .. References
    BY <2>2, LocalFields
  <2>4. q \in Local
    BY <2>3 DEF Local
  <2>5. req'[r].pc = "analyse" /\ req'[r].left \in 0 .. References
    <3>1. req'[r] = q
      BY <2>1, SlotOf DEF Goto
    <3> QED
      BY <2>1, <2>3, <3>1 DEF Local
  <2>6. LocalOK(r)'
    BY <2>5 DEF LocalOK, AnalysisOK, IdeaOK, LayoutOK, QaOK, ReviewOK, At
  <2>7. Grows
    <3>1. Len(dna) \in Nat
      BY DEF Inv, TypeOK
    <3> QED
      BY <2>1, <3>1 DEF Grows
  <2>8. TablesTyped'
    BY <2>1, <2>2 DEF Inv, TypeOK, TablesTyped
  <2>9. KeysOK'
    BY <2>1 DEF Inv, KeysOK, DnaOK, IdeasOK, BriefsOK, PlansOK, ReportsOK, IsApproval, UsedDna
  <2>10. requests' \in Nat /\ failures' \in Nat /\ req' = [req EXCEPT ![r] = q]
    BY <2>1 DEF Inv, TypeOK, Goto
  <2>11. EntriesOK'
    BY <2>1, <2>7, EntriesKeep
  <2> QED
    BY <2>4, <2>6, <2>7, <2>8, <2>9, <2>10, <2>11, OwnStep
<1> QED
  BY <1>1, <1>2

\* The new version has the number after the last one, or it is refused.
LEMMA InsertVersionStep ==
    ASSUME Inv, NEW r \in Requests, InsertVersion(r)
    PROVE  Inv'
<1>1. CASE Refused(r)
  BY <1>1, RefusedStep
<1>2. CASE ~Refused(r)
  <2> DEFINE row == [version |-> req[r].ref, status |-> "generated", approvedBy |-> FALSE]
  <2>1. /\ req[r].ref \notin Versions /\ dna' = Append(dna, row) /\ Reply(r)
        /\ UNCHANGED <<analyses, ideas, approvals, briefs, plans, reports, entries>>
    BY <1>2 DEF InsertVersion
  <2>2. Len(dna) \in Nat /\ DOMAIN dna = 1 .. Len(dna) /\ dna \in Seq(Dna)
    BY DEF Inv, TypeOK
  <2>3. req[r].ref = Len(dna) + 1
    <3>1. req[r].ref \in 1 .. Len(dna) + 1
      BY <1>2 DEF InsertVersion, Inv, LocalOK, AnalysisOK
    <3>2. Versions = 1 .. Len(dna)
      BY <2>2 DEF Versions, Inv, KeysOK, DnaOK
    <3> QED
      BY <2>1, <2>2, <3>1, <3>2
  <2>4. row \in Dna
    BY <2>2, <2>3 DEF Dna, DnaStatuses
  <2>5. /\ dna' \in Seq(Dna) /\ Len(dna') = Len(dna) + 1 /\ DOMAIN dna \subseteq DOMAIN dna'
        /\ \A d \in DOMAIN dna' : d \in DOMAIN dna \/ d = Len(dna) + 1
        /\ \A d \in DOMAIN dna : dna'[d] = dna[d]
        /\ dna'[Len(dna) + 1] = row
    <3> HIDE DEF row
    <3> QED
      BY <2>1, <2>2, <2>4, AppendFacts
  <2>6. Grows
    BY <2>1, <2>2, <2>5 DEF Grows
  <2>7. TablesTyped'
    BY <2>1, <2>5 DEF Inv, TypeOK, TablesTyped
  <2>8. KeysOK'
    <3>1. DnaOK'
      <4> SUFFICES ASSUME NEW d \in DOMAIN dna'
                   PROVE  /\ dna'[d].version = d
                          /\ dna'[d].status = "approved" => dna'[d].approvedBy
        BY DEF DnaOK
      <4>1. CASE d \in DOMAIN dna
        BY <2>5, <4>1 DEF Inv, KeysOK, DnaOK
      <4>2. CASE d = Len(dna) + 1
        BY <2>3, <2>5, <4>2
      <4> QED
        BY <2>5, <4>1, <4>2
    <3>2. \A d : UsedDna(d) => UsedDna(d)'
      BY <2>6 DEF Grows, UsedDna
    <3>3. IdeasOK' /\ BriefsOK'
      BY <2>1 DEF Inv, KeysOK, IdeasOK, BriefsOK, IsApproval
    <3>4. PlansOK' /\ ReportsOK'
      BY <2>1, <3>2 DEF Inv, KeysOK, PlansOK, ReportsOK
    <3> QED
      BY <3>1, <3>3, <3>4 DEF KeysOK
  <2> QED
    BY <2>1, <2>6, <2>7, <2>8, ReplyWrites
<1> QED
  BY <1>1, <1>2

\* Ideas: a new one has no approval, and a decided one names the one just made.
LEMMA CreateIdeaStep ==
    ASSUME Inv, NEW r \in Requests, CreateIdea(r)
    PROVE  Inv'
<1> DEFINE row == [status |-> "pending_approval", approval |-> 0]
<1>1. /\ req[r].pc = "create_idea" /\ ideas' = Append(ideas, row) /\ NextRow(r)
      /\ UNCHANGED <<analyses, approvals, dna, briefs, plans, reports, entries>>
  BY DEF CreateIdea, At
<1>2. row \in Idea /\ ideas \in Seq(Idea) /\ Len(dna) \in Nat
  BY DEF Inv, TypeOK, Idea, IdeaStatuses
<1>3. row.status = "pending_approval"
  OBVIOUS
<1>4. /\ ideas' \in Seq(Idea) /\ DOMAIN ideas \subseteq DOMAIN ideas'
      /\ \A i \in DOMAIN ideas' : i \in DOMAIN ideas \/ i = Len(ideas) + 1
      /\ \A i \in DOMAIN ideas : ideas'[i] = ideas[i]
      /\ ideas'[Len(ideas) + 1] = row
  <2> HIDE DEF row
  <2> QED
    BY <1>1, <1>2, AppendFacts
<1>5. Grows
  BY <1>1, <1>2, <1>4 DEF Grows
<1>6. TablesTyped'
  BY <1>1, <1>4 DEF Inv, TypeOK, TablesTyped
<1>7. KeysOK'
  <2>1. ASSUME NEW i \in DOMAIN ideas', ideas'[i].status = "approved"
        PROVE  IsApproval(ideas'[i].approval, i, "approved")
    <3>1. i \in DOMAIN ideas /\ ideas'[i] = ideas[i]
      BY <1>3, <1>4, <2>1
    <3> QED
      BY <2>1, <3>1 DEF Inv, KeysOK, IdeasOK
  <2>2. IdeasOK'
    BY <1>1, <2>1 DEF IdeasOK, IsApproval
  <2> QED
    BY <1>1, <2>2 DEF Inv, KeysOK, DnaOK, BriefsOK, PlansOK, ReportsOK, IsApproval, UsedDna
<1> QED
  BY <1>1, <1>5, <1>6, <1>7, NextRowWrites

LEMMA DecideIdeaStep ==
    ASSUME Inv, NEW r \in Requests, DecideIdea(r)
    PROVE  Inv'
<1>1. PICK i \in DOMAIN ideas, outcome \in Outcomes :
         /\ approvals' = Append(approvals, [idea |-> i, status |-> outcome])
         /\ Admit(r, [Idle EXCEPT !.pc = "outcome", !.row = i, !.new = outcome,
                                  !.ref = Len(approvals')])
  BY DEF DecideIdea
<1>2. UNCHANGED <<analyses, ideas, dna, briefs, plans, reports, entries>>
  BY DEF DecideIdea
<1> DEFINE row == [idea |-> i, status |-> outcome]
           q == [Idle EXCEPT !.pc = "outcome", !.row = i, !.new = outcome,
                             !.ref = Len(approvals')]
<1>3. i \in Nat /\ outcome \in IdeaStatuses /\ row \in Approval
  BY DEF Inv, TypeOK, Approval, Outcomes
<1>4. /\ approvals' \in Seq(Approval) /\ Len(approvals') \in Nat
      /\ Len(approvals') \in DOMAIN approvals'
      /\ \A k \in DOMAIN approvals : k \in DOMAIN approvals' /\ approvals'[k] = approvals[k]
      /\ approvals'[Len(approvals')] = row
  <2>1. approvals' = Append(approvals, row) /\ approvals \in Seq(Approval)
    BY <1>1 DEF Inv, TypeOK
  <2> HIDE DEF row
  <2> QED
    BY <1>3, <2>1, AppendFacts
<1>5. q \in Local
  BY <1>3, <1>4 DEF Idle, Local, PCs
<1>6. /\ req'[r].pc = "outcome" /\ req'[r].row = i /\ req'[r].new = outcome
      /\ req'[r].ref = Len(approvals')
  <2>1. req'[r] = q
    BY <1>1, SlotOf DEF Admit
  <2> QED
    BY <2>1 DEF Idle
<1>7. Grows
  <2>1. Len(dna) \in Nat
    BY DEF Inv, TypeOK
  <2> QED
    BY <1>2, <1>4, <2>1 DEF Grows
<1>8. LocalOK(r)'
  BY <1>2, <1>4, <1>6
     DEF LocalOK, AnalysisOK, IdeaOK, LayoutOK, QaOK, ReviewOK, At, IsApproval
<1>9. TablesTyped'
  BY <1>2, <1>4 DEF Inv, TypeOK, TablesTyped
<1>10. KeysOK'
  <2>1. \A k, j, status : IsApproval(k, j, status) => IsApproval(k, j, status)'
    BY <1>7 DEF Grows, IsApproval
  <2>2. IdeasOK' /\ BriefsOK'
    BY <1>2, <2>1 DEF Inv, KeysOK, IdeasOK, BriefsOK
  <2> QED
    BY <1>2, <2>2 DEF Inv, KeysOK, DnaOK, PlansOK, ReportsOK, UsedDna
<1>11. requests' \in Nat /\ failures' \in Nat /\ req' = [req EXCEPT ![r] = q]
  BY <1>1 DEF Inv, TypeOK, Admit
<1>12. EntriesOK'
  BY <1>2, <1>7, EntriesKeep
<1> QED
  BY <1>5, <1>7, <1>8, <1>9, <1>10, <1>11, <1>12, OwnStep

LEMMA SetApprovalOutcomeStep ==
    ASSUME Inv, NEW r \in Requests, SetApprovalOutcome(r)
    PROVE  Inv'
<1> DEFINE i == req[r].row
           row == [status |-> req[r].new, approval |-> req[r].ref]
<1>1. /\ ideas' = [ideas EXCEPT ![i] = row] /\ Reply(r)
      /\ UNCHANGED <<analyses, approvals, dna, briefs, plans, reports, entries>>
  BY DEF SetApprovalOutcome
<1>2. /\ i \in DOMAIN ideas /\ req[r].new \in Outcomes
      /\ IsApproval(req[r].ref, i, req[r].new)
  BY DEF SetApprovalOutcome, Inv, LocalOK, IdeaOK
<1>3. row \in Idea /\ ideas \in Seq(Idea) /\ Len(dna) \in Nat
  BY <1>2, LocalFields DEF Inv, TypeOK, Idea, Outcomes
<1>4. row.status = req[r].new /\ row.approval = req[r].ref
  OBVIOUS
<1>5. /\ ideas' \in Seq(Idea) /\ DOMAIN ideas' = DOMAIN ideas /\ ideas'[i] = row
      /\ \A j \in DOMAIN ideas : j # i => ideas'[j] = ideas[j]
  <2> HIDE DEF row, i
  <2> QED
    BY <1>1, <1>2, <1>3, ExceptFacts
<1>6. Grows
  BY <1>1, <1>3, <1>5 DEF Grows
<1>7. TablesTyped'
  BY <1>1, <1>5 DEF Inv, TypeOK, TablesTyped
<1>8. KeysOK'
  <2>1. ASSUME NEW j \in DOMAIN ideas, ideas'[j].status = "approved"
        PROVE  IsApproval(ideas'[j].approval, j, "approved")
    <3>1. CASE j = i
      BY <1>2, <1>4, <1>5, <2>1, <3>1
    <3>2. CASE j # i
      BY <1>5, <2>1, <3>2 DEF Inv, KeysOK, IdeasOK
    <3> QED
      BY <3>1, <3>2
  <2>2. IdeasOK'
    BY <1>1, <1>5, <2>1 DEF IdeasOK, IsApproval
  <2> QED
    BY <1>1, <2>2 DEF Inv, KeysOK, DnaOK, BriefsOK, PlansOK, ReportsOK, IsApproval, UsedDna
<1> QED
  BY <1>1, <1>6, <1>7, <1>8, ReplyWrites

\* Briefs: the approval that was read at the gate is still the idea's.
LEMMA CreateBriefStep ==
    ASSUME Inv, NEW r \in Requests, CreateBrief(r)
    PROVE  Inv'
<1> DEFINE row == [idea |-> req[r].row, approval |-> req[r].ref, status |-> "draft"]
<1>1. /\ briefs' = Append(briefs, row) /\ Reply(r)
      /\ UNCHANGED <<analyses, ideas, approvals, dna, plans, reports, entries>>
  BY DEF CreateBrief
<1>2. IsApproval(req[r].ref, req[r].row, "approved")
  BY DEF CreateBrief, Inv, LocalOK, IdeaOK
<1>3. row \in Brief /\ briefs \in Seq(Brief) /\ Len(dna) \in Nat
  BY LocalFields DEF Inv, TypeOK, Brief, BriefStatuses
<1>4. row.idea = req[r].row /\ row.approval = req[r].ref
  OBVIOUS
<1>5. /\ briefs' \in Seq(Brief) /\ DOMAIN briefs \subseteq DOMAIN briefs'
      /\ \A k \in DOMAIN briefs' : k \in DOMAIN briefs \/ k = Len(briefs) + 1
      /\ \A k \in DOMAIN briefs : briefs'[k] = briefs[k]
      /\ briefs'[Len(briefs) + 1] = row
  <2> HIDE DEF row
  <2> QED
    BY <1>1, <1>3, AppendFacts
<1>6. Grows
  BY <1>1, <1>3, <1>5 DEF Grows
<1>7. TablesTyped'
  BY <1>1, <1>5 DEF Inv, TypeOK, TablesTyped
<1>8. KeysOK'
  <2>1. ASSUME NEW k \in DOMAIN briefs'
        PROVE  IsApproval(briefs'[k].approval, briefs'[k].idea, "approved")
    <3>1. CASE k \in DOMAIN briefs
      BY <1>5, <3>1 DEF Inv, KeysOK, BriefsOK
    <3>2. CASE k = Len(briefs) + 1
      BY <1>2, <1>4, <1>5, <3>2
    <3> QED
      BY <1>5, <3>1, <3>2
  <2>2. BriefsOK'
    BY <1>1, <2>1 DEF BriefsOK, IsApproval
  <2>3. PlansOK'
    BY <1>1, <1>5 DEF Inv, KeysOK, PlansOK, UsedDna
  <2> QED
    BY <1>1, <2>2, <2>3 DEF Inv, KeysOK, DnaOK, IdeasOK, ReportsOK, IsApproval, UsedDna
<1> QED
  BY <1>1, <1>6, <1>7, <1>8, ReplyWrites

LEMMA WriteBriefStep ==
    ASSUME Inv, NEW r \in Requests, WriteBrief(r)
    PROVE  Inv'
<1> DEFINE i == req[r].row
           row == [briefs[i] EXCEPT !.status = req[r].new]
<1>1. /\ briefs' = [briefs EXCEPT ![i] = row] /\ Reply(r)
      /\ UNCHANGED <<analyses, ideas, approvals, dna, plans, reports, entries>>
  BY DEF WriteBrief
<1>2. i \in DOMAIN briefs /\ req[r].new \in BriefStatuses
  BY DEF WriteBrief, Inv, LocalOK, IdeaOK
<1>3. briefs[i] \in Brief /\ briefs \in Seq(Brief) /\ Len(dna) \in Nat
  BY <1>2 DEF Inv, TypeOK
<1>4. row \in Brief /\ row.idea = briefs[i].idea /\ row.approval = briefs[i].approval
  BY <1>2, <1>3 DEF Brief
<1>5. /\ briefs' \in Seq(Brief) /\ DOMAIN briefs' = DOMAIN briefs /\ briefs'[i] = row
      /\ \A k \in DOMAIN briefs : k # i => briefs'[k] = briefs[k]
  <2> HIDE DEF row, i
  <2> QED
    BY <1>1, <1>2, <1>3, <1>4, ExceptFacts
<1>6. Grows
  BY <1>1, <1>3, <1>5 DEF Grows
<1>7. TablesTyped'
  BY <1>1, <1>5 DEF Inv, TypeOK, TablesTyped
<1>8. KeysOK'
  <2>1. ASSUME NEW k \in DOMAIN briefs
        PROVE  briefs'[k].approval = briefs[k].approval /\ briefs'[k].idea = briefs[k].idea
    BY <1>4, <1>5
  <2>2. BriefsOK'
    BY <1>1, <1>5, <2>1 DEF Inv, KeysOK, BriefsOK, IsApproval
  <2>3. PlansOK'
    BY <1>1, <1>5 DEF Inv, KeysOK, PlansOK, UsedDna
  <2> QED
    BY <1>1, <2>2, <2>3 DEF Inv, KeysOK, DnaOK, IdeasOK, ReportsOK, IsApproval, UsedDna
<1> QED
  BY <1>1, <1>6, <1>7, <1>8, ReplyWrites

\* Plans and reports: the version that was read is one a person approved.
LEMMA CreatePlanStep ==
    ASSUME Inv, NEW r \in Requests, CreatePlan(r)
    PROVE  Inv'
<1> DEFINE row == [brief |-> req[r].row, dna |-> req[r].dna, status |-> "generated"]
<1>1. /\ req[r].pc = "create_plan" /\ plans' = Append(plans, row) /\ NextRow(r)
      /\ UNCHANGED <<analyses, ideas, approvals, dna, briefs, reports, entries>>
  BY DEF CreatePlan, At
<1>2. req[r].row \in DOMAIN briefs /\ (req[r].dna = 0 \/ UsedDna(req[r].dna))
  BY <1>1 DEF Inv, LocalOK, LayoutOK
<1>3. row \in Plan /\ plans \in Seq(Plan) /\ Len(dna) \in Nat
  BY LocalFields DEF Inv, TypeOK, Plan, PlanStatuses
<1>4. row.brief = req[r].row /\ row.dna = req[r].dna
  OBVIOUS
<1>5. /\ plans' \in Seq(Plan) /\ DOMAIN plans \subseteq DOMAIN plans'
      /\ \A k \in DOMAIN plans' : k \in DOMAIN plans \/ k = Len(plans) + 1
      /\ \A k \in DOMAIN plans : plans'[k] = plans[k]
      /\ plans'[Len(plans) + 1] = row
  <2> HIDE DEF row
  <2> QED
    BY <1>1, <1>3, AppendFacts
<1>6. Grows
  BY <1>1, <1>3, <1>5 DEF Grows
<1>7. TablesTyped'
  BY <1>1, <1>5 DEF Inv, TypeOK, TablesTyped
<1>8. KeysOK'
  <2>1. ASSUME NEW k \in DOMAIN plans'
        PROVE  /\ plans'[k].brief \in DOMAIN briefs
               /\ plans'[k].dna = 0 \/ UsedDna(plans'[k].dna)
    <3>1. CASE k \in DOMAIN plans
      BY <1>5, <3>1 DEF Inv, KeysOK, PlansOK
    <3>2. CASE k = Len(plans) + 1
      BY <1>2, <1>4, <1>5, <3>2
    <3> QED
      BY <1>5, <3>1, <3>2
  <2>2. PlansOK'
    BY <1>1, <2>1 DEF PlansOK, UsedDna
  <2>3. ReportsOK'
    BY <1>1, <1>5 DEF Inv, KeysOK, ReportsOK, UsedDna
  <2> QED
    BY <1>1, <2>2, <2>3 DEF Inv, KeysOK, DnaOK, IdeasOK, BriefsOK, IsApproval
<1> QED
  BY <1>1, <1>6, <1>7, <1>8, NextRowWrites

LEMMA SaveReportStep ==
    ASSUME Inv, NEW r \in Requests, SaveReport(r)
    PROVE  Inv'
<1>1. CASE Refused(r)
  BY <1>1, RefusedStep
<1>2. CASE ~Refused(r)
  <2>1. PICK verdict \in {"passed", "failed"} :
           reports' = Append(reports, [plan |-> req[r].row, dna |-> req[r].dna,
                                       status |-> verdict])
    BY <1>2 DEF SaveReport
  <2> DEFINE row == [plan |-> req[r].row, dna |-> req[r].dna, status |-> verdict]
  <2>2. Reply(r) /\ UNCHANGED <<analyses, ideas, approvals, dna, briefs, plans, entries>>
    BY <1>2 DEF SaveReport
  <2>3. /\ req[r].row \in DOMAIN plans /\ plans[req[r].row].status = "approved"
        /\ UsedDna(req[r].dna)
    BY <1>2 DEF SaveReport, At, Inv, LocalOK, QaOK
  <2>4. row \in Report /\ reports \in Seq(Report) /\ Len(dna) \in Nat
    BY LocalFields DEF Inv, TypeOK, Report, ReportStatuses
  <2>5. row.plan = req[r].row /\ row.dna = req[r].dna
    OBVIOUS
  <2>6. /\ reports' \in Seq(Report) /\ DOMAIN reports \subseteq DOMAIN reports'
        /\ \A k \in DOMAIN reports' : k \in DOMAIN reports \/ k = Len(reports) + 1
        /\ \A k \in DOMAIN reports : reports'[k] = reports[k]
        /\ reports'[Len(reports) + 1] = row
    <3>1. reports' = Append(reports, row)
      BY <2>1
    <3> HIDE DEF row
    <3> QED
      BY <2>4, <3>1, AppendFacts
  <2>7. Grows
    BY <2>2, <2>4, <2>6 DEF Grows
  <2>8. TablesTyped'
    BY <2>2, <2>6 DEF Inv, TypeOK, TablesTyped
  <2>9. KeysOK'
    <3>1. ASSUME NEW k \in DOMAIN reports'
          PROVE  /\ reports'[k].plan \in DOMAIN plans
                 /\ plans[reports'[k].plan].status = "approved"
                 /\ UsedDna(reports'[k].dna)
      <4>1. CASE k \in DOMAIN reports
        BY <2>6, <4>1 DEF Inv, KeysOK, ReportsOK
      <4>2. CASE k = Len(reports) + 1
        BY <2>3, <2>5, <2>6, <4>2
      <4> QED
        BY <2>6, <4>1, <4>2
    <3>2. ReportsOK'
      BY <2>2, <3>1 DEF ReportsOK, UsedDna
    <3> QED
      BY <2>2, <3>2 DEF Inv, KeysOK, DnaOK, IdeasOK, BriefsOK, PlansOK, IsApproval, UsedDna
  <2> QED
    BY <2>2, <2>7, <2>8, <2>9, ReplyWrites
<1> QED
  BY <1>1, <1>2

-----------------------------------------------------------------------------
(***************************************************************************)
(* Reviews                                                                 *)
(***************************************************************************)
\* The statuses of a table.
Column(kind) ==
    CASE kind = "design_dna" -> DnaStatuses
      [] kind = "layout_plan" -> PlanStatuses
      [] kind = "creative_qa_report" -> ReportStatuses

\* What a guarded UPDATE does to the tables: a decided plan or report is out of its
\* WHERE clause, so the status of no decided row changes.
LEMMA UpdateDna ==
    ASSUME Inv, NEW i \in DOMAIN dna, NEW new \in DnaStatuses,
           SetStatus("design_dna", i, new),
           UNCHANGED <<analyses, ideas, approvals, briefs, entries>>
    PROVE  /\ Grows /\ TablesTyped' /\ KeysOK'
           /\ i \in TableOf("design_dna")'
<1> DEFINE row == [version |-> dna[i].version, status |-> new,
                   approvedBy |-> dna[i].approvedBy \/ new = "approved"]
<1>1. dna' = [dna EXCEPT ![i] = row] /\ UNCHANGED <<plans, reports>>
  BY DEF SetStatus
<1>2. dna \in Seq(Dna) /\ dna[i] \in Dna /\ Len(dna) \in Nat
  BY DEF Inv, TypeOK
<1>3. row \in Dna
  BY <1>2 DEF Dna
<1>4. /\ row.version = dna[i].version /\ row.status = new
      /\ row.approvedBy = (dna[i].approvedBy \/ new = "approved")
  OBVIOUS
<1>5. /\ dna' \in Seq(Dna) /\ DOMAIN dna' = DOMAIN dna /\ Len(dna') = Len(dna)
      /\ dna'[i] = row /\ \A d \in DOMAIN dna : d # i => dna'[d] = dna[d]
  <2> HIDE DEF row
  <2> QED
    BY <1>1, <1>2, <1>3, ExceptFacts
<1>6. ASSUME NEW d \in DOMAIN dna
      PROVE  /\ dna[d].approvedBy => dna'[d].approvedBy
             /\ dna'[d].version = dna[d].version
             /\ (dna[d].status = "approved" => dna[d].approvedBy)
                  => (dna'[d].status = "approved" => dna'[d].approvedBy)
  <2>1. CASE d = i
    <3>1. dna'[d].approvedBy = (dna[d].approvedBy \/ new = "approved")
      BY <1>4, <1>5, <2>1
    <3>2. dna'[d].status = new /\ dna'[d].version = dna[d].version
      BY <1>4, <1>5, <2>1
    <3> HIDE DEF row
    <3> QED
      BY <3>1, <3>2, Zenon
  <2>2. CASE d # i
    BY <1>5, <2>2
  <2> QED
    BY <2>1, <2>2
<1>7. Grows
  BY <1>1, <1>2, <1>5, <1>6 DEF Grows
<1>8. TablesTyped'
  BY <1>1, <1>5 DEF Inv, TypeOK, TablesTyped
<1>9. KeysOK'
  <2>1. DnaOK'
    BY <1>5, <1>6 DEF Inv, KeysOK, DnaOK
  <2>2. \A d : UsedDna(d) => UsedDna(d)'
    BY <1>7 DEF Grows, UsedDna
  <2>3. PlansOK' /\ ReportsOK'
    BY <1>1, <2>2 DEF Inv, KeysOK, PlansOK, ReportsOK
  <2> QED
    BY <2>1, <2>3 DEF Inv, KeysOK, IdeasOK, BriefsOK, IsApproval
<1> QED
  BY <1>5, <1>7, <1>8, <1>9 DEF TableOf

LEMMA UpdatePlan ==
    ASSUME Inv, NEW i \in DOMAIN plans, NEW new \in PlanStatuses,
           plans[i].status \notin Decided,
           SetStatus("layout_plan", i, new),
           UNCHANGED <<analyses, ideas, approvals, briefs, entries>>
    PROVE  /\ Grows /\ TablesTyped' /\ KeysOK'
           /\ i \in TableOf("layout_plan")' /\ StatusOf("layout_plan", i)' = new
<1> DEFINE row == [plans[i] EXCEPT !.status = new]
<1>1. plans' = [plans EXCEPT ![i] = row] /\ UNCHANGED <<dna, reports>>
  BY DEF SetStatus
<1>2. plans \in Seq(Plan) /\ plans[i] \in Plan /\ Len(dna) \in Nat
  BY DEF Inv, TypeOK
<1>3. /\ row \in Plan /\ row.status = new
      /\ row.brief = plans[i].brief /\ row.dna = plans[i].dna
  BY <1>2 DEF Plan
<1>4. /\ plans' \in Seq(Plan) /\ DOMAIN plans' = DOMAIN plans
      /\ plans'[i] = row /\ \A k \in DOMAIN plans : k # i => plans'[k] = plans[k]
  <2> HIDE DEF row
  <2> QED
    BY <1>1, <1>2, <1>3, ExceptFacts
<1>5. \A k \in DOMAIN plans :
         /\ plans[k].status \in Decided => plans'[k].status = plans[k].status
         /\ plans'[k].brief = plans[k].brief /\ plans'[k].dna = plans[k].dna
  BY <1>3, <1>4
<1>6. Grows
  BY <1>1, <1>2, <1>4, <1>5 DEF Grows
<1>7. TablesTyped'
  BY <1>1, <1>4 DEF Inv, TypeOK, TablesTyped
<1>8. KeysOK'
  <2>1. PlansOK'
    BY <1>1, <1>4, <1>5 DEF Inv, KeysOK, PlansOK, UsedDna
  <2>2. ReportsOK'
    BY <1>1, <1>4, <1>5 DEF Inv, KeysOK, ReportsOK, UsedDna, Decided
  <2> QED
    BY <1>1, <2>1, <2>2 DEF Inv, KeysOK, DnaOK, IdeasOK, BriefsOK, IsApproval
<1>9. i \in TableOf("layout_plan")' /\ StatusOf("layout_plan", i)' = new
  BY <1>3, <1>4 DEF TableOf, StatusOf
<1> QED
  BY <1>6, <1>7, <1>8, <1>9

LEMMA UpdateReport ==
    ASSUME Inv, NEW i \in DOMAIN reports, NEW new \in ReportStatuses,
           reports[i].status \notin Decided,
           SetStatus("creative_qa_report", i, new),
           UNCHANGED <<analyses, ideas, approvals, briefs, entries>>
    PROVE  /\ Grows /\ TablesTyped' /\ KeysOK'
           /\ i \in TableOf("creative_qa_report")'
           /\ StatusOf("creative_qa_report", i)' = new
<1> DEFINE row == [reports[i] EXCEPT !.status = new]
<1>1. reports' = [reports EXCEPT ![i] = row] /\ UNCHANGED <<dna, plans>>
  BY DEF SetStatus
<1>2. reports \in Seq(Report) /\ reports[i] \in Report /\ Len(dna) \in Nat
  BY DEF Inv, TypeOK
<1>3. /\ row \in Report /\ row.status = new
      /\ row.plan = reports[i].plan /\ row.dna = reports[i].dna
  BY <1>2 DEF Report
<1>4. /\ reports' \in Seq(Report) /\ DOMAIN reports' = DOMAIN reports
      /\ reports'[i] = row /\ \A k \in DOMAIN reports : k # i => reports'[k] = reports[k]
  <2> HIDE DEF row
  <2> QED
    BY <1>1, <1>2, <1>3, ExceptFacts
<1>5. \A k \in DOMAIN reports :
         /\ reports[k].status \in Decided => reports'[k].status = reports[k].status
         /\ reports'[k].plan = reports[k].plan /\ reports'[k].dna = reports[k].dna
  BY <1>3, <1>4
<1>6. Grows
  BY <1>1, <1>2, <1>4, <1>5 DEF Grows
<1>7. TablesTyped'
  BY <1>1, <1>4 DEF Inv, TypeOK, TablesTyped
<1>8. KeysOK'
  <2>1. ReportsOK'
    BY <1>1, <1>4, <1>5 DEF Inv, KeysOK, ReportsOK, UsedDna
  <2> QED
    BY <1>1, <2>1 DEF Inv, KeysOK, DnaOK, IdeasOK, BriefsOK, PlansOK, IsApproval, UsedDna
<1>9. i \in TableOf("creative_qa_report")' /\ StatusOf("creative_qa_report", i)' = new
  BY <1>3, <1>4 DEF TableOf, StatusOf
<1> QED
  BY <1>6, <1>7, <1>8, <1>9

LEMMA DecideStep ==
    ASSUME Inv, NEW r \in Requests, At(r, "approve") \/ At(r, "reject"),
           NEW allowed, NEW news, Decide(r, allowed, news),
           news \subseteq Column(req[r].kind),
           req[r].kind # "design_dna" => allowed \cap Decided = {}
    PROVE  Inv' /\ Grows
<1>0. PICK kind, i : kind = req[r].kind /\ i = req[r].row
  OBVIOUS
<1>1. kind \in Kinds /\ i \in TableOf(kind) /\ req[r].saw \in Statuses /\ req[r] \in Local
  BY <1>0, LocalFields DEF Inv, LocalOK, ReviewOK, At
<1>2. CASE StatusOf(kind, i) \notin allowed
  BY <1>0, <1>2, RefusedStep, SameTables DEF Decide, Refused
<1>3. CASE StatusOf(kind, i) \in allowed
  <2>1. PICK new \in news :
           /\ SetStatus(kind, i, new)
           /\ Goto(r, [req[r] EXCEPT !.pc = "record", !.new = new])
           /\ UNCHANGED <<analyses, ideas, approvals, briefs, entries>>
    BY <1>0, <1>3 DEF Decide
  <2> DEFINE q == [req[r] EXCEPT !.pc = "record", !.new = new]
  <2>2. new \in Column(kind) /\ new \in Statuses
    BY <1>0, <1>1 DEF Column, Kinds, Statuses
  <2>3. /\ Grows /\ TablesTyped' /\ KeysOK'
        /\ i \in TableOf(kind)' /\ (kind # "design_dna" => StatusOf(kind, i)' = new)
    <3>1. CASE kind = "design_dna"
      BY <1>1, <2>1, <2>2, <3>1, UpdateDna DEF TableOf, Column
    <3>2. CASE kind = "layout_plan"
      BY <1>0, <1>1, <1>3, <2>1, <2>2, <3>2, UpdatePlan DEF TableOf, Column, StatusOf
    <3>3. CASE kind = "creative_qa_report"
      BY <1>0, <1>1, <1>3, <2>1, <2>2, <3>3, UpdateReport DEF TableOf, Column, StatusOf
    <3> QED
      BY <1>1, <3>1, <3>2, <3>3 DEF Kinds
  <2>4. q \in Local
    <3>1. "record" \in PCs
      BY DEF PCs
    <3> QED
      BY <1>1, <2>2, <3>1, LocalUpdates
  <2>5. /\ req'[r].pc = "record" /\ req'[r].new = new /\ req'[r].kind = kind
        /\ req'[r].row = i /\ req'[r].saw = req[r].saw
    <3>1. req'[r] = q
      BY <2>1, SlotOf DEF Goto
    <3> QED
      BY <1>0, <1>1, <2>2, <3>1 DEF Local
  <2>6. LocalOK(r)'
    BY <1>1, <2>2, <2>3, <2>5
       DEF LocalOK, AnalysisOK, IdeaOK, LayoutOK, QaOK, ReviewOK, At, Agreed
  <2>7. requests' \in Nat /\ failures' \in Nat /\ req' = [req EXCEPT ![r] = q]
    BY <2>1 DEF Inv, TypeOK, Goto
  <2>8. EntriesOK'
    BY <2>1, <2>3, EntriesKeep
  <2> QED
    BY <2>3, <2>4, <2>6, <2>7, <2>8, OwnStep
<1> QED
  BY <1>2, <1>3

LEMMA ReviewedStep ==
    ASSUME Inv, NEW r \in Requests, ApproveReviewed(r) \/ RejectReviewed(r)
    PROVE  Inv' /\ Grows
<1>1. CASE ApproveReviewed(r)
  <2>1. At(r, "approve") /\ Decide(r, Approvable(req[r].kind), {"approved"})
    BY <1>1 DEF ApproveReviewed
  <2>2. req[r].kind \in Kinds
    BY <2>1 DEF Inv, LocalOK, ReviewOK, At
  <2>3. {"approved"} \subseteq Column(req[r].kind)
    BY <2>2 DEF Kinds, Column, DnaStatuses, PlanStatuses, ReportStatuses
  <2>4. req[r].kind # "design_dna" => Approvable(req[r].kind) \cap Decided = {}
    BY <2>2 DEF Kinds, Approvable, Decided
  <2> QED
    BY <2>1, <2>3, <2>4, DecideStep
<1>2. CASE RejectReviewed(r)
  <2>1. At(r, "reject") /\ Decide(r, Rejectable(req[r].kind), Rejections(req[r].kind))
    BY <1>2 DEF RejectReviewed
  <2>2. req[r].kind \in Kinds
    BY <2>1 DEF Inv, LocalOK, ReviewOK, At
  <2>3. Rejections(req[r].kind) \subseteq Column(req[r].kind)
    BY <2>2 DEF Kinds, Column, Rejections, DnaStatuses, PlanStatuses, ReportStatuses
  <2>4. req[r].kind # "design_dna" => Rejectable(req[r].kind) \cap Decided = {}
    BY <2>2 DEF Kinds, Rejectable, Decided
  <2> QED
    BY <2>1, <2>3, <2>4, DecideStep
<1> QED
  BY <1>1, <1>2

\* The entry says what the handler wrote, and that is still so when it is recorded.
LEMMA RecordEntryStep ==
    ASSUME Inv, NEW r \in Requests, RecordEntry(r)
    PROVE  Inv'
<1> DEFINE row == [kind |-> req[r].kind, row |-> req[r].row,
                   before |-> req[r].saw, after |-> req[r].new]
<1>1. At(r, "record") /\ Reply(r) /\ UNCHANGED work
  BY DEF RecordEntry
<1>2. CASE UNCHANGED entries
  BY <1>1, <1>2, RefusedStep DEF Refused
<1>3. CASE entries' = Append(entries, row)
  <2>1. /\ req[r].kind \in Kinds /\ req[r].saw \in Statuses /\ req[r].new \in Statuses
        /\ Agreed(req[r].kind, req[r].row, req[r].new)
    BY <1>1 DEF Inv, LocalOK, ReviewOK, At
  <2>2. row \in Entry /\ entries \in Seq(Entry) /\ Len(dna) \in Nat
    BY <2>1, LocalFields DEF Inv, TypeOK, Entry
  <2>3. Agreed(row.kind, row.row, row.after)
    BY <2>1
  <2>4. /\ entries' \in Seq(Entry)
        /\ \A e \in DOMAIN entries' : e \in DOMAIN entries \/ e = Len(entries) + 1
        /\ \A e \in DOMAIN entries : entries'[e] = entries[e]
        /\ entries'[Len(entries) + 1] = row
    <3> HIDE DEF row
    <3> QED
      BY <1>3, <2>2, AppendFacts
  <2>5. Grows
    BY <1>1, <2>2 DEF Grows, work
  <2>6. TablesTyped'
    BY <1>1, <2>4 DEF Inv, TypeOK, TablesTyped, work
  <2>7. KeysOK'
    BY <1>1 DEF Inv, KeysOK, DnaOK, IdeasOK, BriefsOK, PlansOK, ReportsOK,
                IsApproval, UsedDna, work
  <2>8. EntriesOK'
    <3>1. \A e \in DOMAIN entries' :
             Agreed(entries'[e].kind, entries'[e].row, entries'[e].after)
      <4> HIDE DEF row
      <4> QED
        BY <2>3, <2>4 DEF Inv, EntriesOK
    <3> QED
      BY <1>1, <3>1 DEF EntriesOK, Agreed, TableOf, StatusOf, work
  <2>9. requests' \in Nat /\ failures' \in Nat /\ req' = [req EXCEPT ![r] = Idle]
    BY <1>1 DEF Inv, TypeOK, Reply, Goto
  <2> QED
    BY <2>5, <2>6, <2>7, <2>8, <2>9, IdleIsLocal, IdleRelies, OwnStep
<1> QED
  BY <1>2, <1>3 DEF RecordEntry

-----------------------------------------------------------------------------
(***************************************************************************)
(* The theorems                                                            *)
(***************************************************************************)
LEMMA InitInv == Init => Inv
<1> SUFFICES ASSUME Init PROVE Inv
  OBVIOUS
<1>1. PICK s \in Starts :
         /\ analyses = s.analyses /\ ideas = s.ideas /\ approvals = s.approvals
         /\ dna = s.dna /\ briefs = s.briefs /\ plans = s.plans /\ reports = s.reports
  BY DEF Init
<1>2. entries = << >> /\ req = [r \in Requests |-> Idle] /\ requests = 0 /\ failures = 0
  BY DEF Init
<1>3. TypeOK
  BY <1>1, <1>2, IdleIsLocal, StartsAssumption DEF TypeOK
<1>4. KeysOK
  <2>1. DnaOK
    BY <1>1, StartsAssumption DEF DnaOK
  <2>2. IdeasOK
    BY <1>1, StartsAssumption DEF IdeasOK, IsApproval
  <2>3. BriefsOK
    BY <1>1, StartsAssumption DEF BriefsOK, IsApproval
  <2>4. PlansOK
    BY <1>1, StartsAssumption DEF PlansOK, UsedDna
  <2>5. ReportsOK
    BY <1>1, StartsAssumption DEF ReportsOK, UsedDna
  <2> QED
    BY <2>1, <2>2, <2>3, <2>4, <2>5 DEF KeysOK
<1>5. EntriesOK
  BY <1>2 DEF EntriesOK
<1>6. ASSUME NEW r \in Requests PROVE LocalOK(r)
  <2>1. req[r].pc = "idle"
    BY <1>2 DEF Idle
  <2> QED
    BY <2>1 DEF LocalOK, AnalysisOK, IdeaOK, LayoutOK, QaOK, ReviewOK, At
<1> QED
  BY <1>3, <1>4, <1>5, <1>6 DEF Inv

LEMMA StutterInv ==
    ASSUME Inv, UNCHANGED vars
    PROVE  Inv'
<1>1. TypeOK'
  BY DEF Inv, TypeOK, vars, work
<1>2. KeysOK'
  BY DEF Inv, KeysOK, DnaOK, IdeasOK, BriefsOK, PlansOK, ReportsOK, IsApproval, UsedDna,
         vars, work
<1>3. EntriesOK'
  BY DEF Inv, EntriesOK, Agreed, TableOf, StatusOf, vars, work
<1>4. ASSUME NEW r \in Requests PROVE LocalOK(r)'
  <2>1. Grows /\ req'[r] = req[r]
    BY SameTables DEF vars
  <2> QED
    BY <2>1, OthersKeep
<1> QED
  BY <1>1, <1>2, <1>3, <1>4 DEF Inv

LEMMA NextInv ==
    ASSUME Inv, [Next]_vars
    PROVE  Inv'
<1>1. CASE UNCHANGED vars
  BY <1>1, StutterInv
<1>2. ASSUME NEW r \in Requests, Handle(r)
      PROVE  Inv'
  <2>1. CASE StartAnalysis(r) \/ AnalyseReference(r) \/ SynthesiseDna(r) \/ InsertVersion(r)
    BY <2>1, StartAnalysisStep, AnalyseStep, SynthesiseStep, InsertVersionStep
  <2>2. CASE CreateIdea(r) \/ DecideIdea(r) \/ SetApprovalOutcome(r)
    BY <2>2, CreateIdeaStep, DecideIdeaStep, SetApprovalOutcomeStep
  <2>3. CASE StartIdeation(r) \/ ReadIdea(r) \/ ReadBrief(r) \/ StartLayout(r) \/ StartQa(r)
    BY <2>3, GateReads
  <2>4. CASE CreateBrief(r) \/ WriteBrief(r) \/ CreatePlan(r) \/ SaveReport(r)
    BY <2>4, CreateBriefStep, WriteBriefStep, CreatePlanStep, SaveReportStep
  <2>5. CASE ReadLayoutDna(r) \/ AskLayout(r) \/ ReadQaBrief(r) \/ ReadQaDna(r)
    BY <2>5, ContextReads
  <2>6. CASE ReadReviewed(r) \/ ApproveReviewed(r) \/ RejectReviewed(r)
    BY <2>6, ReadReviewedStep, ReviewedStep
  <2>7. CASE RecordEntry(r) \/ Interrupt(r)
    BY <2>7, RecordEntryStep, InterruptStep
  <2> QED
    BY <1>2, <2>1, <2>2, <2>3, <2>4, <2>5, <2>6, <2>7 DEF Handle
<1> QED
  BY <1>1, <1>2 DEF Next

\* The invariant holds, whatever order the statements of the handlers come in and
\* wherever one of them dies.
THEOREM Invariance == Spec => []Inv
<1> QED
  BY InitInv, NextInv, PTL DEF Spec

\* Every variable has its type.
THEOREM PipelineTyped == Spec => []TypeOK
<1>1. Inv => TypeOK
  BY DEF Inv
<1> QED
  BY <1>1, Invariance, PTL

\* DNA versions are numbered 1, 2, ... in the order of their rows, although two analysis
\* runs may compute the same number.
THEOREM VersionsAreInOrder == Spec => []VersionsInOrder
<1>1. Inv => VersionsInOrder
  BY DEF Inv, KeysOK, DnaOK, VersionsInOrder
<1> QED
  BY <1>1, Invariance, PTL

\* A brief names an approval of its own idea, even if the idea is decided again between
\* the gate that read it and the INSERT.
THEOREM BriefsAreApproved == Spec => []BriefsRestOnAnApproval
<1>1. Inv => BriefsRestOnAnApproval
  BY DEF Inv, KeysOK, BriefsOK, IsApproval, BriefsRestOnAnApproval
<1> QED
  BY <1>1, Invariance, PTL

\* Plans and reports used a version that a person had approved, whatever became of it
\* while the model was asked.
THEOREM WorkUsesApprovedDna == Spec => []WorkRestsOnApprovedDna
<1>1. Inv => WorkRestsOnApprovedDna
  BY DEF Inv, KeysOK, PlansOK, ReportsOK, UsedDna, WorkRestsOnApprovedDna
<1> QED
  BY <1>1, Invariance, PTL

\* A report judges a plan that is approved, for ever.
THEOREM ReportsAreAboutApprovedPlans == Spec => []ReportsJudgeApprovedPlans
<1>1. Inv => ReportsJudgeApprovedPlans
  BY DEF Inv, KeysOK, ReportsOK, ReportsJudgeApprovedPlans
<1> QED
  BY <1>1, Invariance, PTL

\* No entry of the audit trail about a final decision contradicts its row, with any
\* number of reviewers racing for it.
THEOREM AuditAlwaysAgrees == Spec => []AuditAgrees
<1>1. Inv => AuditAgrees
  BY DEF Inv, EntriesOK, Agreed, Decided, AuditAgrees
<1> QED
  BY <1>1, Invariance, PTL

-----------------------------------------------------------------------------
(***************************************************************************)
(* VersionsAnalysed.  That every version has its analyses is not inductive *)
(* by itself: a run that has done reference i will insert a version later  *)
(* and other runs may insert theirs in between, so each run under way      *)
(* needs an analysis of its own.  AnalysedInv counts them.                 *)
(***************************************************************************)
\* The runs that have analysed reference i and have not inserted their version.
Holders(i) ==
    {r \in Requests : At(r, "insert_version") \/ (At(r, "analyse") /\ req[r].left < i)}
AnalysedInv ==
    \A i \in 1 .. References :
       IsFiniteSet(Holders(i)) /\ Len(dna) + Cardinality(Holders(i)) <= analyses[i]

\* A step of r that makes no analysis and no version, and after which r is no run, or
\* has analysed no reference yet.
Quiet(r) ==
    /\ \A o \in Requests \ {r} : req'[o] = req[o]
    /\ \/ req'[r].pc \notin {"analyse", "insert_version"}
       \/ req'[r].pc = "analyse" /\ req'[r].left = References
    /\ UNCHANGED analyses /\ Len(dna') = Len(dna)

LEMMA CountTypes ==
    ASSUME Inv
    PROVE  /\ Len(dna) \in Nat /\ References \in Nat
           /\ \A i \in 1 .. References : analyses[i] \in Nat
  BY PipelineAssumption DEF Inv, TypeOK

LEMMA QuietKeeps ==
    ASSUME Inv, AnalysedInv, NEW r \in Requests, Quiet(r)
    PROVE  AnalysedInv'
<1> SUFFICES ASSUME NEW i \in 1 .. References
             PROVE  (IsFiniteSet(Holders(i)) /\ Len(dna) + Cardinality(Holders(i)) <= analyses[i])'
  BY DEF AnalysedInv
<1>1. Holders(i)' \in SUBSET Holders(i)
  <2>1. \A o \in Holders(i)' : o \in Requests /\ o # r
    <3>1. i <= References /\ i \in Nat /\ References \in Nat
      BY CountTypes
    <3> QED
      BY <3>1 DEF Holders, Quiet, At
  <2> QED
    BY <2>1 DEF Holders, Quiet, At
<1>2. IsFiniteSet(Holders(i)) /\ Len(dna) + Cardinality(Holders(i)) <= analyses[i]
  BY DEF AnalysedInv
<1>3. /\ IsFiniteSet(Holders(i)') /\ Cardinality(Holders(i)') <= Cardinality(Holders(i))
      /\ Cardinality(Holders(i)) \in Nat /\ Cardinality(Holders(i)') \in Nat
  BY <1>1, <1>2, FS_Subset, FS_CardinalityType
<1> QED
  BY <1>2, <1>3, CountTypes DEF Quiet

\* What r becomes decides whether its step is quiet.
LEMMA QuietStep ==
    ASSUME Inv, NEW r \in Requests, NEW q, req' = [req EXCEPT ![r] = q],
           q.pc \notin {"analyse", "insert_version"},
           UNCHANGED analyses, Len(dna') = Len(dna)
    PROVE  Quiet(r)
<1>1. req'[r] = q /\ \A o \in Requests \ {r} : req'[o] = req[o]
  BY DEF Inv, TypeOK
<1> QED
  BY <1>1 DEF Quiet

LEMMA ReplyIsQuiet ==
    ASSUME Inv, NEW r \in Requests, Reply(r), UNCHANGED <<analyses, dna>>
    PROVE  Quiet(r)
  BY QuietStep DEF Reply, Goto, Idle

LEMMA NextRowIsQuiet ==
    ASSUME Inv, NEW r \in Requests, NextRow(r), req[r].pc \in {"create_idea", "create_plan"},
           UNCHANGED <<analyses, dna>>
    PROVE  Quiet(r)
<1>1. CASE Reply(r)
  BY <1>1, ReplyIsQuiet
<1>2. CASE ~Reply(r)
  <2> DEFINE q == [req[r] EXCEPT !.left = @ - 1]
  <2>1. req' = [req EXCEPT ![r] = q]
    BY <1>2 DEF NextRow, Goto
  <2>2. q.pc = req[r].pc
    BY LocalFields DEF Local
  <2> QED
    BY <2>1, <2>2, QuietStep
<1> QED
  BY <1>1, <1>2

LEMMA AdmitIsQuiet ==
    ASSUME Inv, NEW r \in Requests, NEW q, Admit(r, q),
           q.pc \notin {"analyse", "insert_version"}, UNCHANGED <<analyses, dna>>
    PROVE  Quiet(r)
  BY QuietStep DEF Admit

LEMMA AdmitsAreQuiet ==
    ASSUME Inv, NEW r \in Requests,
           \/ StartIdeation(r) \/ DecideIdea(r) \/ ReadIdea(r) \/ ReadBrief(r)
           \/ StartLayout(r) \/ StartQa(r) \/ ReadReviewed(r)
    PROVE  Quiet(r)
<1>1. UNCHANGED <<analyses, dna>>
  BY DEF StartIdeation, DecideIdea, ReadIdea, ReadBrief, StartLayout, StartQa, ReadReviewed,
         work
<1>2. CASE StartIdeation(r)
  <2>1. PICK n \in 1 .. MaxIdeas : Admit(r, [Idle EXCEPT !.pc = "create_idea", !.left = n])
    BY <1>2 DEF StartIdeation
  <2> QED
    BY <1>1, <2>1, AdmitIsQuiet DEF Idle
<1>3. CASE DecideIdea(r)
  <2>1. PICK i \in DOMAIN ideas, outcome \in Outcomes :
           Admit(r, [Idle EXCEPT !.pc = "outcome", !.row = i, !.new = outcome,
                                 !.ref = Len(approvals')])
    BY <1>3 DEF DecideIdea
  <2> QED
    BY <1>1, <2>1, AdmitIsQuiet DEF Idle
<1>4. CASE ReadIdea(r)
  <2>1. PICK i \in DOMAIN ideas :
           Admit(r, [Idle EXCEPT !.pc = "create_brief", !.row = i, !.ref = ideas[i].approval])
    BY <1>4 DEF ReadIdea
  <2> QED
    BY <1>1, <2>1, AdmitIsQuiet DEF Idle
<1>5. CASE ReadBrief(r)
  <2>1. PICK k \in DOMAIN briefs, new \in {"approved", "needs_revision", "rejected"} :
           Admit(r, [Idle EXCEPT !.pc = "write_brief", !.row = k, !.new = new,
                                 !.saw = briefs[k].status])
    BY <1>5 DEF ReadBrief
  <2> QED
    BY <1>1, <2>1, AdmitIsQuiet DEF Idle
<1>6. CASE StartLayout(r)
  <2>1. PICK k \in DOMAIN briefs : Admit(r, [Idle EXCEPT !.pc = "layout_dna", !.row = k])
    BY <1>6 DEF StartLayout
  <2> QED
    BY <1>1, <2>1, AdmitIsQuiet DEF Idle
<1>7. CASE StartQa(r)
  <2>1. PICK p \in DOMAIN plans : Admit(r, [Idle EXCEPT !.pc = "qa_brief", !.row = p])
    BY <1>7 DEF StartQa
  <2> QED
    BY <1>1, <2>1, AdmitIsQuiet DEF Idle
<1>8. CASE ReadReviewed(r)
  <2>1. PICK kind \in Kinds, verb \in {"approve", "reject"} :
           \E i \in Reviewable(kind) :
              Admit(r, [Idle EXCEPT !.pc = verb, !.kind = kind, !.row = i,
                                    !.saw = StatusOf(kind, i)])
    BY <1>8 DEF ReadReviewed
  <2>2. PICK i \in Reviewable(kind) :
           Admit(r, [Idle EXCEPT !.pc = verb, !.kind = kind, !.row = i,
                                 !.saw = StatusOf(kind, i)])
    BY <2>1
  <2> QED
    BY <1>1, <2>2, AdmitIsQuiet DEF Idle
<1> QED
  BY <1>2, <1>3, <1>4, <1>5, <1>6, <1>7, <1>8

LEMMA WritesAreQuiet ==
    ASSUME Inv, NEW r \in Requests,
           \/ CreateIdea(r) \/ SetApprovalOutcome(r) \/ CreateBrief(r) \/ WriteBrief(r)
           \/ CreatePlan(r) \/ SaveReport(r) \/ RecordEntry(r) \/ Interrupt(r)
    PROVE  Quiet(r)
<1>1. CASE CreateIdea(r) \/ CreatePlan(r)
  BY <1>1, NextRowIsQuiet DEF CreateIdea, CreatePlan, At
<1>2. CASE SetApprovalOutcome(r) \/ CreateBrief(r) \/ WriteBrief(r)
  BY <1>2, ReplyIsQuiet DEF SetApprovalOutcome, CreateBrief, WriteBrief
<1>3. CASE SaveReport(r) \/ RecordEntry(r)
  BY <1>3, ReplyIsQuiet DEF SaveReport, RecordEntry, Refused, work
<1>4. CASE Interrupt(r)
  BY <1>4, QuietStep DEF Interrupt, Idle, work
<1> QED
  BY <1>1, <1>2, <1>3, <1>4

LEMMA GotoIsQuiet ==
    ASSUME Inv, NEW r \in Requests, NEW q, Goto(r, q),
           q.pc \notin {"analyse", "insert_version"}, UNCHANGED <<analyses, dna>>
    PROVE  Quiet(r)
  BY QuietStep DEF Goto

LEMMA ContextIsQuiet ==
    ASSUME Inv, NEW r \in Requests,
           ReadLayoutDna(r) \/ AskLayout(r) \/ ReadQaBrief(r) \/ ReadQaDna(r)
    PROVE  Quiet(r)
<1>1. req[r] \in Local
  BY LocalFields
<1>2. UNCHANGED <<analyses, dna>>
  BY DEF ReadLayoutDna, AskLayout, ReadQaBrief, ReadQaDna, Refused, work
<1>3. CASE Reply(r)
  BY <1>2, <1>3, ReplyIsQuiet
<1>4. CASE ~Reply(r) /\ ReadLayoutDna(r)
  <2>1. Goto(r, [req[r] EXCEPT !.pc = "layout_ai", !.dna = ApprovedLatest])
    BY <1>4 DEF ReadLayoutDna
  <2>2. [req[r] EXCEPT !.pc = "layout_ai", !.dna = ApprovedLatest].pc = "layout_ai"
    BY <1>1 DEF Local
  <2> QED
    BY <1>2, <2>1, <2>2, GotoIsQuiet
<1>5. CASE ~Reply(r) /\ AskLayout(r)
  <2>1. PICK n : Goto(r, [req[r] EXCEPT !.pc = "create_plan", !.left = n])
    BY <1>5 DEF AskLayout, Refused
  <2>2. [req[r] EXCEPT !.pc = "create_plan", !.left = n].pc = "create_plan"
    BY <1>1 DEF Local
  <2> QED
    BY <1>2, <2>1, <2>2, GotoIsQuiet
<1>6. CASE ~Reply(r) /\ ReadQaBrief(r)
  <2>1. Goto(r, [req[r] EXCEPT !.pc = "qa_dna"])
    BY <1>6 DEF ReadQaBrief
  <2>2. [req[r] EXCEPT !.pc = "qa_dna"].pc = "qa_dna"
    BY <1>1 DEF Local
  <2> QED
    BY <1>2, <2>1, <2>2, GotoIsQuiet
<1>7. CASE ~Reply(r) /\ ReadQaDna(r)
  <2>1. Goto(r, [req[r] EXCEPT !.pc = "qa_ai", !.dna = ApprovedLatest])
    BY <1>7 DEF ReadQaDna
  <2>2. [req[r] EXCEPT !.pc = "qa_ai", !.dna = ApprovedLatest].pc = "qa_ai"
    BY <1>1 DEF Local
  <2> QED
    BY <1>2, <2>1, <2>2, GotoIsQuiet
<1> QED
  BY <1>3, <1>4, <1>5, <1>6, <1>7

LEMMA ReviewIsQuiet ==
    ASSUME Inv, NEW r \in Requests, ApproveReviewed(r) \/ RejectReviewed(r)
    PROVE  Quiet(r)
<1>1. PICK allowed, news : Decide(r, allowed, news)
  BY DEF ApproveReviewed, RejectReviewed
<1>2. CASE Refused(r)
  BY <1>2, ReplyIsQuiet DEF Refused, work
<1>3. CASE ~Refused(r)
  <2>1. PICK new : /\ SetStatus(req[r].kind, req[r].row, new)
                   /\ Goto(r, [req[r] EXCEPT !.pc = "record", !.new = new])
                   /\ UNCHANGED analyses
    BY <1>1, <1>3 DEF Decide
  <2>2. req[r].kind \in Kinds /\ req[r] \in Local
    BY LocalFields DEF ApproveReviewed, RejectReviewed, Inv, LocalOK, ReviewOK, At
  <2>3. Len(dna') = Len(dna)
    <3>1. DOMAIN dna' = DOMAIN dna /\ dna \in Seq(Dna) /\ dna' \in Seq(Dna)
      BY <2>1, <2>2, ReviewedStep DEF SetStatus, Kinds, Inv, TypeOK
    <3> QED
      BY <3>1
  <2>4. [req[r] EXCEPT !.pc = "record", !.new = new].pc = "record"
    BY <2>2 DEF Local
  <2> QED
    BY <2>1, <2>3, <2>4, QuietStep DEF Goto
<1> QED
  BY <1>2, <1>3

\* The step that analyses reference i gives the run the analysis it will account for.
LEMMA AnalyseKeeps ==
    ASSUME Inv, AnalysedInv, NEW r \in Requests, AnalyseReference(r)
    PROVE  AnalysedInv'
<1>1. CASE Refused(r)
  BY <1>1, ReplyIsQuiet, QuietKeeps DEF Refused, work
<1>2. CASE ~Refused(r)
  <2> DEFINE k == req[r].left
  <2>1. /\ req[r].pc = "analyse" /\ k > 0
        /\ req' = [req EXCEPT ![r] = [req[r] EXCEPT !.left = k - 1]]
        /\ analyses' = [analyses EXCEPT ![k] = @ + 1]
        /\ dna' = dna
    BY <1>2 DEF AnalyseReference, At, Goto
  <2>2. k \in 1 .. References /\ req[r] \in Local /\ r \in DOMAIN req
    BY <2>1, PipelineAssumption, LocalFields DEF Inv, TypeOK, LocalOK, AnalysisOK, At
  <2>3. /\ req'[r].pc = "analyse" /\ req'[r].left = k - 1
        /\ \A o \in Requests \ {r} : req'[o] = req[o]
    <3>1. req'[r] = [req[r] EXCEPT !.left = k - 1]
      BY <2>1, <2>2
    <3>2. \A o \in Requests \ {r} : req'[o] = req[o]
      BY <2>1, <2>2 DEF Inv, TypeOK
    <3> QED
      BY <2>1, <2>2, <3>1, <3>2 DEF Local
  <2> SUFFICES ASSUME NEW i \in 1 .. References
               PROVE  (IsFiniteSet(Holders(i)) /\ Len(dna) + Cardinality(Holders(i)) <= analyses[i])'
    BY DEF AnalysedInv
  <2>4. IsFiniteSet(Holders(i)) /\ Len(dna) + Cardinality(Holders(i)) <= analyses[i]
    BY DEF AnalysedInv
  <2>5. Cardinality(Holders(i)) \in Nat
    BY <2>4, FS_CardinalityType
  <2>6. analyses \in [1 .. References -> Nat]
    BY DEF Inv, TypeOK
  <2>7. CASE i = k
    <3>1. Holders(i)' = Holders(i) \cup {r} /\ r \notin Holders(i)
      BY <2>1, <2>2, <2>3, <2>7 DEF Holders, At
    <3>2. IsFiniteSet(Holders(i)') /\ Cardinality(Holders(i)') = Cardinality(Holders(i)) + 1
      BY <2>4, <3>1, FS_AddElement
    <3>3. analyses'[i] = analyses[i] + 1
      BY <2>1, <2>6, <2>7
    <3> QED
      BY <2>1, <2>4, <2>5, <2>6, <3>2, <3>3, CountTypes
  <2>8. CASE i # k
    <3>1. Holders(i)' = Holders(i)
      <4>1. k - 1 < i <=> k < i
        BY <2>2, <2>8
      <4>2. \A o \in Requests : o \in Holders(i)' <=> o \in Holders(i)
        BY <2>1, <2>3, <4>1 DEF Holders, At
      <4> QED
        BY <4>2 DEF Holders
    <3>2. analyses'[i] = analyses[i]
      BY <2>1, <2>6, <2>8
    <3> QED
      BY <2>1, <2>4, <3>1, <3>2
  <2> QED
    BY <2>7, <2>8
<1> QED
  BY <1>1, <1>2

\* From the last analysis to the INSERT the run stays one of the holders.
LEMMA SynthesiseKeeps ==
    ASSUME Inv, AnalysedInv, NEW r \in Requests, SynthesiseDna(r)
    PROVE  AnalysedInv'
<1>1. CASE Refused(r)
  BY <1>1, ReplyIsQuiet, QuietKeeps DEF Refused, work
<1>2. CASE ~Refused(r)
  <2>1. /\ req[r].pc = "analyse" /\ req[r].left = 0
        /\ req' = [req EXCEPT ![r] = [req[r] EXCEPT !.pc = "insert_version",
                                                    !.ref = NextVersion]]
        /\ analyses' = analyses /\ dna' = dna
    BY <1>2 DEF SynthesiseDna, At, Goto, work
  <2>2. req'[r].pc = "insert_version" /\ \A o \in Requests \ {r} : req'[o] = req[o]
    <3>1. req[r] \in Local /\ r \in DOMAIN req
      BY LocalFields DEF Inv, TypeOK
    <3>2. req'[r] = [req[r] EXCEPT !.pc = "insert_version", !.ref = NextVersion]
      BY <2>1, <3>1
    <3>3. \A o \in Requests \ {r} : req'[o] = req[o]
      BY <2>1 DEF Inv, TypeOK
    <3> QED
      BY <3>1, <3>2, <3>3 DEF Local
  <2>3. \A i \in 1 .. References : Holders(i)' = Holders(i)
    <3>1. \A i \in 1 .. References, o \in Requests : o \in Holders(i)' <=> o \in Holders(i)
      BY <2>1, <2>2 DEF Holders, At
    <3> QED
      BY <3>1 DEF Holders
  <2> QED
    BY <2>1, <2>3 DEF AnalysedInv
<1> QED
  BY <1>1, <1>2

\* The INSERT spends the analyses the run held.
LEMMA InsertKeeps ==
    ASSUME Inv, AnalysedInv, NEW r \in Requests, InsertVersion(r)
    PROVE  AnalysedInv'
<1>1. CASE Refused(r)
  BY <1>1, ReplyIsQuiet, QuietKeeps DEF Refused, work
<1>2. CASE ~Refused(r)
  <2> DEFINE new == [version |-> req[r].ref, status |-> "generated", approvedBy |-> FALSE]
  <2>1. /\ req[r].pc = "insert_version" /\ dna' = Append(dna, new)
        /\ req' = [req EXCEPT ![r] = Idle] /\ analyses' = analyses
    BY <1>2 DEF InsertVersion, At, Reply, Goto
  <2>2. Len(dna') = Len(dna) + 1
    BY <2>1 DEF Inv, TypeOK
  <2>3. req'[r].pc = "idle" /\ \A o \in Requests \ {r} : req'[o] = req[o]
    BY <2>1 DEF Inv, TypeOK, Idle
  <2> SUFFICES ASSUME NEW i \in 1 .. References
               PROVE  (IsFiniteSet(Holders(i)) /\ Len(dna) + Cardinality(Holders(i)) <= analyses[i])'
    BY DEF AnalysedInv
  <2>4. IsFiniteSet(Holders(i)) /\ Len(dna) + Cardinality(Holders(i)) <= analyses[i]
    BY DEF AnalysedInv
  <2>5. Holders(i)' = Holders(i) \ {r} /\ r \in Holders(i)
    <3>1. r \in Holders(i) /\ r \notin Holders(i)'
      BY <2>1, <2>3 DEF Holders, At
    <3>2. \A o \in Requests \ {r} : o \in Holders(i)' <=> o \in Holders(i)
      BY <2>3 DEF Holders, At
    <3> QED
      BY <3>1, <3>2 DEF Holders
  <2>6. /\ IsFiniteSet(Holders(i)') /\ Cardinality(Holders(i)') = Cardinality(Holders(i)) - 1
        /\ Cardinality(Holders(i)) \in Nat
    BY <2>4, <2>5, FS_RemoveElement, FS_CardinalityType
  <2> QED
    BY <2>1, <2>2, <2>4, <2>6, CountTypes
<1> QED
  BY <1>1, <1>2

LEMMA AnalysedInit == Init => AnalysedInv
<1> SUFFICES ASSUME Init PROVE AnalysedInv
  OBVIOUS
<1>1. PICK s \in Starts : analyses = s.analyses /\ dna = s.dna
  BY DEF Init
<1>2. \A i \in 1 .. References : Holders(i) = {}
  BY DEF Init, Holders, At, Idle
<1>3. IsFiniteSet({}) /\ Cardinality({}) = 0
  BY FS_EmptySet
<1>4. \A i \in 1 .. References : Len(dna) <= analyses[i]
  BY <1>1, StartsAssumption
<1>5. Len(dna) + 0 = Len(dna)
  BY InitInv DEF Inv, TypeOK
<1> QED
  BY <1>2, <1>3, <1>4, <1>5 DEF AnalysedInv

LEMMA AnalysedStep ==
    ASSUME Inv, AnalysedInv, [Next]_vars
    PROVE  AnalysedInv'
<1>1. CASE UNCHANGED vars
  BY <1>1 DEF AnalysedInv, Holders, At, vars, work
<1>2. ASSUME NEW r \in Requests, Handle(r)
      PROVE  AnalysedInv'
  <2>1. CASE StartAnalysis(r)
    <3>1. req' = [req EXCEPT ![r] = [Idle EXCEPT !.pc = "analyse", !.left = References]]
      BY <2>1 DEF StartAnalysis, Admit
    <3>2. Quiet(r)
      BY <2>1, <3>1 DEF Quiet, StartAnalysis, Idle, Inv, TypeOK, work
    <3> QED
      BY <3>2, QuietKeeps
  <2>2. CASE AnalyseReference(r) \/ SynthesiseDna(r) \/ InsertVersion(r)
    BY <2>2, AnalyseKeeps, SynthesiseKeeps, InsertKeeps
  <2>3. CASE ~(\/ StartAnalysis(r) \/ AnalyseReference(r) \/ SynthesiseDna(r)
               \/ InsertVersion(r))
    <3>1. Quiet(r)
      BY <1>2, <2>3, AdmitsAreQuiet, WritesAreQuiet, ContextIsQuiet, ReviewIsQuiet DEF Handle
    <3> QED
      BY <3>1, QuietKeeps
  <2> QED
    BY <2>1, <2>2, <2>3
<1> QED
  BY <1>1, <1>2 DEF Next

\* However many analysis runs race and wherever they fail, there are at least as many
\* analyses of every reference as there are DNA versions: no version without its
\* analyses.
THEOREM VersionsAreAnalysed == Spec => []VersionsAnalysed
<1>1. Inv /\ AnalysedInv => VersionsAnalysed
  <2> SUFFICES ASSUME Inv, AnalysedInv, NEW i \in 1 .. References
               PROVE  Len(dna) <= analyses[i]
    BY DEF VersionsAnalysed
  <2>1. IsFiniteSet(Holders(i)) /\ Len(dna) + Cardinality(Holders(i)) <= analyses[i]
    BY DEF AnalysedInv
  <2>2. Cardinality(Holders(i)) \in Nat
    BY <2>1, FS_CardinalityType
  <2> QED
    BY <2>1, <2>2, CountTypes
<1> QED
  BY <1>1, InitInv, NextInv, AnalysedInit, AnalysedStep, PTL DEF Spec
=============================================================================
