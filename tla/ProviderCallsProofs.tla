------------------------- MODULE ProviderCallsProofs -------------------------
(***************************************************************************)
(* Proofs about ProviderCalls: however the failures of a call are mixed,   *)
(* the router's attempts are bounded and a hopeless failure is its last    *)
(* one, for every set of tasks, keys, statuses and canvases and any length *)
(* of polling; a call goes to a provider that is able to serve it; and the *)
(* ratio sent for a canvas is the nearest one.                             *)
(*                                                                         *)
(* Which provider SelectProvider returns is of no account for the bounds,  *)
(* so the first invariant types the adapter with some set of values.       *)
(***************************************************************************)
EXTENDS ProviderCalls, FiniteSetTheorems, SequenceTheorems, TLAPS

Hopeless == {"permanent", "auth_error", "provider_unavailable", "schema_validation"}
Shaky == {"timeout", "unknown"}

CallOver(A) == [pc : PCs, round : Nat, attempt : Nat, adapter : A, polls : Nat,
                outcome : Outcomes]
EntryOver(A) == [round : Nat, adapter : A, kind : Kinds \cup {"ok"}]
TypedOver(A) == call \in CallOver(A) /\ log \in Seq(EntryOver(A))

\* The attempts of round call.round that the log holds.
Used == CASE call.pc = "select" -> 0
          [] call.pc \in {"backoff", "done"} -> call.attempt
          [] OTHER -> call.attempt - 1

\* The attempt number counts this round's entries, which are the last ones.
CountOK ==
    /\ call.round \in 1 .. Rounds
    /\ call.attempt \in 1 .. 3
    /\ call.pc = "backoff" => call.attempt <= 2
    /\ Used <= Len(log)
    /\ \A k \in DOMAIN log : /\ log[k].round <= call.round
                             /\ log[k].round = call.round <=> k > Len(log) - Used

\* Entries of one round are at most two places apart.
Near == \A k, n \in DOMAIN log : log[k].round = log[n].round => n <= k + 2

\* A shaky failure after which the round goes on was its first entry.
ShakyFirst ==
    /\ call.pc # "done" /\ Used >= 1 /\ log[Len(log)].kind \in Shaky => Used = 1
    /\ \A n \in DOMAIN log :
          /\ log[n].kind \in Shaky
          /\ n + 1 \in DOMAIN log /\ log[n + 1].round = log[n].round
          => ~(n - 1 \in DOMAIN log /\ log[n - 1].round = log[n].round)

HopelessLast ==
    \A n \in DOMAIN log : log[n].kind \in Hopeless
       => n = Len(log) /\ call.pc = "done" /\ call.outcome = "provider"

Inv == (\E A : TypedOver(A)) /\ CountOK /\ Near /\ ShakyFirst /\ HopelessLast

(***************************************************************************)
(* Kinds of failures                                                       *)
(***************************************************************************)
\* Classification ends in one of the kinds, whatever status and message a failure has.
LEMMA KindsOfFailures ==
    /\ FailureKinds \subseteq Kinds /\ SilentKinds \subseteq Kinds
    /\ Classify(NotConfigured) \in Kinds /\ Classify(TaskTimeout) \in Kinds
    /\ Classify(UnusableResult) \in Kinds
<1>1. \A f : Classify(f) \in Kinds
    <2>1. \A s : ByStatus(s) \in Kinds
        BY DEF ByStatus, Kinds
    <2>2. \A m : ByMessage(m) \in Kinds
        BY DEF ByMessage, Kinds
    <2>. QED BY <2>1, <2>2 DEF Classify, Kinds
<1>. QED BY <1>1 DEF FailureKinds, SilentKinds

\* No policy allows more than two retries; shaky failures have one and hopeless none.
LEMMA Policies ==
    ASSUME NEW kind \in Kinds
    PROVE  /\ MaxRetries(kind) \in 0 .. 2
           /\ kind \in Shaky => MaxRetries(kind) = 1
           /\ kind \in Hopeless => MaxRetries(kind) = 0
BY DEF Kinds, MaxRetries, Shaky, Hopeless

(***************************************************************************)
(* The two ways a call goes on                                             *)
(***************************************************************************)
\* A log over some adapters is one over more adapters.
LEMMA WiderSeq ==
    ASSUME NEW A, NEW B, NEW s \in Seq(EntryOver(A))
    PROVE  s \in Seq(EntryOver(A \cup B))
<1>1. EntryOver(A) \subseteq EntryOver(A \cup B)
    BY DEF EntryOver
<1>. QED BY <1>1, SeqMonotonic

\* A step that writes no entry, stays in its round and keeps the count.
LEMMA QuietStep ==
    ASSUME Inv, UNCHANGED <<log, task>>, NEW A, TypedOver(A), NEW B, call' \in CallOver(B),
           call'.round = call.round, call'.attempt \in 1 .. 3,
           call.pc # "done", call'.pc \notin {"done", "backoff"},
           Used' = Used
    PROVE  Inv'
<1>1. call' \in CallOver(A \cup B) /\ log' \in Seq(EntryOver(A \cup B))
    BY WiderSeq DEF TypedOver, CallOver
<1>2. CountOK'
    BY DEF Inv, CountOK, Rounds
<1>3. Near' /\ ShakyFirst'
    BY DEF Inv, Near, ShakyFirst
<1>4. HopelessLast'
    BY DEF Inv, HopelessLast
<1>. QED BY <1>1, <1>2, <1>3, <1>4 DEF Inv, TypedOver

\* What one more entry does to a log.
LEMMA OneMore ==
    ASSUME NEW S, NEW s \in Seq(S), NEW e \in S
    PROVE  /\ Append(s, e) \in Seq(S)
           /\ Len(Append(s, e)) = Len(s) + 1
           /\ DOMAIN s = 1 .. Len(s) /\ DOMAIN Append(s, e) = 1 .. Len(s) + 1
           /\ \A k \in 1 .. Len(s) : Append(s, e)[k] = s[k]
           /\ Append(s, e)[Len(s) + 1] = e
           /\ Len(s) \in Nat
OBVIOUS

\* The end of an attempt: the router tries again, the service starts another round after
\* an answer, or the call ends.
LEMMA EntryStep ==
    ASSUME Inv, UNCHANGED task, NEW A, TypedOver(A), call' \in CallOver(A),
           NEW kind \in Kinds \cup {"ok"}, Note(kind),
           call.pc \in {"ask", "create", "poll", "fetch"}, call'.attempt = call.attempt,
           \/ /\ call'.pc = "backoff" /\ call'.round = call.round
              /\ kind \in Kinds /\ WillRetry(kind, call.attempt)
           \/ /\ call'.pc = "select" /\ call'.round = call.round + 1
              /\ call.round < Rounds /\ kind = "ok"
           \/ /\ call'.pc = "done" /\ call'.round = call.round
              /\ kind \in Kinds => call'.outcome = "provider"
    PROVE  Inv'
<1>. DEFINE e == [round |-> call.round, adapter |-> call.adapter, kind |-> kind]
            used == call.attempt - 1
<1>1. /\ call.round \in Nat /\ call.attempt \in 1 .. 3 /\ Rounds \in Nat
      /\ Used = used /\ used \in 0 .. 2
    BY DEF Inv, CountOK, TypedOver, CallOver, Used, Rounds
<1>2. e \in EntryOver(A) /\ log' = Append(log, e)
    BY DEF TypedOver, CallOver, EntryOver, Note
<1>3. e.round = call.round /\ e.kind = kind
    OBVIOUS
<1>. HIDE DEF e
<1>4. /\ log' \in Seq(EntryOver(A))
      /\ Len(log') = Len(log) + 1
      /\ DOMAIN log = 1 .. Len(log) /\ DOMAIN log' = 1 .. Len(log) + 1
      /\ \A k \in 1 .. Len(log) : log'[k] = log[k]
      /\ log'[Len(log) + 1] = e
      /\ Len(log) \in Nat
    BY <1>2, OneMore DEF TypedOver
<1>5. \A k \in 1 .. Len(log) : log[k].round \in Nat
    <2>1. \A k \in 1 .. Len(log) : log[k] \in EntryOver(A)
        BY <1>4 DEF TypedOver
    <2>. QED BY <2>1 DEF EntryOver
<1>6. /\ used <= Len(log)
      /\ \A k \in 1 .. Len(log) : /\ log[k].round <= call.round
                                  /\ log[k].round = call.round <=> k > Len(log) - used
    BY <1>1, <1>4 DEF Inv, CountOK
<1>7. kind \in Kinds => /\ MaxRetries(kind) \in 0 .. 2
                        /\ kind \in Shaky => MaxRetries(kind) = 1
                        /\ kind \in Hopeless => MaxRetries(kind) = 0
    BY Policies
<1>8. \/ /\ call'.pc = "backoff" /\ call'.round = call.round /\ Used' = used + 1
         /\ call'.attempt <= 2 /\ kind \notin Hopeless
         /\ kind \in Shaky => used = 0
      \/ /\ call'.pc = "select" /\ call'.round = call.round + 1 /\ Used' = 0
         /\ call'.round \in 1 .. Rounds /\ kind \notin Hopeless /\ kind \notin Shaky
      \/ /\ call'.pc = "done" /\ call'.round = call.round /\ Used' = used + 1
         /\ kind \in Hopeless => call'.outcome = "provider"
    BY <1>1, <1>7 DEF Used, WillRetry, Kinds, Hopeless, Shaky
<1>. HIDE DEF used
<1>9. CountOK'
    <2>1. call'.round \in 1 .. Rounds' /\ call'.attempt \in 1 .. 3
        BY <1>1, <1>8 DEF Inv, CountOK, Rounds
    <2>2. Used' <= Len(log') /\ Len(log') - Used' \in Nat
        BY <1>1, <1>4, <1>6, <1>8
    <2>3. ASSUME NEW k \in 1 .. Len(log)
          PROVE  /\ log'[k].round <= call'.round
                 /\ log'[k].round = call'.round <=> k > Len(log') - Used'
        <3>1. /\ log'[k] = log[k] /\ log[k].round \in Nat /\ log[k].round <= call.round
              /\ log[k].round = call.round <=> k > Len(log) - used
            BY <2>3, <1>4, <1>5, <1>6
        <3>2. CASE call'.round = call.round + 1 /\ Used' = 0
            BY <3>1, <3>2, <2>3, <1>1, <1>4
        <3>3. CASE call'.round = call.round /\ Used' = used + 1
            BY <3>1, <3>3, <2>3, <1>1, <1>4
        <3>. QED BY <3>2, <3>3, <1>8
    <2>4. /\ log'[Len(log')].round <= call'.round
          /\ log'[Len(log')].round = call'.round <=> Len(log') > Len(log') - Used'
        BY <1>1, <1>3, <1>4, <1>8
    <2>5. \A k \in DOMAIN log' : k \in 1 .. Len(log) \/ k = Len(log')
        BY <1>4
    <2>. QED BY <2>1, <2>2, <2>3, <2>4, <2>5, <1>8 DEF CountOK
<1>10. Near'
    BY <1>1, <1>3, <1>4, <1>5, <1>6 DEF Inv, Near
<1>11. ShakyFirst'
    <2>1. call'.pc # "done" /\ Used' >= 1 /\ log'[Len(log')].kind \in Shaky => Used' = 1
        BY <1>1, <1>3, <1>4, <1>8
    <2>2. ASSUME NEW n \in DOMAIN log', log'[n].kind \in Shaky,
                 n + 1 \in DOMAIN log', log'[n + 1].round = log'[n].round
          PROVE  ~(n - 1 \in DOMAIN log' /\ log'[n - 1].round = log'[n].round)
        <3>1. CASE n + 1 \in DOMAIN log
            BY <3>1, <2>2, <1>4 DEF Inv, ShakyFirst
        <3>2. CASE n + 1 = Len(log) + 1
            BY <3>2, <2>2, <1>1, <1>3, <1>4, <1>5, <1>6 DEF Inv, ShakyFirst
        <3>. QED BY <3>1, <3>2, <2>2, <1>4
    <2>. QED BY <2>1, <2>2 DEF ShakyFirst
<1>12. HopelessLast'
    BY <1>1, <1>3, <1>4, <1>8 DEF Inv, HopelessLast
<1>. QED BY <1>4, <1>9, <1>10, <1>11, <1>12 DEF Inv, TypedOver

(***************************************************************************)
(* The actions                                                             *)
(***************************************************************************)
\* A failure of one of the kinds keeps the invariant, at any place of an attempt.
LEMMA FailedStep ==
    ASSUME Inv, UNCHANGED task, NEW kind \in Kinds, Failed(kind),
           call.pc \in {"ask", "create", "poll", "fetch"}
    PROVE  Inv'
<1>1. PICK A : TypedOver(A)
    BY DEF Inv
<1>2. Note(kind)
    BY DEF Failed
<1>3. CASE WillRetry(kind, call.attempt) /\ call' = [call EXCEPT !.pc = "backoff"]
    <2>1. /\ call' \in CallOver(A) /\ call'.pc = "backoff" /\ call'.round = call.round
          /\ call'.attempt = call.attempt
        BY <1>1, <1>3 DEF TypedOver, CallOver, PCs
    <2>. QED BY <2>1, <1>1, <1>2, <1>3, EntryStep
<1>4. CASE call' = [call EXCEPT !.pc = "done", !.outcome = "provider"]
    <2>1. /\ call' \in CallOver(A) /\ call'.pc = "done" /\ call'.round = call.round
          /\ call'.attempt = call.attempt /\ call'.outcome = "provider"
        BY <1>1, <1>4 DEF TypedOver, CallOver, PCs, Outcomes
    <2>. QED BY <2>1, <1>1, <1>2, EntryStep
<1>. QED BY <1>3, <1>4 DEF Failed, Done, Goto

\* So does an answer.
LEMMA AnsweredStep ==
    ASSUME Inv, UNCHANGED task, Answered,
           call.pc \in {"ask", "create", "poll", "fetch"}
    PROVE  Inv'
<1>1. PICK A : TypedOver(A)
    BY DEF Inv
<1>2. Note("ok") /\ "ok" \notin Kinds
    BY DEF Answered, Kinds
<1>3. CASE call.round < Rounds /\ call' = [call EXCEPT !.pc = "select", !.round = @ + 1]
    <2>1. /\ call' \in CallOver(A) /\ call'.pc = "select" /\ call'.round = call.round + 1
          /\ call'.attempt = call.attempt
        <3>1. call \in CallOver(A) /\ call.round + 1 \in Nat
            BY <1>1 DEF TypedOver, CallOver
        <3>. QED BY <3>1, <1>3 DEF CallOver, PCs
    <2>. QED BY <2>1, <1>1, <1>2, <1>3, EntryStep
<1>4. ASSUME NEW outcome \in Outcomes,
             call' = [call EXCEPT !.pc = "done", !.outcome = outcome]
      PROVE  Inv'
    <2>1. /\ call' \in CallOver(A) /\ call'.pc = "done" /\ call'.round = call.round
          /\ call'.attempt = call.attempt
        BY <1>1, <1>4 DEF TypedOver, CallOver, PCs
    <2>. QED BY <2>1, <1>1, <1>2, EntryStep
<1>. QED BY <1>3, <1>4 DEF Answered, Done, Goto, Outcomes

\* The initial state satisfies the invariant.
LEMMA InitInv ==
    ASSUME Init
    PROVE  Inv
<1>1. TypedOver({"none"})
    BY DEF Init, TypedOver, CallOver, PCs, Outcomes
<1>2. DOMAIN log = {} /\ Len(log) = 0 /\ Used = 0
    BY DEF Init, Used
<1>3. CountOK
    BY <1>2 DEF Init, CountOK, Rounds
<1>4. Near /\ ShakyFirst /\ HopelessLast
    BY <1>2 DEF Near, ShakyFirst, HopelessLast
<1>. QED BY <1>1, <1>3, <1>4 DEF Inv

\* Every step keeps it.
LEMMA NextInv ==
    ASSUME Inv, [Next]_vars
    PROVE  Inv'
<1>1. PICK A : TypedOver(A)
    BY DEF Inv
<1>2. /\ call \in CallOver(A) /\ call.attempt \in 1 .. 3 /\ call.attempt + 1 \in Nat
      /\ call.polls + 1 \in Nat
    BY <1>1 DEF Inv, CountOK, TypedOver, CallOver
<1>3. CASE Select
    <2>. DEFINE B == A \cup {SelectProvider}
    <2>1. UNCHANGED <<log, task>>
        BY <1>3 DEF Select, setting
    <2>2. /\ call' \in CallOver(B) /\ call'.round = call.round /\ call'.attempt = 1
          /\ call'.pc \in {"ask", "create"}
        BY <1>2, <1>3 DEF Select, Goto, Begin, CallOver, PCs
    <2>3. call.pc = "select" /\ Used = 0 /\ Used' = 0
        BY <2>2, <1>3 DEF Select, At, Used
    <2>. QED BY <2>1, <2>2, <2>3, <1>1, QuietStep
<1>4. CASE Ask
    <2>1. UNCHANGED task /\ call.pc = "ask"
        BY <1>4 DEF Ask, setting, At
    <2>2. Answered \/ \E kind \in Kinds : Failed(kind)
        BY <1>4, KindsOfFailures DEF Ask
    <2>. QED BY <2>1, <2>2, AnsweredStep, FailedStep
<1>5. CASE Resume
    <2>1. UNCHANGED <<log, task>> /\ call.pc = "backoff" /\ call.attempt <= 2
        BY <1>5 DEF Resume, setting, At, Inv, CountOK
    <2>2. /\ call' \in CallOver(A) /\ call'.round = call.round
          /\ call'.attempt = call.attempt + 1 /\ call'.pc \in {"ask", "create"}
        BY <1>2, <1>5 DEF Resume, Goto, Begin, CallOver, PCs
    <2>3. Used = call.attempt /\ Used' = call.attempt
        BY <2>1, <2>2, <1>2 DEF Used
    <2>4. call'.attempt \in 1 .. 3
        BY <2>1, <2>2, <1>2
    <2>. QED BY <2>1, <2>2, <2>3, <2>4, <1>1, QuietStep
<1>6. CASE CreateTask
    <2>1. UNCHANGED task /\ call.pc = "create"
        BY <1>6 DEF CreateTask, setting, At
    <2>2. CASE call' = [call EXCEPT !.pc = "poll", !.polls = 0] /\ UNCHANGED log
        <3>1. /\ call' \in CallOver(A) /\ call'.round = call.round
              /\ call'.attempt = call.attempt /\ call'.pc = "poll"
            BY <2>2, <1>2 DEF CallOver, PCs
        <3>2. Used' = Used
            BY <3>1, <2>1 DEF Used
        <3>. QED BY <3>1, <3>2, <2>1, <2>2, <1>1, <1>2, QuietStep
    <2>3. CASE \E kind \in Kinds : Failed(kind)
        BY <2>1, <2>3, FailedStep
    <2>. QED BY <2>2, <2>3, <1>6, KindsOfFailures DEF CreateTask, Goto
<1>7. CASE Sleep
    <2>1. UNCHANGED <<log, task>> /\ call.pc = "poll"
        BY <1>7 DEF Sleep, setting, At
    <2>2. /\ call' \in CallOver(A) /\ call'.round = call.round
          /\ call'.attempt = call.attempt /\ call'.pc = "fetch"
        BY <1>2, <1>7 DEF Sleep, Goto, CallOver, PCs
    <2>3. Used' = Used
        BY <2>1, <2>2 DEF Used
    <2>. QED BY <2>1, <2>2, <2>3, <1>1, <1>2, QuietStep
<1>8. CASE GiveUpPolling
    <2>1. UNCHANGED task /\ call.pc = "poll" /\ \E kind \in Kinds : Failed(kind)
        BY <1>8, KindsOfFailures DEF GiveUpPolling, setting, At
    <2>. QED BY <2>1, FailedStep
<1>9. CASE FetchRecord
    <2>1. UNCHANGED task /\ call.pc = "fetch"
        BY <1>9 DEF FetchRecord, setting, At
    <2>2. CASE KeepPolling /\ UNCHANGED log
        <3>1. /\ call' \in CallOver(A) /\ call'.round = call.round
              /\ call'.attempt = call.attempt /\ call'.pc = "poll"
            BY <2>2, <1>2 DEF KeepPolling, Goto, CallOver, PCs
        <3>2. Used' = Used
            BY <3>1, <2>1 DEF Used
        <3>. QED BY <3>1, <3>2, <2>1, <2>2, <1>1, <1>2, QuietStep
    <2>3. CASE Answered \/ \E kind \in Kinds : Failed(kind)
        BY <2>1, <2>3, AnsweredStep, FailedStep
    <2>. QED BY <2>2, <2>3, <1>9, KindsOfFailures DEF FetchRecord
<1>10. CASE UNCHANGED vars
    <2>1. UNCHANGED <<call, log, task>>
        BY <1>10 DEF vars, setting
    <2>2. call' \in CallOver(A) /\ log' \in Seq(EntryOver(A)) /\ Used' = Used
        BY <2>1, <1>1 DEF TypedOver, Used
    <2>3. CountOK' /\ Near' /\ ShakyFirst' /\ HopelessLast'
        BY <2>1, <2>2 DEF Inv, CountOK, Rounds, Near, ShakyFirst, HopelessLast
    <2>. QED BY <2>2, <2>3 DEF Inv, TypedOver
<1>. QED BY <1>3, <1>4, <1>5, <1>6, <1>7, <1>8, <1>9, <1>10 DEF Next

\* The invariant holds in every reachable state.
THEOREM CallsInvariant == Spec => []Inv
<1>. QED BY InitInv, NextInv, PTL DEF Spec

(***************************************************************************)
(* What it gives                                                           *)
(***************************************************************************)
\* A round makes at most three attempts, whatever failures are mixed, a call at most two
\* rounds, and a timeout or unknown error is retried only as the first failure of its
\* round: the one count retriesUsed of executeWithClassifiedRetry bounds all policies.
THEOREM CallsAreBounded == Spec => []AttemptsBounded
<1>1. ASSUME Inv PROVE AttemptsBounded
    <2>1. PICK A : TypedOver(A)
        BY <1>1 DEF Inv
    <2>2. DOMAIN log = 1 .. Len(log) /\ Len(log) \in Nat
        BY <2>1 DEF TypedOver
    <2>3. SUFFICES ASSUME NEW n \in DOMAIN log
                   PROVE  /\ Cardinality(InRound(n)) <= 3
                          /\ log[n].round <= Rounds
                          /\ (log[n].kind \in {"timeout", "unknown"} /\ n + 1 \in InRound(n))
                                => n - 1 \notin InRound(n)
        BY DEF AttemptsBounded
    <2>4. log[n].round <= Rounds
        <3>1. log[n] \in EntryOver(A)
            BY <2>1, <2>2, <2>3 DEF TypedOver
        <3>2. log[n].round \in Nat /\ Rounds \in Nat
            BY <3>1 DEF EntryOver, Rounds
        <3>. QED BY <3>2, <1>1 DEF Inv, CountOK
    <2>5. (log[n].kind \in {"timeout", "unknown"} /\ n + 1 \in InRound(n))
             => n - 1 \notin InRound(n)
        BY <1>1 DEF Inv, ShakyFirst, InRound, Shaky
    <2>6. Cardinality(InRound(n)) <= 3
        <3>1. InRound(n) \subseteq 1 .. Len(log) /\ n \in InRound(n)
            BY <2>2 DEF InRound
        <3>2. PICK m \in InRound(n) : \A k \in InRound(n) : m <= k
            <4>1. InRound(n) \subseteq n - 2 .. n + 2
                BY <2>2, <1>1, <3>1 DEF Inv, Near, InRound
            <4>. QED BY <4>1, <3>1, <2>2
        <3>3. InRound(n) \subseteq m .. m + 2
            BY <3>1, <3>2, <2>2, <1>1 DEF Inv, Near, InRound
        <3>4. IsFiniteSet(m .. m + 2) /\ Cardinality(m .. m + 2) = 3
            <4>1. m \in Int /\ m + 2 \in Int /\ m + 2 - m + 1 = 3 /\ m <= m + 2
                BY <3>1, <2>2
            <4>. QED BY <4>1, FS_Interval
        <3>5. Cardinality(InRound(n)) <= Cardinality(m .. m + 2)
            BY <3>3, <3>4, FS_Subset
        <3>. QED BY <3>4, <3>5
    <2>. QED BY <2>4, <2>5, <2>6
<1>. QED BY <1>1, CallsInvariant, PTL

\* A failure of a kind without retries is the last attempt of the call, whose outcome is
\* the provider's error: neither the router nor callAiForJson's schema retry asks again.
THEOREM HopelessFailuresEnd == Spec => []HopelessEnds
<1>1. ASSUME Inv PROVE HopelessEnds
    BY <1>1 DEF Inv, HopelessLast, HopelessEnds, Hopeless
<1>. QED BY <1>1, CallsInvariant, PTL

(***************************************************************************)
(* Ratios                                                                  *)
(***************************************************************************)
Positive == Nat \ {0}
Ratios == Positive \X Positive

\* A ratio at least as wide as one that is wider than a third is wider than the third.
LEMMA WiderTransitive ==
    ASSUME NEW a \in Ratios, NEW b \in Ratios, NEW c \in Ratios,
           ~Wider(b, a), Wider(b, c)
    PROVE  Wider(a, c)
<1>. DEFINE p == a[1]
            q == a[2]
            r == b[1]
            s == b[2]
            t == c[1]
            u == c[2]
<1>1. p \in Positive /\ q \in Positive /\ r \in Positive /\ s \in Positive
      /\ t \in Positive /\ u \in Positive
    BY DEF Ratios
<1>2. r * q <= s * p /\ r * u > s * t
    BY <1>1 DEF Wider, Positive
<1>. HIDE DEF p, q, r, s, t, u
<1>3. p * u > q * t
    <2>1. (r * q) * u <= (s * p) * u
        BY <1>1, <1>2 DEF Positive
    <2>2. (r * u) * q > (s * t) * q
        BY <1>1, <1>2 DEF Positive
    <2>3. s * (p * u) > s * (q * t)
        BY <1>1, <2>1, <2>2 DEF Positive
    <2>. QED BY <1>1, <2>3 DEF Positive
<1>. QED BY <1>3 DEF Wider, p, q, t, u

\* The n-th of the first m distances is the one the loop over them ends with.
Nearer(d, n, k) == IF k < n THEN Wider(d[k], d[n]) ELSE ~Wider(d[n], d[k])
LoopEnds(d, m, n) == n \in 1 .. m /\ \A k \in 1 .. m : Nearer(d, n, k)
LoopDone(d, m) == \E n \in 1 .. m : LoopEnds(d, m, n)

\* One more round of the loop.
LEMMA LoopRound ==
    ASSUME NEW m \in Nat, NEW d, \A k \in 1 .. m + 1 : d[k] \in Ratios, LoopDone(d, m)
    PROVE  LoopDone(d, m + 1)
<1>1. PICK n \in 1 .. m : LoopEnds(d, m, n)
    BY DEF LoopDone
<1>2. /\ n \in 1 .. m + 1 /\ m + 1 \in 1 .. m + 1 /\ n < m + 1
      /\ \A k \in 1 .. m + 1 : k \in 1 .. m \/ k = m + 1
      /\ \A k \in 1 .. m : k < m + 1
    OBVIOUS
<1>3. CASE ~Wider(d[n], d[m + 1])
    <2>1. Nearer(d, n, m + 1)
        BY <1>2, <1>3 DEF Nearer
    <2>. QED BY <1>1, <1>2, <2>1 DEF LoopEnds, LoopDone
<1>4. CASE Wider(d[n], d[m + 1])
    <2>1. ASSUME NEW k \in 1 .. m
          PROVE  Nearer(d, m + 1, k)
        <3>1. ~Wider(d[n], d[k])
            <4>1. CASE k < n
                <5>1. Wider(d[k], d[n]) /\ d[k] \in Ratios /\ d[n] \in Ratios
                    BY <4>1, <1>1, <1>2 DEF LoopEnds, Nearer
                <5>. QED BY <5>1 DEF Wider, Ratios, Positive
            <4>2. CASE ~(k < n)
                BY <4>2, <1>1 DEF LoopEnds, Nearer
            <4>. QED BY <4>1, <4>2
        <3>2. Wider(d[k], d[m + 1])
            BY <3>1, <1>2, <1>4, WiderTransitive
        <3>. QED BY <3>2, <1>2 DEF Nearer
    <2>2. Nearer(d, m + 1, m + 1)
        <3>1. d[m + 1] \in Ratios
            BY <1>2
        <3>2. ~Wider(d[m + 1], d[m + 1])
            BY <3>1 DEF Wider, Ratios, Positive
        <3>. QED BY <3>2 DEF Nearer
    <2>. QED BY <1>2, <2>1, <2>2 DEF LoopEnds, LoopDone
<1>. QED BY <1>3, <1>4

\* The loop over ten distances ends with one of them.
LEMMA LoopOfTen ==
    ASSUME NEW d, \A k \in 1 .. 10 : d[k] \in Ratios
    PROVE  LoopDone(d, 10)
<1>1. LoopDone(d, 1)
    <2>1. d[1] \in Ratios
        OBVIOUS
    <2>2. Nearer(d, 1, 1)
        BY <2>1 DEF Nearer, Wider, Ratios, Positive
    <2>. QED BY <2>2 DEF LoopDone, LoopEnds
<1>2. ASSUME NEW m \in 1 .. 9, LoopDone(d, m)
      PROVE  LoopDone(d, m + 1)
    <2>1. \A k \in 1 .. m + 1 : d[k] \in Ratios
        OBVIOUS
    <2>. QED BY <1>2, <2>1, LoopRound
<1>3. LoopDone(d, 5)
    <2>1. LoopDone(d, 2)
        BY <1>1, <1>2
    <2>2. LoopDone(d, 3)
        BY <2>1, <1>2
    <2>3. LoopDone(d, 4)
        BY <2>2, <1>2
    <2>. QED BY <2>3, <1>2
<1>4. LoopDone(d, 8)
    <2>1. LoopDone(d, 6)
        BY <1>3, <1>2
    <2>2. LoopDone(d, 7)
        BY <2>1, <1>2
    <2>. QED BY <2>2, <1>2
<1>5. LoopDone(d, 9)
    BY <1>4, <1>2
<1>. QED BY <1>5, <1>2

\* There are ten supported ratios, each in a form of its own.
LEMMA SupportedRatios ==
    /\ DOMAIN Supported = 1 .. 10
    /\ \A k \in 1 .. 10 : Supported[k] \in Ratios
    /\ \A k, n \in 1 .. 10 : Same(Supported[k], Supported[n]) => Supported[k] = Supported[n]
<1>1. DOMAIN Supported = 1 .. 10
    BY DEF Supported
<1>2. \A k \in 1 .. 10 : Supported[k] \in Ratios
    BY DEF Supported, Ratios, Positive
<1>3. ASSUME NEW k \in 1 .. 10, NEW n \in 1 .. 10, Same(Supported[k], Supported[n])
      PROVE  Supported[k] = Supported[n]
    <2>1. k \in {1, 2, 3, 4, 5, 6, 7, 8, 9, 10} /\ n \in {1, 2, 3, 4, 5, 6, 7, 8, 9, 10}
        OBVIOUS
    <2>. QED BY <1>3, <2>1 DEF Supported, Same
<1>. QED BY <1>1, <1>2, <1>3

\* Nearest is the ratio the loop ends with: none of the others is nearer.
LEMMA NearestIsNearest ==
    ASSUME NEW size \in Ratios
    PROVE  /\ Nearest(size) \in 1 .. 10
           /\ \A k \in 1 .. 10 : ~Wider(Distance(size, Supported[Nearest(size)]),
                                        Distance(size, Supported[k]))
<1>. DEFINE d == [k \in 1 .. 10 |-> Distance(size, Supported[k])]
<1>1. \A k \in 1 .. 10 : d[k] = Distance(size, Supported[k])
    OBVIOUS
<1>2. ASSUME NEW r \in Ratios PROVE Distance(size, r) \in Ratios
    <2>1. \A x, y \in Positive : x * y \in Positive
        BY DEF Positive
    <2>. QED BY <1>2, <2>1 DEF Distance, Ratios
<1>3. \A k \in 1 .. 10 : d[k] \in Ratios
    BY <1>2, SupportedRatios
<1>. HIDE DEF d
<1>4. LoopDone(d, 10)
    BY <1>3, LoopOfTen
<1>5. PICK m \in 1 .. 10 : \A k \in 1 .. 10 : Nearer(d, m, k)
    BY <1>4 DEF LoopDone, LoopEnds
<1>. DEFINE P(n) == \A k \in DOMAIN Supported :
                       LET mine == Distance(size, Supported[n])
                           other == Distance(size, Supported[k])
                       IN  IF k < n THEN Wider(other, mine) ELSE ~Wider(mine, other)
<1>6. m \in DOMAIN Supported /\ P(m)
    BY <1>1, <1>5, SupportedRatios DEF Nearer
<1>7. Nearest(size) = CHOOSE n \in DOMAIN Supported : P(n)
    BY DEF Nearest
<1>. HIDE DEF P
<1>8. Nearest(size) \in DOMAIN Supported /\ P(Nearest(size))
    BY <1>6, <1>7
<1>9. ASSUME NEW n \in 1 .. 10, P(n), NEW k \in 1 .. 10
      PROVE  ~Wider(Distance(size, Supported[n]), Distance(size, Supported[k]))
    <2>. DEFINE mine == Distance(size, Supported[n])
                other == Distance(size, Supported[k])
    <2>1. IF k < n THEN Wider(other, mine) ELSE ~Wider(mine, other)
        BY <1>9, SupportedRatios DEF P
    <2>2. mine \in Ratios /\ other \in Ratios
        BY <1>2, SupportedRatios
    <2>. HIDE DEF mine, other
    <2>3. Wider(other, mine) => ~Wider(mine, other)
        BY <2>2 DEF Wider, Ratios, Positive
    <2>4. ~Wider(mine, other)
        BY <2>1, <2>3
    <2>. QED BY <2>4 DEF mine, other
<1>. QED BY <1>8, <1>9, SupportedRatios

\* What NormalizeAspectRatio makes of a canvas: all that RatioNearest says of a ratio sent.
LEMMA SentIsNearest ==
    ASSUME NEW size \in Ratios, NEW sent, sent = NormalizeAspectRatio(size)
    PROVE  /\ \E k \in DOMAIN Supported : sent = Supported[k]
           /\ \A k \in DOMAIN Supported :
                 LET r == Supported[k]
                     square == <<size[1] * size[1], size[2] * size[2]>>
                     MeanSquare(x) == <<sent[1] * x[1], sent[2] * x[2]>>
                 IN  /\ Same(r, size) => sent = r
                     /\ Wider(size, r) => ~Wider(r, sent)
                     /\ Wider(r, size) => ~Wider(sent, r)
                     /\ Wider(r, size) /\ Wider(size, sent) => ~Wider(square, MeanSquare(r))
                     /\ Wider(size, r) /\ Wider(sent, size) => ~Wider(MeanSquare(r), square)
<1>1. PICK n \in 1 .. 10 :
         /\ sent = Supported[n]
         /\ \A k \in 1 .. 10 : ~Wider(Distance(size, Supported[n]), Distance(size, Supported[k]))
    <2>1. ~(size[1] = 0 \/ size[2] = 0)
        BY DEF Ratios, Positive
    <2>. QED BY <2>1, NearestIsNearest DEF NormalizeAspectRatio
<1>2. ASSUME NEW k \in 1 .. 10
      PROVE  LET r == Supported[k]
                 square == <<size[1] * size[1], size[2] * size[2]>>
                 MeanSquare(x) == <<sent[1] * x[1], sent[2] * x[2]>>
             IN  /\ Same(r, size) => sent = r
                 /\ Wider(size, r) => ~Wider(r, sent)
                 /\ Wider(r, size) => ~Wider(sent, r)
                 /\ Wider(r, size) /\ Wider(size, sent) => ~Wider(square, MeanSquare(r))
                 /\ Wider(size, r) /\ Wider(sent, size) => ~Wider(MeanSquare(r), square)
    <2>. DEFINE r == Supported[k]
                w == size[1]
                h == size[2]
                p == r[1]
                q == r[2]
                s == sent[1]
                t == sent[2]
    <2>1. r \in Ratios /\ sent \in Ratios
        BY <1>1, SupportedRatios
    <2>2. /\ w \in Positive /\ h \in Positive /\ p \in Positive /\ q \in Positive
          /\ s \in Positive /\ t \in Positive
        BY <2>1 DEF Ratios
    <2>3. ~Wider(Distance(size, sent), Distance(size, r))
        BY <1>1
    <2>4. /\ w * t \in Nat /\ h * s \in Nat /\ w * q \in Nat /\ h * p \in Nat
        BY <2>2 DEF Positive
    <2>5. Wider(size, r) <=> w * q > h * p
        BY DEF Wider
    <2>6. Wider(size, sent) <=> w * t > h * s
        BY DEF Wider
    <2>7. Wider(r, size) <=> h * p > w * q
        BY <2>2 DEF Wider, Positive
    <2>8. Wider(sent, size) <=> h * s > w * t
        BY <2>2 DEF Wider, Positive
    <2>9. Distance(size, sent) = IF w * t > h * s THEN <<w * t, h * s>> ELSE <<h * s, w * t>>
        BY <2>2 DEF Distance, Wider, Positive
    <2>10. Distance(size, r) = IF w * q > h * p THEN <<w * q, h * p>> ELSE <<h * p, w * q>>
        BY <2>2 DEF Distance, Wider, Positive
    <2>11. /\ w * t > h * s /\ w * q > h * p => (w * t) * (h * p) <= (h * s) * (w * q)
           /\ w * t > h * s /\ ~(w * q > h * p) => (w * t) * (w * q) <= (h * s) * (h * p)
           /\ ~(w * t > h * s) /\ w * q > h * p => (h * s) * (h * p) <= (w * t) * (w * q)
           /\ ~(w * t > h * s) /\ ~(w * q > h * p) => (h * s) * (w * q) <= (w * t) * (h * p)
        <3>. DEFINE a == w * t
                    b == h * s
                    c == w * q
                    e == h * p
        <3>1. a \in Nat /\ b \in Nat /\ c \in Nat /\ e \in Nat
            BY <2>4
        <3>2. /\ Distance(size, sent) = IF a > b THEN <<a, b>> ELSE <<b, a>>
              /\ Distance(size, r) = IF c > e THEN <<c, e>> ELSE <<e, c>>
            BY <2>9, <2>10
        <3>. HIDE DEF a, b, c, e, r
        <3>3. /\ a > b /\ c > e => a * e <= b * c
              /\ a > b /\ ~(c > e) => a * c <= b * e
              /\ ~(a > b) /\ c > e => b * e <= a * c
              /\ ~(a > b) /\ ~(c > e) => b * c <= a * e
            BY <2>3, <3>1, <3>2 DEF Wider
        <3>. QED BY <3>3 DEF a, b, c, e
    <2>12. Same(r, size) <=> h * p = w * q
        BY <2>2 DEF Same, Positive
    <2>13. Same(r, sent) <=> p * t = q * s
        BY DEF Same
    <2>14. Wider(r, sent) <=> p * t > q * s
        BY DEF Wider
    <2>15. Wider(sent, r) <=> q * s > p * t
        BY <2>2 DEF Wider, Positive
    <2>16. Wider(<<w * w, h * h>>, <<s * p, t * q>>) <=> (w * w) * (t * q) > (h * h) * (s * p)
        BY DEF Wider
    <2>17. Wider(<<s * p, t * q>>, <<w * w, h * h>>) <=> (s * p) * (h * h) > (t * q) * (w * w)
        BY DEF Wider
    <2>18. Same(r, sent) => r = sent
        BY <1>1, SupportedRatios
    <2>. HIDE DEF w, h, p, q, s, t
    <2>19. h * p = w * q => p * t = q * s
        <3>. SUFFICES ASSUME h * p = w * q PROVE p * t = q * s
            OBVIOUS
        <3>1. w * t = h * s
            <4>. DEFINE c == w * q
            <4>1. c \in Positive /\ (w * t) * c <= (h * s) * c /\ (h * s) * c <= (w * t) * c
                <5>1. c \in Positive
                    BY <2>2 DEF Positive
                <5>2. CASE w * t > h * s
                    <6>1. (w * t) * c <= (h * s) * c
                        BY <2>4, <2>11, <5>2
                    <6>2. (w * t) * c > (h * s) * c
                        <7>. HIDE DEF c
                        <7>1. \A x, y \in Nat : x > y => x * c > y * c
                            BY <5>1 DEF Positive
                        <7>. QED BY <2>4, <5>2, <7>1
                    <6>3. (w * t) * c \in Nat /\ (h * s) * c \in Nat
                        BY <2>4, <5>1 DEF Positive
                    <6>. HIDE DEF c
                    <6>. QED BY <6>1, <6>2, <6>3
                <5>3. CASE ~(w * t > h * s)
                    <6>1. (h * s) * c <= (w * t) * c
                        BY <2>4, <2>11, <5>3
                    <6>2. w * t <= h * s
                        BY <2>4, <5>3
                    <6>. HIDE DEF c
                    <6>3. \A x, y \in Nat : x <= y => x * c <= y * c
                        BY <5>1 DEF Positive
                    <6>. QED BY <2>4, <5>1, <6>1, <6>2, <6>3
                <5>. QED BY <5>2, <5>3
            <4>. HIDE DEF c
            <4>2. \A x, y \in Nat : x * c <= y * c /\ y * c <= x * c => x = y
                BY <4>1 DEF Positive
            <4>. QED BY <2>4, <4>1, <4>2
        <3>2. (w * h) * (p * t) = (w * h) * (q * s)
            <4>1. (h * p) * (w * t) = (w * q) * (h * s)
                BY <3>1
            <4>. QED BY <2>2, <4>1 DEF Positive
        <3>3. w * h \in Positive /\ p * t \in Nat /\ q * s \in Nat
            BY <2>2 DEF Positive
        <3>. QED BY <3>2, <3>3 DEF Positive
    <2>20. /\ (w * h) * (p * t) <= (w * h) * (q * s) => p * t <= q * s
           /\ (w * h) * (q * s) <= (w * h) * (p * t) => q * s <= p * t
        <3>1. w * h \in Positive /\ p * t \in Nat /\ q * s \in Nat
            BY <2>2 DEF Positive
        <3>2. \A c \in Positive : \A x, y \in Nat : c * x <= c * y => x <= y
            BY DEF Positive
        <3>. QED BY <3>1, <3>2
    <2>21. w * q > h * p => ~(p * t > q * s)
        <3>. SUFFICES ASSUME w * q > h * p, p * t > q * s PROVE FALSE
            OBVIOUS
        <3>1. w * t > h * s
            <4>1. ~Wider(r, size) /\ Wider(size, r) /\ Wider(r, sent)
                BY <2>4, <2>5, <2>7, <2>14
            <4>2. ~Wider(r, size) /\ Wider(r, sent) => Wider(size, sent)
                BY <2>1, WiderTransitive
            <4>. QED BY <4>1, <4>2, <2>6
        <3>2. (w * t) * (h * p) <= (h * s) * (w * q)
            BY <3>1, <2>11
        <3>3. (w * h) * (p * t) <= (w * h) * (q * s)
            BY <3>2, <2>2 DEF Positive
        <3>4. p * t \in Nat /\ q * s \in Nat
            BY <2>2 DEF Positive
        <3>. QED BY <3>3, <3>4, <2>20
    <2>22. h * p > w * q => ~(q * s > p * t)
        <3>. SUFFICES ASSUME h * p > w * q, q * s > p * t PROVE FALSE
            OBVIOUS
        <3>1. ~(w * t > h * s)
            <4>1. Wider(r, size) /\ Wider(sent, r)
                BY <2>7, <2>15
            <4>2. ~Wider(r, sent)
                BY <4>1, <2>1 DEF Wider, Ratios, Positive
            <4>3. ~Wider(r, sent) /\ Wider(r, size) => Wider(sent, size)
                BY <2>1, WiderTransitive
            <4>4. h * s > w * t
                BY <4>1, <4>2, <4>3, <2>8
            <4>. QED BY <4>4, <2>4
        <3>2. (h * s) * (w * q) <= (w * t) * (h * p)
            <4>1. ~(w * q > h * p)
                BY <2>4
            <4>. QED BY <3>1, <4>1, <2>11
        <3>3. (w * h) * (q * s) <= (w * h) * (p * t)
            BY <3>2, <2>2 DEF Positive
        <3>4. p * t \in Nat /\ q * s \in Nat
            BY <2>2 DEF Positive
        <3>. QED BY <3>3, <3>4, <2>20
    <2>23. h * p > w * q /\ w * t > h * s => ~((w * w) * (t * q) > (h * h) * (s * p))
        <3>. SUFFICES ASSUME h * p > w * q, w * t > h * s
                      PROVE  ~((w * w) * (t * q) > (h * h) * (s * p))
            OBVIOUS
        <3>1. (w * t) * (w * q) <= (h * s) * (h * p)
            BY <2>4, <2>11
        <3>2. (w * t) * (w * q) = (w * w) * (t * q) /\ (h * s) * (h * p) = (h * h) * (s * p)
            BY <2>2 DEF Positive
        <3>3. (w * w) * (t * q) \in Nat /\ (h * h) * (s * p) \in Nat
            BY <2>2 DEF Positive
        <3>. QED BY <3>1, <3>2, <3>3
    <2>24. w * q > h * p /\ h * s > w * t => ~((s * p) * (h * h) > (t * q) * (w * w))
        <3>. SUFFICES ASSUME w * q > h * p, h * s > w * t
                      PROVE  ~((s * p) * (h * h) > (t * q) * (w * w))
            OBVIOUS
        <3>1. (h * s) * (h * p) <= (w * t) * (w * q)
            BY <2>4, <2>11
        <3>2. (w * t) * (w * q) = (t * q) * (w * w) /\ (h * s) * (h * p) = (s * p) * (h * h)
            BY <2>2 DEF Positive
        <3>3. (t * q) * (w * w) \in Nat /\ (s * p) * (h * h) \in Nat
            BY <2>2 DEF Positive
        <3>. QED BY <3>1, <3>2, <3>3
    <2>25. /\ Same(r, size) => sent = r
           /\ Wider(size, r) => ~Wider(r, sent)
           /\ Wider(r, size) => ~Wider(sent, r)
           /\ Wider(r, size) /\ Wider(size, sent)
                 => ~Wider(<<w * w, h * h>>, <<s * p, t * q>>)
           /\ Wider(size, r) /\ Wider(sent, size)
                 => ~Wider(<<s * p, t * q>>, <<w * w, h * h>>)
        BY <2>5, <2>6, <2>7, <2>8, <2>12, <2>13, <2>14, <2>15, <2>16, <2>17, <2>18,
           <2>19, <2>21, <2>22, <2>23, <2>24
    <2>. QED BY <2>25 DEF w, h, p, q, s, t
<1>. QED BY <1>1, <1>2, SupportedRatios

(***************************************************************************)
(* Routing                                                                 *)
(***************************************************************************)
\* What the request and the configuration are, and stay.
Setting ==
    /\ {"openai", "claude"} \subseteq keys /\ keys \subseteq Keyed
    /\ default \in {"openai", "claude", "fake"}
    /\ task \in TaskTypes
    /\ canvas \in IF task = "image_generation" THEN Canvases ELSE {Omitted}

\* The first of some places is one of them.
LEMMA FirstIsOne ==
    ASSUME NEW places \in SUBSET (1 .. 4), places # {}
    PROVE  First(places) \in places /\ \A m \in places : First(places) <= m
<1>1. ASSUME NEW n \in 1 .. 4, n \in places, \A m \in places : n <= m
      PROVE  \E k \in places : \A m \in places : k <= m
    BY <1>1
<1>2. \E k \in places : \A m \in places : k <= m
    <2>1. CASE 1 \in places
        BY <2>1, <1>1
    <2>2. CASE 1 \notin places /\ 2 \in places
        BY <2>2, <1>1
    <2>3. CASE 1 \notin places /\ 2 \notin places /\ 3 \in places
        BY <2>3, <1>1
    <2>4. CASE 1 \notin places /\ 2 \notin places /\ 3 \notin places /\ 4 \in places
        BY <2>4, <1>1
    <2>5. PICK k \in 1 .. 4 : k \in places
        OBVIOUS
    <2>6. k = 1 \/ k = 2 \/ k = 3 \/ k = 4
        BY <2>5
    <2>. QED BY <2>1, <2>2, <2>3, <2>4, <2>5, <2>6
<1>. QED BY <1>2 DEF First

\* Every chain has at most four providers and a candidate.
LEMMA Chains ==
    ASSUME NEW t \in TaskTypes
    PROVE  /\ DOMAIN Chain(t) \subseteq 1 .. 4
           /\ \A n \in DOMAIN Chain(t) : Chain(t)[n] \in Providers
           /\ Candidates(t) \subseteq DOMAIN Chain(t)
           /\ 1 \in Candidates(t) \/ 2 \in Candidates(t)
           /\ t # "image_generation" => \A n \in DOMAIN Chain(t) : Chain(t)[n] # "kie-ai"
           /\ t = "image_generation" => Chain(t) = <<"fake", "openai", "kie-ai">>
<1>1. \/ t = "style_analysis" /\ Chain(t) = <<"fake", "openai", "gemini", "claude">>
      \/ t = "layout_generation" /\ Chain(t) = <<"fake", "openai", "claude">>
      \/ t = "image_generation" /\ Chain(t) = <<"fake", "openai", "kie-ai">>
      \/ /\ t \in {"design_dna_synthesis", "content_ideation", "creative_qa"}
         /\ Chain(t) = <<"fake", "openai", "claude", "gemini">>
    BY DEF TaskTypes, Chain
<1>2. /\ DOMAIN Chain(t) \subseteq 1 .. 4 /\ 1 \in DOMAIN Chain(t)
      /\ Chain(t)[1] = "fake"
      /\ \A n \in DOMAIN Chain(t) : Chain(t)[n] \in Providers
    BY <1>1 DEF Providers, Keyed
<1>3. t # "image_generation" => \A n \in DOMAIN Chain(t) : Chain(t)[n] # "kie-ai"
    BY <1>1
<1>4. RequiredCapabilities(t) \subseteq Capabilities("fake")
    BY DEF RequiredCapabilities, Capabilities, TaskTypes
<1>5. 1 \in Candidates(t)
    BY <1>2, <1>4 DEF Candidates
<1>. QED BY <1>1, <1>2, <1>3, <1>5 DEF Candidates

\* The provider selected for a request, and only an image goes to Kie AI.
LEMMA Selected ==
    ASSUME Setting
    PROVE  /\ SelectProvider \in Providers
           /\ SelectProvider = "kie-ai" => task = "image_generation"
<1>1. CASE \E p \in Requested : IsAvailable(p)
    BY <1>1 DEF SelectProvider, Setting, Providers, Keyed
<1>2. CASE ~\E p \in Requested : IsAvailable(p)
    <2>. DEFINE usable == {n \in Candidates(task) : IsAvailable(Chain(task)[n])}
                places == IF usable = {} THEN Candidates(task) ELSE usable
    <2>1. places \in SUBSET (1 .. 4) /\ places # {} /\ places \subseteq DOMAIN Chain(task)
        BY Chains DEF Setting
    <2>2. SelectProvider = Chain(task)[First(places)]
        BY <1>2 DEF SelectProvider
    <2>. HIDE DEF places
    <2>3. First(places) \in DOMAIN Chain(task)
        BY <2>1, FirstIsOne
    <2>. QED BY <2>2, <2>3, Chains DEF Setting
<1>. QED BY <1>1, <1>2

\* A call that requests no available provider gets one that is able, if there is one.
LEMMA SelectedIsAble ==
    ASSUME Setting, ~\E p \in Requested : IsAvailable(p),
           NEW n \in DOMAIN Chain(task), Able(Chain(task)[n])
    PROVE  Able(SelectProvider)
<1>1. task = "image_generation"
    <2>1. IsAvailable(default)
        BY DEF IsAvailable, Setting
    <2>. QED BY <2>1 DEF Requested
<1>. DEFINE chain == <<"fake", "openai", "kie-ai">>
            usable == {m \in Candidates(task) : IsAvailable(chain[m])}
<1>2. Chain(task) = chain /\ DOMAIN chain = 1 .. 3
    BY <1>1, Chains DEF Setting
<1>3. ASSUME NEW m \in Candidates(task)
      PROVE  /\ m \in 1 .. 3 /\ chain[m] \notin Placeholders
             /\ RequiredCapabilities(task) \subseteq Capabilities(chain[m])
    BY <1>2 DEF Candidates, Placeholders
<1>4. n \in usable
    BY <1>2 DEF Able, Candidates
<1>5. usable \in SUBSET (1 .. 4)
    BY <1>3
<1>6. First(usable) \in usable
    BY <1>4, <1>5, FirstIsOne
<1>7. SelectProvider = chain[First(usable)]
    BY <1>2, <1>4 DEF SelectProvider
<1>. QED BY <1>3, <1>6, <1>7 DEF Able

(***************************************************************************)
(* Types and tasks                                                         *)
(***************************************************************************)
\* Kie AI has tasks only of image requests, and all have the one ratio of the canvas.
RouteInv ==
    /\ Setting
    /\ call \in Call /\ tasks \in Seq(Nat \X Nat) /\ log \in Seq(Attempt)
    /\ call.adapter = SelectProvider \/ (call.adapter = "none" /\ call.pc = "select")
    /\ call.pc \in {"create", "poll", "fetch"} => call.adapter = "kie-ai"
    /\ tasks # << >> => task = "image_generation"
    /\ \A n \in DOMAIN tasks : tasks[n] = NormalizeAspectRatio(canvas)

\* A step of the call itself leaves the setting, and with it the choice of the provider.
LEMMA SettingStays ==
    ASSUME Setting, UNCHANGED setting
    PROVE  Setting' /\ SelectProvider' = SelectProvider
<1>1. UNCHANGED <<keys, default, task, canvas>>
    BY DEF setting
<1>2. Setting'
    BY <1>1 DEF Setting
<1>3. \A p : IsAvailable(p)' <=> IsAvailable(p)
    BY <1>1 DEF IsAvailable
<1>. QED BY <1>1, <1>2 DEF SelectProvider, Requested, IsAvailable, Candidates

\* Entries of the log are typed wherever an attempt ends.
LEMMA NoteTyped ==
    ASSUME RouteInv, NEW kind \in Kinds \cup {"ok"}, Note(kind), call.pc # "select"
    PROVE  log' \in Seq(Attempt)
<1>. DEFINE e == [round |-> call.round, adapter |-> call.adapter, kind |-> kind]
<1>1. e \in Attempt
    BY Selected DEF RouteInv, Call, Attempt
<1>2. log' = Append(log, e)
    BY DEF Note
<1>. HIDE DEF e
<1>. QED BY <1>1, <1>2, OneMore DEF RouteInv

\* The end of an attempt leads to a place where no attempt is under way.
LEMMA EndTyped ==
    ASSUME RouteInv, call.pc \in {"ask", "create", "poll", "fetch"},
           Answered \/ \E kind \in Kinds : Failed(kind)
    PROVE  /\ log' \in Seq(Attempt) /\ call' \in Call
           /\ call'.adapter = call.adapter
           /\ call'.pc \in {"select", "backoff", "done"}
<1>1. call \in Call /\ call.round + 1 \in Nat
    BY DEF RouteInv, Call
<1>2. CASE Answered
    <2>1. log' \in Seq(Attempt)
        BY <1>2, NoteTyped DEF Answered
    <2>. QED BY <1>1, <1>2, <2>1 DEF Answered, Done, Goto, Call, PCs, Outcomes
<1>3. ASSUME NEW kind \in Kinds, Failed(kind)
      PROVE  /\ log' \in Seq(Attempt) /\ call' \in Call
             /\ call'.adapter = call.adapter
             /\ call'.pc \in {"select", "backoff", "done"}
    <2>1. log' \in Seq(Attempt)
        BY <1>3, NoteTyped DEF Failed
    <2>. QED BY <1>1, <1>3, <2>1 DEF Failed, Done, Goto, Call, PCs, Outcomes
<1>. QED BY <1>2, <1>3

\* Making a task, or not.
LEMMA TasksTyped ==
    ASSUME RouteInv, UNCHANGED setting,
           \/ UNCHANGED tasks
           \/ tasks' = NewTask /\ call.adapter = "kie-ai" /\ call.pc # "select"
    PROVE  /\ tasks' \in Seq(Nat \X Nat)
           /\ tasks' # << >> => task' = "image_generation"
           /\ \A n \in DOMAIN tasks' : tasks'[n] = NormalizeAspectRatio(canvas')
<1>1. UNCHANGED <<task, canvas>>
    BY DEF setting
<1>2. CASE UNCHANGED tasks
    BY <1>1, <1>2 DEF RouteInv
<1>3. CASE tasks' = NewTask /\ call.adapter = "kie-ai" /\ call.pc # "select"
    <2>. DEFINE e == NormalizeAspectRatio(canvas)
    <2>1. task = "image_generation"
        BY <1>3, Selected DEF RouteInv
    <2>2. canvas \in Ratios
        BY <2>1, ProviderAssumption DEF RouteInv, Setting, Ratios, Positive
    <2>3. PICK k \in DOMAIN Supported : e = Supported[k]
        BY <2>2, SentIsNearest
    <2>4. e \in Nat \X Nat
        BY <2>3, SupportedRatios DEF Ratios, Positive
    <2>5. tasks' = Append(tasks, e) /\ tasks \in Seq(Nat \X Nat)
        BY <1>3 DEF NewTask, RouteInv
    <2>6. NormalizeAspectRatio(canvas') = e
        BY <1>1
    <2>. HIDE DEF e
    <2>7. /\ tasks' \in Seq(Nat \X Nat)
          /\ DOMAIN tasks = 1 .. Len(tasks) /\ DOMAIN tasks' = 1 .. Len(tasks) + 1
          /\ \A n \in 1 .. Len(tasks) : tasks'[n] = tasks[n]
          /\ tasks'[Len(tasks) + 1] = e /\ Len(tasks) \in Nat
        BY <2>4, <2>5, OneMore
    <2>8. \A n \in DOMAIN tasks : tasks[n] = e
        BY DEF RouteInv, e
    <2>9. ASSUME NEW n \in DOMAIN tasks' PROVE tasks'[n] = NormalizeAspectRatio(canvas')
        <3>1. n \in 1 .. Len(tasks) \/ n = Len(tasks) + 1
            BY <2>7
        <3>. QED BY <3>1, <2>6, <2>7, <2>8
    <2>. QED BY <1>1, <2>1, <2>7, <2>9
<1>. QED BY <1>2, <1>3

LEMMA RouteStep ==
    ASSUME RouteInv, [Next]_vars
    PROVE  RouteInv'
<1>1. call \in Call /\ Setting
    BY DEF RouteInv
<1>2. /\ UNCHANGED setting
      /\ \/ UNCHANGED tasks
         \/ tasks' = NewTask /\ call.adapter = "kie-ai" /\ call.pc # "select"
    BY DEF RouteInv, At, Next, vars, Select, Ask, Resume, CreateTask, Sleep, GiveUpPolling,
           FetchRecord
<1>3. Setting' /\ SelectProvider' = SelectProvider
    BY <1>1, <1>2, SettingStays
<1>4. /\ tasks' \in Seq(Nat \X Nat)
      /\ tasks' # << >> => task' = "image_generation"
      /\ \A n \in DOMAIN tasks' : tasks'[n] = NormalizeAspectRatio(canvas')
    BY <1>2, TasksTyped
<1>5. /\ log' \in Seq(Attempt) /\ call' \in Call
      /\ call'.adapter = SelectProvider \/ (call'.adapter = "none" /\ call'.pc = "select")
      /\ call'.pc \in {"create", "poll", "fetch"} => call'.adapter = "kie-ai"
    <2>1. CASE /\ call.pc \in {"ask", "create", "poll", "fetch"}
               /\ (Answered \/ \E kind \in Kinds : Failed(kind))
        BY <2>1, EndTyped DEF RouteInv
    <2>2. CASE Select
        <3>1. call' = [call EXCEPT !.adapter = SelectProvider, !.attempt = 1,
                                   !.pc = Begin(SelectProvider)] /\ UNCHANGED log
            BY <2>2 DEF Select, Goto
        <3>2. /\ SelectProvider \in Providers /\ Begin(SelectProvider) \in {"ask", "create"}
              /\ Begin(SelectProvider) = "create" => SelectProvider = "kie-ai"
            BY <1>1, Selected DEF Begin
        <3>3. call' \in Call
            BY <1>1, <3>1, <3>2 DEF Call, PCs
        <3>4. call'.adapter = SelectProvider /\ call'.pc = Begin(SelectProvider)
            BY <1>1, <3>1 DEF Call
        <3>. QED BY <3>1, <3>2, <3>3, <3>4 DEF RouteInv
    <2>3. CASE Resume
        <3>1. /\ call' = [call EXCEPT !.pc = Begin(call.adapter), !.attempt = @ + 1]
              /\ UNCHANGED log /\ call.pc = "backoff" /\ call.attempt + 1 \in Nat
            BY <1>1, <2>3 DEF Resume, Goto, At, Call
        <3>2. /\ Begin(call.adapter) \in {"ask", "create"}
              /\ Begin(call.adapter) = "create" => call.adapter = "kie-ai"
            BY DEF Begin
        <3>. QED BY <1>1, <3>1, <3>2 DEF RouteInv, Call, PCs
    <2>4. CASE /\ call.pc = "create" /\ UNCHANGED log
               /\ call' = [call EXCEPT !.pc = "poll", !.polls = 0]
        BY <1>1, <2>4 DEF RouteInv, Call, PCs
    <2>5. CASE Sleep
        BY <1>1, <2>5 DEF Sleep, Goto, At, RouteInv, Call, PCs
    <2>6. CASE call.pc = "fetch" /\ KeepPolling /\ UNCHANGED log
        <3>1. call' = [call EXCEPT !.pc = "poll", !.polls = @ + 1] /\ call.polls + 1 \in Nat
            BY <1>1, <2>6 DEF KeepPolling, Goto, Call
        <3>. QED BY <1>1, <2>6, <3>1 DEF RouteInv, Call, PCs
    <2>7. CASE UNCHANGED <<call, log>>
        BY <2>7 DEF RouteInv
    <2>8. CASE Ask
        BY <2>1, <2>8, KindsOfFailures DEF Ask, At
    <2>9. CASE CreateTask
        BY <2>1, <2>4, <2>9, KindsOfFailures DEF CreateTask, At, Goto
    <2>10. CASE GiveUpPolling
        BY <2>1, <2>10, KindsOfFailures DEF GiveUpPolling, At
    <2>11. CASE FetchRecord
        BY <2>1, <2>6, <2>11, KindsOfFailures DEF FetchRecord, At
    <2>. QED BY <2>2, <2>3, <2>5, <2>7, <2>8, <2>9, <2>10, <2>11 DEF Next, vars
<1>. QED BY <1>3, <1>4, <1>5 DEF RouteInv

\* In every reachable state the adapter is the one SelectProvider chooses, only Kie AI
\* makes tasks, and each of them has the ratio that normalizeAspectRatio gives the canvas.
THEOREM RouteInvariant == Spec => []RouteInv
<1>1. ASSUME Init PROVE RouteInv
    <2>1. Setting
        BY <1>1, ProviderAssumption DEF Init, Setting
    <2>2. call \in Call /\ tasks \in Seq(Nat \X Nat) /\ log \in Seq(Attempt)
        BY <1>1 DEF Init, Call, PCs, Outcomes
    <2>. QED BY <1>1, <2>1, <2>2 DEF Init, RouteInv
<1>. QED BY <1>1, RouteStep, PTL DEF Spec

\* Every variable has its type; in particular a provider is always selected, and a
\* nearest supported ratio always found.
THEOREM CallsAreTyped == Spec => []TypeOK
<1>1. ASSUME RouteInv PROVE TypeOK
    <2>1. canvas \in Nat \X Nat
        BY <1>1, ProviderAssumption DEF RouteInv, Setting, Omitted
    <2>. QED BY <1>1, <2>1 DEF RouteInv, Setting, TypeOK, Providers, Keyed
<1>. QED BY <1>1, RouteInvariant, PTL

\* No key that happens to be set stands between a call and the provider that is able to
\* serve it: selectProvider skips what is unable or unavailable.
THEOREM CallsReachTheAble == Spec => []RoutedToAble
<1>1. ASSUME RouteInv PROVE RoutedToAble
    BY <1>1, SelectedIsAble DEF RouteInv, RoutedToAble
<1>. QED BY <1>1, RouteInvariant, PTL

\* Whatever the canvas, the ratio that normalizeAspectRatio sends is the nearest one.
THEOREM RatiosAreNearest == Spec => []RatioNearest
<1>1. ASSUME RouteInv PROVE RatioNearest
    <2>1. SUFFICES ASSUME NEW n \in DOMAIN tasks
                   PROVE  canvas \in Ratios /\ tasks[n] = NormalizeAspectRatio(canvas)
        BY SentIsNearest DEF RatioNearest
    <2>2. task = "image_generation"
        BY <1>1, <2>1 DEF RouteInv
    <2>. QED BY <1>1, <2>1, <2>2, ProviderAssumption DEF RouteInv, Setting, Ratios, Positive
<1>. QED BY <1>1, RouteInvariant, PTL
=============================================================================
