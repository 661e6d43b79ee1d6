---------------------------- MODULE ProviderCalls ----------------------------
(***************************************************************************)
(* One call of a model, as a service makes it: callAiForJson or            *)
(* runContentIdeation asks ModelRouter.complete, which selects a provider  *)
(* and retries by the kind of each failure; Kie AI runs every image as a   *)
(* task that the adapter creates and then polls.                           *)
(*                                                                         *)
(* A failure is the HTTP status it carries, on the response or in its      *)
(* text, and the set of message patterns that match it.  Times are left    *)
(* out: a budget may be used up after any round of polling.                *)
(***************************************************************************)
EXTENDS Naturals, Sequences, FiniteSets

CONSTANTS
    Tasks,      \* the task types that are tried
    KeySets,    \* the sets of providers whose keys are set that are tried
    Statuses,   \* HTTP statuses of failures
    Canvases,   \* canvas sizes of layout plans, pairs of width and height
    MaxPolls    \* rounds of polling that fit in KIE_AI_TIMEOUT_MS

TaskTypes == {"style_analysis", "design_dna_synthesis", "content_ideation",
              "layout_generation", "creative_qa", "image_generation"}

Keyed == {"openai", "claude", "gemini", "kie-ai", "higgsfield"}
Providers == Keyed \cup {"fake"}

\* env.ts refuses to start without the keys of OpenAI and Claude; a canvas is positive.
ASSUME ProviderAssumption ==
    /\ Tasks \subseteq TaskTypes
    /\ \A K \in KeySets : {"openai", "claude"} \subseteq K /\ K \subseteq Keyed
    /\ Statuses \subseteq 100 .. 599
    /\ Canvases \subseteq (Nat \ {0}) \X (Nat \ {0})
    /\ MaxPolls \in Nat

VARIABLES
    keys,       \* the providers whose keys are set
    default,    \* AI_DEFAULT_PROVIDER
    task,       \* taskType of the request
    canvas,     \* metadata.aspectRatio of an image request
    call,       \* control point and local variables of the call
    tasks,      \* the tasks made at Kie AI: the aspect ratio of each
    log         \* every attempt that ended: its round, adapter and kind

setting == <<keys, default, task, canvas>>
vars == <<setting, call, tasks, log>>

(***************************************************************************)
(* Providers and routing: router.ts, providers/*.ts                        *)
(***************************************************************************)
Capabilities(p) ==
    CASE p \in {"openai", "gemini"} -> {"text", "vision"}
      [] p = "claude" -> {"text"}
      [] p = "kie-ai" -> {"image_generation", "video_generation"}
      [] p = "higgsfield" -> {"video_generation"}
      [] p = "fake" -> {"text", "vision", "image_generation"}

\* Adapters whose complete() reports that they are not active yet.
Placeholders == {"gemini", "higgsfield"}

IsAvailable(p) == IF p = "fake" THEN default = "fake" ELSE p \in keys

\* DEFAULT_ROUTING: the primary provider and its fallbacks.
Chain(t) ==
    CASE t = "style_analysis" -> <<"fake", "openai", "gemini", "claude">>
      [] t = "layout_generation" -> <<"fake", "openai", "claude">>
      [] t = "image_generation" -> <<"fake", "openai", "kie-ai">>
      [] OTHER -> <<"fake", "openai", "claude", "gemini">>
RequiredCapabilities(t) ==
    CASE t = "style_analysis" -> {"vision"}
      [] t = "creative_qa" -> {"text", "vision"}
      [] t = "image_generation" -> {"image_generation"}
      [] OTHER -> {"text"}

\* Image requests name no provider, all others the default one.
Requested == IF task = "image_generation" THEN {} ELSE {default}

\* Mutant: what an adapter can do is not looked at.
MutantCandidates(t) == DOMAIN Chain(t)
\* The places of the chain whose adapters are able to do the task.
Candidates(t) ==
    {n \in DOMAIN Chain(t) : RequiredCapabilities(t) \subseteq Capabilities(Chain(t)[n])}
First(places) == CHOOSE n \in places : \A m \in places : n <= m
\* selectProvider: the requested provider if it is available, whatever it can do; else
\* the first available candidate; else the first one, which says what is missing.
SelectProvider ==
    LET usable == {n \in Candidates(task) : IsAvailable(Chain(task)[n])}
    IN  IF \E p \in Requested : IsAvailable(p) THEN default
        ELSE Chain(task)[First(IF usable = {} THEN Candidates(task) ELSE usable)]

(***************************************************************************)
(* Failures: provider-errors.ts                                            *)
(***************************************************************************)
Patterns == {"unavailable", "timeout", "rate_limit", "network", "schema"}
NoStatus == 0
Failure == [status : Statuses \cup {NoStatus}, message : SUBSET Patterns]

Kinds == {"transient", "permanent", "rate_limit", "timeout", "schema_validation",
          "auth_error", "provider_unavailable", "unknown"}

ByStatus(s) ==
    CASE s = 429 -> "rate_limit"
      [] s = 408 -> "timeout"
      [] s \in {401, 403} -> "auth_error"
      [] s >= 500 -> "transient"
      [] s >= 400 /\ s < 500 /\ s \notin {401, 403, 408, 429} -> "permanent"
      [] OTHER -> "unknown"
\* Mutant: a text without any known pattern has no kind.
MutantByMessage(m) ==
    IF "timeout" \in m THEN "timeout" ELSE IF m = {} THEN "none" ELSE "transient"
ByMessage(m) ==
    CASE "timeout" \in m -> "timeout"
      [] "rate_limit" \in m /\ "timeout" \notin m -> "rate_limit"
      [] "network" \in m /\ m \cap {"timeout", "rate_limit"} = {} -> "transient"
      [] m = {"schema"} -> "schema_validation"
      [] OTHER -> "unknown"
\* classifyProviderError
Classify(f) ==
    IF "unavailable" \in f.message THEN "provider_unavailable"
    ELSE IF f.status # NoStatus THEN ByStatus(f.status) ELSE ByMessage(f.message)

\* The kinds of all failures, and of those that come without any reply.
FailureKinds == {Classify(f) : f \in Failure}
SilentKinds == {Classify(f) : f \in [status : {NoStatus}, message : SUBSET Patterns]}

\* DEFAULT_RETRY_POLICIES; kinds that are not retryable have none.
MaxRetries(kind) ==
    CASE kind \in {"transient", "rate_limit"} -> 2
      [] kind \in {"timeout", "unknown"} -> 1
      [] OTHER -> 0
\* Mutant: the attempt under way is not counted.
MutantWillRetry(kind, attempt) == MaxRetries(kind) > 0 /\ attempt <= MaxRetries(kind) + 1
\* retriesUsed counts the failures of all kinds.
WillRetry(kind, attempt) == attempt - 1 < MaxRetries(kind)

(***************************************************************************)
(* Aspect ratios: aspect-ratio.ts                                          *)
(***************************************************************************)
\* KIE_SUPPORTED_ASPECT_RATIOS, in its order.
Supported == <<<<1, 1>>, <<2, 3>>, <<3, 2>>, <<3, 4>>, <<4, 3>>, <<4, 5>>, <<5, 4>>,
               <<9, 16>>, <<16, 9>>, <<21, 9>>>>
Omitted == <<0, 0>>
Same(a, b) == a[1] * b[2] = a[2] * b[1]
Wider(a, b) == a[1] * b[2] > a[2] * b[1]

\* exp of the log distance of two ratios, as a fraction.
Distance(a, b) == IF Wider(a, b) THEN <<a[1] * b[2], a[2] * b[1]>>
                                 ELSE <<a[2] * b[1], a[1] * b[2]>>
\* Mutant: the difference of the ratios instead of their quotient.
MutantNearest(size) ==
    LET Difference(r) == IF Wider(size, r)
                         THEN <<size[1] * r[2] - size[2] * r[1], r[2]>>
                         ELSE <<size[2] * r[1] - size[1] * r[2], r[2]>>
    IN  CHOOSE n \in DOMAIN Supported : \A k \in DOMAIN Supported :
           ~Wider(Difference(Supported[n]), Difference(Supported[k]))
\* The loop over the supported ratios keeps the first one that is strictly nearer.
Nearest(size) ==
    CHOOSE n \in DOMAIN Supported : \A k \in DOMAIN Supported :
       LET mine == Distance(size, Supported[n])
           other == Distance(size, Supported[k])
       IN  IF k < n THEN Wider(other, mine) ELSE ~Wider(mine, other)
\* normalizeAspectRatio: exact if supported, else snapped; unusable sizes are omitted.
NormalizeAspectRatio(size) ==
    IF size[1] = 0 \/ size[2] = 0 THEN Omitted ELSE Supported[Nearest(size)]

(***************************************************************************)
(* The call                                                                *)
(***************************************************************************)
PCs == {"select", "ask", "create", "poll", "fetch", "backoff", "done"}
Outcomes == {"none", "usable", "unusable", "provider"}
\* round: calls of ModelRouter.complete; attempt: of the adapter, in this round.
\* polls: rounds of polling in this attempt.
Call == [pc : PCs, round : Nat, attempt : Nat, adapter : Providers \cup {"none"},
         polls : Nat, outcome : Outcomes]
Attempt == [round : Nat, adapter : Providers, kind : Kinds \cup {"ok"}]

Init ==
    /\ keys \in KeySets
    /\ default \in {"openai", "claude", "fake"}
    /\ task \in Tasks
    /\ canvas \in IF task = "image_generation" THEN Canvases ELSE {Omitted}
    /\ call = [pc |-> "select", round |-> 1, attempt |-> 1, adapter |-> "none",
               polls |-> 0, outcome |-> "none"]
    /\ tasks = << >>
    /\ log = << >>

\* DEFAULT_SCHEMA_RETRIES is 1; content ideation does not use callAiForJson.
Rounds == IF task = "content_ideation" THEN 1 ELSE 2

At(label) == call.pc = label
Goto(local) == call' = local
Done(outcome) == Goto([call EXCEPT !.pc = "done", !.outcome = outcome])
Note(kind) == log' = Append(log, [round |-> call.round, adapter |-> call.adapter,
                                  kind |-> kind])
\* Where an attempt of this adapter begins; an adapter that lacks its key says so.
Begin(p) == IF p = "kie-ai" /\ IsAvailable(p) THEN "create" ELSE "ask"

Select ==
    /\ At("select")
    /\ Goto([call EXCEPT !.adapter = SelectProvider, !.attempt = 1,
                         !.pc = Begin(SelectProvider)])
    /\ UNCHANGED <<setting, tasks, log>>

\* Mutant: a failure of the provider gets the schema retry too.
MutantFailed(kind) ==
    /\ Note(kind)
    /\ IF WillRetry(kind, call.attempt) THEN Goto([call EXCEPT !.pc = "backoff"])
       ELSE IF call.round < Rounds
            THEN Goto([call EXCEPT !.pc = "select", !.round = @ + 1])
            ELSE Done("provider")
\* executeWithClassifiedRetry after a failed attempt.
Failed(kind) ==
    /\ Note(kind)
    /\ IF WillRetry(kind, call.attempt)
       THEN Goto([call EXCEPT !.pc = "backoff"])
       ELSE Done("provider")

\* callAiForJson after an answer: parse and validate, ask again once if that fails.
Answered ==
    /\ Note("ok")
    /\ \/ Done("usable")
       \/ /\ call.adapter # "fake"
          /\ IF call.round < Rounds
             THEN Goto([call EXCEPT !.pc = "select", !.round = @ + 1])
             ELSE Done("unusable")

NotConfigured == [status |-> NoStatus, message |-> {"unavailable"}]
\* OpenAI, Claude and the canned answers; placeholders and adapters without a key
\* report a configuration error without any network call.
Ask ==
    /\ At("ask")
    /\ IF IsAvailable(call.adapter) /\ call.adapter \notin Placeholders
       THEN \/ Answered
            \/ call.adapter # "fake" /\ \E kind \in FailureKinds : Failed(kind)
       ELSE Failed(Classify(NotConfigured))
    /\ UNCHANGED <<setting, tasks>>

Resume ==
    /\ At("backoff")
    /\ Goto([call EXCEPT !.pc = Begin(call.adapter), !.attempt = @ + 1])
    /\ UNCHANGED <<setting, tasks, log>>

NewTask == Append(tasks, NormalizeAspectRatio(canvas))
\* createTask: a reply, a refusal, or no reply in time, with or without a task made.
CreateTask ==
    /\ At("create")
    /\ \/ /\ tasks' = NewTask
          /\ Goto([call EXCEPT !.pc = "poll", !.polls = 0])
          /\ UNCHANGED log
       \/ UNCHANGED tasks /\ \E kind \in FailureKinds : Failed(kind)
       \/ tasks' = NewTask /\ \E kind \in SilentKinds : Failed(kind)
    /\ UNCHANGED setting

\* What the adapter says of a task whose result it cannot use, and of one that did
\* not complete in time: no pattern matches either text.
UnusableResult == [status |-> NoStatus, message |-> {}]
TaskTimeout == [status |-> NoStatus, message |-> {}]

\* The head of the polling loop: the time is not up yet, and the adapter sleeps; or it is.
Sleep ==
    /\ At("poll") /\ call.polls < MaxPolls
    /\ Goto([call EXCEPT !.pc = "fetch"])
    /\ UNCHANGED <<setting, tasks, log>>
GiveUpPolling ==
    /\ At("poll")
    /\ Failed(Classify(TaskTimeout))
    /\ UNCHANGED <<setting, tasks>>

\* Mutant: a round that finds the task waiting is not counted.
MutantKeepPolling == Goto([call EXCEPT !.pc = "poll"])
KeepPolling == Goto([call EXCEPT !.pc = "poll", !.polls = @ + 1])

\* One recordInfo.  It fails, and with it the attempt, not only the round; or the task
\* is still waiting, has a result that may be unusable, or has failed.
FetchRecord ==
    /\ At("fetch")
    /\ \/ \E kind \in FailureKinds : Failed(kind)
       \/ KeepPolling /\ UNCHANGED log
       \/ Answered
       \/ Failed(Classify(UnusableResult))
    /\ UNCHANGED <<setting, tasks>>

Next == Select \/ Ask \/ Resume \/ CreateTask \/ Sleep \/ GiveUpPolling \/ FetchRecord

\* Every network call is answered, fails or is aborted, and every sleep ends.  Kie AI
\* need never end a task.
Spec == Init /\ [][Next]_vars /\ WF_vars(Next)

(***************************************************************************)
(* Properties                                                              *)
(***************************************************************************)
\* Every variable has its type.
TypeOK ==
    /\ keys \subseteq Keyed /\ default \in Providers /\ task \in TaskTypes
    /\ canvas \in Nat \X Nat
    /\ call \in Call /\ tasks \in Seq(Nat \X Nat) /\ log \in Seq(Attempt)

InRound(n) == {k \in DOMAIN log : log[k].round = log[n].round}

\* The policies of different kinds share one count: whatever failures are mixed, a
\* round makes at most three attempts, and a timeout or an unknown error is followed
\* by another attempt only if it was the first failure of its round.
AttemptsBounded ==
    \A n \in DOMAIN log :
       /\ Cardinality(InRound(n)) <= 3
       /\ log[n].round <= Rounds
       /\ (log[n].kind \in {"timeout", "unknown"} /\ n + 1 \in InRound(n))
             => n - 1 \notin InRound(n)

\* A failure that repeating cannot mend is the end of the call: neither the router nor
\* the schema retry of the service asks any provider again.
HopelessEnds ==
    \A n \in DOMAIN log :
       log[n].kind \in {"permanent", "auth_error", "provider_unavailable", "schema_validation"}
          => n = Len(log) /\ call.outcome = "provider"

Able(p) == /\ p \notin Placeholders
           /\ IsAvailable(p)
           /\ RequiredCapabilities(task) \subseteq Capabilities(p)

\* A call that requests no available provider goes to one that is configured,
\* implemented and able to do the task, if there is such a one in the task's chain: no
\* provider whose key happens to be set is in its way.
RoutedToAble ==
    (/\ call.adapter # "none"
     /\ ~\E p \in Requested : IsAvailable(p)
     /\ \E n \in DOMAIN Chain(task) : Able(Chain(task)[n]))
       => Able(call.adapter)

\* The ratio sent is the canvas's own if Kie AI supports it.  Otherwise no supported ratio
\* lies between it and the canvas, and with any ratio on the other side of the canvas its
\* geometric mean is on that side too.
RatioNearest ==
    \A n \in DOMAIN tasks :
       LET sent == tasks[n]
           square == <<canvas[1] * canvas[1], canvas[2] * canvas[2]>>
           MeanSquare(r) == <<sent[1] * r[1], sent[2] * r[2]>>
       IN  /\ \E k \in DOMAIN Supported : sent = Supported[k]
           /\ \A k \in DOMAIN Supported :
                 LET r == Supported[k] IN
                 /\ Same(r, canvas) => sent = r
                 /\ Wider(canvas, r) => ~Wider(r, sent)
                 /\ Wider(r, canvas) => ~Wider(sent, r)
                 /\ Wider(r, canvas) /\ Wider(canvas, sent) => ~Wider(square, MeanSquare(r))
                 /\ Wider(canvas, r) /\ Wider(sent, canvas) => ~Wider(MeanSquare(r), square)

\* Every call comes back, also when Kie AI never ends a task.
EveryCallEnds == <>At("done")
=============================================================================
