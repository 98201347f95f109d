------------------------------- MODULE ApiCall -------------------------------
(***************************************************************************)
(* One request to the HTTP API, as made by the symbology and the metadata  *)
(* client (CallApiWithRetry: a fresh pipeline for every attempt, a retry   *)
(* timer between attempts) or by ApiClient (one attempt, no retry).  The   *)
(* stages below JsonParser are TlsTransport's and HttpClient's subject;    *)
(* here they appear through the signals they hand to it.                   *)
(***************************************************************************)
EXTENDS JsonBuilders

CONSTANTS
    Documents,       \* the documents the server may answer with, a sequence for each builder
    MaxRetries,      \* RetryConfig::max_retries
    InitialDelay, Multiplier, MaxDelay, Jitter,  \* RetryConfig; Jitter in percent
    RetryAfters,     \* values of the Retry-After header, in ms
    MaxBuffer,       \* JsonParser::kMaxBufferSize, in units of a document
    CutEvery         \* bound: a document is cut at the multiples of CutEvery

VARIABLES
    client,     \* "retry" or "single"; "gone" once an ApiClient is destroyed
    builder,    \* the builder of the request, "none" before the request
    attempts,   \* RetryPolicy::attempts_
    pipes,      \* the pipelines made so far, one for each connected attempt
    timers,     \* delays of the retries scheduled on the loop
    deferred,   \* the pipelines whose pipeline_holder->reset() is deferred
    told        \* what the user's callback was given
vars == <<client, builder, attempts, pipes, timers, deferred, told>>

None == "none"
NoDelay == -1      \* no Retry-After header
HttpErrors == {"Unauthorized", "NotFound", "ValidationError", "RateLimited",
               "ServerError", "HttpError"}
NetErrors == {"ConnectionFailed", "TlsHandshakeFailed", "ParseError"}

Error(code, retry_after) == [ok |-> FALSE, code |-> code, retry_after |-> retry_after]

-----------------------------------------------------------------------------
(***************************************************************************)
(* RetryPolicy                                                             *)
(***************************************************************************)
IsRetryable(code) ==
    code \in {"ConnectionFailed", "DnsResolutionFailed", "ServerError",
              "TlsHandshakeFailed", "RateLimited"}

ShouldRetry(error) == IsRetryable(error.code) /\ attempts < MaxRetries

\* The jitter, a random number of the code, at its two ends; what is left of
\* it is cut to whole milliseconds, which may be none.
CalculateBackoff ==
    LET grown == InitialDelay * Multiplier ^ attempts
        capped == IF grown < MaxDelay THEN grown ELSE MaxDelay
    IN  {(capped * (100 - Jitter)) \div 100, (capped * (100 + Jitter)) \div 100}

GetNextDelay(error) ==
    IF error.retry_after # NoDelay THEN {error.retry_after} ELSE CalculateBackoff

Schedule(pending, delay) == timers' = Append(pending, delay)

-----------------------------------------------------------------------------
(***************************************************************************)
(* The user's callback, the sink and the parser                            *)
(***************************************************************************)
Answer(a, result) ==
    told' = Append(told, [result |-> result,
                          doc |-> IF a = 0 THEN 0 ELSE pipes[a].doc,
                          got |-> IF a = 0 THEN 0 ELSE pipes[a].got])

\* Mutant: the error is reported as well as retried.
RetryOrAnswerBoth(a, result, pending) ==
    IF ~result.ok /\ ShouldRetry(result)
    THEN /\ \E delay \in GetNextDelay(result) : Schedule(pending, delay)
         /\ attempts' = attempts + 1
         /\ Answer(a, result)
    ELSE /\ Answer(a, result)
         /\ timers' = pending
         /\ UNCHANGED attempts

\* The end of an attempt: a retry is scheduled or the callback is called.
\* pending holds the timers that are armed besides; ApiClient never retries.
RetryOrAnswer(a, result, pending) ==
    IF client = "retry" /\ ~result.ok /\ ShouldRetry(result)
    THEN /\ \E delay \in GetNextDelay(result) : Schedule(pending, delay)
         /\ attempts' = attempts + 1
         /\ UNCHANGED told
    ELSE /\ Answer(a, result)
         /\ timers' = pending
         /\ UNCHANGED attempts

\* The lambda given to the ResultSink; the retrying clients also defer the
\* release of the pipeline.
OnSinkResult(a, result) ==
    /\ RetryOrAnswer(a, result, timers)
    /\ deferred' = IF client = "retry" THEN deferred \cup {a} ELSE deferred

\* JsonParser::Complete and ResultSink: once.  completed also stands for the
\* sink's delivered_, which follows it; valid_ falls with the pipeline.  A
\* signal to a completed parser returns at once and is no step.
CompleteOnce(a, result) ==
    /\ ~pipes[a].completed
    /\ pipes' = [pipes EXCEPT ![a].completed = TRUE]
    /\ OnSinkResult(a, result)
    /\ UNCHANGED <<client, builder>>

\* The text of a document the server sends.
Text(doc) == Units(builder, Documents[builder][doc])

\* Mutant: one builder for all the attempts of a request.
SharedBuilder(a) ==
    IF a > 1 /\ pipes[a - 1].st # "TornDown" /\ pipes[a - 1].got > 0
    THEN Parsed(builder, Documents[builder][pipes[a - 1].doc], pipes[a - 1].got) ELSE <<>>

\* What the builder of an attempt was fed before its parser runs.
FreshBuilder(a) == <<>>

TryParse(a) ==
    LET doc == Documents[builder][pipes[a].doc]
        got == pipes[a].got
    IN  IF got = 0 THEN Build(builder, FreshBuilder(a))
        ELSE IF Accepts(builder, doc, got)
        THEN Build(builder, FreshBuilder(a) \o Parsed(builder, doc, got))
        ELSE Failed

-----------------------------------------------------------------------------
(***************************************************************************)
(* The request and its attempts                                            *)
(***************************************************************************)
NewPipe(doc) ==
    [st |-> "Connecting", doc |-> doc, got |-> 0, completed |-> FALSE]

\* The body of CallApiWithRetry and of ApiClient::Request: the name does not
\* resolve, or a pipeline with a builder of its own is connected.
Attempt(pending) ==
    \/ /\ RetryOrAnswer(0, Error("DnsResolutionFailed", NoDelay), pending)
       /\ UNCHANGED pipes
    \/ /\ \E doc \in DOMAIN Documents[builder'] : pipes' = Append(pipes, NewPipe(doc))
       /\ timers' = pending
       /\ UNCHANGED <<attempts, told>>

\* Resolve, GetRecordCount, GetBillableSize, GetCost, GetDatasetRange and
\* ApiClient::Request.  An ApiClient takes one request; every request to
\* another client has a state of its own, and this module follows one.
Request ==
    /\ builder = None
    /\ client # "gone"
    /\ builder' \in DOMAIN Documents
    /\ Attempt(timers)
    /\ UNCHANGED <<client, deferred>>

\* A retry timer fires; a timerfd armed with 0 is disarmed and never does.
RetryTimer ==
    \E i \in DOMAIN timers :
        /\ timers[i] > 0
        /\ UNCHANGED <<client, builder, deferred>>
        /\ Attempt(RemoveAt(timers, i))

Alive(a) == pipes[a].st # "TornDown"

\* The handshake is complete: MarkReady(), Start().
Ready(a) ==
    /\ pipes[a].st = "Connecting"
    /\ pipes' = [pipes EXCEPT ![a].st = "Started"]
    /\ UNCHANGED <<client, builder, attempts, timers, deferred, told>>

\* JsonParser::OnData: n more units of a response with a good status.
Data(a, n) ==
    /\ pipes[a].st = "Started"
    /\ ~pipes[a].completed
    /\ IF pipes[a].got + n > MaxBuffer
       THEN CompleteOnce(a, Error("BufferOverflow", NoDelay))
       ELSE /\ pipes' = [pipes EXCEPT ![a].got = @ + n]
            /\ UNCHANGED <<client, builder, attempts, timers, deferred, told>>

\* JsonParser::OnError for a response with a bad status, which has no body for
\* the parser, or one that is not HTTP, perhaps in the middle: passed on.
HttpError(a, code, retry_after) ==
    /\ pipes[a].st = "Started"
    /\ pipes[a].got = 0 \/ code = "HttpError"
    /\ CompleteOnce(a, Error(code, retry_after))

\* JsonParser::OnError for a failure below HTTP, at any time: the best that
\* can be made of what has arrived, or the error.
NetError(a, code) ==
    /\ Alive(a)
    /\ CompleteOnce(a, IF TryParse(a).ok THEN TryParse(a) ELSE Error(code, NoDelay))

\* JsonParser::OnDone: the whole body has arrived, or the peer has closed the
\* connection without a response (HttpClient reports both as Done).
Done(a) ==
    /\ Alive(a)
    /\ pipes[a].got \in {0, Len(Text(pipes[a].doc))}
    /\ CompleteOnce(a, IF TryParse(a).ok THEN TryParse(a) ELSE Error("ParseError", NoDelay))

\* ~Pipeline: the sink is invalidated and the chain closed.
TornDown(p) == [p EXCEPT !.st = "TornDown", !.doc = 0, !.got = 0]

\* Mutant: the retry timer belongs to the pipeline and goes with it.
ReleaseWithTimer(a) ==
    /\ a \in deferred
    /\ deferred' = deferred \ {a}
    /\ pipes' = [pipes EXCEPT ![a] = TornDown(@)]
    /\ timers' = <<>>
    /\ UNCHANGED <<client, builder, attempts, told>>

\* The deferred pipeline_holder->reset().
Release(a) ==
    /\ a \in deferred
    /\ deferred' = deferred \ {a}
    /\ pipes' = [pipes EXCEPT ![a] = TornDown(@)]
    /\ UNCHANGED <<client, builder, attempts, timers, told>>

\* The last reference to an ApiClient goes: ~ApiClient invalidates the sink,
\* its members take the pipeline down.
Destroy ==
    /\ client = "single"
    /\ client' = "gone"
    /\ pipes' = [a \in DOMAIN pipes |-> TornDown(pipes[a])]
    /\ UNCHANGED <<builder, attempts, timers, deferred, told>>

-----------------------------------------------------------------------------
Init ==
    /\ client \in {"retry", "single"}
    /\ builder = None
    /\ attempts = 0
    /\ pipes = <<>> /\ timers = <<>> /\ deferred = {} /\ told = <<>>

\* The places at which the run cuts a document.
Cuts(n) == {1, n} \cup {i \in 1..n : i % CutEvery = 0}

Signal(a) ==
    \/ Ready(a)
    \/ /\ Alive(a)
       /\ \E cut \in Cuts(Len(Text(pipes[a].doc))) :
            cut > pipes[a].got /\ Data(a, cut - pipes[a].got)
    \/ \E code \in HttpErrors :
         \E retry_after \in {NoDelay} \cup (IF code = "RateLimited" THEN RetryAfters ELSE {}) :
            HttpError(a, code, retry_after)
    \/ \E code \in NetErrors : NetError(a, code)
    \/ Done(a)

Next ==
    \/ Request
    \/ RetryTimer
    \/ Destroy
    \/ \E a \in DOMAIN pipes : Signal(a) \/ Release(a)

Spec == Init /\ [][Next]_vars

\* The loop runs its timers and its deferred functions.  Nothing is assumed
\* of the network: the code sets no timeout on an attempt.
FairSpec ==
    /\ Spec
    /\ WF_vars(RetryTimer)
    /\ \A a \in 1..(MaxRetries + 1) : WF_vars(a \in DOMAIN pipes /\ Release(a))

-----------------------------------------------------------------------------
Open(a) == Alive(a) /\ ~pipes[a].completed

\* The callback is called at most once, and when it has been called nothing of
\* the request is left that could call it again: no retry is pending and no
\* attempt is open.  Before that at most one attempt or retry is under way.
AnsweredOnce ==
    /\ Len(told) <= 1
    /\ Cardinality({a \in DOMAIN pipes : Open(a)}) + Len(timers) + Len(told) <= 1

\* A result given to the user is what the document of one single attempt says,
\* however the document was cut and whatever earlier attempts had received:
\* all of it, or, when the connection failed, the number or the empty response
\* that the part received amounts to.
ResultFaithful ==
    \A i \in DOMAIN told : told[i].result.ok =>
        LET doc == Documents[builder][told[i].doc]
            got == told[i].got
        IN  told[i].result.value =
               CASE got = Len(Text(told[i].doc)) -> Says(builder, doc)
                 [] builder = "number" -> Says(builder, SubSeq(doc, 1, got))
                 [] OTHER -> [result |-> <<>>, partial |-> <<>>, not_found |-> <<>>]

\* A retry was given a delay of zero, by a Retry-After of zero seconds or by a
\* backoff of less than a millisecond: its timer is disarmed for good.
RetryDisarmed == 0 \in ToSet(timers)

\* An attempt that has ended is followed by the answer or by another attempt,
\* unless the delay computed for the retry is zero, and its pipeline is freed,
\* off its own stack.
AttemptsEnd ==
    \A a \in 1..(MaxRetries + 1) :
        /\ (a \in DOMAIN pipes /\ pipes[a].completed)
              ~> (told # <<>> \/ a + 1 \in DOMAIN pipes \/ RetryDisarmed)
        /\ (a \in deferred) ~> (a \in DOMAIN pipes /\ ~Alive(a))

\* A transient failure below HTTP does not end a request of a retrying client
\* while its retry budget lasts.
TransientIsRetried ==
    [][\A a \in DOMAIN pipes, code \in NetErrors :
          /\ client = "retry"
          /\ ShouldRetry(Error(code, NoDelay))
          /\ NetError(a, code)
          => UNCHANGED told]_vars
=============================================================================
