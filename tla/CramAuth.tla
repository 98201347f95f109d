------------------------------- MODULE CramAuth -------------------------------
(***************************************************************************)
(* CramAuth<D>, the authentication stage of the live chain, on top of its  *)
(* base class PipelineComponent: a text handshake with the gateway, then a *)
(* binary stream passed through to the parser.                             *)
(*                                                                         *)
(* The gateway is external: a chunk is any sequence of complete lines and  *)
(* line fragments ("part").  Once the stage streams, every unit is binary; *)
(* binary units are numbered in the order they arrive.                     *)
(***************************************************************************)
EXTENDS PipelineComponent, SequencesExt

CONSTANTS
    MaxLine,       \* kMaxLineLength, in fragments
    MaxPending,    \* kMaxPendingData, in units
    MaxChunk,      \* bound on the units of one chunk
    MaxInput,      \* bound on the units the upstream delivers
    FailingLines,  \* lines SendLine may fail to send: too large for a segment,
                   \* or the socket's Write() reports an error
    LateSubscribe  \* TRUE if Subscribe() may be called more than once, also
                   \* after streaming has started

ASSUME CramAssumption ==
    /\ MaxLine \in Nat \ {0} /\ MaxPending \in Nat /\ MaxChunk \in Nat \ {0}
    /\ MaxInput \in Nat /\ LateSubscribe \in BOOLEAN
    /\ FailingLines \subseteq {"auth", "subscription", "start_session"}

VARIABLES
    state,              \* state_
    line_buffer,        \* fragments in line_buffer_
    pending_symbols,    \* a subscription has been requested
    subscription_sent,  \* subscription_sent_
    start_requested,    \* start_requested_
    sent,               \* lines handed to the write callback
    streaming_chain,    \* streaming_chain_
    pending_chain,      \* pending_chain_
    binaries,           \* binary units received
    delivered,          \* binary units the downstream has consumed
    received,           \* units the upstream has delivered
    input               \* what the upstream has signalled: "open", "done", "failed"

handshake == <<state, line_buffer, sent>>
request == <<pending_symbols, subscription_sent, start_requested>>
chains == <<streaming_chain, pending_chain, binaries, delivered>>
authVars == <<handshake, request, chains, received, input>>
vars == <<componentVars, authVars>>

Lines == {"greeting", "challenge", "success", "failure"}
States == {"WaitingGreeting", "WaitingChallenge", "Authenticating", "Ready",
           "Streaming"}

Init ==
    /\ ComponentInit
    /\ state = "WaitingGreeting" /\ line_buffer = 0 /\ sent = <<>>
    /\ pending_symbols = FALSE /\ subscription_sent = FALSE
    /\ start_requested = FALSE
    /\ streaming_chain = <<>> /\ pending_chain = <<>>
    /\ binaries = 0 /\ delivered = <<>>
    /\ received = 0 /\ input = "open"

-----------------------------------------------------------------------------
\* What a handler goes on with when it has dealt with a line or a request.
AfterSend == IF Top.method = "OnData" THEN "line_end" ELSE "exit"

\* EmitError and RequestClose, then go on at `next' (EmitOverflow, and the
\* error exits of the handlers, none of which stops its caller).
FailThen(next) ==
    stack' = [stack EXCEPT ![1].pc = "fail", ![1].pos = next]

\* SendLine: a line that cannot be sent is an error, and the caller goes on as
\* if it had been sent.
SendLine(line, pc) ==
    \/ /\ sent' = Append(sent, line)
       /\ Goto(pc)
    \/ /\ line \in FailingLines
       /\ FailThen(pc)
       /\ UNCHANGED sent

\* SpliceChecked: TRUE if `units' more fit `chain'.
Fits(chain, units) == Len(chain) + Len(units) <= MaxPending

\* Mutant: newer data goes ahead of older data.
MergedReversed == pending_chain \o streaming_chain

\* What streaming_chain_ becomes when pending_chain_ is spliced onto it.
Merged == streaming_chain \o pending_chain

\* Hand a chain to the downstream, which consumes a prefix of it.
Forward(chain, pc) ==
    \E used \in 0..Len(chain) :
        /\ streaming_chain' = SubSeq(chain, used + 1, Len(chain))
        /\ delivered' = delivered \o SubSeq(chain, 1, used)
        /\ CallDownstream("data", pc)

-----------------------------------------------------------------------------
(***************************************************************************)
(* Calls of the upstream.                                                  *)
(***************************************************************************)
Chunks ==
    UNION {[1..n -> IF state = "Streaming" THEN {"part"} ELSE Lines \cup {"part"}]
              : n \in 1..MaxChunk}

OnData ==
    /\ UpstreamRuns /\ ~closed
    /\ input = "open"
    /\ \E data \in Chunks :
          /\ received + Len(data) <= MaxInput
          /\ received' = received + Len(data)
          /\ Enter("OnData", IF state = "Streaming" THEN "binary" ELSE "text", data, TRUE)
    /\ UNCHANGED <<close_pending, close_scheduled, closed, close_deferred,
                   backpressure, signals, done_pending, downstream,
                   handshake, request, chains, input>>

\* The end of the connection: an error before the stage streams, held back
\* while it is suspended.
OnDone ==
    /\ UpstreamRuns /\ ~closed
    /\ input = "open"
    /\ input' = "done"
    /\ IF state = "Streaming" /\ IsSuspended
       THEN done_pending' = TRUE /\ UNCHANGED <<stack, processing_count>>
       ELSE /\ Enter("OnDone", IF state = "Streaming" THEN "completing" ELSE "fail", <<>>, TRUE)
            /\ UNCHANGED done_pending
    /\ UNCHANGED <<close_pending, close_scheduled, closed, close_deferred,
                   backpressure, signals, downstream,
                   handshake, request, chains, received>>

OnError ==
    /\ UpstreamRuns /\ ~closed
    /\ input = "open"
    /\ input' = "failed"
    /\ Enter("OnError", "fail", <<>>, TRUE)
    /\ UNCHANGED <<close_pending, close_scheduled, closed, close_deferred,
                   backpressure, signals, done_pending, downstream,
                   handshake, request, chains, received>>

(***************************************************************************)
(* Calls of the owner: Subscribe and StartStreaming, in any order and at   *)
(* any time.                                                               *)
(***************************************************************************)
Subscribe ==
    /\ stack = <<>> /\ downstream
    /\ LateSubscribe \/ ~pending_symbols
    /\ pending_symbols' = TRUE
    /\ subscription_sent' = FALSE
    /\ IF state = "Ready"
       THEN Enter("Subscribe", "send_subscription", <<>>, FALSE)
       ELSE UNCHANGED <<stack, processing_count>>
    /\ UNCHANGED <<close_pending, close_scheduled, closed, close_deferred,
                   backpressure, signals, done_pending, downstream,
                   start_requested, handshake, chains, received, input>>

\* Mutant: start_session does not wait for the subscription.
StartTooEarly ==
    /\ stack = <<>> /\ downstream
    /\ ~start_requested
    /\ start_requested' = TRUE
    /\ IF state = "Ready"
       THEN Enter("StartStreaming", "send_start", <<>>, FALSE)
       ELSE UNCHANGED <<stack, processing_count>>
    /\ UNCHANGED <<close_pending, close_scheduled, closed, close_deferred,
                   backpressure, signals, done_pending, downstream,
                   pending_symbols, subscription_sent, handshake, chains,
                   received, input>>

StartStreaming ==
    /\ stack = <<>> /\ downstream
    /\ ~start_requested
    /\ start_requested' = TRUE
    /\ IF state = "Ready" /\ subscription_sent
       THEN Enter("StartStreaming", "send_start", <<>>, FALSE)
       ELSE UNCHANGED <<stack, processing_count>>
    /\ UNCHANGED <<close_pending, close_scheduled, closed, close_deferred,
                   backpressure, signals, done_pending, downstream,
                   pending_symbols, subscription_sent, handshake, chains,
                   received, input>>

-----------------------------------------------------------------------------
(***************************************************************************)
(* OnTextData: one unit at a time, a complete line to ProcessLine.         *)
(***************************************************************************)

\* ProcessLine in the state the stage is in.
HandleGreeting(line) ==
    /\ state = "WaitingGreeting"
    /\ IF line = "greeting"
       THEN state' = "WaitingChallenge" /\ Goto("line_end")
       ELSE FailThen("line_end") /\ UNCHANGED state

HandleChallenge(line) ==
    /\ state = "WaitingChallenge"
    /\ IF line = "challenge" THEN Goto("send_auth") ELSE FailThen("line_end")
    /\ UNCHANGED state

\* Anything that does not say it failed is a success.
HandleAuthResponse(line) ==
    /\ state = "Authenticating"
    /\ IF line = "failure"
       THEN FailThen("line_end") /\ UNCHANGED state
       ELSE state' = "Ready" /\ Goto("send_subscription")

ProcessLine(line) ==
    \/ HandleGreeting(line)
    \/ HandleChallenge(line)
    \/ HandleAuthResponse(line)
    \/ state \in {"Ready", "Streaming"} /\ Goto("line_end") /\ UNCHANGED state

OnTextData ==
    /\ At("text")
    /\ \/ /\ Top.left = <<>>
          /\ Goto("exit")
          /\ UNCHANGED handshake
       \/ /\ Top.left # <<>> /\ line_buffer >= MaxLine
          /\ FailThen("exit")
          /\ UNCHANGED handshake
       \/ /\ Top.left # <<>> /\ line_buffer < MaxLine
          /\ IF Head(Top.left) = "part"
             THEN /\ line_buffer' = line_buffer + 1
                  /\ Goto("next_unit")
                  /\ UNCHANGED state
             ELSE /\ line_buffer' = 0
                  /\ ProcessLine(Head(Top.left))
          /\ UNCHANGED sent
    /\ UNCHANGED <<lifecycle, backpressure, signals, done_pending, downstream,
                   request, chains, received, input>>

\* The unit is consumed; after a line that started the stream the rest of the
\* chunk is binary.
NextUnit ==
    /\ At("next_unit") \/ At("line_end")
    /\ stack' = [stack EXCEPT ![1].left = Tail(@),
                    ![1].pc = IF Top.pc = "line_end" /\ state = "Streaming"
                              THEN "binary" ELSE "text"]
    /\ UNCHANGED <<lifecycle, backpressure, signals, done_pending, downstream,
                   authVars>>

(***************************************************************************)
(* What the handlers send.                                                 *)
(***************************************************************************)
SendAuth ==
    /\ At("send_auth")
    /\ SendLine("auth", "authenticating")
    /\ UNCHANGED <<lifecycle, backpressure, signals, done_pending, downstream,
                   state, line_buffer, request, chains, received, input>>

SendPendingSubscription ==
    /\ At("send_subscription")
    /\ IF subscription_sent \/ ~pending_symbols
       THEN Goto(AfterSend) /\ UNCHANGED sent
       ELSE SendLine("subscription", "subscribed")
    /\ UNCHANGED <<lifecycle, backpressure, signals, done_pending, downstream,
                   state, line_buffer, request, chains, received, input>>

\* Mutant: an earlier StartStreaming() is forgotten.
StartForgotten ==
    /\ At("subscribed")
    /\ subscription_sent' = TRUE
    /\ Goto(AfterSend)
    /\ UNCHANGED <<lifecycle, backpressure, signals, done_pending, downstream,
                   pending_symbols, start_requested, handshake, chains, received, input>>

Subscribed ==
    /\ At("subscribed")
    /\ subscription_sent' = TRUE
    /\ Goto(IF start_requested THEN "send_start" ELSE AfterSend)
    /\ UNCHANGED <<lifecycle, backpressure, signals, done_pending, downstream,
                   pending_symbols, start_requested, handshake, chains, received, input>>

SendStart ==
    /\ At("send_start")
    /\ SendLine("start_session", "started")
    /\ UNCHANGED <<lifecycle, backpressure, signals, done_pending, downstream,
                   state, line_buffer, request, chains, received, input>>

\* The state moves on once the line is out, or has failed to go out.
AuthSent ==
    /\ At("authenticating")
    /\ state' = "Authenticating"
    /\ Goto("line_end")
    /\ UNCHANGED <<lifecycle, backpressure, signals, done_pending, downstream,
                   line_buffer, sent, request, chains, received, input>>

StartSent ==
    /\ At("started")
    /\ state' = "Streaming"
    /\ Goto(AfterSend)
    /\ UNCHANGED <<lifecycle, backpressure, signals, done_pending, downstream,
                   line_buffer, sent, request, chains, received, input>>

-----------------------------------------------------------------------------
(***************************************************************************)
(* Binary data: OnBinaryData and HandleRemainingData.                      *)
(***************************************************************************)
OnBinaryData ==
    /\ At("binary")
    /\ LET units == [i \in 1..Len(Top.left) |-> binaries + i]
       IN  /\ binaries' = binaries + Len(units)
           /\ \/ /\ units = <<>>
                 /\ Goto("exit")
                 /\ UNCHANGED <<streaming_chain, pending_chain, delivered, crashed>>
              \/ /\ units # <<>> /\ IsSuspended
                 /\ IF Fits(pending_chain, units)
                    THEN pending_chain' = pending_chain \o units /\ Goto("exit")
                    ELSE FailThen("exit") /\ UNCHANGED pending_chain
                 /\ UNCHANGED <<streaming_chain, delivered, crashed>>
              \/ /\ units # <<>> /\ ~IsSuspended
                 /\ IF Fits(streaming_chain, pending_chain)
                    THEN /\ pending_chain' = <<>>
                         /\ IF Fits(Merged, units)
                            THEN Forward(Merged \o units, "exit")
                            ELSE /\ streaming_chain' = Merged
                                 /\ FailThen("exit")
                                 /\ UNCHANGED <<delivered, crashed>>
                    ELSE /\ FailThen("exit")
                         /\ UNCHANGED <<streaming_chain, pending_chain, delivered, crashed>>
    /\ UNCHANGED <<lifecycle, backpressure, finalized, terminals, done_pending,
                   downstream, handshake, request, received, input>>

\* ProcessPending, on Resume().
ProcessPending ==
    /\ At("drain")
    /\ \/ /\ ~Fits(streaming_chain, pending_chain)
          /\ FailThen("drained")
          /\ UNCHANGED <<streaming_chain, pending_chain, delivered, crashed>>
       \/ /\ Fits(streaming_chain, pending_chain)
          /\ pending_chain' = <<>>
          /\ IF Merged = <<>>
             THEN Goto("drained") /\ UNCHANGED <<streaming_chain, delivered, crashed>>
             ELSE Forward(Merged, "drained")
    /\ UNCHANGED <<lifecycle, backpressure, finalized, terminals, done_pending,
                   downstream, handshake, request, binaries, received, input>>

\* A completion that Resume() held back goes the way of OnDone.
FlushAndComplete ==
    /\ At("flush")
    /\ stack' = [stack EXCEPT ![1].method = "OnDone", ![1].pc = "completing"]
    /\ UNCHANGED <<lifecycle, backpressure, signals, done_pending, downstream, authVars>>

\* The splice of FlushAndComplete and the head of CompleteWithFlush.
CompleteWithFlush ==
    /\ At("completing")
    /\ \/ /\ ~Fits(streaming_chain, pending_chain)
          /\ FailThen("exit")
          /\ UNCHANGED <<streaming_chain, pending_chain, delivered, crashed>>
       \/ /\ Fits(streaming_chain, pending_chain)
          /\ pending_chain' = <<>>
          /\ IF Merged = <<>>
             THEN Goto("flushed") /\ UNCHANGED <<streaming_chain, delivered, crashed>>
             ELSE Forward(Merged, "flushed")
    /\ UNCHANGED <<lifecycle, backpressure, finalized, terminals, done_pending,
                   downstream, handshake, request, binaries, received, input>>

\* FlushPendingData after its OnData, and the EmitDone of CompleteWithFlush.
Flushed ==
    /\ At("flushed")
    /\ \/ /\ IsSuspended
          /\ done_pending' = TRUE
          /\ Goto("exit")
          /\ UNCHANGED <<signals, processing_count>>
       \/ /\ ~IsSuspended /\ streaming_chain # <<>>
          /\ FailThen("exit")
          /\ UNCHANGED <<signals, processing_count, done_pending>>
       \/ /\ ~IsSuspended /\ streaming_chain = <<>>
          /\ Emit("done", "close")
          /\ UNCHANGED done_pending
    /\ UNCHANGED <<close_pending, close_scheduled, closed, close_deferred,
                   backpressure, downstream, authVars>>

-----------------------------------------------------------------------------
\* EmitError; OnDone and OnError have nothing left to do after it.
EmitFailure ==
    /\ At("fail")
    /\ Emit("error", IF Top.method \in {"OnDone", "OnError"} THEN "close" ELSE "failed")
    /\ UNCHANGED <<close_pending, close_scheduled, closed, close_deferred,
                   backpressure, done_pending, downstream, authVars>>

\* RequestClose, and on with the caller.
Failed ==
    /\ At("failed")
    /\ RequestClose
    /\ Goto(Top.pos)
    /\ UNCHANGED <<processing_count, backpressure, signals, done_pending,
                   downstream, authVars>>

\* The event loop runs the deferred DoClose.
DoClose ==
    /\ stack = <<>>
    /\ close_deferred
    /\ close_deferred' = FALSE
    /\ downstream' = FALSE
    /\ line_buffer' = 0
    /\ streaming_chain' = <<>> /\ pending_chain' = <<>>
    /\ UNCHANGED <<processing_count, close_pending, close_scheduled, closed,
                   backpressure, signals, done_pending, stack, state, sent,
                   request, binaries, delivered, received, input>>

-----------------------------------------------------------------------------
Base == CommonNext /\ UNCHANGED authVars

Code ==
    \/ OnTextData \/ NextUnit \/ SendAuth \/ SendPendingSubscription
    \/ Subscribed \/ SendStart \/ AuthSent \/ StartSent \/ OnBinaryData \/ ProcessPending
    \/ FlushAndComplete \/ CompleteWithFlush \/ Flushed \/ EmitFailure \/ Failed
    \/ DoClose

Next ==
    \/ Base \/ Code
    \/ OnData \/ OnDone \/ OnError \/ Subscribe \/ StartStreaming

Spec == Init /\ [][Next]_vars

-----------------------------------------------------------------------------
(***************************************************************************)
(* Properties.                                                             *)
(***************************************************************************)
\* The place of a line in the protocol.
Phase(s) == CASE s = "auth" -> 1 [] s = "subscription" -> 2 [] s = "start_session" -> 3

\* On the wire of a session without an error the auth line comes first,
\* subscriptions next and start_session last, once each request has been
\* made: whenever the owner subscribes and starts, and however the gateway's
\* lines are cut into chunks.
WireOrder ==
    ~finalized =>
        /\ \A i, j \in DOMAIN sent :
              i < j => /\ Phase(sent[i]) <= Phase(sent[j])
                       /\ sent[i] = sent[j] => sent[i] = "subscription"
        /\ \A i \in DOMAIN sent :
              Phase(sent[i]) = i \/ (i > 2 /\ sent[2] = "subscription")

\* Nothing waits for an event that has passed: when the stage is idle, a
\* session that is Ready has sent the subscription asked for, and one that
\* may start has started, in whichever order the auth response, Subscribe()
\* and StartStreaming() came; and "If already Ready, sends immediately;
\* otherwise queues for later" (Subscribe) leaves no request behind.
RequestsHonoured ==
    stack = <<>> =>
        /\ state \in {"Ready", "Streaming"} /\ pending_symbols => subscription_sent
        /\ state = "Ready" => ~(subscription_sent /\ start_requested)

\* What the downstream has consumed, what it has left over and what was held
\* back while suspended are consecutive units of the stream, within the limit.
BinaryInOrder ==
    LET all == delivered \o streaming_chain \o pending_chain
    IN  /\ \A i \in DOMAIN all : all[i] = i
        /\ Len(streaming_chain) <= MaxPending /\ Len(pending_chain) <= MaxPending

\* A stage that signals completion while it is open has delivered every
\* binary unit it received.
CompleteMeansAll ==
    input = "done" /\ ~closed /\ ~finalized /\ finalized' /\ Top.pc = "flushed"
          => Len(delivered) = binaries

\* Backpressure, splicing and completion never reorder, drop or repeat the
\* binary data behind the handshake (OnData, Resume and FlushAndComplete of
\* CramAuth).
BinaryIntact == [][BinaryInOrder' /\ CompleteMeansAll]_vars
=============================================================================
