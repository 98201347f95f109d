------------------------------ MODULE HttpClient ------------------------------
(***************************************************************************)
(* HttpClient<D>: the stage that parses the HTTP response, on top of       *)
(* PipelineComponent.  One response comes over the connection (both        *)
(* protocols ask for "Connection: close").                                 *)
(*                                                                         *)
(* The response is a head, `body' units of body and, when chunked, a last  *)
(* chunk.  A chain of input is one segment, or one segment per unit.       *)
(* llhttp is external: one execute call takes one segment and runs the     *)
(* callbacks of each unit in it.  llhttp_pause called from a callback does *)
(* not stop that call; it makes the next one return HPE_PAUSED before it   *)
(* parses anything, and llhttp_get_error_pos is then null: nothing but an  *)
(* error of the parser sets it, and llhttp_init clears it.                 *)
(***************************************************************************)
EXTENDS PipelineComponent, FiniteSetsExt

CONSTANTS
    MaxBody,        \* units of body in a response
    MaxPending,     \* kMaxPendingInput, in units
    MaxBuffered     \* kMaxBufferedBody, in units

ASSUME HttpAssumption ==
    MaxBody \in Nat /\ MaxPending \in Nat /\ MaxBuffered \in Nat

VARIABLES
    response,          \* [ok, framing, body]: what the server answers
    received,          \* units of it the upstream has delivered
    parsed,            \* units the parser has taken, or the stage consumed
    paused,            \* the parser answers HPE_PAUSED
    failed,            \* the parser answers the error it has stopped with
    lost,              \* units of body consumed without having been parsed
    in_message,        \* the parser is inside a message; status_code_ is set
    message_complete,  \* message_complete_
    pending_input,     \* units in pending_input_
    pending_chain,     \* units of body in pending_chain_
    delivered,         \* units of body the downstream has consumed
    input,             \* what the upstream has signalled
    outcome            \* the first terminal signal of the downstream

parser == <<parsed, paused, failed, in_message, message_complete>>
data == <<pending_chain, delivered>>
local == <<received, parser, lost, pending_input, data, input, outcome>>
vars == <<componentVars, local, response>>

Framings == {"length", "chunked", "close"}

Init ==
    /\ ComponentInit
    /\ response \in [ok : BOOLEAN, framing : Framings, body : 0..MaxBody]
    /\ received = 0 /\ parsed = 0 /\ lost = 0
    /\ paused = FALSE /\ failed = FALSE
    /\ in_message = FALSE /\ message_complete = FALSE
    /\ pending_input = 0 /\ pending_chain = 0 /\ delivered = 0
    /\ input = "open" /\ outcome = "none"

-----------------------------------------------------------------------------
Units == 1 + response.body + (IF response.framing = "chunked" THEN 1 ELSE 0)

\* The unit the parser is about to take.
IsHead == parsed = 0
IsBody == parsed \in 1..response.body

\* The message ends with its last unit, unless the connection delimits it.  A
\* parser that counts the length does not get there if some were lost.
EndsMessage(taken) ==
    /\ response.framing # "close" /\ taken = Units
    /\ response.framing = "length" => lost = 0

\* status_code_ >= 300.
StatusError == in_message /\ ~response.ok

\* EmitError or EmitDone, then on at pc.
Tell(signal, pc) ==
    /\ Emit(signal, pc)
    /\ outcome' = IF finalized \/ outcome # "none" THEN outcome ELSE signal

\* Hand pending_chain_, grown by `more', to the downstream, which consumes all
\* of it or nothing.
Forward(more, pc) ==
    \E used \in {0, pending_chain + more} :
        /\ pending_chain' = pending_chain + more - used
        /\ delivered' = delivered + used
        /\ CallDownstream("data", pc)

unmoved == <<close_pending, close_scheduled, closed, close_deferred,
             backpressure, done_pending, downstream>>

-----------------------------------------------------------------------------
(***************************************************************************)
(* Calls of the upstream.                                                  *)
(***************************************************************************)
OnData(n, segments) ==
    /\ UpstreamRuns /\ ~closed
    /\ input = "open"
    /\ received + n <= Units
    /\ received' = received + n
    /\ \/ /\ pending_input = 0
          /\ Enter(IF segments = 1 THEN "OnDataWhole" ELSE "OnDataSplit",
                   "execute", n, TRUE)
          /\ UNCHANGED pending_input
       \/ /\ pending_input > 0 /\ n > MaxPending - pending_input
          /\ Enter("OnDataMerged", "fail", 0, TRUE)
          /\ UNCHANGED pending_input
       \/ /\ pending_input > 0 /\ n <= MaxPending - pending_input
          /\ Enter("OnDataMerged", "execute", 0, TRUE)
          /\ pending_input' = pending_input + n
    /\ UNCHANGED <<unmoved, signals, parser, lost, data, input, outcome, response>>

\* Buffered input is parsed even while the stage is suspended.
OnDone ==
    /\ UpstreamRuns /\ ~closed
    /\ input = "open"
    /\ input' = "done"
    /\ Enter("OnDone", IF pending_input > 0 THEN "execute" ELSE "finish", 0, TRUE)
    /\ paused' = (paused /\ pending_input = 0)
    /\ UNCHANGED <<unmoved, signals, received, parsed, failed, in_message, message_complete,
                   lost, pending_input, data, outcome, response>>

OnError ==
    /\ UpstreamRuns /\ ~closed
    /\ input = "open"
    /\ input' = "failed"
    /\ Enter("OnError", "fail", 0, TRUE)
    /\ UNCHANGED <<unmoved, signals, received, parser, lost, pending_input, data,
                   outcome, response>>

-----------------------------------------------------------------------------
(***************************************************************************)
(* The loop over llhttp_execute, of OnData on its argument and of          *)
(* ProcessPendingInput on pending_input_.                                  *)
(***************************************************************************)
Own == Top.method \in {"OnDataWhole", "OnDataSplit"}
ChainSize == IF Own THEN Top.left ELSE pending_input
Chunk == IF Top.method = "OnDataWhole" THEN Top.left ELSE 1

\* The loop returns to its caller; FlushAndComplete waits again if parsing
\* suspended the stage.
LeaveLoop ==
    LET waits == Top.method = "Flush" /\ IsSuspended
    IN  /\ done_pending' = (done_pending \/ waits)
        /\ Goto(CASE Top.method = "Resume" -> "drained"
                  [] Top.method \in {"OnDone", "Flush"} /\ ~waits -> "finish"
                  [] OTHER -> "exit")

\* The chain is empty.
Executed ==
    /\ At("execute")
    /\ ChainSize = 0
    /\ LeaveLoop
    /\ UNCHANGED <<lifecycle, backpressure, signals, downstream, local, response>>

\* The units of body among those before `end' that are still to be parsed.
BodyUpTo(end) == Min({end, response.body + 1}) - Min({parsed, response.body + 1})

\* HPE_PAUSED: the position of a paused parser is null, so that `consumed' is
\* more than the chain holds, and Consume() drops all of it.  Nothing is left
\* for CopyToPendingInput, and ProcessPendingInput finds nothing later.  A
\* parser that has failed answers its error again, which closes nothing more.
Refused ==
    /\ At("execute") /\ ChainSize > 0 /\ (paused \/ failed)
    /\ IF paused
       THEN /\ parsed' = parsed + ChainSize
            /\ lost' = lost + BodyUpTo(parsed')
            /\ pending_input' = IF Own THEN pending_input ELSE 0
       ELSE UNCHANGED <<parsed, lost, pending_input>>
    /\ LeaveLoop
    /\ UNCHANGED <<lifecycle, backpressure, signals, downstream, received, paused,
                   failed, in_message, message_complete, data, input, outcome, response>>

\* llhttp_execute takes the next segment.
Execute ==
    /\ At("execute") /\ ChainSize > 0 /\ ~paused /\ ~failed
    /\ stack' = [stack EXCEPT ![1].pc = "parse", ![1].pos = Chunk,
                              ![1].left = IF Own THEN @ - Chunk ELSE @]
    /\ pending_input' = IF Own THEN pending_input ELSE pending_input - Chunk
    /\ UNCHANGED <<lifecycle, backpressure, signals, done_pending, downstream,
                   received, parser, lost, data, input, outcome, response>>

\* llhttp_finish is running.
InFinish == Top.method \in {"OnDoneFinish", "FlushFinish"}

\* The segment is used up: back to the loop, or to the caller of llhttp_finish.
ChunkEnds ==
    /\ At("parse") /\ Top.pos = 0
    /\ Goto(IF InFinish THEN "status" ELSE "execute")
    /\ UNCHANGED <<lifecycle, backpressure, signals, done_pending, downstream,
                   local, response>>

\* The parser takes one unit and goes on at pc.
Take(pc) ==
    /\ parsed' = parsed + 1
    /\ stack' = [stack EXCEPT ![1].pos = @ - 1,
                    ![1].pc = IF EndsMessage(parsed + 1) THEN "complete" ELSE pc]

\* OnStatus, OnHeaderField, OnHeaderValue, OnHeadersComplete.
ParseHead ==
    /\ At("parse") /\ Top.pos > 0 /\ IsHead
    /\ Take("parse")
    /\ in_message' = TRUE
    /\ UNCHANGED <<lifecycle, backpressure, signals, done_pending, downstream,
                   received, paused, failed, message_complete, lost, pending_input, data,
                   input, outcome, response>>

\* The last chunk, and the body of an error response, which goes to error_body_.
ParseSilent ==
    /\ At("parse") /\ Top.pos > 0 /\ ~IsHead
    /\ IsBody => StatusError
    /\ Take("parse")
    /\ UNCHANGED <<lifecycle, backpressure, signals, done_pending, downstream,
                   received, paused, failed, in_message, message_complete, lost,
                   pending_input, data, input, outcome, response>>

\* What llhttp cannot parse: HandleParseError.
Malformed ==
    /\ At("parse") /\ Top.pos > 0
    /\ Tell("error", "stop")
    /\ UNCHANGED <<unmoved, received, parser, lost, pending_input, data, input, response>>

\* OnBody of a successful response: AppendBodyToPending and OnData.
OnBody ==
    /\ At("parse") /\ Top.pos > 0 /\ IsBody /\ ~StatusError
    /\ parsed' = parsed + 1
    /\ \/ /\ 1 > MaxBuffered - pending_chain
          /\ Tell("error", "stop")
          /\ UNCHANGED data
       \/ /\ 1 <= MaxBuffered - pending_chain
          /\ \E used \in {0, pending_chain + 1} :
                /\ pending_chain' = pending_chain + 1 - used
                /\ delivered' = delivered + used
          /\ stack' = [stack EXCEPT ![1].cb = "data", ![1].pc = "body",
                                    ![1].pos = @ - 1]
          /\ crashed' = (crashed \/ ~downstream)
          /\ UNCHANGED <<finalized, terminals, processing_count, outcome>>
    /\ UNCHANGED <<unmoved, received, paused, failed, in_message, message_complete, lost,
                   pending_input, input, response>>

\* The downstream's OnData has returned to OnBody.
BodyReturned ==
    /\ At("body")
    /\ paused' = (paused \/ IsSuspended)
    /\ Goto(IF EndsMessage(parsed) THEN "complete" ELSE "parse")
    /\ UNCHANGED <<lifecycle, backpressure, signals, done_pending, downstream,
                   received, parsed, failed, in_message, message_complete, lost,
                   pending_input, data, input, outcome, response>>

-----------------------------------------------------------------------------
(***************************************************************************)
(* OnMessageComplete.                                                      *)
(***************************************************************************)
OnMessageComplete ==
    /\ At("complete")
    /\ message_complete' = TRUE
    /\ \/ /\ StatusError
          /\ Tell("error", "stop")
          /\ UNCHANGED data
       \/ /\ ~StatusError /\ pending_chain > 0
          /\ Forward(0, "completed")
          /\ UNCHANGED <<finalized, terminals, processing_count, outcome>>
       \/ /\ ~StatusError /\ pending_chain = 0
          /\ Goto("completed")
          /\ UNCHANGED <<signals, processing_count, data, outcome>>
    /\ UNCHANGED <<unmoved, received, parsed, paused, failed, in_message, lost,
                   pending_input, input, response>>

\* Mutant: body the downstream did not take is not looked at.
CompletedUnchecked ==
    /\ At("completed")
    /\ \/ /\ IsSuspended
          /\ paused' = TRUE
          /\ Goto("parse")
          /\ UNCHANGED <<signals, processing_count, outcome>>
       \/ /\ ~IsSuspended
          /\ Tell("done", "reset")
          /\ UNCHANGED paused
    /\ UNCHANGED <<unmoved, received, parsed, failed, in_message, message_complete,
                   lost, pending_input, data, input, response>>

\* Suspended: pause, the completion waits for Resume(); body the downstream did
\* not take is an error; else EmitDone.
Completed ==
    /\ At("completed")
    /\ \/ /\ IsSuspended
          /\ paused' = TRUE
          /\ Goto("parse")
          /\ UNCHANGED <<signals, processing_count, outcome>>
       \/ /\ ~IsSuspended
          /\ IF pending_chain > 0 THEN Tell("error", "stop") ELSE Tell("done", "reset")
          /\ UNCHANGED paused
    /\ UNCHANGED <<unmoved, received, parsed, failed, in_message, message_complete, lost,
                   pending_input, data, input, response>>

\* An error in the parser or in one of its callbacks closes the stage, and the
\* parser keeps it.  The method that called it returns, but not the callers of
\* ProcessPendingInput, which do not look at what it met.
Stop ==
    /\ At("stop")
    /\ RequestClose
    /\ IF InFinish
       THEN Goto("exit") /\ UNCHANGED <<failed, done_pending>>
       ELSE failed' = TRUE /\ LeaveLoop
    /\ UNCHANGED <<processing_count, backpressure, signals, downstream, received,
                   parsed, paused, in_message, message_complete, lost,
                   pending_input, data, input, outcome, response>>

\* ResetMessageState; the parser is initialised again.
ResetMessageState ==
    /\ At("reset")
    /\ in_message' = FALSE /\ message_complete' = FALSE
    /\ paused' = FALSE /\ failed' = FALSE
    /\ pending_chain' = 0
    /\ finalized' = FALSE
    /\ Goto("parse")
    /\ UNCHANGED <<lifecycle, backpressure, terminals, crashed, done_pending,
                   downstream, received, parsed, lost, pending_input, delivered,
                   input, outcome, response>>

-----------------------------------------------------------------------------
(***************************************************************************)
(* ProcessPending.                                                         *)
(***************************************************************************)
ProcessPending ==
    /\ At("drain")
    /\ IF pending_chain > 0
       THEN Forward(0, "redelivered")
       ELSE Goto("redelivered") /\ UNCHANGED <<data, crashed>>
    /\ UNCHANGED <<lifecycle, backpressure, finalized, terminals, done_pending,
                   downstream, received, parser, lost, pending_input, input,
                   outcome, response>>

\* A completion that waited for this Resume() tries the body once more, at
\* "completed_late"; otherwise the parser is resumed.
Redelivered ==
    /\ At("redelivered")
    /\ \/ /\ IsSuspended
          /\ Goto("drained")
          /\ UNCHANGED <<paused, data, crashed>>
       \/ /\ ~IsSuspended
          /\ message_complete /\ ~StatusError /\ ~done_pending
          /\ IF pending_chain > 0
             THEN Forward(0, "completed_late")
             ELSE Goto("completed_late") /\ UNCHANGED <<data, crashed>>
          /\ UNCHANGED paused
       \/ /\ ~IsSuspended
          /\ ~message_complete \/ StatusError \/ done_pending
          /\ paused' = FALSE
          /\ Goto("execute")
          /\ UNCHANGED <<data, crashed>>
    /\ UNCHANGED <<lifecycle, backpressure, finalized, terminals, done_pending,
                   downstream, received, parsed, failed, in_message, message_complete,
                   lost, pending_input, input, outcome, response>>

CompletedLate ==
    /\ At("completed_late")
    /\ IF IsSuspended
       THEN Goto("drained") /\ UNCHANGED <<signals, processing_count, outcome>>
       ELSE IF pending_chain > 0 THEN Tell("error", "close") ELSE Tell("done", "reset")
    /\ UNCHANGED <<unmoved, received, parser, lost, pending_input, data, input, response>>

-----------------------------------------------------------------------------
(***************************************************************************)
(* FlushAndComplete and the end of OnDone.                                 *)
(***************************************************************************)
FlushAndComplete ==
    /\ At("flush")
    /\ stack' = [stack EXCEPT ![1].method = "Flush",
                    ![1].pc = IF pending_input > 0 THEN "execute" ELSE "finish"]
    /\ paused' = (paused /\ pending_input = 0)
    /\ UNCHANGED <<lifecycle, backpressure, signals, done_pending, downstream,
                   received, parsed, failed, in_message, message_complete, lost,
                   pending_input, data, input, outcome, response>>

\* llhttp_finish, unless the message is complete: nothing to do for a parser
\* that is paused, has failed or is between messages, the end of a message delimited by the
\* connection, an error for any other.
Finish ==
    /\ At("finish")
    /\ \/ /\ message_complete \/ paused \/ failed \/ ~in_message
          /\ Goto("status")
          /\ UNCHANGED <<signals, processing_count, outcome>>
       \/ /\ ~message_complete /\ ~paused /\ ~failed /\ in_message
          /\ response.framing = "close"
          /\ stack' = [stack EXCEPT ![1].pc = "complete", ![1].pos = 0,
                          ![1].method = IF @ = "OnDone" THEN "OnDoneFinish"
                                                        ELSE "FlushFinish"]
          /\ UNCHANGED <<signals, processing_count, outcome>>
       \/ /\ ~message_complete /\ ~paused /\ ~failed /\ in_message
          /\ response.framing # "close"
          /\ Tell("error", "close")
    /\ UNCHANGED <<unmoved, received, parser, lost, pending_input, data, input, response>>

\* The error status, then a suspension, then CompleteWithFlush.
Status ==
    /\ At("status")
    /\ \/ /\ StatusError /\ ~finalized
          /\ Tell("error", "close")
          /\ UNCHANGED done_pending
       \/ /\ ~StatusError \/ finalized
          /\ IF Top.method \in {"OnDone", "OnDoneFinish"} /\ IsSuspended
             THEN done_pending' = TRUE /\ Goto("exit")
             ELSE Goto("completing") /\ UNCHANGED done_pending
          /\ UNCHANGED <<signals, processing_count, outcome>>
    /\ UNCHANGED <<close_pending, close_scheduled, closed, close_deferred,
                   backpressure, downstream, received, parser, lost,
                   pending_input, data, input, response>>

CompleteWithFlush ==
    /\ At("completing")
    /\ IF pending_chain = 0
       THEN Tell("done", "close") /\ UNCHANGED data
       ELSE /\ Forward(0, "flushed")
            /\ UNCHANGED <<finalized, terminals, processing_count, outcome>>
    /\ UNCHANGED <<unmoved, received, parser, lost, pending_input, input, response>>

Flushed ==
    /\ At("flushed")
    /\ \/ /\ IsSuspended
          /\ done_pending' = TRUE
          /\ Goto("exit")
          /\ UNCHANGED <<signals, processing_count, outcome>>
       \/ /\ ~IsSuspended
          /\ Tell(IF pending_chain > 0 THEN "error" ELSE "done", "close")
          /\ UNCHANGED done_pending
    /\ UNCHANGED <<close_pending, close_scheduled, closed, close_deferred,
                   backpressure, downstream, received, parser, lost,
                   pending_input, data, input, response>>

\* Overflow of the input buffer, and PropagateError.
Fail ==
    /\ At("fail")
    /\ Tell("error", "close")
    /\ UNCHANGED <<unmoved, received, parser, lost, pending_input, data, input, response>>

\* The event loop runs the deferred DoClose.
DoClose ==
    /\ stack = <<>>
    /\ close_deferred
    /\ close_deferred' = FALSE
    /\ pending_chain' = 0 /\ pending_input' = 0
    /\ downstream' = FALSE
    /\ UNCHANGED <<processing_count, close_pending, close_scheduled, closed,
                   backpressure, signals, done_pending, stack, received, parser,
                   lost, delivered, input, outcome, response>>

-----------------------------------------------------------------------------
Base == CommonNext /\ UNCHANGED <<local, response>>

Upstream ==
    \/ \E n \in 1..(MaxBody + 2), segments \in {1, 2} : OnData(n, segments)
    \/ OnDone \/ OnError

Code ==
    \/ Executed \/ Refused \/ Execute \/ ChunkEnds \/ ParseHead \/ ParseSilent
    \/ Malformed \/ OnBody \/ BodyReturned \/ OnMessageComplete \/ Completed
    \/ Stop \/ ResetMessageState \/ ProcessPending \/ Redelivered \/ CompletedLate
    \/ FlushAndComplete \/ Finish \/ Status \/ CompleteWithFlush
    \/ Flushed \/ Fail \/ DoClose

Next == Base \/ Upstream \/ Code

Spec == Init /\ [][Next]_vars

\* The code runs, and callbacks return.
Fairness ==
    /\ WF_vars(Code)
    /\ WF_vars((Return \/ Exit \/ CloseStep \/ ResumeUpstream \/ CompleteDeferred)
                /\ UNCHANGED <<local, response>>)

FairSpec == Spec /\ Fairness

-----------------------------------------------------------------------------
(***************************************************************************)
(* Properties.                                                             *)
(***************************************************************************)
\* The response that has arrived is a whole message.  A connection that ends
\* before the first byte of a response counts as an empty one.
Whole ==
    \/ response.ok /\ received = Units /\ response.framing # "close"
    \/ input = "done" /\ (received = 0 \/ (response.ok /\ response.framing = "close"))

\* HttpClient is a stage whose output is the body of a successful response:
\* each unit of it goes down once at most and in order, however the response is
\* cut into segments and however parsing is suspended; an error status or a
\* message that is cut short is never reported as done; and a stage that
\* reports done has handed down all but what it consumed while its parser was
\* paused.  (That it consumes anything then is what ConsumesOnlyParsed finds.)
S == INSTANCE LossyStage WITH
        owed <- IF response.ok /\ received > 0 THEN Min({received - 1, response.body}) ELSE 0,
        handed <- delivered,
        ended <- Whole,
        signal <- outcome,
        dropped <- lost,
        refusing <- paused

ImplementsStage == S!Spec

\* Once the connection has ended, the downstream is told, unless the stage
\* stays suspended or somebody closes it.
EndIsReported == input = "done" ~> (outcome # "none" \/ closed \/ IsSuspended)

\* "Only consume bytes that were actually parsed before the pause" (OnData).
ConsumesOnlyParsed == lost = 0
=============================================================================
