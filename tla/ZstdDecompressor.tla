--------------------------- MODULE ZstdDecompressor ---------------------------
(***************************************************************************)
(* ZstdDecompressor<D>, a stage of the historical chain, on top of its     *)
(* base class PipelineComponent.                                           *)
(*                                                                         *)
(* Compressed input comes in units, one contiguous chunk each; the stream  *)
(* is one frame of FrameUnits units.  libzstd is external: a call with     *)
(* output still inside the decoder only flushes it, any other call takes   *)
(* one unit and turns it into Expand units of output, and a call never     *)
(* hands out more than the SegCap units that fit its output segment.       *)
(***************************************************************************)
EXTENDS PipelineComponent, FiniteSetsExt

CONSTANTS
    FrameUnits,   \* units of compressed input in the frame
    Expand,       \* units of output one unit of input decodes to
    SegCap,       \* Segment::kSize, in units of output
    MaxPending,   \* kMaxPendingInput, in units of input
    MaxOutput     \* kMaxBufferedOutput, in units of output

ASSUME ZstdAssumption ==
    /\ FrameUnits \in Nat \ {0} /\ Expand \in Nat \ {0} /\ SegCap \in Nat \ {0}
    /\ MaxPending \in Nat /\ MaxOutput \in Nat

VARIABLES
    pending_input,  \* units in pending_input_
    output_chain,   \* units in output_chain_
    incomplete,     \* last_decompress_result_ # 0
    decoded,        \* units the decoder has taken
    held,           \* decoded output still inside the decoder
    received,       \* units the upstream has delivered
    delivered,      \* units of output the downstream has consumed
    input,          \* what the upstream has signalled: "open", "done", "failed"
    outcome         \* the terminal signal the downstream got, and why

decoder == <<incomplete, decoded, held>>
data == <<pending_input, output_chain, decoder, received, delivered>>
vars == <<componentVars, data, input, outcome>>

Init ==
    /\ ComponentInit
    /\ pending_input = 0 /\ output_chain = 0
    /\ incomplete = FALSE /\ decoded = 0 /\ held = 0
    /\ received = 0 /\ delivered = 0
    /\ input = "open" /\ outcome = "none"

-----------------------------------------------------------------------------
\* OnData works on its argument, every other activation on pending_input_.
ChainSize == IF Top.method = "OnData" THEN Top.left ELSE pending_input

\* Consume n units of that chain and go on at pc.
Consume(n, pc) ==
    /\ stack' = [stack EXCEPT ![1].pc = pc, ![1].pos = 0,
                    ![1].left = IF Top.method = "OnData" THEN @ - n ELSE @]
    /\ pending_input' = IF Top.method = "OnData" THEN pending_input
                                                 ELSE pending_input - n

\* EmitError or EmitDone, then RequestClose at "close".
Finish(signal, why) ==
    /\ Emit(signal, "close")
    /\ outcome' = IF finalized THEN outcome ELSE why

\* Hand the output chain to the downstream, which consumes all of it, or
\* nothing of it when it ends in the middle of a record.
Forward(out, pc) ==
    \E used \in {0, out} :
        /\ output_chain' = out - used
        /\ delivered' = delivered + used
        /\ CallDownstream("data", pc)

-----------------------------------------------------------------------------
(***************************************************************************)
(* Calls of the upstream.                                                  *)
(***************************************************************************)
OnData(n) ==
    /\ UpstreamRuns /\ ~closed
    /\ input = "open"
    /\ received + n <= FrameUnits
    /\ received' = received + n
    /\ \/ /\ pending_input = 0
          /\ Enter("OnData", "decompress", n, TRUE)
          /\ UNCHANGED pending_input
       \/ /\ pending_input > 0 /\ pending_input + n > MaxPending
          /\ Enter("OnDataMerged", "overflow", 0, TRUE)
          /\ UNCHANGED pending_input
       \/ /\ pending_input > 0 /\ pending_input + n <= MaxPending
          /\ Enter("OnDataMerged", "decompress", 0, TRUE)
          /\ pending_input' = pending_input + n
    /\ UNCHANGED <<close_pending, close_scheduled, closed, close_deferred,
                   backpressure, signals, done_pending, downstream,
                   output_chain, decoder, delivered, input, outcome>>

OnDone ==
    /\ UpstreamRuns /\ ~closed
    /\ input = "open"
    /\ input' = "done"
    /\ IF IsSuspended
       THEN done_pending' = TRUE /\ UNCHANGED <<stack, processing_count>>
       ELSE /\ Enter("Finish", IF pending_input > 0 THEN "decompress" ELSE "completing",
                     0, TRUE)
            /\ UNCHANGED done_pending
    /\ UNCHANGED <<close_pending, close_scheduled, closed, close_deferred,
                   backpressure, signals, downstream, data, outcome>>

OnError ==
    /\ UpstreamRuns /\ ~closed
    /\ input = "open"
    /\ input' = "failed"
    /\ Enter("OnError", "propagate", 0, TRUE)
    /\ UNCHANGED <<close_pending, close_scheduled, closed, close_deferred,
                   backpressure, signals, done_pending, downstream, data, outcome>>

-----------------------------------------------------------------------------
(***************************************************************************)
(* DecompressChain.                                                        *)
(***************************************************************************)
DecompressEnd ==
    /\ At("decompress")
    /\ IsSuspended \/ ChainSize = 0
    /\ Goto(IF IsSuspended THEN "suspended" ELSE "decompressed")
    /\ UNCHANGED <<lifecycle, backpressure, signals, done_pending, downstream,
                   data, input, outcome>>

\* One call of ZSTD_decompressStream; what it produces is forwarded.
Decompress ==
    /\ At("decompress")
    /\ ~IsSuspended /\ ChainSize > 0
    /\ LET taken == IF held = 0 THEN 1 ELSE 0
           ready == IF held = 0 THEN Expand ELSE held
           out == Min({ready, SegCap})
       IN  /\ decoded' = decoded + taken
           /\ held' = ready - out
           /\ incomplete' = ~(decoded' = FrameUnits /\ held' = 0)
           /\ IF out > MaxOutput - output_chain
              THEN /\ Finish("error", "overflow")
                   /\ UNCHANGED <<output_chain, delivered>>
              ELSE /\ \E used \in {0, output_chain + out} :
                         /\ output_chain' = output_chain + out - used
                         /\ delivered' = delivered + used
                   /\ stack' = [stack EXCEPT ![1].cb = "data", ![1].pc = "forwarded",
                                             ![1].pos = taken]
                   /\ crashed' = (crashed \/ ~downstream)
                   /\ UNCHANGED <<finalized, terminals, processing_count, outcome>>
    /\ UNCHANGED <<close_pending, close_scheduled, closed, close_deferred,
                   backpressure, done_pending, downstream, pending_input,
                   received, input>>

\* ZSTD_isError.
Corrupt ==
    /\ At("decompress")
    /\ ~IsSuspended /\ ChainSize > 0
    /\ Finish("error", "corrupt")
    /\ UNCHANGED <<close_pending, close_scheduled, closed, close_deferred,
                   backpressure, done_pending, downstream, data, input>>

\* ForwardData has returned: stop if that suspended the stage, else go on with
\* the rest of the chunk or with the next one.
Forwarded ==
    /\ At("forwarded")
    /\ Consume(Top.pos, IF IsSuspended THEN "suspended" ELSE "decompress")
    /\ UNCHANGED <<lifecycle, backpressure, signals, done_pending, downstream,
                   output_chain, decoder, received, delivered, input, outcome>>

(***************************************************************************)
(* What the callers of DecompressChain do with its result.                 *)
(***************************************************************************)
Decompressed ==
    /\ At("decompressed")
    /\ Goto(CASE Top.method = "Resume" -> "drained"
              [] Top.method = "Finish" -> "completing"
              [] OTHER -> "exit")
    /\ UNCHANGED <<lifecycle, backpressure, signals, done_pending, downstream,
                   data, input, outcome>>

\* Suspended: OnData copies the rest of its argument to pending_input_
\* (CopyToPendingInput), a completion is held back.
Interrupted ==
    /\ At("suspended")
    /\ \/ /\ Top.method = "OnData" /\ Top.left <= MaxPending - pending_input
          /\ pending_input' = pending_input + Top.left
          /\ Goto("exit")
          /\ UNCHANGED done_pending
       \/ /\ Top.method = "OnData" /\ Top.left > MaxPending - pending_input
          /\ Goto("overflow")
          /\ UNCHANGED <<pending_input, done_pending>>
       \/ /\ Top.method = "Finish"
          /\ done_pending' = TRUE
          /\ Goto("exit")
          /\ UNCHANGED pending_input
       \/ /\ Top.method \in {"OnDataMerged", "Resume"}
          /\ Goto(IF Top.method = "Resume" THEN "drained" ELSE "exit")
          /\ UNCHANGED <<pending_input, done_pending>>
    /\ UNCHANGED <<lifecycle, backpressure, signals, downstream, output_chain,
                   decoder, received, delivered, input, outcome>>

\* The two error exits that are not the decoder's.
Fail ==
    /\ \/ At("overflow") /\ Finish("error", "overflow")
       \/ At("propagate") /\ Finish("error", "upstream")
    /\ UNCHANGED <<close_pending, close_scheduled, closed, close_deferred,
                   backpressure, done_pending, downstream, data, input>>

-----------------------------------------------------------------------------
(***************************************************************************)
(* ProcessPending, FlushAndComplete and the end of OnDone.                 *)
(***************************************************************************)

\* Mutant: pending input is not decompressed.
PendingSkipped(otherwise) == otherwise

\* ProcessPendingData decompresses unless closed or out of input.
PendingPc(otherwise) ==
    IF closed \/ pending_input = 0 THEN otherwise ELSE "decompress"

ProcessPending ==
    /\ At("drain")
    /\ IF output_chain > 0
       THEN Forward(output_chain, "redelivered")
       ELSE Goto(PendingPc("drained")) /\ UNCHANGED <<output_chain, delivered, crashed>>
    /\ UNCHANGED <<lifecycle, backpressure, finalized, terminals, done_pending,
                   downstream, pending_input, decoder, received, input, outcome>>

Redelivered ==
    /\ At("redelivered")
    /\ Goto(IF IsSuspended THEN "drained" ELSE PendingPc("drained"))
    /\ UNCHANGED <<lifecycle, backpressure, signals, done_pending, downstream,
                   data, input, outcome>>

FlushAndComplete ==
    /\ At("flush")
    /\ stack' = [stack EXCEPT ![1].method = "Finish", ![1].pc = PendingPc("completing")]
    /\ UNCHANGED <<lifecycle, backpressure, signals, done_pending, downstream,
                   data, input, outcome>>

\* A frame that is not complete is an error; else CompleteWithFlush.
Complete ==
    /\ At("completing")
    /\ \/ /\ incomplete
          /\ Finish("error", "incomplete")
          /\ UNCHANGED <<output_chain, delivered>>
       \/ /\ ~incomplete /\ output_chain = 0
          /\ Finish("done", "done")
          /\ UNCHANGED <<output_chain, delivered>>
       \/ /\ ~incomplete /\ output_chain > 0
          /\ Forward(output_chain, "flushed")
          /\ UNCHANGED <<finalized, terminals, processing_count, outcome>>
    /\ UNCHANGED <<close_pending, close_scheduled, closed, close_deferred,
                   backpressure, done_pending, downstream, pending_input,
                   decoder, received, input>>

\* FlushPendingData after its OnData has returned.
Flushed ==
    /\ At("flushed")
    /\ \/ /\ IsSuspended
          /\ done_pending' = TRUE
          /\ Goto("exit")
          /\ UNCHANGED <<signals, processing_count, outcome>>
       \/ /\ ~IsSuspended
          /\ IF output_chain > 0 THEN Finish("error", "leftover")
                                 ELSE Finish("done", "done")
          /\ UNCHANGED done_pending
    /\ UNCHANGED <<close_pending, close_scheduled, closed, close_deferred,
                   backpressure, downstream, data, input>>

\* The event loop runs the deferred DoClose.
DoClose ==
    /\ stack = <<>>
    /\ close_deferred
    /\ close_deferred' = FALSE
    /\ output_chain' = 0 /\ pending_input' = 0
    /\ downstream' = FALSE
    /\ UNCHANGED <<processing_count, close_pending, close_scheduled, closed,
                   backpressure, signals, done_pending, stack, decoder,
                   received, delivered, input, outcome>>

-----------------------------------------------------------------------------
Base == CommonNext /\ UNCHANGED <<data, input, outcome>>

Upstream == (\E n \in 1..FrameUnits : OnData(n)) \/ OnDone \/ OnError

Code ==
    \/ DecompressEnd \/ Decompress \/ Corrupt \/ Forwarded \/ Decompressed
    \/ Interrupted \/ Fail \/ ProcessPending \/ Redelivered
    \/ FlushAndComplete \/ Complete \/ Flushed \/ DoClose

Next == Base \/ Upstream \/ Code

Spec == Init /\ [][Next]_vars

\* The code runs, and callbacks return.
Fairness ==
    /\ WF_vars(Code)
    /\ WF_vars((Return \/ Exit \/ CloseStep \/ ResumeUpstream \/ CompleteDeferred)
                /\ UNCHANGED <<data, input, outcome>>)

FairSpec == Spec /\ Fairness

-----------------------------------------------------------------------------
(***************************************************************************)
(* Properties.                                                             *)
(***************************************************************************)
\* Every variable keeps its type; in particular guards are given back and no
\* buffer outgrows its limit.
TypeOK ==
    /\ suspend_count \in 0..MaxSuspend /\ upstream_suspends \in Nat
    /\ processing_count \in 0..(2 * MaxStack)
    /\ {done_pending, close_pending, close_scheduled, closed, close_deferred,
        finalized, downstream, crashed, incomplete} \subseteq BOOLEAN
    /\ terminals \in Nat
    /\ pending_input \in 0..FrameUnits /\ output_chain \in 0..MaxOutput
    /\ held \in 0..Expand /\ received \in 0..FrameUnits
    /\ input \in {"open", "done", "failed"}

\* The downstream gets one terminal signal at most, whatever it does from
\* inside a callback.
OneTerminal == terminals <= 1

\* Suspending this stage suspends the upstream once, at any depth, and the
\* Resume() that brings the count to zero takes that back, unless the stage was
\* suspended again when its drain ended: such a drain, and nothing else, leaves
\* a suspension on the upstream that no later Resume() takes back.
BackpressureBalanced ==
    stack = <<>> /\ ~closed =>
        upstream_suspends = unreturned + (IF IsSuspended THEN 1 ELSE 0)

\* "No further callbacks after Close()": in particular none through the
\* downstream pointer that DoClose has reset.
NoCallAfterDoClose == ~crashed

\* The decompressor is a stage: every unit it received decodes to Expand units
\* that are handed down once and in order, and it signals completion only for
\* input that has ended and is handed down whole, however often it was
\* suspended on the way.
S == INSTANCE Stage WITH
        owed <- Expand * received,
        handed <- delivered,
        ended <- input = "done",
        signal <- IF outcome \in {"none", "done"} THEN outcome ELSE "error"

ImplementsStage == S!Spec

\* A stage that was asked to close runs its DoClose, and once the upstream is
\* done the downstream is told, unless the stage stays suspended or somebody
\* closes it.
EndIsReported ==
    /\ closed ~> ~downstream
    /\ input = "done" ~> (finalized \/ closed \/ IsSuspended)
=============================================================================
