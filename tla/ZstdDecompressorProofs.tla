------------------------ MODULE ZstdDecompressorProofs ------------------------
(***************************************************************************)
(* Three results about the decompressor.  The finalized_ guard of          *)
(* EmitError and EmitDone makes its terminal signal one-shot, however      *)
(* deeply its methods nest.  It implements Stage: IInv says where every    *)
(* unit of the input is while the methods and callbacks run.  And it holds *)
(* exactly one suspension of its upstream while it is suspended.           *)
(***************************************************************************)
EXTENDS ZstdDecompressor, TLAPS

\* finalized_ counts the terminal signals.
OneShot ==
    \/ finalized = FALSE /\ terminals = 0
    \/ finalized = TRUE /\ terminals = 1

\* What a step may do to the signal: nothing, or give the first one.
Quiet == UNCHANGED <<finalized, terminals>>
Signal == finalized = FALSE /\ finalized' = TRUE /\ terminals' = terminals + 1

\* A step that emits nothing, and one that emits under the flag, keep the count.
LEMMA OneShotKept == ASSUME OneShot, Quiet \/ Signal PROVE OneShot'
  BY DEF OneShot, Quiet, Signal

\* EmitError and EmitDone emit under the flag or not at all.
LEMMA EmitSignals ==
    ASSUME OneShot, NEW signal, NEW pc, Emit(signal, pc)
    PROVE  Quiet \/ Signal
  BY DEF OneShot, Emit, Quiet, Signal, signals

\* So does every exit that emits and then closes.
LEMMA FinishSignals ==
    ASSUME OneShot, NEW signal, NEW why, Finish(signal, why)
    PROVE  Quiet \/ Signal
  BY EmitSignals DEF Finish

\* No other step of the stage emits.
LEMMA NextSignals == ASSUME OneShot, [Next]_vars PROVE Quiet \/ Signal
<1>1. CASE Base
  BY <1>1 DEF Base, CommonNext, Suspend, Resume, Close, Return, Exit, CloseStep,
              ResumeUpstream, CompleteDeferred, signals, Quiet
<1>2. CASE Upstream
  BY <1>2 DEF Upstream, OnData, OnDone, OnError, signals, Quiet
<1>3. CASE Code
  <2>1. CASE DecompressEnd \/ Forwarded \/ Decompressed \/ Interrupted
                \/ Redelivered \/ FlushAndComplete \/ DoClose
    BY <2>1 DEF DecompressEnd, Forwarded, Decompressed, Interrupted,
                Redelivered, FlushAndComplete, DoClose, signals, Quiet
  <2>2. CASE ProcessPending
    BY <2>2 DEF ProcessPending, Quiet
  <2>3. CASE Decompress
    BY <2>3, FinishSignals DEF Decompress, Quiet
  <2>4. CASE Corrupt
    BY <2>4, FinishSignals DEF Corrupt
  <2>5. CASE Fail
    BY <2>5, FinishSignals DEF Fail
  <2>6. CASE Complete
    BY <2>6, FinishSignals DEF Complete, Quiet
  <2>7. CASE Flushed
    BY <2>7, FinishSignals DEF Flushed, signals, Quiet
  <2> QED BY <1>3, <2>1, <2>2, <2>3, <2>4, <2>5, <2>6, <2>7 DEF Code
<1>4. CASE UNCHANGED vars
  BY <1>4 DEF vars, componentVars, signals, Quiet
<1> QED BY <1>1, <1>2, <1>3, <1>4 DEF Next

\* The downstream of a decompressor gets at most one terminal signal, for any
\* frame, segment size, limit and depth of nesting.
THEOREM TerminalOnce == Spec => []OneTerminal
<1>1. Init => OneShot
  BY DEF Init, ComponentInit, OneShot
<1>2. OneShot /\ [Next]_vars => OneShot'
  BY NextSignals, OneShotKept
<1>3. OneShot => OneTerminal
  BY DEF OneShot, OneTerminal
<1> QED BY <1>1, <1>2, <1>3, PTL DEF Spec

-----------------------------------------------------------------------------
(***************************************************************************)
(* The activations of the stage, if the downstream does not resume it from *)
(* inside a callback: at most one at work, on top of a Resume() that has   *)
(* resumed the upstream.                                                   *)
(***************************************************************************)
Places == {"decompress", "overflow", "completing", "propagate", "forwarded", "suspended",
           "decompressed", "exit", "drained", "drain", "redelivered", "flush", "flushed",
           "close", "resumed"}
Frames == [method : {"OnData", "OnDataMerged", "Finish", "OnError", "Resume"}, pc : Places,
           cb : {"none", "data", "done", "error", "resume"}, left : Nat, pos : {0, 1},
           guard : BOOLEAN]

FrameOK(f) ==
    /\ f.cb = "resume" => f.pc = "resumed"
    /\ f.pc \in {"drain", "redelivered", "drained", "resumed", "flush"} => f.method = "Resume"
    /\ f.pc \in {"completing", "flushed"} => f.method = "Finish"

Stacked ==
    /\ stack \in Seq(Frames)
    /\ \A i \in 1..Len(stack) : FrameOK(stack[i]) /\ (i > 1 => stack[i].cb = "resume")

LEMMA TopKnown ==
    ASSUME Stacked, stack # <<>>
    PROVE  Top = stack[1] /\ Top \in Frames /\ FrameOK(Top) /\ 1 \in 1..Len(stack)
  BY DEF Stacked, Top

\* The innermost activation goes on.
LEMMA TopChanged ==
    ASSUME Stacked, stack # <<>>, NEW f \in Frames, FrameOK(f), stack' = [stack EXCEPT ![1] = f]
    PROVE  Stacked' /\ stack' # <<>> /\ Top' = f
<1>1. Len(stack) \in Nat /\ 1 \in 1..Len(stack)
  BY DEF Stacked
<1>2. /\ stack' \in Seq(Frames) /\ Len(stack') = Len(stack) /\ stack'[1] = f
      /\ \A i \in 1..Len(stack) : i > 1 => stack'[i] = stack[i]
  BY <1>1 DEF Stacked
<1>3. stack' # <<>> /\ Top' = f
  BY <1>1, <1>2 DEF Top
<1> QED BY <1>1, <1>2, <1>3 DEF Stacked

\* A method is entered.
LEMMA Pushed ==
    ASSUME Stacked, stack = <<>> \/ Top.cb = "resume", NEW f \in Frames, FrameOK(f),
           stack' = <<f>> \o stack
    PROVE  Stacked' /\ stack' # <<>> /\ Top' = f
<1>1. /\ stack' \in Seq(Frames) /\ Len(stack') = Len(stack) + 1 /\ stack'[1] = f
      /\ \A i \in 1..Len(stack') : i > 1 => stack'[i] = stack[i - 1] /\ i - 1 \in 1..Len(stack)
  BY DEF Stacked
<1>2. stack' # <<>> /\ Top' = f
  BY <1>1 DEF Top, Stacked
<1>3. stack # <<>> => stack[1].cb = "resume"
  BY TopKnown
<1>4. ASSUME NEW i \in 1..Len(stack), i > 1 \/ stack # <<>> PROVE stack[i].cb = "resume"
  BY <1>3, <1>4 DEF Stacked
<1> QED BY <1>1, <1>2, <1>4 DEF Stacked

\* A method returns.
LEMMA Popped ==
    ASSUME Stacked, stack # <<>>, stack' = Tail(stack)
    PROVE  /\ Stacked'
           /\ stack' # <<>> => Top'.cb = "resume" /\ Top'.pc = "resumed" /\ Top'.method = "Resume"
<1>1. /\ stack' \in Seq(Frames) /\ Len(stack') = Len(stack) - 1
      /\ \A i \in 1..Len(stack') : stack'[i] = stack[i + 1] /\ i + 1 \in 1..Len(stack) /\ i + 1 > 1
  BY DEF Stacked
<1>2. Stacked'
  BY <1>1 DEF Stacked
<1>3. ASSUME stack' # <<>> PROVE Top' = stack[2] /\ 2 \in 1..Len(stack)
  BY <1>1, <1>3 DEF Top
<1> QED BY <1>2, <1>3 DEF Stacked, FrameOK

Callbacks == {"none", "data", "done", "error", "resume"}

\* The innermost activation is now at pc, in the call cb of the downstream.
MovedTo(pc, cb) ==
    /\ stack' # <<>> /\ Top'.method = Top.method /\ Top'.pc = pc /\ Top'.cb = cb
    /\ Top'.left = Top.left /\ Top'.pos = Top.pos /\ Top'.guard = Top.guard

\* The places its method has.
May(pc, cb) ==
    /\ pc \in Places /\ cb \in Callbacks
    /\ cb = "resume" => pc = "resumed"
    /\ pc \in {"drain", "redelivered", "drained", "resumed", "flush"} => Top.method = "Resume"
    /\ pc \in {"completing", "flushed"} => Top.method = "Finish"

LEMMA TopMoved ==
    ASSUME Stacked, stack # <<>>, NEW pc, NEW cb, May(pc, cb),
           stack' = [stack EXCEPT ![1] = [Top EXCEPT !.pc = pc, !.cb = cb]]
    PROVE  Stacked' /\ MovedTo(pc, cb)
<1> DEFINE f == [Top EXCEPT !.pc = pc, !.cb = cb]
<1>1. Top \in Frames
  BY TopKnown
<1>2. f \in Frames /\ FrameOK(f)
  BY <1>1 DEF Frames, FrameOK, May, Callbacks
<1>3. f.method = Top.method /\ f.pc = pc /\ f.cb = cb /\ f.left = Top.left
      /\ f.pos = Top.pos /\ f.guard = Top.guard
  BY <1>1 DEF Frames
<1>4. stack' = [stack EXCEPT ![1] = f]
  OBVIOUS
<1> HIDE DEF f
<1>5. Stacked' /\ stack' # <<>> /\ Top' = f
  BY <1>2, <1>4, TopChanged
<1> QED BY <1>3, <1>5 DEF MovedTo

LEMMA GotoMoves ==
    ASSUME Stacked, stack # <<>>, NEW pc, May(pc, Top.cb), Goto(pc)
    PROVE  Stacked' /\ MovedTo(pc, Top.cb)
<1>1. Top = stack[1] /\ Top \in Frames /\ 1 \in 1..Len(stack)
  BY TopKnown
<1>2. [Top EXCEPT !.pc = pc, !.cb = Top.cb] = [stack[1] EXCEPT !.pc = pc]
  BY <1>1 DEF Frames
<1>3. stack' = [stack EXCEPT ![1] = [Top EXCEPT !.pc = pc, !.cb = Top.cb]]
  BY <1>1, <1>2 DEF Goto, Stacked
<1> QED BY <1>3, TopMoved

LEMMA CallMoves ==
    ASSUME Stacked, stack # <<>>, NEW pc, NEW cb, May(pc, cb), CallDownstream(cb, pc)
    PROVE  Stacked' /\ MovedTo(pc, cb)
<1>1. Top = stack[1] /\ Top \in Frames /\ 1 \in 1..Len(stack)
  BY TopKnown
<1>2. [Top EXCEPT !.pc = pc, !.cb = cb] = [stack[1] EXCEPT !.cb = cb, !.pc = pc]
  BY <1>1 DEF Frames
<1>3. stack' = [stack EXCEPT ![1] = [Top EXCEPT !.pc = pc, !.cb = cb]]
  BY <1>1, <1>2 DEF CallDownstream, Stacked
<1> QED BY <1>3, TopMoved

LEMMA ReturnMoves ==
    ASSUME Stacked, stack # <<>>, stack' = [stack EXCEPT ![1].cb = "none"]
    PROVE  Stacked' /\ MovedTo(Top.pc, "none")
<1>1. Top = stack[1] /\ Top \in Frames /\ FrameOK(Top) /\ 1 \in 1..Len(stack)
  BY TopKnown
<1>2. [Top EXCEPT !.pc = Top.pc, !.cb = "none"] = [stack[1] EXCEPT !.cb = "none"]
  BY <1>1 DEF Frames
<1>3. stack' = [stack EXCEPT ![1] = [Top EXCEPT !.pc = Top.pc, !.cb = "none"]]
  BY <1>1, <1>2 DEF Stacked
<1>4. May(Top.pc, "none")
  BY <1>1 DEF May, Frames, FrameOK, Callbacks
<1> QED BY <1>3, <1>4, TopMoved

-----------------------------------------------------------------------------
(***************************************************************************)
(* Where the data is.  Until the stage is closed or has given its terminal *)
(* signal nothing is lost: the input is decoded, pending, or left of the   *)
(* argument of OnData, and what it decoded to is delivered, buffered or    *)
(* held by the decoder.                                                    *)
(***************************************************************************)
Worth(units) == Expand * units

Left == IF stack # <<>> /\ Top.method = "OnData" /\ Top.pc # "exit" THEN Top.left ELSE 0
Taken == IF stack # <<>> /\ Top.pc = "forwarded" THEN Top.pos ELSE 0
Lossless == ~closed /\ outcome = "none"

Typed ==
    /\ pending_input \in Nat /\ output_chain \in Nat /\ decoded \in Nat /\ held \in Nat
    /\ received \in Nat /\ delivered \in Nat
    /\ closed \in BOOLEAN /\ incomplete \in BOOLEAN /\ finalized \in BOOLEAN

Conserved ==
    /\ delivered + output_chain + held <= Worth(decoded)
    /\ Lossless => delivered + output_chain + held = Worth(decoded)
    /\ decoded <= received
    /\ outcome = "none" => decoded + pending_input + Left <= received + Taken
    /\ Lossless /\ (stack # <<>> => Top.pc # "overflow")
          => decoded + pending_input + Left = received + Taken
    /\ stack # <<>> => Taken <= ChainSize
    /\ ~incomplete => held = 0

\* Completion is tried when the input has ended and all of it is decoded.
Ending ==
    /\ done_pending => input = "done"
    /\ stack # <<>> =>
          /\ Top.method = "Finish" \/ Top.pc = "flush" => input = "done"
          /\ Top.pc \in {"completing", "flushed"} => closed \/ pending_input = 0
          /\ Top.pc = "flushed" => closed \/ ~incomplete
          /\ Top.pc = "decompressed" => ChainSize = 0

\* A terminal signal is followed by the close, and by no more decoding.
Signalled ==
    /\ finalized <=> outcome # "none"
    /\ outcome # "none" =>
          /\ closed \/ (stack # <<>> /\ Top.pc = "close")
          /\ stack # <<>> => Top.pc \notin {"decompress", "forwarded"}

IInv == Stacked /\ Typed /\ Conserved /\ Ending /\ Signalled

LEMMA WorthKnown ==
    /\ Worth(0) = 0
    /\ \A m \in Nat : Worth(m) \in Nat /\ Worth(m + 1) = Worth(m) + Expand
    /\ \A m, n \in Nat : m <= n => Worth(m) <= Worth(n)
<1>1. Expand \in Nat
  BY ZstdAssumption
<1>2. ASSUME NEW m \in Nat, NEW n \in Nat, m <= n PROVE Worth(m) <= Worth(n)
  <2>1. PICK k \in Nat : n = m + k
    BY <1>2
  <2>2. Expand * n = Expand * m + Expand * k /\ Expand * k \in Nat /\ Expand * m \in Nat
    BY <1>1, <2>1
  <2> QED BY <2>2 DEF Worth
<1> QED BY <1>1, <1>2 DEF Worth

LEMMA LessLeft ==
    ASSUME NEW a \in Nat, NEW b \in Nat, NEW c \in Nat, NEW d \in Nat, NEW m \in Nat, NEW n \in Nat,
           a + b + m <= c + d, n <= m
    PROVE  a + b + n <= c + d
  OBVIOUS

\* The innermost activation goes on at pc, and no data moves.
ControlOK(pc) ==
    /\ UNCHANGED <<data, input, outcome, finalized>>
    /\ closed' \in BOOLEAN /\ (closed => closed') /\ (done_pending' => input = "done")
    /\ pc = "forwarded" <=> Top.pc = "forwarded"
    /\ Top.pc = "exit" => pc = "exit"
    /\ pc = "exit" /\ Top.method = "OnData" => Left = 0 \/ closed'
    /\ pc = "decompress" => Top.pc = "decompress" \/ outcome = "none"
    /\ pc \in {"completing", "flushed"} => pc = Top.pc \/ closed \/ pending_input = 0
    /\ pc = "flushed" => Top.pc = "flushed"
    /\ pc = "flush" => Top.pc = "flush" \/ input = "done"
    /\ pc = "decompressed" => Top.pc = "decompressed" \/ ChainSize = 0
    /\ Top.pc = "overflow" => pc = "overflow"
    /\ Top.pc = "close" => pc = "close" \/ closed'

LEMMA ControlKeeps ==
    ASSUME IInv, Stacked', stack # <<>>, NEW pc, NEW cb, MovedTo(pc, cb), ControlOK(pc)
    PROVE  IInv'
<1>1. Top \in Frames
  BY TopKnown DEF IInv
<1>2. Top.left \in Nat /\ Top.pos \in {0, 1}
  BY <1>1 DEF Frames
<1>3. UNCHANGED <<pending_input, output_chain, decoded, held, incomplete, received, delivered>>
  BY DEF data, decoder, ControlOK
<1>4. Typed'
  BY <1>3 DEF IInv, Typed, ControlOK
<1>5. ChainSize' = ChainSize /\ Taken' = Taken
  BY <1>3 DEF ChainSize, Taken, MovedTo, ControlOK
<1>6. (Left' = Left \/ closed') /\ Left' <= Left /\ Left \in Nat
  BY <1>2 DEF Left, MovedTo, ControlOK
<1>7. Conserved'
  <2>1. Worth(decoded)' = Worth(decoded)
    BY <1>3 DEF Worth
  <2>2. Taken \in Nat /\ Left' \in Nat
    BY <1>2 DEF Taken, Left, MovedTo
  <2>3. /\ (delivered + output_chain + held <= Worth(decoded))'
        /\ (Lossless => delivered + output_chain + held = Worth(decoded))'
        /\ (decoded <= received)' /\ (stack # <<>> => Taken <= ChainSize)'
        /\ (~incomplete => held = 0)'
    BY <1>3, <1>5, <2>1 DEF IInv, Conserved, Lossless, ControlOK
  <2>4. ASSUME outcome' = "none" PROVE decoded' + pending_input' + Left' <= received' + Taken'
    <3>1. decoded + pending_input + Left <= received + Taken
      BY <2>4 DEF IInv, Conserved, ControlOK
    <3>2. decoded \in Nat /\ pending_input \in Nat /\ received \in Nat
      BY DEF IInv, Typed
    <3>3. decoded + pending_input + Left' <= received + Taken
      BY <1>6, <2>2, <3>1, <3>2, LessLeft
    <3> QED BY <1>3, <1>5, <3>3
  <2>5. ASSUME Lossless', Top'.pc # "overflow"
        PROVE  decoded' + pending_input' + Left' = received' + Taken'
    <3>1. Lossless /\ Top.pc # "overflow" /\ Left' = Left
      BY <1>6, <2>5 DEF Lossless, MovedTo, ControlOK
    <3> QED BY <1>3, <1>5, <3>1 DEF IInv, Conserved
  <2> QED BY <2>3, <2>4, <2>5 DEF Conserved, MovedTo
<1>8. Ending'
  BY <1>3, <1>5 DEF IInv, Ending, MovedTo, ControlOK
<1>9. Signalled'
  BY DEF IInv, Signalled, MovedTo, ControlOK
<1> QED BY <1>4, <1>7, <1>8, <1>9 DEF IInv

\* EmitError or EmitDone, in a method that is about to close the stage.
LEMMA FinishKeeps ==
    ASSUME IInv, stack # <<>>, Top.cb = "none", NEW signal \in {"done", "error"}, NEW why, why # "none",
           Finish(signal, why), UNCHANGED <<closed, done_pending, input>>,
           UNCHANGED <<pending_input, output_chain, received, delivered>>,
           decoded' \in Nat, held' \in Nat, incomplete' \in BOOLEAN, decoded' <= received,
           delivered + output_chain + held' <= Worth(decoded'), ~incomplete' => held' = 0
    PROVE  IInv' /\ outcome' = IF outcome = "none" THEN why ELSE outcome
<1>1. Stacked /\ Typed
  BY DEF IInv
<1>2. finalized' = TRUE /\ outcome' = IF outcome = "none" THEN why ELSE outcome
  BY DEF Finish, Emit, signals, IInv, Signalled, Typed
<1>3. May("close", "none") /\ May("close", signal)
  BY DEF May, Places, Callbacks
<1>4. Stacked' /\ \E cb : MovedTo("close", cb)
  <2>1. CASE finalized
    <3>1. Goto("close")
      BY <2>1 DEF Finish, Emit
    <3> QED BY <1>1, <1>3, <3>1, GotoMoves
  <2>2. CASE ~finalized
    <3>1. CallDownstream(signal, "close")
      BY <2>2 DEF Finish, Emit
    <3> QED BY <1>1, <1>3, <3>1, CallMoves
  <2> QED BY <2>1, <2>2
<1>5. /\ stack' # <<>> /\ Top'.pc = "close" /\ Top'.method = Top.method /\ Top'.left = Top.left
  BY <1>4 DEF MovedTo
<1>6. Top.left \in Nat
  BY <1>1, TopKnown DEF Frames
<1>7. Typed'
  BY <1>1, <1>2 DEF Typed
<1>8. Conserved'
  <2>1. Taken' = 0 /\ Worth(decoded)' = Worth(decoded') /\ ChainSize' \in Nat
    BY <1>5, <1>6, <1>7 DEF Taken, Worth, ChainSize, Typed
  <2> QED BY <1>2, <1>5, <2>1 DEF Conserved, Lossless
<1>9. Ending' /\ Signalled'
  BY <1>2, <1>5 DEF IInv, Ending, Signalled
<1> QED BY <1>2, <1>4, <1>7, <1>8, <1>9 DEF IInv

\* The code goes on at pc, and no data moves.
LEMMA GotoKeeps ==
    ASSUME IInv, stack # <<>>, NEW pc, May(pc, Top.cb), Goto(pc), ControlOK(pc)
    PROVE  IInv'
  BY GotoMoves, ControlKeeps DEF IInv

\* What is known of the activation that runs the code at pc.
LEMMA AtKnown ==
    ASSUME IInv, NEW pc, At(pc)
    PROVE  /\ stack # <<>> /\ Top.cb = "none" /\ Top.pc = pc /\ Top \in Frames /\ FrameOK(Top)
           /\ Stacked /\ Typed /\ Conserved /\ Ending /\ Signalled
  BY TopKnown DEF At, IInv

LEMMA DecompressEndKeeps == ASSUME IInv, DecompressEnd PROVE IInv'
<1> DEFINE pc == IF IsSuspended THEN "suspended" ELSE "decompressed"
<1>1. /\ stack # <<>> /\ Top.cb = "none" /\ Top.pc = "decompress" /\ Typed /\ Ending
  BY AtKnown DEF DecompressEnd
<1>2. May(pc, Top.cb)
  BY <1>1 DEF May, Places, Callbacks
<1>3. ControlOK(pc)
  BY <1>1 DEF DecompressEnd, ControlOK, lifecycle, signals, Typed, Ending
<1>4. Goto(pc)
  BY DEF DecompressEnd
<1> HIDE DEF pc
<1> QED BY <1>1, <1>2, <1>3, <1>4, GotoKeeps

LEMMA DecompressedKeeps == ASSUME IInv, Decompressed PROVE IInv'
<1> DEFINE pc == CASE Top.method = "Resume" -> "drained"
                   [] Top.method = "Finish" -> "completing"
                   [] OTHER -> "exit"
<1>1. /\ stack # <<>> /\ Top.cb = "none" /\ Top.pc = "decompressed" /\ Typed /\ Ending
  BY AtKnown DEF Decompressed
<1>2. May(pc, Top.cb)
  BY <1>1 DEF May, Places, Callbacks
<1>3. ControlOK(pc)
  BY <1>1 DEF Decompressed, ControlOK, lifecycle, signals, Typed, Ending, ChainSize, Left
<1>4. Goto(pc)
  BY DEF Decompressed
<1> HIDE DEF pc
<1> QED BY <1>1, <1>2, <1>3, <1>4, GotoKeeps

LEMMA RedeliveredKeeps == ASSUME IInv, Redelivered PROVE IInv'
<1> DEFINE pc == IF IsSuspended THEN "drained" ELSE PendingPc("drained")
<1>1. /\ stack # <<>> /\ Top.cb = "none" /\ Top.pc = "redelivered" /\ Typed /\ Ending
      /\ Signalled /\ FrameOK(Top)
  BY AtKnown DEF Redelivered
<1>2. pc \in {"drained", "decompress"} /\ (pc = "decompress" => outcome = "none")
  BY <1>1 DEF PendingPc, Signalled, Typed
<1>3. Goto(pc)
  BY DEF Redelivered
<1> HIDE DEF pc
<1>4. May(pc, Top.cb)
  BY <1>1, <1>2 DEF May, Places, Callbacks, FrameOK
<1>5. ControlOK(pc)
  BY <1>1, <1>2 DEF Redelivered, ControlOK, lifecycle, signals, Typed, Ending
<1> QED BY <1>1, <1>3, <1>4, <1>5, GotoKeeps

LEMMA FlushAndCompleteKeeps == ASSUME IInv, FlushAndComplete PROVE IInv'
<1> DEFINE pc == PendingPc("completing")
           f == [Top EXCEPT !.method = "Finish", !.pc = pc]
<1>1. /\ stack # <<>> /\ Top.cb = "none" /\ Top.pc = "flush" /\ Typed /\ Ending /\ Stacked
      /\ Signalled /\ Conserved /\ FrameOK(Top) /\ Top \in Frames /\ Top.method = "Resume"
  BY AtKnown DEF FlushAndComplete, FrameOK
<1>2. /\ pc \in {"completing", "decompress"} /\ (pc = "decompress" => outcome = "none")
      /\ pc = "completing" => closed \/ pending_input = 0
  BY <1>1 DEF PendingPc, Signalled, Typed
<1>3. f \in Frames /\ FrameOK(f) /\ f.method = "Finish" /\ f.pc = pc
  BY <1>1, <1>2 DEF Frames, FrameOK, Places
<1>4. stack' = [stack EXCEPT ![1] = f]
  BY <1>1, TopKnown DEF FlushAndComplete, Stacked, Frames
<1> HIDE DEF f, pc
<1>5. Stacked' /\ stack' # <<>> /\ Top' = f
  BY <1>1, <1>3, <1>4, TopChanged
<1>6. /\ UNCHANGED <<pending_input, output_chain, decoded, held, incomplete, received, delivered>>
      /\ UNCHANGED <<input, outcome, closed, done_pending, finalized>>
  BY DEF FlushAndComplete, data, decoder, lifecycle, signals
<1>7. Typed' /\ Signalled'
  BY <1>1, <1>2, <1>3, <1>5, <1>6 DEF Typed, Signalled
<1>8. Conserved'
  <2>1. Left = 0 /\ Left' = 0 /\ Taken = 0 /\ Taken' = 0 /\ ChainSize' \in Nat
    BY <1>1, <1>2, <1>3, <1>5, <1>6 DEF Left, Taken, ChainSize, Typed
  <2>2. Worth(decoded)' = Worth(decoded)
    BY <1>6 DEF Worth
  <2> QED BY <1>1, <1>2, <1>3, <1>5, <1>6, <2>1, <2>2 DEF Conserved, Lossless
<1>9. Ending'
  BY <1>1, <1>2, <1>3, <1>5, <1>6 DEF Ending
<1> QED BY <1>5, <1>7, <1>8, <1>9 DEF IInv

\* RequestClose, wherever it is called.
LEMMA CloseRequested ==
    ASSUME closed \in BOOLEAN, RequestClose PROVE closed' = TRUE
  BY DEF RequestClose

LEMMA GuardLeavesOpen == ASSUME (ReleaseGuard /\ UNCHANGED closed) \/ UNCHANGED lifecycle PROVE closed' = closed
  BY DEF lifecycle

LEMMA ReturnKeeps ==
    ASSUME IInv, Return, UNCHANGED <<data, input, outcome>> PROVE IInv'
<1>1. /\ stack # <<>> /\ Typed /\ Ending /\ Stacked
      /\ stack' = [stack EXCEPT ![1].cb = "none"]
  BY DEF Return, IInv
<1>2. Stacked' /\ MovedTo(Top.pc, "none")
  BY <1>1, ReturnMoves
<1>3. closed' = closed /\ UNCHANGED <<finalized, done_pending>>
  BY GuardLeavesOpen DEF Return, signals
<1>5. ControlOK(Top.pc)
  BY <1>1, <1>3 DEF ControlOK, Typed, Ending, Left
<1> QED BY <1>1, <1>2, <1>5, ControlKeeps

LEMMA ExitKeeps ==
    ASSUME IInv, Exit, UNCHANGED <<data, input, outcome>> PROVE IInv'
<1>1. /\ stack # <<>> /\ Top.cb = "none" /\ Top.pc = "exit" /\ Typed /\ Ending /\ Stacked
      /\ Signalled /\ Conserved
  BY AtKnown DEF Exit
<1>2. /\ Stacked'
      /\ stack' # <<>> => Top'.cb = "resume" /\ Top'.pc = "resumed" /\ Top'.method = "Resume"
  BY <1>1, Popped DEF Exit
<1>3. /\ UNCHANGED <<pending_input, output_chain, decoded, held, incomplete, received, delivered>>
      /\ UNCHANGED <<input, outcome, closed, done_pending, finalized>>
  BY GuardLeavesOpen DEF Exit, signals, data, decoder
<1>4. Left = 0 /\ Left' = 0 /\ Taken = 0 /\ Taken' = 0 /\ (stack' # <<>> => ChainSize' \in Nat)
  BY <1>1, <1>2, <1>3 DEF Left, Taken, ChainSize, Typed
<1>5. Conserved'
  <2>1. Worth(decoded)' = Worth(decoded)
    BY <1>3 DEF Worth
  <2> QED BY <1>1, <1>2, <1>3, <1>4, <2>1 DEF Conserved, Lossless
<1>6. Typed' /\ Ending' /\ Signalled'
  BY <1>1, <1>2, <1>3 DEF Typed, Ending, Signalled
<1> QED BY <1>2, <1>5, <1>6 DEF IInv

LEMMA CloseStepKeeps ==
    ASSUME IInv, CloseStep, UNCHANGED <<data, input, outcome>> PROVE IInv'
<1> DEFINE pc == IF Top.method = "Resume" THEN "drained" ELSE "exit"
<1>1. /\ stack # <<>> /\ Top.cb = "none" /\ Top.pc = "close" /\ Typed /\ Ending
  BY AtKnown DEF CloseStep
<1>2. May(pc, Top.cb)
  BY <1>1 DEF May, Places, Callbacks
<1>3. closed' = TRUE
  BY <1>1, CloseRequested DEF CloseStep, Typed
<1>4. ControlOK(pc)
  BY <1>1, <1>3 DEF CloseStep, ControlOK, signals, Typed, Ending
<1>5. Goto(pc)
  BY DEF CloseStep
<1> HIDE DEF pc
<1> QED BY <1>1, <1>2, <1>4, <1>5, GotoKeeps

LEMMA ResumeUpstreamKeeps ==
    ASSUME IInv, ResumeUpstream, UNCHANGED <<data, input, outcome>> PROVE IInv'
<1>1. /\ stack # <<>> /\ Top.cb = "none" /\ Top.pc = "drained" /\ Typed /\ Ending /\ Stacked
      /\ Top.method = "Resume"
  BY AtKnown DEF ResumeUpstream, FrameOK
<1>2. May("resumed", "resume") /\ May("resumed", Top.cb)
  BY <1>1 DEF May, Places, Callbacks
<1>3. ControlOK("resumed")
  BY <1>1 DEF ResumeUpstream, ControlOK, lifecycle, signals, Typed, Ending
<1>4. CASE stack' = [stack EXCEPT ![1].cb = "resume", ![1].pc = "resumed"]
  <2>1. stack' = [stack EXCEPT ![1] = [Top EXCEPT !.pc = "resumed", !.cb = "resume"]]
    BY <1>1, <1>4, TopKnown DEF Stacked, Frames
  <2>2. Stacked' /\ MovedTo("resumed", "resume")
    BY <1>1, <1>2, <2>1, TopMoved
  <2> QED BY <1>1, <1>3, <2>2, ControlKeeps
<1>5. CASE Goto("resumed")
  BY <1>1, <1>2, <1>3, <1>5, GotoKeeps
<1> QED BY <1>4, <1>5 DEF ResumeUpstream

LEMMA CompleteDeferredKeeps ==
    ASSUME IInv, CompleteDeferred, UNCHANGED <<data, input, outcome>> PROVE IInv'
<1>1. /\ stack # <<>> /\ Top.cb = "none" /\ Top.pc = "resumed" /\ Typed /\ Ending
      /\ Top.method = "Resume"
  BY AtKnown DEF CompleteDeferred, FrameOK
<1>2. May("flush", Top.cb) /\ May("exit", Top.cb)
  BY <1>1 DEF May, Places, Callbacks
<1>3. CASE done_pending /\ done_pending' = FALSE /\ Goto("flush")
  <2>1. ControlOK("flush")
    BY <1>1, <1>3 DEF CompleteDeferred, ControlOK, lifecycle, signals, Typed, Ending
  <2> QED BY <1>1, <1>2, <1>3, <2>1, GotoKeeps
<1>4. CASE UNCHANGED done_pending /\ Goto("exit")
  <2>1. ControlOK("exit")
    BY <1>1, <1>4 DEF CompleteDeferred, ControlOK, lifecycle, signals, Typed, Ending
  <2> QED BY <1>1, <1>2, <1>4, <2>1, GotoKeeps
<1> QED BY <1>3, <1>4 DEF CompleteDeferred

\* Suspend() and Close() leave the stack and the data alone.
LEMMA CallsKeep ==
    ASSUME IInv, Suspend \/ Close, UNCHANGED <<data, input, outcome>> PROVE IInv'
<1>1. /\ UNCHANGED <<pending_input, output_chain, decoded, held, incomplete, received, delivered>>
      /\ UNCHANGED <<input, outcome, done_pending, finalized, stack>>
  BY DEF Suspend, Close, signals, data, decoder
<1>2. closed' \in BOOLEAN /\ (closed => closed')
  BY CloseRequested DEF IInv, Typed, Suspend, Close, lifecycle
<1>3. Stacked' /\ Top' = Top
  BY <1>1 DEF IInv, Stacked, Top
<1>4. Typed' /\ Ending' /\ Signalled'
  BY <1>1, <1>2, <1>3 DEF IInv, Typed, Ending, Signalled, ChainSize
<1>5. Conserved'
  <2>1. Left' = Left /\ Taken' = Taken /\ ChainSize' = ChainSize /\ Worth(decoded)' = Worth(decoded)
    BY <1>1, <1>3 DEF Left, Taken, ChainSize, Worth
  <2> QED BY <1>1, <1>2, <1>3, <2>1 DEF IInv, Conserved, Lossless
<1> QED BY <1>3, <1>4, <1>5 DEF IInv

-----------------------------------------------------------------------------
(***************************************************************************)
(* Entering a method.                                                      *)
(***************************************************************************)
Entered(method, pc, left, guard) ==
    /\ stack' # <<>> /\ Top'.method = method /\ Top'.pc = pc /\ Top'.cb = "none"
    /\ Top'.left = left /\ Top'.pos = 0 /\ Top'.guard = guard

LEMMA EnterMoves ==
    ASSUME Stacked, stack = <<>> \/ Top.cb = "resume",
           NEW method \in {"OnData", "OnDataMerged", "Finish", "OnError", "Resume"},
           NEW pc \in Places, NEW left \in Nat, NEW guard \in BOOLEAN,
           Enter(method, pc, left, guard),
           pc \in {"drain", "redelivered", "drained", "resumed", "flush"} => method = "Resume",
           pc \in {"completing", "flushed"} => method = "Finish"
    PROVE  Stacked' /\ Entered(method, pc, left, guard)
<1> DEFINE f == [method |-> method, pc |-> pc, cb |-> "none", left |-> left, pos |-> 0, guard |-> guard]
<1>1. f \in Frames /\ FrameOK(f)
  BY DEF Frames, FrameOK
<1>2. stack' = <<f>> \o stack
  BY DEF Enter
<1>3. Stacked' /\ stack' # <<>> /\ Top' = f
  <2> HIDE DEF f
  <2> QED BY <1>1, <1>2, Pushed
<1> QED BY <1>3 DEF Entered

\* A stage that can be entered is not in the middle of anything.
LEMMA AtRest ==
    ASSUME IInv, stack = <<>> \/ Top.cb = "resume"
    PROVE  /\ Left = 0 /\ Taken = 0 /\ Stacked /\ Typed /\ Conserved /\ Ending /\ Signalled
           /\ outcome # "none" => closed
           /\ Lossless => decoded + pending_input = received
           /\ outcome = "none" => decoded + pending_input <= received
<1>1. Stacked /\ Typed /\ Conserved /\ Ending /\ Signalled
  BY DEF IInv
<1>2. stack # <<>> => Top.pc = "resumed" /\ Top.method = "Resume"
  BY <1>1, TopKnown DEF FrameOK
<1>3. Left = 0 /\ Taken = 0
  BY <1>2 DEF Left, Taken
<1>4. outcome # "none" => closed
  BY <1>1, <1>2 DEF Signalled
<1>5. /\ outcome = "none" => decoded + pending_input + 0 <= received + 0
      /\ Lossless => decoded + pending_input + 0 = received + 0
  BY <1>1, <1>2, <1>3 DEF Conserved
<1>6. decoded \in Nat /\ pending_input \in Nat /\ received \in Nat
  BY <1>1 DEF Typed
<1> QED BY <1>1, <1>3, <1>4, <1>5, <1>6

LEMMA UpstreamAtRest ==
    ASSUME IInv, UpstreamRuns PROVE stack = <<>> \/ Top.cb = "resume"
<1>1. stack # <<>> => Top \in Frames
  BY TopKnown DEF IInv
<1> QED BY <1>1 DEF UpstreamRuns, Inside, Frames

LEMMA OnDataKeeps == ASSUME IInv, NEW n \in 1..FrameUnits, OnData(n) PROVE IInv'
<1>1. /\ stack = <<>> \/ Top.cb = "resume"
      /\ ~closed /\ input = "open" /\ received' = received + n
      /\ UNCHANGED <<output_chain, decoded, held, incomplete, delivered>>
      /\ UNCHANGED <<input, outcome, closed, done_pending, finalized>>
  BY UpstreamAtRest DEF OnData, decoder, signals
<1>2. /\ Left = 0 /\ Taken = 0 /\ Stacked /\ Typed /\ Conserved /\ Ending /\ Signalled
      /\ outcome = "none" /\ decoded + pending_input = received
  BY <1>1, AtRest DEF Lossless
<1>3. n \in Nat /\ n > 0
  BY ZstdAssumption
<1>4. Typed' /\ Worth(decoded)' = Worth(decoded)
  <2>1. pending_input' \in {pending_input, pending_input + n}
    BY DEF OnData
  <2> QED BY <1>1, <1>2, <1>3, <2>1 DEF Typed, Worth
<1>5. /\ delivered' + output_chain' + held' = Worth(decoded)'
      /\ delivered' + output_chain' + held' <= Worth(decoded)'
      /\ ~incomplete' => held' = 0
  BY <1>1, <1>2, <1>4, WorthKnown DEF Conserved, Lossless, Typed
<1>6. decoded' <= received' /\ decoded + pending_input + n = received' /\ decoded \in Nat
      /\ pending_input \in Nat
  BY <1>1, <1>2, <1>3 DEF Typed
<1>7. CASE Enter("OnData", "decompress", n, TRUE) /\ UNCHANGED pending_input
  <2>1. Stacked' /\ Entered("OnData", "decompress", n, TRUE)
    BY <1>1, <1>2, <1>3, <1>7, EnterMoves DEF Places
  <2>2. Left' = n /\ Taken' = 0 /\ ChainSize' = n
    BY <2>1 DEF Entered, Left, Taken, ChainSize
  <2>3. /\ decoded' + pending_input' + n = received' + 0
        /\ decoded' + pending_input' + n <= received' + 0 /\ 0 <= n
    BY <1>1, <1>3, <1>4, <1>6, <1>7 DEF Typed
  <2>4. Conserved'
    BY <1>5, <1>6, <2>1, <2>2, <2>3 DEF Conserved, Lossless
  <2>5. Ending' /\ Signalled'
    BY <1>1, <1>2, <2>1 DEF Ending, Signalled, Entered
  <2> QED BY <1>4, <2>1, <2>4, <2>5 DEF IInv
<1>8. CASE Enter("OnDataMerged", "overflow", 0, TRUE) /\ UNCHANGED pending_input
  <2>1. Stacked' /\ Entered("OnDataMerged", "overflow", 0, TRUE)
    BY <1>1, <1>2, <1>8, EnterMoves DEF Places
  <2>2. Left' = 0 /\ Taken' = 0 /\ ChainSize' \in Nat
    BY <1>4, <2>1 DEF Entered, Left, Taken, ChainSize, Typed
  <2>3. decoded' + pending_input' + 0 <= received' + 0
    BY <1>1, <1>3, <1>4, <1>6, <1>8 DEF Typed
  <2>4. Conserved'
    BY <1>5, <1>6, <2>1, <2>2, <2>3 DEF Conserved, Lossless, Entered
  <2>5. Ending' /\ Signalled'
    BY <1>1, <1>2, <2>1 DEF Ending, Signalled, Entered
  <2> QED BY <1>4, <2>1, <2>4, <2>5 DEF IInv
<1>9. CASE Enter("OnDataMerged", "decompress", 0, TRUE) /\ pending_input' = pending_input + n
  <2>1. Stacked' /\ Entered("OnDataMerged", "decompress", 0, TRUE)
    BY <1>1, <1>2, <1>9, EnterMoves DEF Places
  <2>2. Left' = 0 /\ Taken' = 0 /\ ChainSize' \in Nat
    BY <1>4, <2>1 DEF Entered, Left, Taken, ChainSize, Typed
  <2>3. /\ decoded' + pending_input' + 0 <= received' + 0
        /\ decoded' + pending_input' + 0 = received' + 0
    BY <1>1, <1>3, <1>4, <1>6, <1>9 DEF Typed
  <2>4. Conserved'
    BY <1>5, <1>6, <2>1, <2>2, <2>3 DEF Conserved, Lossless, Entered
  <2>5. Ending' /\ Signalled'
    BY <1>1, <1>2, <2>1 DEF Ending, Signalled, Entered
  <2> QED BY <1>4, <2>1, <2>4, <2>5 DEF IInv
<1> QED BY <1>7, <1>8, <1>9 DEF OnData

\* A method that has no input of its own.
LEMMA EnterKeeps ==
    ASSUME IInv, stack = <<>> \/ Top.cb = "resume",
           NEW method \in {"Finish", "OnError", "Resume"}, NEW guard \in BOOLEAN,
           NEW pc \in {"decompress", "completing", "propagate", "drain", "drained"},
           Enter(method, pc, 0, guard), UNCHANGED <<data, outcome, finalized, closed>>,
           pc \in {"drain", "drained"} => method = "Resume",
           pc = "completing" => method = "Finish" /\ pending_input = 0,
           pc = "decompress" => ~closed,
           done_pending' \/ method = "Finish" => input' = "done"
    PROVE  IInv'
<1>1. /\ UNCHANGED <<pending_input, output_chain, decoded, held, incomplete, received, delivered>>
  BY DEF data, decoder
<1>2. /\ Left = 0 /\ Taken = 0 /\ Stacked /\ Typed /\ Conserved /\ Ending /\ Signalled
      /\ outcome # "none" => closed
      /\ Lossless => decoded + pending_input = received
      /\ outcome = "none" => decoded + pending_input <= received
  BY AtRest
<1>3. Stacked' /\ Entered(method, pc, 0, guard)
  BY <1>2, EnterMoves DEF Places
<1>4. Left' = 0 /\ Taken' = 0 /\ ChainSize' \in Nat /\ Worth(decoded)' = Worth(decoded)
  BY <1>1, <1>2, <1>3 DEF Entered, Left, Taken, ChainSize, Typed, Worth
<1>5. /\ Lossless => decoded + pending_input + 0 = received + 0
      /\ outcome = "none" => decoded + pending_input + 0 <= received + 0
  BY <1>2 DEF Typed
<1>6. Conserved'
  BY <1>1, <1>2, <1>3, <1>4, <1>5 DEF Conserved, Lossless
<1>7. Typed' /\ Ending' /\ Signalled'
  BY <1>1, <1>2, <1>3 DEF Typed, Ending, Signalled, Entered
<1> QED BY <1>3, <1>6, <1>7 DEF IInv

LEMMA OnDoneKeeps == ASSUME IInv, OnDone PROVE IInv'
<1>1. /\ stack = <<>> \/ Top.cb = "resume"
      /\ ~closed /\ input' = "done" /\ UNCHANGED <<data, outcome, finalized, closed>>
  BY UpstreamAtRest DEF OnDone, signals
<1>2. CASE UNCHANGED stack
  <2>1. /\ Left = 0 /\ Taken = 0 /\ Stacked /\ Typed /\ Conserved /\ Ending /\ Signalled
    BY <1>1, AtRest
  <2>2. /\ UNCHANGED <<pending_input, output_chain, decoded, held, incomplete, received, delivered>>
        /\ Top' = Top
    BY <1>1, <1>2 DEF data, decoder, Top
  <2>3. Stacked' /\ Typed' /\ Ending' /\ Signalled'
    BY <1>1, <1>2, <2>1, <2>2 DEF Stacked, Typed, Ending, Signalled, ChainSize
  <2>4. Left' = Left /\ Taken' = Taken /\ ChainSize' = ChainSize /\ Worth(decoded)' = Worth(decoded)
    BY <1>2, <2>2 DEF Left, Taken, ChainSize, Worth
  <2>5. Conserved'
    BY <1>1, <1>2, <2>1, <2>2, <2>4 DEF Conserved, Lossless
  <2> QED BY <2>3, <2>5 DEF IInv
<1>3. CASE Enter("Finish", IF pending_input > 0 THEN "decompress" ELSE "completing", 0, TRUE)
  <2> DEFINE pc == IF pending_input > 0 THEN "decompress" ELSE "completing"
  <2>1. pc \in {"decompress", "completing"} /\ (pc = "completing" => pending_input = 0)
    BY DEF IInv, Typed
  <2>2. Enter("Finish", pc, 0, TRUE)
    BY <1>3
  <2> HIDE DEF pc
  <2> QED BY <1>1, <2>1, <2>2, EnterKeeps
<1> QED BY <1>2, <1>3 DEF OnDone

LEMMA OnErrorKeeps == ASSUME IInv, OnError PROVE IInv'
<1>1. /\ stack = <<>> \/ Top.cb = "resume"
      /\ ~closed /\ input = "open" /\ UNCHANGED <<data, outcome, finalized, closed, done_pending>>
      /\ Enter("OnError", "propagate", 0, TRUE)
  BY UpstreamAtRest DEF OnError, signals
<1>2. ~done_pending
  BY <1>1 DEF IInv, Ending
<1> QED BY <1>1, <1>2, EnterKeeps

LEMMA ResumeKeeps ==
    ASSUME NestedResume = FALSE, IInv, Resume, UNCHANGED <<data, input, outcome>> PROVE IInv'
<1>1. stack = <<>> /\ UNCHANGED <<finalized, closed, done_pending>> /\ closed \in BOOLEAN
  BY DEF Resume, signals, IInv, Typed
<1>2. done_pending => input = "done"
  BY DEF IInv, Ending
<1>3. CASE Enter("Resume", IF closed THEN "drained" ELSE "drain", 0, ~closed)
  BY <1>1, <1>2, <1>3, EnterKeeps
<1>4. CASE UNCHANGED stack
  <2>1. /\ UNCHANGED <<pending_input, output_chain, decoded, held, incomplete, received, delivered>>
        /\ Top' = Top
    BY <1>4 DEF data, decoder, Top
  <2>2. Stacked' /\ Typed' /\ Ending' /\ Signalled'
    BY <1>1, <1>4, <2>1 DEF IInv, Stacked, Typed, Ending, Signalled, ChainSize
  <2>3. Left' = Left /\ Taken' = Taken /\ ChainSize' = ChainSize /\ Worth(decoded)' = Worth(decoded)
    BY <1>4, <2>1 DEF Left, Taken, ChainSize, Worth
  <2>4. Conserved'
    BY <1>1, <1>4, <2>1, <2>3 DEF IInv, Conserved, Lossless
  <2> QED BY <2>2, <2>4 DEF IInv
<1> QED BY <1>3, <1>4 DEF Resume

-----------------------------------------------------------------------------
(***************************************************************************)
(* The steps that move data.                                               *)
(***************************************************************************)
LEMMA ForwardKeeps ==
    ASSUME IInv, stack # <<>>, Top.pc \in {"drain", "completing"},
           NEW pc \in {"redelivered", "flushed"}, May(pc, "data"), Forward(output_chain, pc),
           UNCHANGED <<pending_input, decoder, received, input, outcome>>,
           UNCHANGED <<closed, done_pending, finalized>>,
           pc = "flushed" => ~incomplete /\ Top.pc = "completing"
    PROVE  IInv'
<1>1. UNCHANGED <<incomplete, decoded, held>>
  BY DEF decoder
<1>2. /\ Stacked /\ Typed /\ Conserved /\ Ending /\ Signalled /\ Top \in Frames
  BY TopKnown DEF IInv
<1>3. PICK used \in {0, output_chain} : /\ output_chain' = output_chain - used
                                       /\ delivered' = delivered + used
                                       /\ CallDownstream("data", pc)
  BY DEF Forward
<1>4. Stacked' /\ MovedTo(pc, "data")
  BY <1>2, <1>3, CallMoves
<1>5. Typed' /\ delivered' + output_chain' + held' = delivered + output_chain + held
  BY <1>1, <1>2, <1>3 DEF Typed
<1>6. /\ Left' = Left /\ Taken' = Taken /\ ChainSize' = ChainSize /\ Worth(decoded)' = Worth(decoded)
      /\ stack' # <<>>
  BY <1>1, <1>4 DEF MovedTo, Left, Taken, ChainSize, Worth
<1>7. Conserved'
  BY <1>1, <1>2, <1>4, <1>5, <1>6 DEF Conserved, Lossless, MovedTo
<1>8. Ending' /\ Signalled'
  BY <1>1, <1>2, <1>4 DEF Ending, Signalled, MovedTo
<1> QED BY <1>4, <1>5, <1>7, <1>8 DEF IInv

LEMMA ProcessPendingKeeps == ASSUME IInv, ProcessPending PROVE IInv'
<1>1. /\ stack # <<>> /\ Top.cb = "none" /\ Top.pc = "drain" /\ Typed /\ Ending /\ Signalled
      /\ Top.method = "Resume"
  BY AtKnown DEF ProcessPending, FrameOK
<1>2. UNCHANGED <<closed, done_pending, finalized, pending_input, decoder, received, input, outcome>>
  BY DEF ProcessPending, lifecycle
<1>3. CASE Forward(output_chain, "redelivered")
  <2>1. May("redelivered", "data")
    BY <1>1 DEF May, Places, Callbacks
  <2> QED BY <1>1, <1>2, <1>3, <2>1, ForwardKeeps
<1>4. CASE Goto(PendingPc("drained")) /\ UNCHANGED <<output_chain, delivered, crashed>>
  <2> DEFINE pc == PendingPc("drained")
  <2>1. pc \in {"drained", "decompress"} /\ (pc = "decompress" => outcome = "none") /\ Goto(pc)
    BY <1>1, <1>4 DEF PendingPc, Signalled, Typed
  <2> HIDE DEF pc
  <2>2. May(pc, Top.cb)
    BY <1>1, <2>1 DEF May, Places, Callbacks
  <2>3. ControlOK(pc)
    BY <1>1, <1>2, <1>4, <2>1 DEF ControlOK, data, Typed, Ending
  <2> QED BY <1>1, <2>1, <2>2, <2>3, GotoKeeps
<1> QED BY <1>3, <1>4 DEF ProcessPending

\* A step that emits and moves no data.
LEMMA EmitKeeps ==
    ASSUME IInv, stack # <<>>, Top.cb = "none", NEW signal \in {"done", "error"}, NEW why, why # "none",
           Finish(signal, why), UNCHANGED <<closed, done_pending, data, input>>
    PROVE  IInv' /\ outcome' = IF outcome = "none" THEN why ELSE outcome
<1>1. UNCHANGED <<pending_input, output_chain, decoded, held, incomplete, received, delivered>>
  BY DEF data, decoder
<1>2. Typed /\ Conserved
  BY DEF IInv
<1>3. /\ decoded' \in Nat /\ held' \in Nat /\ incomplete' \in BOOLEAN /\ decoded' <= received
      /\ delivered + output_chain + held' <= Worth(decoded') /\ (~incomplete' => held' = 0)
  BY <1>1, <1>2 DEF Typed, Conserved
<1> QED BY <1>1, <1>3, FinishKeeps

LEMMA CorruptKeeps ==
    ASSUME IInv, Corrupt PROVE IInv' /\ outcome' = IF outcome = "none" THEN "corrupt" ELSE outcome
<1>1. stack # <<>> /\ Top.cb = "none"
  BY AtKnown DEF Corrupt
<1> QED BY <1>1, EmitKeeps DEF Corrupt

LEMMA FailKeeps ==
    ASSUME IInv, Fail
    PROVE  IInv' /\ \E why \in {"overflow", "upstream"} : outcome' = IF outcome = "none" THEN why ELSE outcome
<1>1. stack # <<>> /\ Top.cb = "none" /\ UNCHANGED <<closed, done_pending, data, input>>
  BY AtKnown DEF Fail
<1>2. CASE Finish("error", "overflow")
  BY <1>1, <1>2, EmitKeeps
<1>3. CASE Finish("error", "upstream")
  BY <1>1, <1>3, EmitKeeps
<1> QED BY <1>2, <1>3 DEF Fail

LEMMA CompleteKeeps == ASSUME IInv, Complete PROVE IInv'
<1>1. stack # <<>> /\ Top.cb = "none" /\ Top.pc = "completing" /\ Top.method = "Finish"
  BY AtKnown DEF Complete, FrameOK
<1>2. UNCHANGED <<closed, done_pending, pending_input, decoder, received, input>>
  BY DEF Complete
<1>3. CASE Finish("error", "incomplete") /\ UNCHANGED <<output_chain, delivered>>
  BY <1>1, <1>2, <1>3, EmitKeeps DEF data
<1>4. CASE Finish("done", "done") /\ UNCHANGED <<output_chain, delivered>>
  BY <1>1, <1>2, <1>4, EmitKeeps DEF data
<1>5. CASE ~incomplete /\ Forward(output_chain, "flushed") /\ UNCHANGED <<finalized, outcome>>
  <2>1. May("flushed", "data")
    BY <1>1 DEF May, Places, Callbacks
  <2> QED BY <1>1, <1>2, <1>5, <2>1, ForwardKeeps
<1> QED BY <1>3, <1>4, <1>5 DEF Complete

LEMMA FlushedKeeps == ASSUME IInv, Flushed PROVE IInv'
<1>1. /\ stack # <<>> /\ Top.cb = "none" /\ Top.pc = "flushed" /\ Top.method = "Finish"
      /\ Typed /\ Ending
  BY AtKnown DEF Flushed, FrameOK
<1>2. UNCHANGED <<closed, data, input>>
  BY DEF Flushed
<1>3. CASE done_pending' = TRUE /\ Goto("exit") /\ UNCHANGED <<signals, outcome>>
  <2>1. May("exit", Top.cb)
    BY <1>1 DEF May, Places, Callbacks
  <2>2. ControlOK("exit")
    BY <1>1, <1>2, <1>3 DEF ControlOK, Typed, Ending, signals
  <2> QED BY <1>1, <1>3, <2>1, <2>2, GotoKeeps
<1>4. CASE Finish("error", "leftover") /\ UNCHANGED done_pending
  BY <1>1, <1>2, <1>4, EmitKeeps
<1>5. CASE Finish("done", "done") /\ UNCHANGED done_pending
  BY <1>1, <1>2, <1>5, EmitKeeps
<1> QED BY <1>3, <1>4, <1>5 DEF Flushed

\* DoClose is scheduled by a close.
LEMMA DoCloseKeeps == ASSUME IInv, closed, DoClose PROVE IInv'
<1>1. /\ stack = <<>> /\ UNCHANGED stack /\ output_chain' = 0 /\ pending_input' = 0
      /\ UNCHANGED <<incomplete, decoded, held, received, delivered, input, outcome>>
      /\ UNCHANGED <<closed, done_pending, finalized>>
  BY DEF DoClose, decoder, signals
<1>2. Stacked /\ Typed /\ Conserved /\ Ending /\ Signalled
  BY DEF IInv
<1>3. Stacked' /\ Typed' /\ Ending' /\ Signalled'
  BY <1>1, <1>2 DEF Stacked, Typed, Ending, Signalled
<1>4. Left' = 0 /\ Taken' = 0 /\ Worth(decoded)' = Worth(decoded) /\ Worth(decoded) \in Nat
  BY <1>1, <1>2, WorthKnown DEF Left, Taken, Worth, Typed
<1>5. /\ delivered' + output_chain' + held' <= Worth(decoded) /\ decoded <= received
      /\ decoded' + pending_input' + 0 <= received' + 0
      /\ ~incomplete' => held' = 0
  BY <1>1, <1>2, <1>4 DEF Conserved, Typed
<1>6. Conserved'
  BY <1>1, <1>3, <1>4, <1>5 DEF Conserved, Lossless
<1> QED BY <1>3, <1>6 DEF IInv

LEMMA MinKnown ==
    ASSUME NEW a \in Nat, NEW b \in Nat
    PROVE  Min({a, b}) \in {a, b} /\ Min({a, b}) <= a /\ Min({a, b}) <= b /\ Min({a, b}) \in Nat
<1>1. \E x \in {a, b} : \A y \in {a, b} : x <= y
  <2>1. CASE a <= b
    BY <2>1
  <2>2. CASE ~(a <= b)
    BY <2>2
  <2> QED BY <2>1, <2>2
<1> QED BY <1>1 DEF Min

LEMMA WorthStep ==
    ASSUME NEW m \in Nat
    PROVE  Worth(m) \in Nat /\ Worth(m + 1) \in Nat /\ Worth(m + 1) = Worth(m) + Expand
  BY ZstdAssumption DEF Worth

\* The sums of Conserved before and after a delivery.
LEMMA Regroup ==
    ASSUME NEW d \in Nat, NEW o \in Nat, NEW h \in Nat, NEW u \in Nat, NEW x \in {0, o + u}
    PROVE  (d + x) + (o + u - x) + h = d + o + h + u
  OBVIOUS

LEMMA Decoded ==
    ASSUME NEW d \in Nat, NEW o \in Nat, NEW h \in Nat, NEW r \in Nat, NEW u \in Nat, NEW w \in Nat,
           NEW v \in Nat, u <= r, v = w + r - h, d + o + h = w
    PROVE  d + o + (r - u) + u = v
  OBVIOUS

\* One call of the decoder turns one unit into its worth, or hands out some of
\* what it holds.
LEMMA DecompressKeeps ==
    ASSUME IInv, Decompress
    PROVE  /\ IInv'
           /\ \/ UNCHANGED outcome
              \/ outcome = "none" /\ outcome' = "overflow" /\ UNCHANGED delivered
<1> DEFINE taken == IF held = 0 THEN 1 ELSE 0
           ready == IF held = 0 THEN Expand ELSE held
           out == Min({ready, SegCap})
<1>1. /\ stack # <<>> /\ Top.cb = "none" /\ Top.pc = "decompress" /\ Top \in Frames
      /\ Stacked /\ Typed /\ Conserved /\ Ending /\ Signalled /\ outcome = "none"
  BY AtKnown DEF Decompress, Signalled
<1>2. /\ UNCHANGED <<closed, done_pending, pending_input, received, input>>
      /\ ChainSize > 0
  BY DEF Decompress
<1>3. /\ decoded' = decoded + taken /\ held' = ready - out
      /\ incomplete' = ~(decoded' = FrameUnits /\ held' = 0)
  BY DEF Decompress
<1>4. /\ taken \in {0, 1} /\ taken \in Nat /\ ready \in Nat /\ out \in Nat /\ out <= ready
      /\ SegCap \in Nat /\ Expand \in Nat
  <2>1. Expand \in Nat /\ SegCap \in Nat
    BY ZstdAssumption
  <2>2. ready \in Nat
    BY <1>1, <2>1 DEF Typed
  <2> HIDE DEF ready
  <2> QED BY <2>1, <2>2, MinKnown
<1>5. /\ Worth(decoded) \in Nat /\ Worth(decoded') \in Nat
      /\ Worth(decoded') = Worth(decoded) + ready - held
  <2>1. Worth(decoded + 1) = Worth(decoded) + Expand /\ Worth(decoded) \in Nat
        /\ Worth(decoded + 1) \in Nat
    BY <1>1, WorthStep DEF Typed
  <2>2. CASE held = 0
    BY <1>3, <1>4, <2>1, <2>2
  <2>3. CASE held # 0
    <3>1. decoded' = decoded
      BY <1>1, <1>3, <2>3 DEF Typed
    <3> QED BY <1>1, <1>3, <2>1, <2>3, <3>1 DEF Typed
  <2> QED BY <2>2, <2>3
<1>6. /\ decoded' \in Nat /\ held' \in Nat /\ incomplete' \in BOOLEAN /\ (~incomplete' => held' = 0)
  <2> HIDE DEF taken, ready, out
  <2>1. decoded' \in Nat
    BY <1>1, <1>3, <1>4 DEF Typed
  <2>2. held' \in Nat
    BY <1>3, <1>4
  <2>3. incomplete' = ~(decoded' = FrameUnits /\ held' = 0)
    BY <1>3
  <2>4. incomplete' \in BOOLEAN /\ (~incomplete' => held' = 0)
    BY <2>3, Zenon
  <2> QED BY <2>1, <2>2, <2>4
<1>7. /\ Left \in Nat /\ Taken = 0 /\ ChainSize \in Nat /\ ChainSize <= pending_input + Left
  BY <1>1 DEF Left, Taken, ChainSize, Frames, Typed
<1>8. decoded + pending_input + Left <= received + 0
  BY <1>1, <1>7 DEF Conserved
<1>9. decoded + 1 <= received /\ decoded' <= received
  <2>1. decoded + 1 <= received
    BY <1>1, <1>2, <1>7, <1>8 DEF Typed
  <2> QED BY <1>1, <1>3, <1>4, <2>1 DEF Typed
<1>10. /\ delivered + output_chain + held <= Worth(decoded)
       /\ Lossless => delivered + output_chain + held = Worth(decoded)
  BY <1>1 DEF Conserved
<1>11. delivered + output_chain + held' + out <= Worth(decoded')
  <2> HIDE DEF ready, out, taken
  <2> QED BY <1>1, <1>3, <1>4, <1>5, <1>10 DEF Typed
<1>12. CASE Finish("error", "overflow") /\ UNCHANGED <<output_chain, delivered>>
  <2>1. delivered + output_chain + held' <= Worth(decoded')
    <3> HIDE DEF ready, out, taken
    <3> QED BY <1>1, <1>4, <1>5, <1>6, <1>11 DEF Typed
  <2>2. IInv' /\ outcome' = IF outcome = "none" THEN "overflow" ELSE outcome
    BY <1>1, <1>2, <1>6, <1>9, <1>12, <2>1, FinishKeeps
  <2> QED BY <1>1, <1>12, <2>2
<1>13. ASSUME NEW used \in {0, output_chain + out},
              output_chain' = output_chain + out - used, delivered' = delivered + used,
              stack' = [stack EXCEPT ![1].cb = "data", ![1].pc = "forwarded", ![1].pos = taken],
              UNCHANGED <<finalized, outcome>>
       PROVE  IInv' /\ UNCHANGED outcome
  <2> DEFINE f == [Top EXCEPT !.cb = "data", !.pc = "forwarded", !.pos = taken]
  <2>1. /\ f \in Frames /\ FrameOK(f) /\ f.method = Top.method /\ f.pc = "forwarded"
        /\ f.left = Top.left /\ f.pos = taken
    <3> HIDE DEF taken
    <3> QED BY <1>1, <1>4 DEF Frames, FrameOK, Places
  <2>2. stack' = [stack EXCEPT ![1] = f]
    <3> HIDE DEF taken
    <3> QED BY <1>1, <1>13, TopKnown DEF Stacked, Frames
  <2> HIDE DEF f, taken, ready, out
  <2>3. Stacked' /\ stack' # <<>> /\ Top' = f
    BY <1>1, <2>1, <2>2, TopChanged
  <2>4. Typed'
    BY <1>1, <1>2, <1>4, <1>6, <1>13 DEF Typed
  <2>5. /\ Left' = Left /\ Taken' = taken /\ ChainSize' = ChainSize
    BY <1>1, <1>2, <2>1, <2>3 DEF Left, Taken, ChainSize
  <2>6. /\ delivered' + output_chain' + held' <= Worth(decoded')
        /\ Lossless' => delivered' + output_chain' + held' = Worth(decoded')
    <3>1. delivered' + output_chain' + held' = delivered + output_chain + held' + out
      <4>1. delivered \in Nat /\ output_chain \in Nat
        BY <1>1 DEF Typed
      <4>2. out \in Nat /\ held' \in Nat /\ used \in {0, output_chain + out}
        BY <1>4, <1>6, <1>13
      <4>3. (delivered + used) + (output_chain + out - used) + held' = delivered + output_chain + held' + out
        BY <4>1, <4>2, Regroup
      <4> QED BY <1>13, <4>3
    <3>2. Lossless' => delivered + output_chain + held' + out = Worth(decoded')
      <4>1. delivered \in Nat /\ output_chain \in Nat /\ held \in Nat
        BY <1>1 DEF Typed
      <4>2. Lossless' => delivered + output_chain + held = Worth(decoded)
        BY <1>2, <1>10, <1>13 DEF Lossless
      <4> QED BY <1>3, <1>4, <1>5, <4>1, <4>2, Decoded
    <3> QED BY <1>11, <3>1, <3>2
  <2>7. /\ decoded' + pending_input' + Left <= received' + taken
        /\ Lossless => decoded' + pending_input' + Left = received' + taken
    <3>1. Lossless => decoded + pending_input + Left = received + 0
      BY <1>1, <1>7 DEF Conserved
    <3> QED BY <1>1, <1>2, <1>3, <1>4, <1>7, <1>8, <3>1 DEF Typed
  <2>8. Worth(decoded)' = Worth(decoded') /\ taken <= ChainSize
    BY <1>2, <1>4, <1>7 DEF Worth
  <2>9. Lossless' <=> Lossless
    BY <1>2, <1>13 DEF Lossless
  <2>10. Conserved'
    BY <1>2, <1>6, <1>9, <2>3, <2>5, <2>6, <2>7, <2>8, <2>9 DEF Conserved
  <2>11. Ending' /\ Signalled'
    BY <1>1, <1>2, <1>13, <2>1, <2>3 DEF Ending, Signalled
  <2> QED BY <1>13, <2>3, <2>4, <2>10, <2>11 DEF IInv
<1>14. \/ Finish("error", "overflow") /\ UNCHANGED <<output_chain, delivered>>
       \/ \E used \in {0, output_chain + out} :
             /\ output_chain' = output_chain + out - used /\ delivered' = delivered + used
             /\ stack' = [stack EXCEPT ![1].cb = "data", ![1].pc = "forwarded", ![1].pos = taken]
             /\ UNCHANGED <<finalized, outcome>>
  BY DEF Decompress
<1> HIDE DEF taken, ready, out
<1> QED BY <1>12, <1>13, <1>14

LEMMA Consumed ==
    ASSUME NEW a \in Nat, NEW b \in Nat, NEW l \in Nat, NEW p \in Nat, NEW r \in Nat, p <= l
    PROVE  /\ a + b + l <= r + p => a + b + (l - p) <= r + 0
           /\ a + b + l = r + p => a + b + (l - p) = r + 0
  OBVIOUS

\* The chunk is consumed as far as the decoder has taken it.
LEMMA ForwardedKeeps == ASSUME IInv, Forwarded PROVE IInv'
<1> DEFINE pc == IF IsSuspended THEN "suspended" ELSE "decompress"
           left == IF Top.method = "OnData" THEN Top.left - Top.pos ELSE Top.left
           f == [Top EXCEPT !.pc = pc, !.pos = 0, !.left = left]
<1>1. /\ stack # <<>> /\ Top.cb = "none" /\ Top.pc = "forwarded" /\ Top \in Frames
      /\ Stacked /\ Typed /\ Conserved /\ Ending /\ Signalled /\ outcome = "none"
  BY AtKnown DEF Forwarded, Signalled
<1>2. /\ UNCHANGED <<output_chain, decoded, held, incomplete, received, delivered>>
      /\ UNCHANGED <<input, outcome, closed, done_pending, finalized>>
  BY DEF Forwarded, decoder, lifecycle, signals
<1>3. /\ Top.pos \in {0, 1} /\ Top.left \in Nat /\ Taken = Top.pos /\ Top.pos <= ChainSize
      /\ Left = IF Top.method = "OnData" THEN Top.left ELSE 0
  BY <1>1 DEF Frames, Taken, Left, Conserved
<1>4. pending_input' = IF Top.method = "OnData" THEN pending_input ELSE pending_input - Top.pos
  BY DEF Forwarded, Consume
<1>5. left \in Nat /\ pending_input' \in Nat
  BY <1>1, <1>3, <1>4 DEF ChainSize, Typed
<1>6. /\ f \in Frames /\ FrameOK(f) /\ f.method = Top.method /\ f.pc = pc /\ f.left = left
      /\ f.pos = 0
  <2> HIDE DEF left
  <2> QED BY <1>1, <1>5 DEF Frames, FrameOK, Places
<1>7. stack' = [stack EXCEPT ![1] = f]
  <2>1. stack' = [stack EXCEPT ![1].pc = pc, ![1].pos = 0,
                    ![1].left = IF Top.method = "OnData" THEN @ - Top.pos ELSE @]
    BY DEF Forwarded, Consume
  <2>2. Top = stack[1] /\ 1 \in DOMAIN stack
    BY <1>1, TopKnown DEF Stacked
  <2> QED BY <1>1, <2>1, <2>2 DEF Stacked, Frames
<1>8. pc \in {"suspended", "decompress"}
  OBVIOUS
<1> HIDE DEF f, pc
<1>9. Stacked' /\ stack' # <<>> /\ Top' = f
  BY <1>1, <1>6, <1>7, TopChanged
<1>10. Typed'
  BY <1>1, <1>2, <1>5 DEF Typed
<1>11. /\ Taken' = 0 /\ Left' = IF Top.method = "OnData" THEN Top.left - Top.pos ELSE 0
       /\ ChainSize' \in Nat /\ Worth(decoded)' = Worth(decoded)
  <2>1. Left' = IF Top.method = "OnData" THEN left ELSE 0
    BY <1>6, <1>8, <1>9 DEF Left
  <2>2. ChainSize' \in Nat
    <3> HIDE DEF left
    <3> QED BY <1>5, <1>6, <1>9 DEF ChainSize
  <2> QED BY <1>2, <1>6, <1>8, <1>9, <2>1, <2>2 DEF Taken, Worth
<1>12. /\ decoded' + pending_input' + Left' <= received' + Taken'
       /\ Lossless => decoded' + pending_input' + Left' = received' + Taken'
  <2>1. /\ decoded + pending_input + Left <= received + Top.pos
        /\ Lossless => decoded + pending_input + Left = received + Top.pos
    BY <1>1, <1>3 DEF Conserved
  <2>2. decoded \in Nat /\ pending_input \in Nat /\ received \in Nat
    BY <1>1 DEF Typed
  <2>3. CASE Top.method = "OnData"
    <3>1. Top.pos \in Nat /\ Top.pos <= Top.left /\ Left = Top.left
      BY <1>3, <2>3 DEF ChainSize
    <3>2. /\ decoded + pending_input + (Top.left - Top.pos) <= received + 0
          /\ Lossless => decoded + pending_input + (Top.left - Top.pos) = received + 0
      BY <1>3, <2>1, <2>2, <3>1, Consumed
    <3> QED BY <1>2, <1>4, <1>11, <2>3, <3>2
  <2>4. CASE Top.method # "OnData"
    BY <1>2, <1>3, <1>4, <1>11, <2>1, <2>2, <2>4
  <2> QED BY <2>3, <2>4
<1>13. Conserved'
  <2>1. Lossless' <=> Lossless
    BY <1>2 DEF Lossless
  <2>2. stack' # <<>> => Taken' <= ChainSize'
    BY <1>11
  <2> QED BY <1>1, <1>2, <1>11, <1>12, <2>1, <2>2 DEF Conserved
<1>14. Ending' /\ Signalled'
  BY <1>1, <1>2, <1>6, <1>8, <1>9 DEF Ending, Signalled
<1> QED BY <1>9, <1>10, <1>13, <1>14 DEF IInv

LEMMA InterruptedKeeps == ASSUME IInv, Interrupted PROVE IInv'
<1>1. /\ stack # <<>> /\ Top.cb = "none" /\ Top.pc = "suspended" /\ Top \in Frames
      /\ Stacked /\ Typed /\ Conserved /\ Ending /\ Signalled
  BY AtKnown DEF Interrupted
<1>2. /\ UNCHANGED <<output_chain, decoded, held, incomplete, received, delivered>>
      /\ UNCHANGED <<input, outcome, closed, finalized>>
  BY DEF Interrupted, decoder, lifecycle, signals
<1>3. May("exit", Top.cb) /\ May("overflow", Top.cb)
      /\ (Top.method = "Resume" => May("drained", Top.cb))
  BY <1>1 DEF May, Places, Callbacks
<1>4. ASSUME NEW pc \in {"exit", "overflow", "drained"}, May(pc, Top.cb), Goto(pc),
             UNCHANGED pending_input, done_pending' => input = "done",
             Top.method = "OnData" => pc = "overflow"
      PROVE  IInv'
  <2>1. ControlOK(pc)
    BY <1>1, <1>2, <1>4 DEF ControlOK, data, decoder, Typed
  <2> QED BY <1>1, <1>4, <2>1, GotoKeeps
<1>5. CASE /\ Top.method = "OnData" /\ pending_input' = pending_input + Top.left
           /\ Goto("exit") /\ UNCHANGED done_pending
  <2>1. Stacked' /\ MovedTo("exit", Top.cb)
    BY <1>1, <1>3, <1>5, GotoMoves
  <2>2. Top.left \in Nat
    BY <1>1 DEF Frames
  <2>3. Typed'
    BY <1>1, <1>2, <1>5, <2>2 DEF Typed
  <2>4. /\ Left = Top.left /\ Taken = 0 /\ Left' = 0 /\ Taken' = 0 /\ ChainSize' \in Nat
        /\ Worth(decoded)' = Worth(decoded)
    BY <1>1, <1>2, <1>5, <2>1, <2>2 DEF Left, Taken, ChainSize, Worth, MovedTo
  <2>5. /\ outcome = "none" => decoded' + pending_input' + 0 <= received' + 0
        /\ Lossless => decoded' + pending_input' + 0 = received' + 0
    <3>1. /\ outcome = "none" => decoded + pending_input + Top.left <= received + 0
          /\ Lossless => decoded + pending_input + Top.left = received + 0
      BY <1>1, <2>4 DEF Conserved
    <3> QED BY <1>1, <1>2, <1>5, <2>2, <3>1 DEF Typed
  <2>6. Conserved'
    <3>1. Lossless' <=> Lossless
      BY <1>2 DEF Lossless
    <3> QED BY <1>1, <1>2, <2>4, <2>5, <3>1 DEF Conserved
  <2>7. Ending' /\ Signalled'
    BY <1>1, <1>2, <1>5, <2>1 DEF Ending, Signalled, MovedTo
  <2> QED BY <2>1, <2>3, <2>6, <2>7 DEF IInv
<1>6. /\ done_pending => input = "done"
      /\ Top.method = "Finish" => input = "done"
  BY <1>1 DEF Ending
<1> QED BY <1>3, <1>4, <1>5, <1>6 DEF Interrupted

\* DoClose is pending only for a stage that was asked to close.
Closing == close_pending \/ close_deferred => closed

LEMMA ClosingKept == ASSUME Closing, Typed, [Next]_vars PROVE Closing'
<1>1. CASE Base
  BY <1>1 DEF Base, CommonNext, Suspend, Resume, Close, Return, Exit, CloseStep, ResumeUpstream,
              CompleteDeferred, RequestClose, ReleaseGuard, ScheduleClose, lifecycle, Closing, Typed
<1>2. CASE UNCHANGED <<closed, close_pending, close_deferred>>
  BY <1>2 DEF Closing
<1>3. CASE Upstream
  BY <1>2, <1>3 DEF Upstream, OnData, OnDone, OnError
<1>4. CASE DoClose
  BY <1>4 DEF DoClose, Closing
<1>5. CASE Code /\ ~DoClose
  BY <1>2, <1>5 DEF Code, DecompressEnd, Decompress, Corrupt, Forwarded, Decompressed, Interrupted,
                    Fail, ProcessPending, Redelivered, FlushAndComplete, Complete, Flushed, lifecycle
<1>6. CASE UNCHANGED vars
  BY <1>2, <1>6 DEF vars, componentVars, lifecycle
<1> QED BY <1>1, <1>3, <1>4, <1>5, <1>6 DEF Next, Code

LEMMA StutterKeeps == ASSUME IInv, UNCHANGED vars PROVE IInv'
<1>1. /\ UNCHANGED <<pending_input, output_chain, decoded, held, incomplete, received, delivered>>
      /\ UNCHANGED <<input, outcome, done_pending, finalized, stack, closed>>
  BY DEF vars, componentVars, lifecycle, signals, data, decoder
<1>2. Stacked' /\ Top' = Top
  BY <1>1 DEF IInv, Stacked, Top
<1>3. Left' = Left /\ Taken' = Taken /\ ChainSize' = ChainSize /\ Worth(decoded)' = Worth(decoded)
  BY <1>1, <1>2 DEF Left, Taken, ChainSize, Worth
<1>4. Typed' /\ Ending' /\ Signalled' /\ Conserved'
  BY <1>1, <1>2, <1>3 DEF IInv, Typed, Ending, Signalled, Conserved, Lossless
<1> QED BY <1>2, <1>4 DEF IInv

\* The invariant is inductive.
LEMMA NextKeeps == ASSUME NestedResume = FALSE, IInv, Closing, [Next]_vars PROVE IInv'
<1>1. CASE Base
  BY <1>1, CallsKeep, ResumeKeeps, ReturnKeeps, ExitKeeps, CloseStepKeeps, ResumeUpstreamKeeps,
     CompleteDeferredKeeps DEF Base, CommonNext
<1>2. CASE Upstream
  BY <1>2, OnDataKeeps, OnDoneKeeps, OnErrorKeeps DEF Upstream
<1>3. CASE DoClose
  BY <1>3, DoCloseKeeps DEF DoClose, Closing
<1>4. CASE Code /\ ~DoClose
  BY <1>4, DecompressEndKeeps, DecompressKeeps, CorruptKeeps, ForwardedKeeps, DecompressedKeeps,
     InterruptedKeeps, FailKeeps, ProcessPendingKeeps, RedeliveredKeeps, FlushAndCompleteKeeps,
     CompleteKeeps, FlushedKeeps DEF Code
<1>5. CASE UNCHANGED vars
  BY <1>5, StutterKeeps
<1> QED BY <1>1, <1>2, <1>3, <1>4, <1>5 DEF Next, Code

LEMMA InitKeeps == ASSUME Init PROVE IInv /\ Closing
<1>1. /\ stack = <<>> /\ pending_input = 0 /\ output_chain = 0 /\ decoded = 0 /\ held = 0
      /\ received = 0 /\ delivered = 0 /\ incomplete = FALSE /\ closed = FALSE /\ finalized = FALSE
      /\ done_pending = FALSE /\ outcome = "none" /\ close_pending = FALSE /\ close_deferred = FALSE
  BY DEF Init, ComponentInit
<1>2. Stacked
  BY <1>1 DEF Stacked
<1>3. Left = 0 /\ Taken = 0 /\ Worth(decoded) = 0
  BY <1>1, WorthKnown DEF Left, Taken
<1>4. Conserved
  BY <1>1, <1>3 DEF Conserved
<1>5. Typed /\ Ending /\ Signalled /\ Closing
  BY <1>1 DEF Typed, Ending, Signalled, Closing
<1> QED BY <1>2, <1>4, <1>5 DEF IInv

-----------------------------------------------------------------------------
(***************************************************************************)
(* The refinement.  Every step is one of five kinds.                       *)
(***************************************************************************)
visible == <<received, delivered, input, closed, outcome>>

Receives == /\ input = "open" /\ received' \in Nat /\ received <= received'
            /\ UNCHANGED <<delivered, closed, outcome>>
Delivers == /\ outcome = "none" \/ closed
            /\ delivered <= delivered'
            /\ UNCHANGED <<received, input, closed, outcome>>
Signals == /\ outcome = "none" /\ outcome' # "none"
           /\ outcome' = "done" => closed \/ (input = "done" /\ delivered = Worth(received))
           /\ UNCHANGED <<received, delivered, input, closed>>
Closes == closed' = TRUE /\ UNCHANGED <<received, delivered, input, outcome>>

Kinds == UNCHANGED visible \/ Receives \/ Delivers \/ Signals \/ Closes

\* An exit that emits gives the first signal or none.
LEMMA FinishKinds ==
    ASSUME IInv, NEW signal, NEW why, why # "none", Finish(signal, why),
           why = "done" => closed \/ outcome # "none" \/ (input = "done" /\ delivered = Worth(received)),
           UNCHANGED <<received, delivered, input, closed>>
    PROVE  Kinds
<1>1. outcome' = IF outcome = "none" THEN why ELSE outcome
  BY DEF Finish, IInv, Signalled
<1> QED BY <1>1 DEF Kinds, Signals, visible

\* What has been forwarded when the stage completes: everything.
LEMMA AllForwarded ==
    ASSUME IInv, stack # <<>>, Top.pc \in {"completing", "flushed"}, ~incomplete, output_chain = 0,
           ~closed, outcome = "none"
    PROVE  input = "done" /\ delivered = Worth(received)
<1>1. Stacked /\ Typed /\ Conserved /\ Ending /\ Lossless
  BY DEF IInv, Lossless
<1>2. Top.method = "Finish"
  BY <1>1, TopKnown DEF FrameOK
<1>3. Left = 0 /\ Taken = 0
  BY <1>2 DEF Left, Taken
<1>4. decoded + 0 + 0 = received + 0 /\ delivered + 0 + 0 = Worth(decoded)
  BY <1>1, <1>3 DEF Conserved, Ending
<1>5. decoded = received /\ delivered = Worth(decoded)
  BY <1>1, <1>4 DEF Typed
<1> QED BY <1>1, <1>2, <1>5 DEF Ending

LEMMA ForwardDelivers ==
    ASSUME Typed, NEW pc, Forward(output_chain, pc) PROVE delivered <= delivered'
  BY DEF Forward, Typed

LEMMA NextKinds == ASSUME IInv, [Next]_vars PROVE Kinds
<1> USE DEF Kinds, visible
<1>1. Typed /\ Signalled /\ Ending
  BY DEF IInv
<1>2. CASE Base
  <2>1. UNCHANGED <<received, delivered, input, outcome>>
    BY <1>2 DEF Base, data
  <2>2. UNCHANGED closed \/ closed' = TRUE
    BY <1>2 DEF Base, CommonNext, Suspend, Resume, Close, Return, Exit, CloseStep, ResumeUpstream,
                CompleteDeferred, RequestClose, ReleaseGuard, ScheduleClose, lifecycle
  <2> QED BY <2>1, <2>2 DEF Closes
<1>3. CASE Upstream
  <2>1. ASSUME NEW n \in 1..FrameUnits, OnData(n) PROVE Receives
    <3>1. n \in Nat /\ received \in Nat /\ received' = received + n
      BY <1>1, <2>1, ZstdAssumption DEF OnData, Typed
    <3>2. received' \in Nat /\ received <= received'
      BY <3>1
    <3> QED BY <2>1, <3>2 DEF OnData, Receives
  <2>2. CASE OnDone \/ OnError
    <3>1. input = "open" /\ UNCHANGED <<received, delivered, closed, outcome>>
      BY <2>2 DEF OnDone, OnError, data
    <3>2. received \in Nat /\ received <= received
      BY <1>1 DEF Typed
    <3> QED BY <3>1, <3>2 DEF Receives
  <2> QED BY <1>3, <2>1, <2>2 DEF Upstream
<1>4. CASE DecompressEnd \/ Forwarded \/ Decompressed \/ Interrupted \/ Redelivered
              \/ FlushAndComplete \/ DoClose
  BY <1>4 DEF DecompressEnd, Forwarded, Decompressed, Interrupted, Redelivered, FlushAndComplete,
              DoClose, lifecycle, data
<1>5. CASE Decompress
  <2> DEFINE ready == IF held = 0 THEN Expand ELSE held
             out == Min({ready, SegCap})
  <2>1. stack # <<>> /\ Top.pc = "decompress" /\ outcome = "none"
    BY <1>1, <1>5 DEF Decompress, At, Signalled
  <2>2. UNCHANGED <<received, input, closed>>
    BY <1>5 DEF Decompress
  <2>3. out \in Nat
    <3>1. Expand \in Nat /\ SegCap \in Nat
      BY ZstdAssumption
    <3>2. ready \in Nat
      BY <1>1, <3>1 DEF Typed
    <3> HIDE DEF ready
    <3> QED BY <3>1, <3>2, MinKnown
  <2>4. \/ Finish("error", "overflow") /\ UNCHANGED delivered
        \/ UNCHANGED outcome /\ \E used \in {0, output_chain + out} : delivered' = delivered + used
    BY <1>5 DEF Decompress
  <2> HIDE DEF ready, out
  <2>5. CASE Finish("error", "overflow") /\ UNCHANGED delivered
    BY <2>2, <2>5, FinishKinds
  <2>6. CASE UNCHANGED outcome /\ \E used \in {0, output_chain + out} : delivered' = delivered + used
    <3>1. PICK used \in {0, output_chain + out} : delivered' = delivered + used
      BY <2>6
    <3>2. delivered <= delivered'
      BY <1>1, <2>3, <3>1 DEF Typed
    <3> QED BY <2>1, <2>2, <2>6, <3>2 DEF Delivers
  <2> QED BY <2>4, <2>5, <2>6
<1>6. CASE Corrupt
  BY <1>6, FinishKinds DEF Corrupt, data
<1>7. CASE Fail
  BY <1>7, FinishKinds DEF Fail, data
<1>8. CASE ProcessPending
  <2>1. UNCHANGED <<received, input, closed, outcome>> /\ (outcome = "none" \/ closed)
    BY <1>1, <1>8 DEF ProcessPending, lifecycle, At, Signalled
  <2>2. UNCHANGED delivered \/ delivered <= delivered'
    BY <1>1, <1>8, ForwardDelivers DEF ProcessPending
  <2> QED BY <2>1, <2>2 DEF Delivers
<1>9. CASE Complete
  <2>1. /\ UNCHANGED <<received, input, closed>> /\ stack # <<>> /\ Top.pc = "completing"
        /\ outcome = "none" \/ closed
    BY <1>1, <1>9 DEF Complete, At, Signalled
  <2>2. CASE Finish("error", "incomplete") /\ UNCHANGED delivered
    BY <2>1, <2>2, FinishKinds
  <2>3. CASE ~incomplete /\ output_chain = 0 /\ Finish("done", "done") /\ UNCHANGED delivered
    BY <2>1, <2>3, FinishKinds, AllForwarded
  <2>4. CASE Forward(output_chain, "flushed") /\ UNCHANGED outcome
    BY <1>1, <2>1, <2>4, ForwardDelivers DEF Delivers
  <2> QED BY <1>9, <2>2, <2>3, <2>4 DEF Complete
<1>10. CASE Flushed
  <2>1. /\ UNCHANGED <<received, delivered, input, closed>> /\ stack # <<>> /\ Top.pc = "flushed"
        /\ closed \/ ~incomplete
    BY <1>1, <1>10 DEF Flushed, At, Ending, data
  <2>2. CASE UNCHANGED outcome
    BY <2>1, <2>2
  <2>3. CASE Finish("error", "leftover")
    BY <2>1, <2>3, FinishKinds
  <2>4. CASE ~(output_chain > 0) /\ Finish("done", "done")
    <3>1. output_chain = 0
      BY <1>1, <2>4 DEF Typed
    <3> QED BY <2>1, <2>4, <3>1, FinishKinds, AllForwarded
  <2> QED BY <1>10, <2>2, <2>3, <2>4 DEF Flushed
<1>11. CASE UNCHANGED vars
  BY <1>11 DEF vars, componentVars, lifecycle, data
<1> QED BY <1>2, <1>3, <1>4, <1>5, <1>6, <1>7, <1>8, <1>9, <1>10, <1>11 DEF Next, Code

\* Nothing is delivered that was not received.
LEMMA DeliveredOwed == ASSUME IInv' PROVE delivered' <= Worth(received')
<1>1. /\ Typed' /\ delivered' + output_chain' + held' <= Worth(decoded') /\ decoded' <= received'
  BY DEF IInv, Conserved, Worth
<1>2. /\ Worth(decoded') \in Nat /\ Worth(received') \in Nat
      /\ Worth(decoded') <= Worth(received')
  BY <1>1, WorthKnown DEF Typed
<1> QED BY <1>1, <1>2 DEF Typed

\* Each kind of step is a step of Stage.
LEMMA StageStep == ASSUME IInv, IInv', [Next]_vars PROVE [S!Next]_(S!vars)
<1>1. Typed /\ Typed' /\ Kinds
  BY NextKinds DEF IInv
<1>2. CASE UNCHANGED visible
  BY <1>2 DEF visible, S!vars
<1>3. CASE Receives
  <2>1. Expand * received' >= Expand * received
    <3>1. Worth(received) <= Worth(received')
      BY <1>1, <1>3, WorthKnown DEF Typed, Receives
    <3>2. Worth(received) \in Nat /\ Worth(received') \in Nat
      BY <1>1, WorthKnown DEF Typed
    <3> QED BY <3>1, <3>2 DEF Worth
  <2> QED BY <1>3, <2>1 DEF Receives, S!Next, S!Receive
<1>4. CASE Delivers
  <2>1. delivered' <= Expand * received
    BY <1>4, DeliveredOwed DEF Delivers, Worth
  <2>2. CASE delivered' = delivered
    BY <1>4, <2>2 DEF Delivers, S!vars
  <2>3. CASE delivered < delivered'
    BY <1>4, <2>1, <2>3 DEF Delivers, S!Next, S!Deliver
  <2> QED BY <1>1, <1>4, <2>2, <2>3 DEF Delivers, Typed
<1>5. CASE Signals
  <2>1. CASE outcome' = "done"
    BY <1>5, <2>1 DEF Signals, S!Next, S!Done, Worth
  <2>2. CASE outcome' # "done"
    BY <1>5, <2>2 DEF Signals, S!Next, S!Fail
  <2> QED BY <2>1, <2>2
<1>6. CASE Closes
  BY <1>6 DEF Closes, S!Next, S!Close
<1> QED BY <1>1, <1>2, <1>3, <1>4, <1>5, <1>6 DEF Kinds

\* The decompressor is a stage, for every frame, segment size, limit and depth
\* of nesting: what it hands down is what its input decodes to, once, and a
\* completion is signalled only when all of it was handed down.
THEOREM StageImplemented == ASSUME NestedResume = FALSE PROVE Spec => ImplementsStage
<1>1. Init => S!Init
  <2>1. Expand * 0 = 0
    BY ZstdAssumption
  <2> QED BY <2>1 DEF Init, ComponentInit, S!Init
<1>2. Init => IInv /\ Closing
  BY InitKeeps
<1>3. IInv /\ Closing /\ [Next]_vars => (IInv /\ Closing)'
  BY NextKeeps, ClosingKept DEF IInv
<1>4. IInv /\ IInv' /\ [Next]_vars => [S!Next]_(S!vars)
  BY StageStep
<1> QED BY <1>1, <1>2, <1>3, <1>4, PTL DEF Spec, ImplementsStage, S!Spec

-----------------------------------------------------------------------------
(***************************************************************************)
(* Backpressure.  A Resume() that drains holds a suspension of the upstream *)
(* until it gets to "resumed", where it takes it back or, suspended again,  *)
(* leaves it behind; the stage itself holds one while it is suspended.      *)
(***************************************************************************)
Draining == stack # <<>> /\ Top.method = "Resume" /\ Top.pc \notin {"resumed", "exit", "flush"}

Own == IF suspend_count > 0 THEN 1 ELSE 0

Balance ==
    /\ suspend_count \in Nat /\ unreturned \in Nat
    /\ ~closed /\ Draining => upstream_suspends = unreturned + 1 + Own /\ Top.guard
    /\ ~closed /\ ~Draining => upstream_suspends = unreturned + Own

\* A step that leaves the counts alone, and the Resume() where it was.
Calm == UNCHANGED backpressure /\ (closed => closed') /\ (Draining' <=> Draining)
        /\ (Draining /\ ~closed' => Top'.guard = Top.guard)

LEMMA CalmKeeps == ASSUME Balance, Calm PROVE Balance'
  BY DEF Balance, Calm, Own, backpressure

\* The innermost activation goes on, in the same method.
LEMMA TopAfter ==
    ASSUME Stacked, stack # <<>>, NEW f, stack' = [stack EXCEPT ![1] = f]
    PROVE  stack' # <<>> /\ Top' = f
<1>1. Len(stack) \in Nat /\ 1 \in 1..Len(stack) /\ DOMAIN stack = 1..Len(stack)
  BY DEF Stacked
<1>2. Len(stack') = Len(stack) /\ stack'[1] = f
  BY <1>1 DEF Stacked
<1> QED BY <1>1, <1>2 DEF Top

LEMMA GotoAfter ==
    ASSUME Stacked, stack # <<>>, NEW pc, Goto(pc)
    PROVE  stack' # <<>> /\ Top'.method = Top.method /\ Top'.pc = pc /\ Top'.guard = Top.guard
<1>1. Top = stack[1] /\ Top \in Frames /\ 1 \in 1..Len(stack)
  BY TopKnown
<1>2. stack' = [stack EXCEPT ![1] = [Top EXCEPT !.pc = pc]]
  BY <1>1 DEF Goto, Stacked
<1>3. stack' # <<>> /\ Top' = [Top EXCEPT !.pc = pc]
  BY <1>2, TopAfter
<1> QED BY <1>1, <1>3 DEF Frames

LEMMA CallAfter ==
    ASSUME Stacked, stack # <<>>, NEW pc, NEW cb,
           stack' = [stack EXCEPT ![1].cb = cb, ![1].pc = pc]
    PROVE  stack' # <<>> /\ Top'.method = Top.method /\ Top'.pc = pc /\ Top'.guard = Top.guard
<1>1. Top = stack[1] /\ Top \in Frames /\ 1 \in 1..Len(stack)
  BY TopKnown
<1>2. stack' = [stack EXCEPT ![1] = [Top EXCEPT !.cb = cb, !.pc = pc]]
  BY <1>1 DEF Stacked
<1>3. stack' # <<>> /\ Top' = [Top EXCEPT !.cb = cb, !.pc = pc]
  BY <1>2, TopAfter
<1> QED BY <1>1, <1>3 DEF Frames

\* A Goto between two places on the same side of "resumed".
LEMMA GotoCalm ==
    ASSUME Stacked, stack # <<>>, NEW pc, Goto(pc), UNCHANGED backpressure, closed => closed',
           Top.method = "Resume" =>
              (pc \in {"resumed", "exit", "flush"} <=> Top.pc \in {"resumed", "exit", "flush"})
    PROVE  Calm
  BY GotoAfter DEF Calm, Draining

LEMMA FinishCalm ==
    ASSUME Stacked, stack # <<>>, NEW signal, NEW why, Finish(signal, why),
           UNCHANGED <<backpressure, closed>>, Top.pc \notin {"resumed", "exit", "flush"}
    PROVE  Calm
<1>1. stack' # <<>> /\ Top'.method = Top.method /\ Top'.pc = "close" /\ Top'.guard = Top.guard
  BY GotoAfter, CallAfter DEF Finish, Emit, CallDownstream
<1> QED BY <1>1 DEF Calm, Draining

\* Entering one of the upstream's calls.
LEMMA EnterCalm ==
    ASSUME Stacked, stack = <<>> \/ Top.cb = "resume", NEW method, method # "Resume",
           NEW pc, NEW left, NEW guard, Enter(method, pc, left, guard), UNCHANGED <<backpressure, closed>>
    PROVE  Calm
<1> DEFINE f == [method |-> method, pc |-> pc, cb |-> "none", left |-> left, pos |-> 0, guard |-> guard]
<1>1. stack' = <<f>> \o stack /\ f.method = method
  BY DEF Enter
<1> HIDE DEF f
<1>2. stack' # <<>> /\ Top' = f
  BY <1>1 DEF Stacked, Top
<1>3. stack # <<>> => Top.pc = "resumed"
  BY TopKnown DEF FrameOK
<1> QED BY <1>1, <1>2, <1>3 DEF Calm, Draining

LEMMA BaseBalances ==
    ASSUME NestedResume = FALSE, IInv, Balance, CommonNext PROVE Balance'
<1>1. Stacked /\ Typed
  BY DEF IInv
<1>2. CASE Suspend
  <2>1. /\ suspend_count' = suspend_count + 1 /\ UNCHANGED <<unreturned, closed, stack>>
        /\ upstream_suspends' = upstream_suspends + (IF suspend_count = 0 THEN 1 ELSE 0)
    BY <1>2 DEF Suspend, lifecycle
  <2>2. (Draining' <=> Draining) /\ (Draining => Top' = Top)
    BY <2>1 DEF Draining, Top
  <2>3. /\ suspend_count' \in Nat /\ unreturned' \in Nat
        /\ Own' = Own + (IF suspend_count = 0 THEN 1 ELSE 0)
    BY <2>1 DEF Balance, Own
  <2>4. CASE closed
    BY <2>1, <2>3, <2>4 DEF Balance
  <2>5. CASE ~closed /\ Draining
    BY <2>1, <2>2, <2>3, <2>5 DEF Balance, Own
  <2>6. CASE ~closed /\ ~Draining
    BY <2>1, <2>2, <2>3, <2>6 DEF Balance, Own
  <2> QED BY <2>4, <2>5, <2>6
<1>3. CASE Resume
  <2>1. stack = <<>> /\ UNCHANGED <<closed, upstream_suspends, unreturned>>
        /\ suspend_count' = suspend_count - 1 /\ suspend_count > 0 /\ ~Draining
    BY <1>3 DEF Resume, Draining
  <2>2. CASE suspend_count = 1
    <3> DEFINE f == [method |-> "Resume", pc |-> IF closed THEN "drained" ELSE "drain", cb |-> "none",
                     left |-> 0, pos |-> 0, guard |-> ~closed]
    <3>1. stack' = <<f>> \o stack /\ f.method = "Resume" /\ f.pc \in {"drained", "drain"}
          /\ (~closed => f.guard)
      BY <1>3, <2>2 DEF Resume, Enter
    <3> HIDE DEF f
    <3>2. stack' # <<>> /\ Top' = f
      BY <1>1, <3>1 DEF Stacked, Top
    <3>3. Draining' /\ (~closed => Top'.guard)
      BY <3>1, <3>2 DEF Draining
    <3>4. ~closed => upstream_suspends = unreturned + 1
      BY <2>1, <2>2 DEF Balance, Own
    <3>5. suspend_count' = 0 /\ Own' = 0 /\ unreturned \in Nat
      BY <2>1, <2>2 DEF Own, Balance
    <3> QED BY <2>1, <3>3, <3>4, <3>5 DEF Balance
  <2>3. CASE suspend_count # 1
    <3>1. ~Draining'
      BY <1>3, <2>1, <2>3 DEF Resume, Draining
    <3>2. suspend_count' \in Nat /\ Own' = 1 /\ Own = 1
      BY <2>1, <2>3 DEF Balance, Own
    <3> QED BY <2>1, <3>1, <3>2 DEF Balance
  <2> QED BY <2>2, <2>3
<1>4. CASE Close
  <2>1. closed' = TRUE /\ UNCHANGED <<backpressure, stack>>
    BY <1>1, <1>4 DEF Close, RequestClose
  <2> QED BY <2>1 DEF Balance, Own, backpressure
<1>5. CASE Return
  <2>1. stack # <<>> /\ stack' = [stack EXCEPT ![1].cb = "none"] /\ UNCHANGED <<backpressure, closed>>
    BY <1>5, GuardLeavesOpen DEF Return
  <2>2. Stacked' /\ MovedTo(Top.pc, "none")
    BY <1>1, <2>1, ReturnMoves
  <2>3. Calm
    BY <2>1, <2>2 DEF MovedTo, Calm, Draining
  <2> QED BY <2>3, CalmKeeps
<1>6. CASE Exit
  <2>1. /\ stack # <<>> /\ Top.pc = "exit" /\ stack' = Tail(stack) /\ UNCHANGED <<backpressure, closed>>
    BY <1>6, GuardLeavesOpen DEF Exit, At
  <2>2. stack' # <<>> => Top'.pc = "resumed"
    BY <1>1, <2>1, Popped
  <2>3. Calm
    BY <2>1, <2>2 DEF Calm, Draining
  <2> QED BY <2>3, CalmKeeps
<1>7. CASE CloseStep
  <2>1. closed' = TRUE /\ UNCHANGED backpressure
    BY <1>1, <1>7 DEF CloseStep, RequestClose, Typed
  <2> QED BY <2>1 DEF Balance, Own, backpressure
<1>8. CASE ResumeUpstream
  <2>1. /\ stack # <<>> /\ Top.pc = "drained" /\ Top.method = "Resume" /\ Draining
        /\ UNCHANGED <<closed, suspend_count>>
    BY <1>8, AtKnown DEF ResumeUpstream, FrameOK, Draining, lifecycle
  <2>2. ~Draining'
    BY <1>1, <1>8, <2>1, GotoAfter, CallAfter DEF ResumeUpstream, Draining
  <2>3. CASE Top.guard /\ ~IsSuspended
    BY <1>8, <2>1, <2>2, <2>3 DEF Balance, ResumeUpstream, IsSuspended, Own
  <2>4. CASE Top.guard /\ IsSuspended
    BY <1>8, <2>1, <2>2, <2>4 DEF Balance, ResumeUpstream, IsSuspended, Own
  <2>5. CASE ~Top.guard
    <3>1. closed' /\ unreturned' = unreturned
      BY <1>8, <2>1, <2>5 DEF Balance, ResumeUpstream
    <3> QED BY <2>1, <3>1 DEF Balance
  <2> QED BY <2>3, <2>4, <2>5
<1>9. CASE CompleteDeferred
  <2>1. stack # <<>> /\ Top.pc = "resumed" /\ UNCHANGED <<backpressure, closed>>
        /\ (Goto("flush") \/ Goto("exit"))
    BY <1>9 DEF CompleteDeferred, At, lifecycle
  <2>2. Calm
    BY <1>1, <2>1, GotoCalm
  <2> QED BY <2>2, CalmKeeps
<1> QED BY <1>2, <1>3, <1>4, <1>5, <1>6, <1>7, <1>8, <1>9 DEF CommonNext

LEMMA NextBalances ==
    ASSUME NestedResume = FALSE, IInv, Balance, [Next]_vars PROVE Balance'
<1>1. Stacked /\ Typed
  BY DEF IInv
<1>2. CASE Base
  BY <1>2, BaseBalances DEF Base
<1>3. CASE Upstream
  <2>1. (stack = <<>> \/ Top.cb = "resume") /\ UNCHANGED <<backpressure, closed>>
    BY <1>3, UpstreamAtRest DEF Upstream, OnData, OnDone, OnError
  <2>2. CASE UNCHANGED stack
    BY <2>1, <2>2, CalmKeeps DEF Calm, Draining, Top
  <2>3. ASSUME NEW method \in {"OnData", "OnDataMerged", "Finish", "OnError"}, NEW pc, NEW left,
               Enter(method, pc, left, TRUE)
        PROVE  Balance'
    BY <1>1, <2>1, <2>3, EnterCalm, CalmKeeps
  <2>4. CASE \E n \in 1..FrameUnits : OnData(n)
    BY <2>3, <2>4 DEF OnData
  <2>5. CASE OnDone
    BY <2>2, <2>3, <2>5 DEF OnDone
  <2>6. CASE OnError
    BY <2>3, <2>6 DEF OnError
  <2> QED BY <1>3, <2>4, <2>5, <2>6 DEF Upstream
<1>4. CASE DecompressEnd \/ Decompressed \/ Interrupted \/ Redelivered
  <2>1. /\ stack # <<>> /\ Top.pc \in {"decompress", "decompressed", "suspended", "redelivered"}
        /\ UNCHANGED <<backpressure, closed>>
    BY <1>4 DEF DecompressEnd, Decompressed, Interrupted, Redelivered, At, lifecycle
  <2>2. \E pc : Goto(pc) /\ (Top.method = "Resume" => pc \notin {"resumed", "exit", "flush"})
    BY <1>4 DEF DecompressEnd, Decompressed, Interrupted, Redelivered, PendingPc
  <2>3. Calm
    BY <1>1, <2>1, <2>2, GotoCalm
  <2> QED BY <2>3, CalmKeeps
<1>5. CASE Forwarded
  <2> DEFINE pc == IF IsSuspended THEN "suspended" ELSE "decompress"
             f == [Top EXCEPT !.pc = pc, !.pos = 0,
                              !.left = IF Top.method = "OnData" THEN @ - Top.pos ELSE @]
  <2>1. /\ stack # <<>> /\ Top.pc = "forwarded" /\ Top \in Frames /\ UNCHANGED <<backpressure, closed>>
    BY <1>5, AtKnown DEF Forwarded, lifecycle
  <2>2. Top = stack[1] /\ 1 \in DOMAIN stack
    BY <1>1, <2>1, TopKnown DEF Stacked
  <2>3. stack' = [stack EXCEPT ![1] = f]
    BY <1>1, <1>5, <2>1, <2>2 DEF Forwarded, Consume, Stacked, Frames
  <2>4. f.method = Top.method /\ f.pc = pc /\ f.guard = Top.guard
    BY <2>1 DEF Frames
  <2> HIDE DEF f
  <2>5. stack' # <<>> /\ Top' = f
    BY <1>1, <2>1, <2>3, TopAfter
  <2>6. Calm
    BY <2>1, <2>4, <2>5 DEF Calm, Draining
  <2> QED BY <2>6, CalmKeeps
<1>6. CASE Decompress
  <2>1. /\ stack # <<>> /\ Top.pc = "decompress" /\ Top \in Frames /\ UNCHANGED <<backpressure, closed>>
    BY <1>6, AtKnown DEF Decompress
  <2>2. CASE Finish("error", "overflow")
    BY <1>1, <2>1, <2>2, FinishCalm, CalmKeeps
  <2>3. ASSUME NEW taken, stack' = [stack EXCEPT ![1].cb = "data", ![1].pc = "forwarded", ![1].pos = taken]
        PROVE  Balance'
    <3> DEFINE f == [Top EXCEPT !.cb = "data", !.pc = "forwarded", !.pos = taken]
    <3>1. Top = stack[1] /\ 1 \in DOMAIN stack
      BY <1>1, <2>1, TopKnown DEF Stacked
    <3>2. stack' = [stack EXCEPT ![1] = f]
      BY <1>1, <2>1, <2>3, <3>1 DEF Stacked, Frames
    <3>3. f.method = Top.method /\ f.pc = "forwarded" /\ f.guard = Top.guard
      BY <2>1 DEF Frames
    <3> HIDE DEF f
    <3>4. stack' # <<>> /\ Top' = f
      BY <1>1, <2>1, <3>2, TopAfter
    <3>5. Calm
      BY <2>1, <3>3, <3>4 DEF Calm, Draining
    <3> QED BY <3>5, CalmKeeps
  <2> QED BY <1>6, <2>2, <2>3 DEF Decompress
<1>7. CASE Corrupt \/ Fail
  <2>1. /\ stack # <<>> /\ Top.pc \in {"decompress", "overflow", "propagate"}
        /\ UNCHANGED <<backpressure, closed>> /\ \E why : Finish("error", why)
    BY <1>7 DEF Corrupt, Fail, At
  <2> QED BY <1>1, <2>1, FinishCalm, CalmKeeps
<1>8. CASE ProcessPending
  <2>1. stack # <<>> /\ Top.pc = "drain" /\ UNCHANGED <<backpressure, closed>>
    BY <1>8 DEF ProcessPending, At, lifecycle
  <2>2. CASE Forward(output_chain, "redelivered")
    <3>1. /\ stack' # <<>> /\ Top'.method = Top.method /\ Top'.pc = "redelivered"
          /\ Top'.guard = Top.guard
      BY <1>1, <2>1, <2>2, CallAfter DEF Forward, CallDownstream
    <3> QED BY <2>1, <3>1, CalmKeeps DEF Calm, Draining
  <2>3. CASE Goto(PendingPc("drained"))
    BY <1>1, <2>1, <2>3, GotoCalm, CalmKeeps DEF PendingPc
  <2> QED BY <1>8, <2>2, <2>3 DEF ProcessPending
<1>9. CASE FlushAndComplete
  <2> DEFINE f == [Top EXCEPT !.method = "Finish", !.pc = PendingPc("completing")]
  <2>1. stack # <<>> /\ Top.pc = "flush" /\ Top \in Frames /\ UNCHANGED <<backpressure, closed>>
    BY <1>9, AtKnown DEF FlushAndComplete, lifecycle
  <2>2. stack' = [stack EXCEPT ![1] = f]
    BY <1>1, <1>9, <2>1, TopKnown DEF FlushAndComplete, Stacked, Frames
  <2>3. f.method = "Finish"
    BY <2>1 DEF Frames
  <2> HIDE DEF f
  <2>4. stack' # <<>> /\ Top' = f
    BY <1>1, <2>1, <2>2, TopAfter
  <2> QED BY <2>1, <2>3, <2>4, CalmKeeps DEF Calm, Draining
<1>10. CASE Complete \/ Flushed
  <2>1. /\ stack # <<>> /\ Top.pc \in {"completing", "flushed"} /\ Top.method = "Finish"
        /\ UNCHANGED <<backpressure, closed>>
    BY <1>10, AtKnown DEF Complete, Flushed, FrameOK
  <2>2. CASE \E signal, why : Finish(signal, why)
    BY <1>1, <2>1, <2>2, FinishCalm, CalmKeeps
  <2>3. CASE Forward(output_chain, "flushed")
    <3>1. stack' # <<>> /\ Top'.method = Top.method
      BY <1>1, <2>1, <2>3, CallAfter DEF Forward, CallDownstream
    <3> QED BY <2>1, <3>1, CalmKeeps DEF Calm, Draining
  <2>4. CASE Goto("exit")
    BY <1>1, <2>1, <2>4, GotoCalm, CalmKeeps
  <2> QED BY <1>10, <2>2, <2>3, <2>4 DEF Complete, Flushed
<1>11. CASE DoClose \/ UNCHANGED vars
  BY <1>11, CalmKeeps DEF DoClose, vars, componentVars, lifecycle, Calm, Draining, Top
<1> QED BY <1>2, <1>3, <1>4, <1>5, <1>6, <1>7, <1>8, <1>9, <1>10, <1>11 DEF Next, Code

\* Suspensions reach the upstream once and are taken back, at any depth, but
\* for the one that a drain leaves behind when it ends with the stage suspended
\* again; for every frame, segment size and limit, and a downstream that does
\* not resume the stage from inside a callback.
THEOREM UpstreamBalanced ==
    ASSUME NestedResume = FALSE PROVE Spec => []BackpressureBalanced
<1>1. Init => IInv /\ Closing /\ Balance
  <2>1. Init => Balance
    BY DEF Init, ComponentInit, Balance, Draining, Own
  <2> QED BY <2>1, InitKeeps
<1>2. IInv /\ Closing /\ Balance /\ [Next]_vars => (IInv /\ Closing /\ Balance)'
  BY NextKeeps, ClosingKept, NextBalances DEF IInv
<1>3. Balance => BackpressureBalanced
  BY DEF Balance, BackpressureBalanced, Draining, Own, IsSuspended
<1> QED BY <1>1, <1>2, <1>3, PTL DEF Spec
=============================================================================
