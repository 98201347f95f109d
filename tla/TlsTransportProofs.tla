-------------------------- MODULE TlsTransportProofs --------------------------
(***************************************************************************)
(* Results about the TLS stage.                                            *)
(*                                                                         *)
(* WritesLeaveInOrder: the writes leave in the order of the calls, once    *)
(* each, and nothing encrypted stays in wbio_, however SSL blocks and      *)
(* however calls nest.  Its invariant is WInv.                             *)
(*                                                                         *)
(* StageImplemented: the stage keeps the promise of Stage.  Its invariant  *)
(* is IInv, and it is about a build in which Resume() does not nest, as the *)
(* run that checks ImplementsStage is.                                     *)
(***************************************************************************)
EXTENDS TlsTransport, SequenceTheorems, TLAPS

(***************************************************************************)
(* The activations of the stage: the places each method has, and a method  *)
(* is entered only while the one below it is in a call.                    *)
(***************************************************************************)
Methods == {"StartHandshake", "Read", "Handshake", "OnDone", "OnError", "Write", "Resume",
            "Complete", "DoClose"}
Places == {"handshake", "send_first", "ready", "read", "reading", "batched", "send_retry",
           "encrypt", "send", "drain", "drained", "resumed", "flush", "completing",
           "flushed", "close_reads", "fail", "close", "last_data", "last_done", "clear", "exit"}
Calls == {"none", "data", "write", "error", "done", "ready", "resume"}
Frames == [method : Methods, pc : Places, cb : Calls, left : Nat, pos : Nat, guard : BOOLEAN]

\* The loop over SSL_read, what follows it, and a completion.
ReadPlaces == {"read", "reading", "batched", "send_retry", "encrypt", "send",
               "completing", "flushed", "close_reads"}

Fits(method, pc, cb) ==
    /\ method = "StartHandshake" => pc \in {"send", "exit"}
    /\ method = "Read" => pc \in ReadPlaces \cup {"handshake", "fail", "close", "exit"}
    /\ method = "Handshake" => pc \in ReadPlaces \cup {"send_first", "ready"}
    /\ method = "OnDone" => pc \in {"completing", "flushed", "close_reads", "exit"}
    /\ method = "OnError" => pc \in {"fail", "close", "exit"}
    /\ method = "Write" => pc \in {"encrypt", "send", "fail", "close", "close_reads", "exit"}
    /\ method = "Resume" => pc \in ReadPlaces \cup {"drain", "drained", "resumed", "flush", "exit"}
    /\ method = "Complete" => pc \in {"completing", "flushed", "close_reads", "exit"}
    /\ method = "DoClose" => pc \in {"last_data", "last_done", "clear", "exit"}
    /\ cb = "resume" => method = "Resume" /\ pc = "resumed"

FrameOK(f) == Fits(f.method, f.pc, f.cb)

Stacked ==
    /\ stack \in Seq(Frames)
    /\ \A i \in 1..Len(stack) :
          /\ FrameOK(stack[i])
          /\ stack[i].method = "DoClose" => closed
          /\ i > 1 => stack[i].cb # "none"

\* A stage that is going to close is closed, and the flag of EmitError and
\* EmitDone says whether the terminal signal was given.
Flags ==
    /\ closed \in BOOLEAN /\ finalized \in BOOLEAN
    /\ close_pending \/ close_deferred => closed
    /\ finalized <=> outcome # "none"

\* The innermost activation is then in this method at pc, in the call cb.
Now(method, pc, cb) ==
    stack' # <<>> /\ Top'.method = method /\ Top'.pc = pc /\ Top'.cb = cb

LEMMA TopKnown ==
    ASSUME Stacked, stack # <<>>
    PROVE  /\ Top = stack[1] /\ Top \in Frames /\ 1 \in 1..Len(stack)
           /\ Fits(Top.method, Top.pc, Top.cb) /\ (Top.method = "DoClose" => closed)
  BY DEF Stacked, Top, FrameOK

\* The innermost activation goes on.
LEMMA TopChanged ==
    ASSUME Stacked, stack # <<>>, closed => closed', NEW f \in Frames, FrameOK(f),
           f.method = "DoClose" => closed,
           stack' = [stack EXCEPT ![1] = f]
    PROVE  /\ Stacked' /\ stack' # <<>> /\ Top' = f /\ Len(stack') = Len(stack)
           /\ \A i \in 1..Len(stack) : i > 1 => stack'[i] = stack[i]
<1>1. Len(stack) \in Nat /\ 1 \in 1..Len(stack)
  BY DEF Stacked
<1>2. /\ stack' \in Seq(Frames) /\ Len(stack') = Len(stack) /\ stack'[1] = f
      /\ \A i \in 1..Len(stack) : i > 1 => stack'[i] = stack[i]
  BY <1>1 DEF Stacked
<1>3. stack' # <<>> /\ Top' = f
  BY <1>1, <1>2 DEF Top
<1>5. ASSUME NEW i \in 1..Len(stack') 
      PROVE  /\ FrameOK(stack'[i]) /\ (stack'[i].method = "DoClose" => closed')
             /\ (i > 1 => stack'[i].cb # "none")
  <2>1. CASE i = 1
    BY <2>1, <1>2
  <2>2. CASE i > 1
    BY <2>2, <1>2 DEF Stacked
  <2> QED BY <2>1, <2>2, <1>2
<1> QED BY <1>2, <1>3, <1>5 DEF Stacked

\* A method is entered.
LEMMA Pushed ==
    ASSUME Stacked, CallerRuns, closed => closed', NEW f \in Frames, FrameOK(f),
           f.method = "DoClose" => closed,
           stack' = <<f>> \o stack
    PROVE  /\ Stacked' /\ stack' # <<>> /\ Top' = f /\ Len(stack') = Len(stack) + 1
           /\ \A i \in 1..Len(stack) : stack'[i + 1] = stack[i]
<1>1. /\ stack' \in Seq(Frames) /\ Len(stack') = Len(stack) + 1 /\ stack'[1] = f
      /\ \A i \in 1..Len(stack) : stack'[i + 1] = stack[i]
      /\ \A i \in 1..Len(stack') : i > 1 => stack'[i] = stack[i - 1] /\ i - 1 \in 1..Len(stack)
  BY DEF Stacked
<1>2. stack' # <<>> /\ Top' = f
  BY <1>1 DEF Top, Stacked
<1>3. stack # <<>> => stack[1].cb # "none"
  BY TopKnown DEF CallerRuns, Inside
<1>5. ASSUME NEW i \in 1..Len(stack') 
      PROVE  /\ FrameOK(stack'[i]) /\ (stack'[i].method = "DoClose" => closed')
             /\ (i > 1 => stack'[i].cb # "none")
  <2>1. CASE i = 1
    BY <2>1, <1>1
  <2>2. CASE i > 1
    <3>1. stack'[i] = stack[i - 1] /\ i - 1 \in 1..Len(stack)
      BY <2>2, <1>1
    <3>2. stack[i - 1].cb # "none"
      BY <3>1, <1>3 DEF Stacked
    <3> QED BY <3>1, <3>2 DEF Stacked
  <2> QED BY <2>1, <2>2, <1>1 DEF Stacked
<1> QED BY <1>1, <1>2, <1>5 DEF Stacked

\* A method returns.
LEMMA Popped ==
    ASSUME Stacked, stack # <<>>, closed => closed', stack' = Tail(stack)
    PROVE  /\ Stacked' /\ Len(stack') = Len(stack) - 1
           /\ \A i \in 1..Len(stack') : stack'[i] = stack[i + 1] /\ i + 1 \in 1..Len(stack)
           /\ stack' # <<>> => Top' = stack[2] /\ 2 \in 1..Len(stack) /\ Top'.cb # "none"
<1>1. /\ stack' \in Seq(Frames) /\ Len(stack') = Len(stack) - 1
      /\ \A i \in 1..Len(stack') : stack'[i] = stack[i + 1] /\ i + 1 \in 1..Len(stack) /\ i + 1 > 1
  BY DEF Stacked
<1>2. Stacked'
  BY <1>1 DEF Stacked
<1>3. ASSUME stack' # <<>> PROVE Top' = stack[2] /\ 2 \in 1..Len(stack)
  BY <1>1, <1>3 DEF Top
<1> QED BY <1>1, <1>2, <1>3 DEF Stacked

\* Changes of the innermost activation that keep its input and guard.
LEMMA TopMoved ==
    ASSUME Stacked, stack # <<>>, closed => closed', NEW method \in Methods, NEW pc \in Places,
           NEW cb \in Calls, Fits(method, pc, cb), method = "DoClose" => closed,
           stack' = [stack EXCEPT ![1] = [Top EXCEPT !.method = method, !.pc = pc, !.cb = cb]]
    PROVE  /\ Stacked' /\ Now(method, pc, cb) /\ Len(stack') = Len(stack)
           /\ \A i \in 1..Len(stack) : i > 1 => stack'[i] = stack[i]
<1> DEFINE f == [Top EXCEPT !.method = method, !.pc = pc, !.cb = cb]
<1>1. Top \in Frames
  BY TopKnown
<1>2. f \in Frames /\ f.method = method /\ f.pc = pc /\ f.cb = cb
  BY <1>1 DEF Frames
<1>3. FrameOK(f)
  BY <1>2 DEF FrameOK
<1>4. stack' = [stack EXCEPT ![1] = f]
  OBVIOUS
<1> HIDE DEF f
<1> QED BY <1>2, <1>3, <1>4, TopChanged DEF Now

\* What TopMoved says, for Goto, a call, and the return of one.
Stays == Len(stack') = Len(stack) /\ \A i \in 1..Len(stack) : i > 1 => stack'[i] = stack[i]

LEMMA GotoMoves ==
    ASSUME Stacked, stack # <<>>, closed => closed', NEW pc \in Places,
           Fits(Top.method, pc, Top.cb), Goto(pc)
    PROVE  Stacked' /\ Now(Top.method, pc, Top.cb) /\ Stays
<1>1. Top = stack[1] /\ Top \in Frames /\ 1 \in 1..Len(stack)
  BY TopKnown
<1>2. [Top EXCEPT !.method = Top.method, !.pc = pc, !.cb = Top.cb] = [stack[1] EXCEPT !.pc = pc]
  BY <1>1 DEF Frames
<1>3. stack' = [stack EXCEPT ![1] = [Top EXCEPT !.method = Top.method, !.pc = pc, !.cb = Top.cb]]
  BY <1>1, <1>2 DEF Goto, Stacked
<1>4. Top.method \in Methods /\ Top.cb \in Calls
  BY <1>1 DEF Frames
<1> QED BY <1>3, <1>4, TopKnown, TopMoved DEF Stays

LEMMA CallMoves ==
    ASSUME Stacked, stack # <<>>, closed => closed', NEW pc \in Places, NEW cb \in Calls,
           Fits(Top.method, pc, cb), stack' = [stack EXCEPT ![1].cb = cb, ![1].pc = pc]
    PROVE  Stacked' /\ Now(Top.method, pc, cb) /\ Stays
<1>1. Top = stack[1] /\ Top \in Frames /\ 1 \in 1..Len(stack)
  BY TopKnown
<1>2. [Top EXCEPT !.method = Top.method, !.pc = pc, !.cb = cb] = [stack[1] EXCEPT !.cb = cb, !.pc = pc]
  BY <1>1 DEF Frames
<1>3. stack' = [stack EXCEPT ![1] = [Top EXCEPT !.method = Top.method, !.pc = pc, !.cb = cb]]
  BY <1>1, <1>2 DEF Stacked
<1>4. Top.method \in Methods
  BY <1>1 DEF Frames
<1> QED BY <1>3, <1>4, TopKnown, TopMoved DEF Stays

LEMMA ReturnMoves ==
    ASSUME Stacked, stack # <<>>, closed => closed', stack' = [stack EXCEPT ![1].cb = "none"]
    PROVE  Stacked' /\ Now(Top.method, Top.pc, "none") /\ Stays
<1>1. Top = stack[1] /\ Top \in Frames /\ 1 \in 1..Len(stack) /\ Fits(Top.method, Top.pc, Top.cb)
  BY TopKnown
<1>2. [Top EXCEPT !.method = Top.method, !.pc = Top.pc, !.cb = "none"] = [stack[1] EXCEPT !.cb = "none"]
  BY <1>1 DEF Frames
<1>3. stack' = [stack EXCEPT ![1] = [Top EXCEPT !.method = Top.method, !.pc = Top.pc, !.cb = "none"]]
  BY <1>1, <1>2 DEF Stacked
<1>4. Top.method \in Methods /\ Top.pc \in Places /\ "none" \in Calls
  BY <1>1 DEF Frames, Calls
<1>5. Fits(Top.method, Top.pc, "none")
  BY <1>1 DEF Fits
<1> QED BY <1>3, <1>4, <1>5, TopKnown, TopMoved DEF Stays

\* The innermost activation turns into another method.
LEMMA MethodMoves ==
    ASSUME Stacked, stack # <<>>, closed => closed', NEW method \in Methods, NEW pc \in Places,
           Fits(method, pc, Top.cb), method = "DoClose" => closed,
           stack' = [stack EXCEPT ![1].method = method, ![1].pc = pc]
    PROVE  Stacked' /\ Now(method, pc, Top.cb) /\ Stays
<1>1. Top = stack[1] /\ Top \in Frames /\ 1 \in 1..Len(stack)
  BY TopKnown
<1>2. [Top EXCEPT !.method = method, !.pc = pc, !.cb = Top.cb]
        = [stack[1] EXCEPT !.method = method, !.pc = pc]
  BY <1>1 DEF Frames
<1>3. stack' = [stack EXCEPT ![1] = [Top EXCEPT !.method = method, !.pc = pc, !.cb = Top.cb]]
  BY <1>1, <1>2 DEF Stacked
<1>4. Top.cb \in Calls
  BY <1>1 DEF Frames
<1> QED BY <1>3, <1>4, TopKnown, TopMoved DEF Stays

LEMMA Entered ==
    ASSUME Stacked, CallerRuns, closed => closed', NEW method \in Methods, NEW pc \in Places,
           NEW guard \in BOOLEAN, Fits(method, pc, "none"), method = "DoClose" => closed,
           Enter(method, pc, 0, guard)
    PROVE  /\ Stacked' /\ Now(method, pc, "none") /\ Len(stack') = Len(stack) + 1
           /\ \A i \in 1..Len(stack) : stack'[i + 1] = stack[i]
<1> DEFINE f == [method |-> method, pc |-> pc, cb |-> "none", left |-> 0, pos |-> 0, guard |-> guard]
<1>1. f \in Frames /\ f.method = method /\ f.pc = pc /\ f.cb = "none"
  BY DEF Frames, Calls
<1>2. FrameOK(f) /\ stack' = <<f>> \o stack
  BY <1>1 DEF FrameOK, Enter
<1> HIDE DEF f
<1> QED BY <1>1, <1>2, Pushed DEF Now
-----------------------------------------------------------------------------
(***************************************************************************)
(* What each step of the code does to the stack.                           *)
(***************************************************************************)
\* The innermost activation stays in its method.
MovedTo(pc, cb) == Stacked' /\ Stays /\ Now(Top.method, pc, cb)

LEMMA AtKnown ==
    ASSUME Stacked, NEW pc, At(pc)
    PROVE  /\ stack # <<>> /\ Top.pc = pc /\ Top.cb = "none" /\ Top.method \in Methods
           /\ Fits(Top.method, pc, "none") /\ (Top.method = "DoClose" => closed)
  BY TopKnown DEF At, Frames

LEMMA AfterReadsFits ==
    ASSUME Stacked, stack # <<>>
    PROVE  AfterReads \in Places /\ Fits(Top.method, AfterReads, "none")
<1>1. Top.method \in Methods
  BY TopKnown DEF Frames
<1> QED BY <1>1 DEF AfterReads, Fits, Methods, Places

\* Any call but that of the upstream's Resume() may be made from anywhere.
LEMMA FitsCalls ==
    ASSUME NEW method, NEW pc, NEW cb, Fits(method, pc, "none"), cb # "resume"
    PROVE  Fits(method, pc, cb)
  BY DEF Fits

LEMMA GotoFrom ==
    ASSUME Stacked, stack # <<>>, Top.cb = "none", closed => closed', NEW pc \in Places,
           Fits(Top.method, pc, "none"), Goto(pc)
    PROVE  MovedTo(pc, "none")
  BY GotoMoves DEF MovedTo

LEMMA ForwardMoves ==
    ASSUME Stacked, stack # <<>>, closed => closed', NEW pc \in Places,
           Fits(Top.method, pc, "none"), NEW more, Forward(more, pc)
    PROVE  MovedTo(pc, "data")
<1>1. stack' = [stack EXCEPT ![1].cb = "data", ![1].pc = pc]
  BY DEF Forward, CallDownstream
<1>2. Fits(Top.method, pc, "data") /\ "data" \in Calls
  BY FitsCalls DEF Calls
<1> QED BY <1>1, <1>2, CallMoves DEF MovedTo

\* EmitError and EmitDone: the signal is given unless there was one.
LEMMA TellMoves ==
    ASSUME Stacked, Flags, stack # <<>>, Top.cb = "none", closed => closed',
           NEW signal \in {"error", "done"}, NEW pc \in Places, Fits(Top.method, pc, "none"),
           Tell(signal, pc)
    PROVE  /\ MovedTo(pc, "none") \/ MovedTo(pc, signal)
           /\ outcome # "none" => outcome' = outcome
           /\ outcome = "none" => outcome' = signal
           /\ finalized' = TRUE
<1>1. CASE finalized
  <2>1. Goto(pc)
    BY <1>1 DEF Tell, Emit
  <2>2. MovedTo(pc, "none")
    BY <2>1, GotoFrom
  <2> QED BY <1>1, <2>2 DEF Tell, Emit, signals, Flags
<1>2. CASE ~finalized
  <2>1. stack' = [stack EXCEPT ![1].cb = signal, ![1].pc = pc]
    BY <1>2 DEF Tell, Emit, CallDownstream
  <2>2. Fits(Top.method, pc, signal) /\ signal \in Calls
    BY FitsCalls DEF Calls
  <2>3. MovedTo(pc, signal)
    BY <2>1, <2>2, CallMoves DEF MovedTo
  <2> QED BY <1>2, <2>3 DEF Tell, Emit, Flags
<1> QED BY <1>1, <1>2

LEMMA FlushWbioMoves ==
    ASSUME Stacked, stack # <<>>, Top.cb = "none", closed => closed', NEW pc \in Places,
           Fits(Top.method, pc, "none"), FlushWbio(pc)
    PROVE  MovedTo(pc, "none") \/ MovedTo(pc, "write")
<1>1. CASE Goto(pc)
  BY <1>1, GotoFrom
<1>2. CASE stack' = [stack EXCEPT ![1].cb = "write", ![1].pc = pc]
  <2>1. Fits(Top.method, pc, "write") /\ "write" \in Calls
    BY FitsCalls DEF Calls
  <2> QED BY <1>2, <2>1, CallMoves DEF MovedTo
<1> QED BY <1>1, <1>2 DEF FlushWbio

\* Where each step leaves the innermost activation.
LEMMA EncryptWriteMoves == ASSUME Stacked, EncryptWrite PROVE MovedTo("send", "none")
<1>1. Goto("send") /\ At("encrypt") /\ (closed => closed')
  BY DEF EncryptWrite, Encrypt, lifecycle
<1> QED BY <1>1, AtKnown, GotoFrom DEF Fits, Places, Methods, ReadPlaces

LEMMA FlushMoves == ASSUME Stacked, Flush PROVE MovedTo(AfterReads, "none") \/ MovedTo(AfterReads, "write")
  BY AtKnown, AfterReadsFits, FlushWbioMoves DEF Flush, lifecycle

LEMMA HandshakeFlushMoves ==
    ASSUME Stacked, HandshakeFlush PROVE MovedTo("read", "none") \/ MovedTo("read", "write")
<1>1. FlushWbio("read") /\ At("send_first") /\ (closed => closed')
  BY DEF HandshakeFlush, lifecycle
<1> QED BY <1>1, AtKnown, FlushWbioMoves DEF Fits, Places, Methods, ReadPlaces

LEMMA FlushAndRetryMoves ==
    ASSUME Stacked, FlushAndRetry, NEW pc, pc = IF write_pending = <<>> THEN AfterReads ELSE "encrypt"
    PROVE  MovedTo(pc, "none") \/ MovedTo(pc, "write")
<1>1. FlushWbio(pc) /\ At("send_retry") /\ (closed => closed')
  BY DEF FlushAndRetry, lifecycle
<1>2. Fits(Top.method, "encrypt", "none") /\ "encrypt" \in Places
  BY <1>1, AtKnown DEF Fits, Places, Methods, ReadPlaces
<1> QED BY <1>1, <1>2, AtKnown, AfterReadsFits, FlushWbioMoves

\* The handshake is complete, or goes on when the server has answered.
LEMMA ProcessHandshakeMoves ==
    ASSUME Stacked, ProcessHandshake
    PROVE  /\ Stacked' /\ Stays /\ Top.method = "Read"
           /\ \/ handshake_state' = "Complete" /\ Now("Handshake", "send_first", "none")
              \/ handshake_state' = handshake_state /\ Now("Read", "send", "none")
<1>1. /\ stack # <<>> /\ Top.cb = "none" /\ Top.method = "Read" /\ (closed => closed')
      /\ \/ handshake_state' = "Complete"
            /\ stack' = [stack EXCEPT ![1].method = "Handshake", ![1].pc = "send_first"]
         \/ handshake_state' = handshake_state /\ Goto("send")
  BY AtKnown DEF ProcessHandshake, lifecycle, Fits, Methods, ReadPlaces
<1>2. CASE Goto("send") /\ handshake_state' = handshake_state
  BY <1>1, <1>2, GotoFrom DEF MovedTo, Fits, Places, Methods, ReadPlaces
<1>3. CASE /\ handshake_state' = "Complete"
           /\ stack' = [stack EXCEPT ![1].method = "Handshake", ![1].pc = "send_first"]
  <2>1. Fits("Handshake", "send_first", "none") /\ "send_first" \in Places /\ "Handshake" \in Methods
    BY DEF Fits, Places, Methods
  <2> QED BY <1>1, <1>3, <2>1, MethodMoves
<1> QED BY <1>1, <1>2, <1>3

LEMMA HandshakeQuitMoves ==
    ASSUME Stacked, HandshakeQuit
    PROVE  MovedTo(IF IsSuspended THEN "exit" ELSE "completing", "none") /\ Top.method = "Read"
<1>1. /\ Goto(IF IsSuspended THEN "exit" ELSE "completing") /\ At("handshake") /\ (closed => closed')
  BY DEF HandshakeQuit, lifecycle
<1> QED BY <1>1, AtKnown, GotoFrom DEF Fits, Places, Methods, ReadPlaces

LEMMA ReadyMoves ==
    ASSUME Stacked, Ready
    PROVE  Stacked' /\ Stays /\ Now("Read", "exit", "ready") /\ Top.method = "Handshake"
<1>1. stack # <<>> /\ Top.cb = "none" /\ Top.method = "Handshake" /\ (closed => closed')
  BY AtKnown DEF Ready, lifecycle, Fits, Methods, ReadPlaces
<1>2. Top = stack[1] /\ Top \in Frames /\ 1 \in 1..Len(stack)
  BY <1>1, TopKnown
<1>3. [Top EXCEPT !.method = "Read", !.pc = "exit", !.cb = "ready"]
      = [stack[1] EXCEPT !.cb = "ready", !.pc = "exit", !.method = "Read"]
  BY <1>2 DEF Frames
<1>4. stack' = [stack EXCEPT ![1] = [Top EXCEPT !.method = "Read", !.pc = "exit", !.cb = "ready"]]
  BY <1>2, <1>3 DEF Ready, Stacked
<1>5. Fits("Read", "exit", "ready") /\ "exit" \in Places /\ "Read" \in Methods /\ "ready" \in Calls
  BY DEF Fits, Places, Methods, Calls
<1> QED BY <1>1, <1>4, <1>5, TopMoved DEF Stays

LEMMA ReadsBeginMoves ==
    ASSUME Stacked, ReadsBegin,
           NEW pc, pc = IF closed \/ handshake_state # "Complete" \/ IsSuspended THEN AfterReads ELSE "reading"
    PROVE  MovedTo(pc, "none")
<1>1. Goto(pc) /\ At("read") /\ (closed => closed')
  BY DEF ReadsBegin, lifecycle
<1>2. Fits(Top.method, "reading", "none") /\ "reading" \in Places
  BY <1>1, AtKnown DEF Fits, Places, Methods, ReadPlaces
<1> QED BY <1>1, <1>2, AtKnown, AfterReadsFits, GotoFrom

LEMMA BatchedMoves ==
    ASSUME Stacked, Batched, NEW pc, pc = IF IsSuspended THEN AfterReads ELSE "reading"
    PROVE  MovedTo(pc, "none")
<1>1. Goto(pc) /\ At("batched") /\ (closed => closed')
  BY DEF Batched, lifecycle
<1>2. Fits(Top.method, "reading", "none") /\ "reading" \in Places
  BY <1>1, AtKnown DEF Fits, Places, Methods, ReadPlaces
<1> QED BY <1>1, <1>2, AtKnown, AfterReadsFits, GotoFrom

LEMMA WantMoreMoves ==
    ASSUME Stacked, WantMore
    PROVE  \E next \in {AfterReads, "send_retry"} : MovedTo(next, "data") \/ MovedTo(next, "none")
<1>1. At("reading") /\ (closed => closed')
  BY DEF WantMore, lifecycle
<1>2. Fits(Top.method, "send_retry", "none") /\ "send_retry" \in Places
  BY <1>1, AtKnown DEF Fits, Places, Methods, ReadPlaces
<1>3. PICK next \in {AfterReads, "send_retry"} : Forward(0, next) \/ Goto(next)
  BY DEF WantMore
<1> QED BY <1>1, <1>2, <1>3, AtKnown, AfterReadsFits, GotoFrom, ForwardMoves

LEMMA ShutdownMoves ==
    ASSUME Stacked, Shutdown, NEW pc, pc = IF IsSuspended THEN AfterReads ELSE "completing"
    PROVE  MovedTo(pc, "none")
<1>1. Goto(pc) /\ At("reading") /\ (closed => closed')
  BY DEF Shutdown, lifecycle
<1>2. Fits(Top.method, "completing", "none") /\ "completing" \in Places
  BY <1>1, AtKnown DEF Fits, Places, Methods, ReadPlaces
<1> QED BY <1>1, <1>2, AtKnown, AfterReadsFits, GotoFrom

LEMMA ProcessPendingMoves ==
    ASSUME Stacked, ProcessPending
    PROVE  MovedTo("read", "data") \/ MovedTo("read", "none")
<1>1. At("drain") /\ (closed => closed') /\ (Forward(0, "read") \/ Goto("read"))
  BY DEF ProcessPending, lifecycle
<1>2. Fits(Top.method, "read", "none") /\ "read" \in Places
  BY <1>1, AtKnown DEF Fits, Places, Methods, ReadPlaces
<1> QED BY <1>1, <1>2, AtKnown, GotoFrom, ForwardMoves

LEMMA FlushAndCompleteMoves ==
    ASSUME Stacked, FlushAndComplete
    PROVE  Stacked' /\ Stays /\ Now("Complete", "completing", "none") /\ Top.method = "Resume"
<1>1. stack # <<>> /\ Top.cb = "none" /\ Top.method = "Resume" /\ (closed => closed')
  BY AtKnown DEF FlushAndComplete, lifecycle, Fits, Methods, ReadPlaces
<1>2. Fits("Complete", "completing", "none") /\ "completing" \in Places /\ "Complete" \in Methods
  BY DEF Fits, Places, Methods
<1> QED BY <1>1, <1>2, MethodMoves DEF FlushAndComplete

LEMMA CloseReadsMoves ==
    ASSUME Stacked, CloseReads
    PROVE  MovedTo(AfterReads, "none") /\ closed'
<1>1. Goto(AfterReads) /\ At("close_reads") /\ closed'
  BY DEF CloseReads, RequestClose
<1> QED BY <1>1, AtKnown, AfterReadsFits, GotoFrom

LEMMA DoCloseMoves ==
    ASSUME Stacked, Flags, DoClose,
           NEW pc, pc = IF finalized \/ IsSuspended THEN "clear" ELSE "last_data"
    PROVE  Stacked' /\ Len(stack') = 1 /\ Now("DoClose", pc, "none") /\ closed
<1>1. /\ CallerRuns /\ closed /\ (closed => closed') /\ Len(stack) = 0 /\ FALSE \in BOOLEAN
      /\ Enter("DoClose", pc, 0, FALSE)
  BY DEF DoClose, CallerRuns, Inside, Flags
<1>2. Fits("DoClose", pc, "none") /\ pc \in Places /\ "DoClose" \in Methods
  BY DEF Fits, Places, Methods
<1>3. Stacked' /\ Now("DoClose", pc, "none") /\ Len(stack') = Len(stack) + 1
  BY <1>1, <1>2, Entered
<1> QED BY <1>1, <1>3

LEMMA DoCloseDataMoves ==
    ASSUME Stacked, DoCloseData
    PROVE  MovedTo("last_done", "data") \/ MovedTo("last_done", "none")
<1>1. At("last_data") /\ (closed => closed') /\ (Forward(0, "last_done") \/ Goto("last_done"))
  BY DEF DoCloseData, lifecycle
<1>2. Fits(Top.method, "last_done", "none") /\ "last_done" \in Places
  BY <1>1, AtKnown DEF Fits, Places, Methods, ReadPlaces
<1> QED BY <1>1, <1>2, AtKnown, GotoFrom, ForwardMoves

LEMMA DoCloseClearMoves == ASSUME Stacked, DoCloseClear PROVE MovedTo("exit", "none")
<1>1. Goto("exit") /\ At("clear") /\ (closed => closed')
  BY DEF DoCloseClear, lifecycle
<1> QED BY <1>1, AtKnown, GotoFrom DEF Fits, Places, Methods, ReadPlaces

\* The steps that may give the terminal signal.
Told(signal, pc) ==
    /\ MovedTo(pc, "none") \/ MovedTo(pc, signal)
    /\ outcome # "none" => outcome' = outcome
    /\ outcome = "none" => outcome' = signal
    /\ finalized' = TRUE

LEMMA SSLErrorMoves == ASSUME Stacked, Flags, SSLError PROVE Told("error", "close_reads")
<1>1. /\ Tell("error", "close_reads") /\ (closed => closed')
      /\ At("handshake") \/ At("reading")
  BY DEF SSLError, unmoved
<1>2. /\ stack # <<>> /\ Top.cb = "none" /\ "close_reads" \in Places
      /\ Fits(Top.method, "close_reads", "none")
  BY <1>1, AtKnown DEF Fits, Places, Methods, ReadPlaces
<1> QED BY <1>1, <1>2, TellMoves DEF Told

LEMMA WriteErrorMoves == ASSUME Stacked, Flags, WriteError PROVE Told("error", "close_reads")
<1>1. Tell("error", "close_reads") /\ (closed => closed') /\ At("encrypt")
  BY DEF WriteError, unmoved
<1>2. /\ stack # <<>> /\ Top.cb = "none" /\ "close_reads" \in Places
      /\ Fits(Top.method, "close_reads", "none")
  BY <1>1, AtKnown DEF Fits, Places, Methods, ReadPlaces
<1> QED BY <1>1, <1>2, TellMoves DEF Told

LEMMA FailMoves == ASSUME Stacked, Flags, Fail PROVE Told("error", "close")
<1>1. Tell("error", "close") /\ (closed => closed') /\ At("fail")
  BY DEF Fail, unmoved
<1>2. /\ stack # <<>> /\ Top.cb = "none" /\ "close" \in Places /\ Fits(Top.method, "close", "none")
  BY <1>1, AtKnown DEF Fits, Places, Methods, ReadPlaces
<1> QED BY <1>1, <1>2, TellMoves DEF Told

\* The pending bytes overflow, or the record is gathered or handed down.
LEMMA ReadRecordMoves ==
    ASSUME Stacked, Flags, ReadRecord
    PROVE  \/ Told("error", "close_reads") /\ UNCHANGED <<pending_read_chain, delivered>>
           \/ /\ UNCHANGED <<outcome, finalized>>
              /\ \/ MovedTo("batched", "data") /\ Forward(1, "batched")
                 \/ /\ Stacked' /\ stack' = stack /\ delivered' = delivered
                    /\ pending_read_chain' = pending_read_chain + 1
<1>1. At("reading") /\ (closed => closed') /\ closed' = closed
  BY DEF ReadRecord, unmoved
<1>2. /\ stack # <<>> /\ Top.cb = "none" /\ {"close_reads", "batched"} \subseteq Places
      /\ Fits(Top.method, "close_reads", "none") /\ Fits(Top.method, "batched", "none")
  BY <1>1, AtKnown DEF Fits, Places, Methods, ReadPlaces
<1>3. CASE Tell("error", "close_reads") /\ UNCHANGED <<pending_read_chain, delivered>>
  BY <1>1, <1>2, <1>3, TellMoves DEF Told
<1>4. CASE Forward(1, "batched") /\ UNCHANGED <<outcome, finalized>>
  BY <1>1, <1>2, <1>4, ForwardMoves
<1>5. CASE /\ UNCHANGED <<outcome, finalized>>
           /\ UNCHANGED <<delivered, stack, crashed>>
           /\ pending_read_chain' = pending_read_chain + 1
  BY <1>1, <1>5 DEF Stacked
<1> QED BY <1>3, <1>4, <1>5 DEF ReadRecord

LEMMA CompleteWithFlushMoves ==
    ASSUME Stacked, Flags, CompleteWithFlush
    PROVE  \/ /\ pending_read_chain = 0
              /\ Told("done", "close_reads") /\ UNCHANGED <<pending_read_chain, delivered>>
           \/ MovedTo("flushed", "data") /\ Forward(0, "flushed") /\ UNCHANGED <<outcome, finalized>>
<1>1. At("completing") /\ (closed => closed')
  BY DEF CompleteWithFlush, unmoved
<1>2. /\ stack # <<>> /\ Top.cb = "none" /\ {"close_reads", "flushed"} \subseteq Places
      /\ Fits(Top.method, "close_reads", "none") /\ Fits(Top.method, "flushed", "none")
  BY <1>1, AtKnown DEF Fits, Places, Methods, ReadPlaces
<1>3. CASE /\ pending_read_chain = 0 /\ Tell("done", "close_reads")
           /\ UNCHANGED <<pending_read_chain, delivered>>
  BY <1>1, <1>2, <1>3, TellMoves DEF Told
<1>4. CASE Forward(0, "flushed") /\ UNCHANGED <<outcome, finalized>>
  BY <1>1, <1>2, <1>4, ForwardMoves
<1> QED BY <1>3, <1>4 DEF CompleteWithFlush

LEMMA FlushedMoves ==
    ASSUME Stacked, Flags, Flushed
    PROVE  \/ IsSuspended /\ MovedTo(AfterReads, "none") /\ done_pending' /\ UNCHANGED <<outcome, finalized>>
           \/ /\ ~IsSuspended /\ done_pending' = done_pending
              /\ \/ pending_read_chain > 0 /\ Told("error", "close_reads")
                 \/ ~(pending_read_chain > 0) /\ Told("done", "close_reads")
<1>1. At("flushed") /\ (closed => closed')
  BY DEF Flushed
<1>2. /\ stack # <<>> /\ Top.cb = "none" /\ "close_reads" \in Places
      /\ Fits(Top.method, "close_reads", "none")
  BY <1>1, AtKnown DEF Fits, Places, Methods, ReadPlaces
<1>3. CASE IsSuspended /\ Goto(AfterReads) /\ done_pending' /\ UNCHANGED <<outcome, finalized>>
  BY <1>1, <1>2, <1>3, AfterReadsFits, GotoFrom
<1>4. CASE /\ ~IsSuspended /\ done_pending' = done_pending
           /\ Tell(IF pending_read_chain > 0 THEN "error" ELSE "done", "close_reads")
  <2>1. CASE pending_read_chain > 0
    BY <1>1, <1>2, <1>4, <2>1, TellMoves DEF Told
  <2>2. CASE ~(pending_read_chain > 0)
    BY <1>1, <1>2, <1>4, <2>2, TellMoves DEF Told
  <2> QED BY <1>4, <2>1, <2>2
<1> QED BY <1>3, <1>4 DEF Flushed, signals

LEMMA DoCloseDoneMoves ==
    ASSUME Stacked, Flags, DoCloseDone
    PROVE  /\ closed
           /\ Told("done", "clear") \/ (MovedTo("clear", "none") /\ UNCHANGED <<outcome, finalized>>)
<1>1. At("last_done") /\ (closed => closed')
  BY DEF DoCloseDone, unmoved
<1>2. /\ stack # <<>> /\ Top.cb = "none" /\ "clear" \in Places /\ Fits(Top.method, "clear", "none")
      /\ closed
  BY <1>1, AtKnown DEF Fits, Places, Methods, ReadPlaces
<1>3. CASE Tell("done", "clear")
  BY <1>1, <1>2, <1>3, TellMoves DEF Told
<1>4. CASE Goto("clear") /\ UNCHANGED <<signals, outcome>>
  BY <1>1, <1>2, <1>4, GotoFrom DEF signals
<1> QED BY <1>2, <1>3, <1>4 DEF DoCloseDone

\* The steps every stage has.
LEMMA ReturnStep ==
    ASSUME Stacked, Return
    PROVE  /\ stack # <<>> /\ Top.cb # "none" /\ MovedTo(Top.pc, "none")
           /\ UNCHANGED <<closed, finalized>>
<1>1. /\ stack # <<>> /\ Top.cb # "none" /\ stack' = [stack EXCEPT ![1].cb = "none"]
      /\ UNCHANGED <<closed, finalized>>
  BY DEF Return, lifecycle, signals
<1> QED BY <1>1, ReturnMoves DEF MovedTo

LEMMA ExitStep ==
    ASSUME Stacked, Exit
    PROVE  /\ stack # <<>> /\ Top.pc = "exit" /\ Top.cb = "none" /\ stack' = Tail(stack)
           /\ Stacked' /\ UNCHANGED <<closed, finalized>>
<1>1. At("exit") /\ stack' = Tail(stack) /\ UNCHANGED <<closed, finalized>>
  BY DEF Exit, lifecycle, signals
<1> QED BY <1>1, AtKnown, Popped

LEMMA CloseMoves ==
    ASSUME Stacked, CloseStep
    PROVE  stack # <<>> /\ Top.pc = "close" /\ MovedTo("exit", "none") /\ closed' /\ finalized' = finalized
<1>1. /\ At("close") /\ closed' /\ finalized' = finalized
      /\ Goto(IF Top.method = "Resume" THEN "drained" ELSE "exit")
  BY DEF CloseStep, RequestClose, signals
<1>2. /\ stack # <<>> /\ Top.cb = "none" /\ Top.method # "Resume" /\ "exit" \in Places
      /\ Top.pc = "close" /\ Fits(Top.method, "exit", "none")
  BY <1>1, AtKnown DEF Fits, Places, Methods, ReadPlaces
<1> QED BY <1>1, <1>2, GotoFrom

\* The last Resume() enters the method.
LEMMA ResumeEnters ==
    ASSUME Stacked, Resume
    PROVE  /\ UNCHANGED <<closed, finalized>> /\ CallerRuns
           /\ \/ stack' = stack /\ Stacked' /\ suspend_count # 1
              \/ /\ Stacked' /\ Len(stack') = Len(stack) + 1
                 /\ (closed /\ Now("Resume", "drained", "none")) \/ Now("Resume", "drain", "none")
<1>1. UNCHANGED <<closed, finalized>> /\ CallerRuns
  BY DEF Resume, signals
<1>2. CASE Enter("Resume", IF closed THEN "drained" ELSE "drain", 0, ~closed)
  <2>1. /\ Fits("Resume", "drained", "none") /\ Fits("Resume", "drain", "none") /\ "Resume" \in Methods
        /\ "drained" \in Places /\ "drain" \in Places /\ (~closed) \in BOOLEAN
    BY DEF Fits, Places, Methods
  <2>2. CASE closed
    BY <1>1, <1>2, <2>1, <2>2, Entered
  <2>3. CASE ~closed
    BY <1>1, <1>2, <2>1, <2>3, Entered
  <2> QED BY <1>1, <2>2, <2>3
<1>3. CASE suspend_count # 1 /\ stack' = stack
  BY <1>1, <1>3 DEF Stacked
<1> QED BY <1>2, <1>3 DEF Resume

LEMMA ResumeUpstreamMoves ==
    ASSUME Stacked, ResumeUpstream
    PROVE  /\ stack # <<>> /\ Top.pc = "drained" /\ Top.method = "Resume"
           /\ MovedTo("resumed", "none") \/ MovedTo("resumed", "resume")
           /\ UNCHANGED <<closed, finalized>>
<1>1. /\ At("drained") /\ (closed => closed') /\ UNCHANGED <<closed, finalized>>
      /\ \/ stack' = [stack EXCEPT ![1].cb = "resume", ![1].pc = "resumed"]
         \/ Goto("resumed")
  BY DEF ResumeUpstream, lifecycle, signals
<1>2. /\ stack # <<>> /\ Top.cb = "none" /\ Top.method = "Resume" /\ "resumed" \in Places
      /\ Fits(Top.method, "resumed", "none") /\ Fits(Top.method, "resumed", "resume")
      /\ "resume" \in Calls /\ Top.pc = "drained"
  BY <1>1, AtKnown DEF Fits, Places, Methods, ReadPlaces, Calls
<1> QED BY <1>1, <1>2, GotoFrom, CallMoves DEF MovedTo

LEMMA CompleteDeferredMoves ==
    ASSUME Stacked, CompleteDeferred
    PROVE  /\ stack # <<>> /\ Top.pc = "resumed" /\ Top.cb = "none" /\ Top.method = "Resume"
           /\ UNCHANGED <<closed, finalized>>
           /\ \/ done_pending /\ ~IsSuspended /\ MovedTo("flush", "none") /\ done_pending' = FALSE
              \/ MovedTo("exit", "none") /\ done_pending' = done_pending
<1>1. /\ At("resumed") /\ (closed => closed') /\ UNCHANGED <<closed, finalized>>
      /\ \/ done_pending /\ ~IsSuspended /\ Goto("flush") /\ done_pending' = FALSE
         \/ Goto("exit") /\ done_pending' = done_pending
  BY DEF CompleteDeferred, lifecycle, signals
<1>2. /\ stack # <<>> /\ Top.cb = "none" /\ Top.method = "Resume" /\ {"flush", "exit"} \subseteq Places
      /\ Fits(Top.method, "flush", "none") /\ Fits(Top.method, "exit", "none") /\ Top.pc = "resumed"
  BY <1>1, AtKnown DEF Fits, Places, Methods, ReadPlaces
<1> QED BY <1>1, <1>2, GotoFrom

\* What entering a method does to the stack.
In(method, pc) ==
    /\ Stacked' /\ Now(method, pc, "none") /\ Len(stack') = Len(stack) + 1
    /\ \A i \in 1..Len(stack) : stack'[i + 1] = stack[i]

LEMMA StartHandshakeEnters == ASSUME Stacked, StartHandshake PROVE In("StartHandshake", "send")
<1>1. /\ CallerRuns /\ (closed => closed') /\ Enter("StartHandshake", "send", 0, FALSE)
      /\ FALSE \in BOOLEAN
  BY DEF StartHandshake, CallerRuns, Inside, unmoved
<1>2. Fits("StartHandshake", "send", "none") /\ "send" \in Places /\ "StartHandshake" \in Methods
  BY DEF Fits, Places, Methods
<1> QED BY <1>1, <1>2, Entered DEF In

LEMMA OnDataEnters ==
    ASSUME Stacked, NEW n, OnData(n)
    PROVE  \/ In("Read", "fail") /\ UNCHANGED <<received, rbio>>
           \/ /\ received' = received + n /\ rbio' = rbio + n
              /\ \/ handshake_state = "Complete" /\ In("Read", "read")
                 \/ handshake_state # "Complete" /\ In("Read", "handshake")
<1>1. CallerRuns /\ (closed => closed') /\ TRUE \in BOOLEAN
  BY DEF OnData, CallerRuns, UpstreamRuns, unmoved
<1>2. /\ Fits("Read", "fail", "none") /\ Fits("Read", "read", "none") /\ Fits("Read", "handshake", "none")
      /\ {"fail", "read", "handshake"} \subseteq Places /\ "Read" \in Methods
  BY DEF Fits, Places, Methods, ReadPlaces
<1>3. CASE Enter("Read", "fail", 0, TRUE) /\ UNCHANGED <<received, rbio>>
  BY <1>1, <1>2, <1>3, Entered DEF In
<1>4. CASE /\ Enter("Read", IF handshake_state = "Complete" THEN "read" ELSE "handshake", 0, TRUE)
           /\ received' = received + n /\ rbio' = rbio + n
  <2>1. CASE handshake_state = "Complete"
    BY <1>1, <1>2, <1>4, <2>1, Entered DEF In
  <2>2. CASE handshake_state # "Complete"
    BY <1>1, <1>2, <1>4, <2>2, Entered DEF In
  <2> QED BY <2>1, <2>2, <1>4
<1> QED BY <1>3, <1>4 DEF OnData

LEMMA OnDoneEnters ==
    ASSUME Stacked, OnDone
    PROVE  \/ IsSuspended /\ done_pending' /\ stack' = stack /\ Stacked'
           \/ ~IsSuspended /\ done_pending' = done_pending /\ In("OnDone", "completing")
<1>1. CallerRuns /\ (closed => closed') /\ TRUE \in BOOLEAN /\ closed' = closed
  BY DEF OnDone, CallerRuns, UpstreamRuns
<1>2. Fits("OnDone", "completing", "none") /\ "completing" \in Places /\ "OnDone" \in Methods
  BY DEF Fits, Places, Methods
<1>3. CASE IsSuspended
  BY <1>1, <1>3 DEF OnDone, Stacked
<1>4. CASE ~IsSuspended
  BY <1>1, <1>2, <1>4, Entered DEF OnDone, In
<1> QED BY <1>3, <1>4

LEMMA OnErrorEnters == ASSUME Stacked, OnError PROVE In("OnError", "fail")
<1>1. CallerRuns /\ (closed => closed') /\ Enter("OnError", "fail", 0, TRUE) /\ TRUE \in BOOLEAN
  BY DEF OnError, CallerRuns, UpstreamRuns, unmoved
<1>2. Fits("OnError", "fail", "none") /\ "fail" \in Places /\ "OnError" \in Methods
  BY DEF Fits, Places, Methods
<1> QED BY <1>1, <1>2, Entered DEF In

LEMMA WriteEnters == ASSUME Stacked, Write PROVE In("Write", "encrypt") \/ In("Write", "fail")
<1>1. /\ CallerRuns /\ (closed => closed') /\ TRUE \in BOOLEAN
      /\ Enter("Write", "encrypt", 0, TRUE) \/ Enter("Write", "fail", 0, TRUE)
  BY DEF Write, unmoved
<1>2. /\ Fits("Write", "encrypt", "none") /\ Fits("Write", "fail", "none")
      /\ {"encrypt", "fail"} \subseteq Places /\ "Write" \in Methods
  BY DEF Fits, Places, Methods
<1> QED BY <1>1, <1>2, Entered DEF In

-----------------------------------------------------------------------------
(***************************************************************************)
(* The stack keeps its shape.                                              *)
(***************************************************************************)
Shape == Stacked /\ Flags

\* The step closes nothing and gives no signal.
LEMMA FlagsKept ==
    ASSUME Flags, UNCHANGED <<close_pending, closed, close_deferred, finalized, outcome>>
    PROVE  Flags'
  BY DEF Flags

LEMMA FlagsTold ==
    ASSUME Flags, UNCHANGED <<close_pending, closed, close_deferred>>,
           NEW signal, NEW pc, signal \in {"error", "done"}, Told(signal, pc)
    PROVE  Stacked' /\ Flags'
  BY DEF Flags, Told, MovedTo

LEMMA BaseKeepsShape == ASSUME Shape, Base PROVE Shape'
<1>1. Stacked /\ Flags /\ outcome' = outcome
  BY DEF Shape, Base
<1>2. CASE Suspend
  BY <1>1, <1>2, FlagsKept DEF Suspend, lifecycle, signals, Stacked, Shape
<1>3. CASE Close
  <2>1. Flags' /\ closed' /\ stack' = stack
    BY <1>1, <1>3 DEF Close, RequestClose, ScheduleClose, signals, Flags
  <2> QED BY <1>1, <2>1 DEF Stacked, Shape
<1>4. CASE Resume
  BY <1>1, <1>4, ResumeEnters, FlagsKept DEF Resume, signals, Shape
<1>5. CASE Return
  <2>1. Flags'
    BY <1>1, <1>5 DEF Return, ReleaseGuard, ScheduleClose, lifecycle, signals, Flags
  <2> QED BY <1>1, <1>5, <2>1, ReturnStep DEF Shape, MovedTo
<1>6. CASE Exit
  <2>1. Flags'
    BY <1>1, <1>6 DEF Exit, ReleaseGuard, ScheduleClose, lifecycle, signals, Flags
  <2> QED BY <1>1, <1>6, <2>1, ExitStep DEF Shape
<1>7. CASE CloseStep
  <2>1. Flags'
    BY <1>1, <1>7 DEF CloseStep, RequestClose, ScheduleClose, signals, Flags
  <2> QED BY <1>1, <1>7, <2>1, CloseMoves DEF Shape, MovedTo
<1>8. CASE ResumeUpstream
  BY <1>1, <1>8, ResumeUpstreamMoves, FlagsKept DEF ResumeUpstream, lifecycle, signals, Shape, MovedTo
<1>9. CASE CompleteDeferred
  BY <1>1, <1>9, CompleteDeferredMoves, FlagsKept DEF CompleteDeferred, lifecycle, signals, Shape, MovedTo
<1> QED BY <1>2, <1>3, <1>4, <1>5, <1>6, <1>7, <1>8, <1>9 DEF Base, CommonNext

LEMMA CallsKeepShape ==
    ASSUME Shape, StartHandshake \/ Deliver \/ OnDone \/ OnError \/ Write
    PROVE  Shape'
<1>1. Stacked /\ Flags
  BY DEF Shape
<1>2. CASE StartHandshake
  BY <1>1, <1>2, StartHandshakeEnters, FlagsKept DEF StartHandshake, unmoved, signals, Shape, In
<1>3. CASE Deliver
  <2>1. PICK n \in 1..(Hs + Records + 1) : OnData(n)
    BY <1>3 DEF Deliver
  <2> QED BY <1>1, <2>1, OnDataEnters, FlagsKept DEF OnData, unmoved, signals, Shape, In
<1>4. CASE OnDone
  BY <1>1, <1>4, OnDoneEnters, FlagsKept DEF OnDone, signals, Shape, In
<1>5. CASE OnError
  BY <1>1, <1>5, OnErrorEnters, FlagsKept DEF OnError, unmoved, signals, Shape, In
<1>6. CASE Write
  BY <1>1, <1>6, WriteEnters, FlagsKept DEF Write, unmoved, signals, Shape, In
<1> QED BY <1>2, <1>3, <1>4, <1>5, <1>6

LEMMA CodeKeepsShape == ASSUME Shape, Code PROVE Shape'
<1>1. Stacked /\ Flags
  BY DEF Shape
<1>2. CASE EncryptWrite
  BY <1>1, <1>2, EncryptWriteMoves, FlagsKept DEF EncryptWrite, lifecycle, signals, Shape, MovedTo
<1>3. CASE Flush
  BY <1>1, <1>3, FlushMoves, FlagsKept DEF Flush, lifecycle, signals, Shape, MovedTo
<1>4. CASE ProcessHandshake
  BY <1>1, <1>4, ProcessHandshakeMoves, FlagsKept DEF ProcessHandshake, lifecycle, signals, Shape
<1>5. CASE HandshakeQuit
  BY <1>1, <1>5, HandshakeQuitMoves, FlagsKept DEF HandshakeQuit, lifecycle, signals, Shape, MovedTo
<1>6. CASE SSLError
  BY <1>1, <1>6, SSLErrorMoves, FlagsTold DEF SSLError, unmoved, Shape, MovedTo
<1>7. CASE WriteError
  BY <1>1, <1>7, WriteErrorMoves, FlagsTold DEF WriteError, unmoved, Shape, MovedTo
<1>8. CASE HandshakeFlush
  BY <1>1, <1>8, HandshakeFlushMoves, FlagsKept DEF HandshakeFlush, lifecycle, signals, Shape, MovedTo
<1>9. CASE Ready
  BY <1>1, <1>9, ReadyMoves, FlagsKept DEF Ready, lifecycle, signals, Shape
<1>10. CASE ReadsBegin
  BY <1>1, <1>10, ReadsBeginMoves, FlagsKept DEF ReadsBegin, lifecycle, signals, Shape, MovedTo
<1>11. CASE ReadRecord
  BY <1>1, <1>11, ReadRecordMoves, FlagsKept, FlagsTold DEF ReadRecord, unmoved, Shape, MovedTo
<1>12. CASE Batched
  BY <1>1, <1>12, BatchedMoves, FlagsKept DEF Batched, lifecycle, signals, Shape, MovedTo
<1>13. CASE WantMore
  BY <1>1, <1>13, WantMoreMoves, FlagsKept DEF WantMore, lifecycle, signals, Shape, MovedTo
<1>14. CASE FlushAndRetry
  BY <1>1, <1>14, FlushAndRetryMoves, FlagsKept DEF FlushAndRetry, lifecycle, signals, Shape, MovedTo
<1>15. CASE Shutdown
  BY <1>1, <1>15, ShutdownMoves, FlagsKept DEF Shutdown, lifecycle, signals, Shape, MovedTo
<1>16. CASE ProcessPending
  BY <1>1, <1>16, ProcessPendingMoves, FlagsKept DEF ProcessPending, lifecycle, Shape, MovedTo
<1>17. CASE FlushAndComplete
  BY <1>1, <1>17, FlushAndCompleteMoves, FlagsKept DEF FlushAndComplete, lifecycle, signals, Shape
<1>18. CASE CompleteWithFlush
  BY <1>1, <1>18, CompleteWithFlushMoves, FlagsKept, FlagsTold DEF CompleteWithFlush, unmoved, Shape, MovedTo
<1>19. CASE Flushed
  <2>1. UNCHANGED <<close_pending, closed, close_deferred>>
    BY <1>19 DEF Flushed
  <2>2. CASE Told("error", "close_reads") \/ Told("done", "close_reads")
    BY <1>1, <2>1, <2>2, FlagsTold DEF Shape
  <2>3. CASE MovedTo(AfterReads, "none") /\ UNCHANGED <<outcome, finalized>>
    BY <1>1, <2>1, <2>3, FlagsKept DEF Shape, MovedTo
  <2> QED BY <1>1, <1>19, <2>2, <2>3, FlushedMoves
<1>20. CASE CloseReads
  <2>1. Flags'
    BY <1>1, <1>20 DEF CloseReads, RequestClose, ScheduleClose, signals, Flags
  <2> QED BY <1>1, <1>20, <2>1, CloseReadsMoves DEF Shape, MovedTo
<1>21. CASE Fail
  BY <1>1, <1>21, FailMoves, FlagsTold DEF Fail, unmoved, Shape, MovedTo
<1>22. CASE DoClose
  <2>1. Flags'
    BY <1>1, <1>22 DEF DoClose, signals, Flags
  <2> QED BY <1>1, <1>22, <2>1, DoCloseMoves DEF Shape
<1>23. CASE DoCloseData
  BY <1>1, <1>23, DoCloseDataMoves, FlagsKept DEF DoCloseData, lifecycle, Shape, MovedTo
<1>24. CASE DoCloseDone
  BY <1>1, <1>24, DoCloseDoneMoves, FlagsKept, FlagsTold DEF DoCloseDone, unmoved, Shape, MovedTo
<1>25. CASE DoCloseClear
  BY <1>1, <1>25, DoCloseClearMoves, FlagsKept DEF DoCloseClear, lifecycle, signals, Shape, MovedTo
<1> QED BY <1>2, <1>3, <1>4, <1>5, <1>6, <1>7, <1>8, <1>9, <1>10, <1>11, <1>12, <1>13, <1>14, <1>15,
           <1>16, <1>17, <1>18, <1>19, <1>20, <1>21, <1>22, <1>23, <1>24, <1>25 DEF Code

LEMMA NextKeepsShape == ASSUME Shape, [Next]_vars PROVE Shape'
<1>1. CASE UNCHANGED vars
  BY <1>1 DEF vars, componentVars, lifecycle, signals, Shape, Stacked, Flags
<1> QED BY <1>1, BaseKeepsShape, CallsKeepShape, CodeKeepsShape DEF Next

LEMMA InitShape == ASSUME Init PROVE Shape
<1>1. stack = <<>> /\ <<>> \in Seq(Frames)
  BY DEF Init, ComponentInit
<1>2. Stacked
  BY <1>1 DEF Stacked
<1> QED BY <1>2 DEF Init, ComponentInit, Shape, Flags

-----------------------------------------------------------------------------
(***************************************************************************)
(* The writes.  Those sent, in wbio_ and pending are numbered upwards; and *)
(* none is missing while the stage has neither failed nor been closed.     *)
(***************************************************************************)
Numbered(s, n) ==
    /\ s \in Seq(Nat)
    /\ \A i, j \in 1..Len(s) : i < j => s[i] < s[j]
    /\ \A i \in 1..Len(s) : s[i] <= n

Writes == (wire \o wbio) \o write_pending

Ordered ==
    /\ wire \in Seq(Nat) /\ wbio \in Seq(Nat) /\ write_pending \in Seq(Nat)
    /\ accepted \in Nat
    /\ Numbered(Writes, accepted)
    /\ outcome = "none" /\ ~closed => Writes = [i \in 1..accepted |-> i]

\* Only an activation that is about to call FlushWbio leaves anything in wbio_.
Flushing == stack # <<>> /\ Top.cb = "none" /\ Top.pc \in {"send", "send_first"}
FlushDue == Flushing \/ (wbio = <<>> /\ wbio_flights = 0)

\* What is numbered upwards stays so when it is cut ...
LEMMA NumberedPrefix ==
    ASSUME NEW a \in Seq(Nat), NEW b \in Seq(Nat), NEW n \in Nat, Numbered(a \o b, n)
    PROVE  Numbered(a, n)
<1> DEFINE s == a \o b
<1>1. /\ s \in Seq(Nat) /\ Len(s) = Len(a) + Len(b) /\ Len(a) \in Nat /\ Len(b) \in Nat
      /\ \A i \in 1..Len(a) : s[i] = a[i] /\ i \in 1..Len(s)
  OBVIOUS
<1>2. Numbered(s, n)
  OBVIOUS
<1> HIDE DEF s
<1> QED BY <1>1, <1>2 DEF Numbered

\* ... and when the next number is added.
LEMMA NumberedNext ==
    ASSUME NEW s \in Seq(Nat), NEW n \in Nat, Numbered(s, n)
    PROVE  Numbered(Append(s, n + 1), n + 1)
<1> DEFINE t == Append(s, n + 1)
<1>1. /\ t \in Seq(Nat) /\ Len(t) = Len(s) + 1 /\ Len(s) \in Nat /\ t[Len(s) + 1] = n + 1
      /\ \A i \in 1..Len(s) : t[i] = s[i] /\ s[i] \in Nat
  OBVIOUS
<1>2. \A i \in 1..Len(t) : i \in 1..Len(s) \/ i = Len(s) + 1
  BY <1>1
<1> HIDE DEF t
<1> QED BY <1>1, <1>2 DEF Numbered

LEMMA AllNumbersNext ==
    ASSUME NEW n \in Nat
    PROVE  Append([i \in 1..n |-> i], n + 1) = [i \in 1..(n + 1) |-> i]
  OBVIOUS

\* Nothing is lost where a queue of writes is cut in two.
LEMMA CutWrites ==
    ASSUME NEW s \in Seq(Nat), NEW k \in 0..Len(s)
    PROVE  /\ SubSeq(s, 1, k) \in Seq(Nat) /\ SubSeq(s, k + 1, Len(s)) \in Seq(Nat)
           /\ SubSeq(s, 1, k) \o SubSeq(s, k + 1, Len(s)) = s
<1>1. 1 \in 1..(Len(s) + 1) /\ k \in (1 - 1)..Len(s) /\ Len(s) \in k..Len(s)
  OBVIOUS
<1>2. SubSeq(s, 1, k) \o SubSeq(s, k + 1, Len(s)) = SubSeq(s, 1, Len(s))
  BY <1>1, ConcatAdjacentSubSeq, Zenon
<1>3. SubSeq(s, 1, Len(s)) = s
  BY SubSeqFull
<1>4. SubSeq(s, 1, k) \in Seq(Nat) /\ SubSeq(s, k + 1, Len(s)) \in Seq(Nat)
  OBVIOUS
<1> QED BY <1>2, <1>3, <1>4

LEMMA ThreeParts ==
    ASSUME NEW a \in Seq(Nat), NEW b \in Seq(Nat), NEW c \in Seq(Nat)
    PROVE  (a \o b) \o c = a \o (b \o c)
  BY ConcatAssociative

LEMMA AppendBehind ==
    ASSUME NEW s \in Seq(Nat), NEW w \in Seq(Nat), NEW n \in Nat
    PROVE  Append(w, n) \in Seq(Nat) /\ s \o Append(w, n) = Append(s \o w, n)
<1>1. <<n>> \in Seq(Nat) /\ s \o w \in Seq(Nat)
  OBVIOUS
<1>2. Append(w, n) = w \o <<n>> /\ Append(s \o w, n) = (s \o w) \o <<n>>
  BY <1>1, AppendIsConcat
<1>3. (s \o w) \o <<n>> = s \o (w \o <<n>>)
  BY <1>1, ConcatAssociative
<1> QED BY <1>2, <1>3

-----------------------------------------------------------------------------
(***************************************************************************)
(* The steps that move writes.                                             *)
(***************************************************************************)
\* Nothing moves, and the stage may have closed or failed since.
LEMMA OrderedStays ==
    ASSUME Ordered, UNCHANGED <<wire, wbio, write_pending, accepted>>,
           (outcome # "none" => outcome' # "none"), (closed => closed'), closed' \in BOOLEAN
    PROVE  Ordered'
  BY DEF Ordered, Writes

\* write_pending_ is dropped by a stage that failed or is closed.
LEMMA OrderedDrop ==
    ASSUME Ordered, UNCHANGED <<wire, wbio, accepted>>, write_pending' = <<>>,
           outcome' # "none" \/ closed'
    PROVE  Ordered'
<1>1. wire \o wbio \in Seq(Nat) /\ <<>> \in Seq(Nat)
  BY DEF Ordered
<1>2. Numbered(wire \o wbio, accepted)
  BY <1>1, NumberedPrefix DEF Ordered, Writes
<1>3. Writes' = wire \o wbio
  BY <1>1, ConcatEmptySeq DEF Writes
<1> QED BY <1>1, <1>2, <1>3 DEF Ordered

\* FlushWbio.
LEMMA OrderedFlush ==
    ASSUME Ordered, NEW pc, FlushWbio(pc), UNCHANGED <<write_pending, accepted, outcome, closed>>
    PROVE  Ordered' /\ wbio' = <<>> /\ wbio_flights' = 0
<1>1. CASE wbio = <<>> /\ wbio_flights = 0
  BY <1>1, OrderedStays DEF FlushWbio, wbios, Ordered, Writes
<1>2. CASE ~(wbio = <<>> /\ wbio_flights = 0)
  <2>1. wbio' = <<>> /\ wbio_flights' = 0 /\ wire' = wire \o wbio
    BY <1>2 DEF FlushWbio
  <2>2. wire \o wbio \in Seq(Nat) /\ <<>> \in Seq(Nat)
    BY DEF Ordered
  <2>3. (wire \o wbio) \o <<>> = wire \o wbio
    BY <2>2, ConcatEmptySeq
  <2>4. Writes' = Writes
    BY <2>1, <2>3 DEF Writes
  <2> QED BY <2>1, <2>2, <2>4 DEF Ordered
<1> QED BY <1>1, <1>2

\* The loop over SSL_write, with a new write behind the others or without.
LEMMA OrderedEncrypt ==
    ASSUME Ordered, EncryptWrite
    PROVE  Ordered'
<1> DEFINE writes == IF Top.method = "Write" THEN Append(write_pending, accepted') ELSE write_pending
<1>1. /\ wire' = wire /\ outcome' = outcome /\ closed' = closed
      /\ accepted' = accepted + (IF Top.method = "Write" THEN 1 ELSE 0)
  BY DEF EncryptWrite, lifecycle
<1>2. PICK k \in 0..Len(writes) :
          /\ wbio' = wbio \o SubSeq(writes, 1, k)
          /\ write_pending' = SubSeq(writes, k + 1, Len(writes))
  BY DEF EncryptWrite, Encrypt
<1>3. /\ wire \in Seq(Nat) /\ wbio \in Seq(Nat) /\ write_pending \in Seq(Nat) /\ accepted \in Nat
      /\ wire \o wbio \in Seq(Nat)
  BY DEF Ordered
<1>4. /\ writes \in Seq(Nat) /\ accepted' \in Nat
      /\ Numbered((wire \o wbio) \o writes, accepted')
      /\ outcome = "none" /\ ~closed => (wire \o wbio) \o writes = [i \in 1..accepted' |-> i]
  <2>1. CASE Top.method = "Write"
    <3>1. accepted' = accepted + 1 /\ accepted + 1 \in Nat /\ writes = Append(write_pending, accepted + 1)
      BY <1>1, <1>3, <2>1
    <3>2. writes \in Seq(Nat) /\ (wire \o wbio) \o writes = Append(Writes, accepted + 1)
      <4>1. /\ Append(write_pending, accepted + 1) \in Seq(Nat)
            /\ (wire \o wbio) \o Append(write_pending, accepted + 1)
                  = Append((wire \o wbio) \o write_pending, accepted + 1)
        BY <1>3, <3>1, AppendBehind, Zenon
      <4> HIDE DEF writes
      <4> QED BY <3>1, <4>1, Zenon DEF Writes
    <3>3. Writes \in Seq(Nat)
      BY <1>3 DEF Writes
    <3>4. Numbered(Append(Writes, accepted + 1), accepted + 1)
      BY <1>3, <3>3, NumberedNext DEF Ordered
    <3>5. outcome = "none" /\ ~closed => Append(Writes, accepted + 1) = [i \in 1..(accepted + 1) |-> i]
      BY <1>3, AllNumbersNext DEF Ordered
    <3> QED BY <3>1, <3>2, <3>4, <3>5
  <2>2. CASE Top.method # "Write"
    <3>1. accepted' = accepted /\ writes = write_pending
      BY <1>1, <1>3, <2>2
    <3> QED BY <1>3, <3>1 DEF Ordered, Writes
  <2> QED BY <2>1, <2>2
<1> DEFINE taken == SubSeq(writes, 1, k)
           rest == SubSeq(writes, k + 1, Len(writes))
<1> HIDE DEF writes
<1>5. taken \in Seq(Nat) /\ rest \in Seq(Nat) /\ taken \o rest = writes
  BY <1>4, CutWrites
<1>6. wbio' = wbio \o taken /\ write_pending' = rest
  BY <1>2
<1> HIDE DEF taken, rest
<1>7. Writes' = (wire \o wbio) \o writes
  <2>1. Writes' = (wire \o (wbio \o taken)) \o rest
    BY <1>1, <1>6, Zenon DEF Writes
  <2>2. (wire \o (wbio \o taken)) \o rest = (wire \o wbio) \o (taken \o rest)
    <3>1. wire \in Seq(Nat)
      BY <1>3
    <3>2. wbio \in Seq(Nat)
      BY <1>3
    <3>3. taken \in Seq(Nat)
      BY <1>5
    <3>4. rest \in Seq(Nat)
      BY <1>5
    <3>5. (wire \o wbio) \o taken = wire \o (wbio \o taken)
      BY <3>1, <3>2, <3>3, ThreeParts, Zenon
    <3>6. ((wire \o wbio) \o taken) \o rest = (wire \o wbio) \o (taken \o rest)
      BY <1>3, <3>3, <3>4, ThreeParts, Zenon
    <3> QED BY <3>5, <3>6, Zenon
  <2> QED BY <1>5, <2>1, <2>2, Zenon
<1>8. wbio' \in Seq(Nat) /\ write_pending' \in Seq(Nat)
  BY <1>3, <1>5, <1>6
<1> QED BY <1>1, <1>3, <1>4, <1>7, <1>8 DEF Ordered

-----------------------------------------------------------------------------
(***************************************************************************)
(* Every step keeps the order of the writes.                               *)
(***************************************************************************)
WInv == Shape /\ Ordered /\ FlushDue

\* Only Flush and HandshakeFlush run where something waits in wbio_.
LEMMA NotFlushing ==
    ASSUME NEW pc, At(pc), pc \notin {"send", "send_first"}
    PROVE  ~Flushing
  BY DEF At, Flushing

LEMMA NotFlushingCaller == ASSUME CallerRuns PROVE ~Flushing
  BY DEF CallerRuns, Inside, Flushing

\* The other steps move no writes; they may close the stage or fail it.
Outside ==
    /\ ~Flushing
    /\ UNCHANGED writing
    /\ closed => closed'
    /\ outcome # "none" => outcome' # "none"

LEMMA OutsideKeeps == ASSUME WInv, Shape', Outside PROVE WInv'
<1>1. UNCHANGED <<wire, wbio, wbio_flights, write_pending, accepted>>
  BY DEF Outside, writing, wbios
<1>2. Ordered'
  BY <1>1, OrderedStays DEF WInv, Outside, Shape, Flags
<1>3. FlushDue'
  BY <1>1 DEF WInv, Outside, FlushDue
<1> QED BY <1>2, <1>3 DEF WInv

LEMMA BaseOutside == ASSUME Base, Shape PROVE Outside
<1>1. UNCHANGED writing /\ outcome' = outcome
  BY DEF Base
<1>2. CASE Suspend \/ Resume
  BY <1>1, <1>2, NotFlushingCaller DEF Suspend, Resume, lifecycle, Outside
<1>3. CASE Close
  BY <1>1, <1>3, NotFlushingCaller DEF Close, Outside
<1>4. CASE Return
  BY <1>1, <1>4 DEF Return, Flushing, lifecycle, Outside
<1>5. CASE Exit
  BY <1>1, <1>5, NotFlushing DEF Exit, lifecycle, Outside
<1>6. CASE CloseStep
  BY <1>1, <1>6, NotFlushing DEF CloseStep, RequestClose, Outside
<1>7. CASE ResumeUpstream \/ CompleteDeferred
  BY <1>1, <1>7, NotFlushing DEF ResumeUpstream, CompleteDeferred, lifecycle, Outside
<1> QED BY <1>2, <1>3, <1>4, <1>5, <1>6, <1>7 DEF Base, CommonNext

LEMMA CallsOutside == ASSUME Deliver \/ OnDone \/ OnError \/ Write PROVE Outside
<1>1. CASE Deliver
  <2>1. PICK n \in 1..(Hs + Records + 1) : OnData(n)
    BY <1>1 DEF Deliver
  <2>2. CallerRuns
    BY <2>1 DEF OnData, UpstreamRuns, CallerRuns
  <2> QED BY <2>1, <2>2, NotFlushingCaller DEF OnData, unmoved, Outside
<1>2. CASE OnDone
  <2>1. CallerRuns
    BY <1>2 DEF OnDone, UpstreamRuns, CallerRuns
  <2> QED BY <1>2, <2>1, NotFlushingCaller DEF OnDone, Outside
<1>3. CASE OnError
  <2>1. CallerRuns
    BY <1>3 DEF OnError, UpstreamRuns, CallerRuns
  <2> QED BY <1>3, <2>1, NotFlushingCaller DEF OnError, unmoved, Outside
<1>4. CASE Write
  BY <1>4, NotFlushingCaller DEF Write, unmoved, Outside
<1> QED BY <1>1, <1>2, <1>3, <1>4

\* The steps of the code that touch neither wbio_ nor write_pending_.
LEMMA CodeOutside ==
    ASSUME Shape,
           \/ HandshakeQuit \/ SSLError \/ Ready \/ ReadsBegin \/ ReadRecord \/ Batched \/ WantMore
           \/ Shutdown \/ ProcessPending \/ FlushAndComplete \/ CompleteWithFlush \/ Flushed
           \/ CloseReads \/ Fail \/ DoCloseData \/ DoCloseDone
    PROVE  Outside
<1>1. Stacked /\ Flags
  BY DEF Shape
<1>2. CASE HandshakeQuit \/ Ready \/ ReadsBegin \/ Batched
  BY <1>2, NotFlushing DEF HandshakeQuit, Ready, ReadsBegin, Batched, lifecycle, Outside
<1>3. CASE WantMore \/ Shutdown \/ ProcessPending \/ FlushAndComplete \/ DoCloseData
  BY <1>3, NotFlushing
     DEF WantMore, Shutdown, ProcessPending, FlushAndComplete, DoCloseData, lifecycle, Outside
<1>4. CASE CloseReads
  BY <1>4, NotFlushing DEF CloseReads, RequestClose, Outside
<1>5. CASE SSLError
  BY <1>1, <1>5, SSLErrorMoves, NotFlushing DEF SSLError, unmoved, Told, Outside
<1>6. CASE ReadRecord
  BY <1>1, <1>6, ReadRecordMoves, NotFlushing DEF ReadRecord, unmoved, Told, Outside
<1>7. CASE CompleteWithFlush
  BY <1>1, <1>7, CompleteWithFlushMoves, NotFlushing DEF CompleteWithFlush, unmoved, Told, Outside
<1>8. CASE Flushed
  BY <1>1, <1>8, FlushedMoves, NotFlushing DEF Flushed, Told, Outside
<1>9. CASE Fail
  BY <1>1, <1>9, FailMoves, NotFlushing DEF Fail, unmoved, Told, Outside
<1>10. CASE DoCloseDone
  BY <1>1, <1>10, DoCloseDoneMoves, NotFlushing DEF DoCloseDone, unmoved, Told, Outside
<1> QED BY <1>2, <1>3, <1>4, <1>5, <1>6, <1>7, <1>8, <1>9, <1>10

LEMMA NextKeepsWrites == ASSUME WInv, [Next]_vars PROVE WInv'
<1>1. Shape /\ Shape' /\ Stacked /\ Flags /\ closed' \in BOOLEAN
  BY NextKeepsShape DEF WInv, Shape, Flags
<1>2. CASE Base
  BY <1>1, <1>2, BaseOutside, OutsideKeeps
<1>3. CASE Deliver \/ OnDone \/ OnError \/ Write
  BY <1>1, <1>3, CallsOutside, OutsideKeeps
<1>4. CASE StartHandshake
  <2>1. Flushing'
    BY <1>1, <1>4, StartHandshakeEnters DEF In, Now, Flushing
  <2>2. Ordered'
    BY <1>1, <1>4, OrderedStays DEF StartHandshake, unmoved, WInv
  <2> QED BY <1>1, <2>1, <2>2 DEF WInv, FlushDue
<1>5. CASE EncryptWrite
  <2>1. Flushing'
    BY <1>1, <1>5, EncryptWriteMoves DEF MovedTo, Now, Flushing
  <2> QED BY <1>1, <1>5, <2>1, OrderedEncrypt DEF WInv, FlushDue
<1>6. CASE ProcessHandshake
  <2>1. Flushing'
    BY <1>1, <1>6, ProcessHandshakeMoves DEF Now, Flushing
  <2>2. Ordered'
    BY <1>1, <1>6, OrderedStays DEF ProcessHandshake, lifecycle, WInv
  <2> QED BY <1>1, <2>1, <2>2 DEF WInv, FlushDue
<1>7. CASE Flush \/ HandshakeFlush \/ FlushAndRetry
  <2>1. PICK pc : FlushWbio(pc)
    BY <1>7 DEF Flush, HandshakeFlush, FlushAndRetry
  <2>2. UNCHANGED <<write_pending, accepted, outcome, closed>>
    BY <1>7 DEF Flush, HandshakeFlush, FlushAndRetry, lifecycle
  <2>3. Ordered' /\ wbio' = <<>> /\ wbio_flights' = 0
    BY <2>1, <2>2, OrderedFlush DEF WInv
  <2> QED BY <1>1, <2>3 DEF WInv, FlushDue
<1>8. CASE WriteError
  <2>1. UNCHANGED wbios /\ accepted' = accepted /\ write_pending' = <<>> /\ ~Flushing
    BY <1>8, NotFlushing DEF WriteError
  <2>2. outcome' # "none"
    BY <1>1, <1>8, WriteErrorMoves DEF Told
  <2>3. Ordered'
    BY <2>1, <2>2, OrderedDrop DEF WInv, wbios
  <2> QED BY <1>1, <2>1, <2>3 DEF WInv, FlushDue, wbios
<1>9. CASE DoCloseClear
  <2>1. UNCHANGED wbios /\ accepted' = accepted /\ write_pending' = <<>> /\ ~Flushing /\ closed' = closed
    BY <1>9, NotFlushing DEF DoCloseClear, lifecycle
  <2>2. closed
    BY <1>1, <1>9, AtKnown DEF DoCloseClear, Fits, Methods, ReadPlaces
  <2>3. Ordered'
    BY <2>1, <2>2, OrderedDrop DEF WInv, wbios
  <2> QED BY <1>1, <2>1, <2>3 DEF WInv, FlushDue, wbios
<1>10. CASE DoClose
  <2>1. /\ wbio = <<>> /\ wbio' = <<>> /\ wbio_flights' = 0 /\ (wire' = wire \o wbio \/ wire' = wire)
        /\ UNCHANGED <<write_pending, accepted, outcome, closed>>
    BY <1>10 DEF WInv, FlushDue, Flushing, DoClose
  <2>2. wire \in Seq(Nat)
    BY DEF WInv, Ordered
  <2>3. UNCHANGED <<wire, wbio>>
    BY <2>1, <2>2, ConcatEmptySeq
  <2>4. Ordered'
    BY <1>1, <2>1, <2>3, OrderedStays DEF WInv
  <2> QED BY <1>1, <2>1, <2>4 DEF WInv, FlushDue
<1>11. CASE \/ HandshakeQuit \/ SSLError \/ Ready \/ ReadsBegin \/ ReadRecord \/ Batched \/ WantMore
            \/ Shutdown \/ ProcessPending \/ FlushAndComplete \/ CompleteWithFlush \/ Flushed
            \/ CloseReads \/ Fail \/ DoCloseData \/ DoCloseDone
  BY <1>1, <1>11, CodeOutside, OutsideKeeps
<1>12. CASE UNCHANGED vars
  <2>1. /\ UNCHANGED <<wire, wbio, wbio_flights, write_pending, accepted, stack, closed, outcome>>
    BY <1>12 DEF vars, componentVars, lifecycle, writing, wbios
  <2> QED BY <1>1, <2>1 DEF WInv, Ordered, Writes, FlushDue, Flushing, Top
<1> QED BY <1>2, <1>3, <1>4, <1>5, <1>6, <1>7, <1>8, <1>9, <1>10, <1>11, <1>12 DEF Next, Code

\* TlsTransport sends the plaintext of Write() in the order of the calls, once
\* each, wherever SSL_write stops and however its methods nest; and an open
\* stage with nothing to do leaves nothing encrypted in wbio_.
THEOREM WritesLeaveInOrder == Spec => []WritesInOrder
<1>1. ASSUME Init PROVE WInv
  <2>1. <<>> \in Seq(Nat) /\ (<<>> \o <<>>) \o <<>> = <<>> /\ [i \in 1..0 |-> i] = <<>>
    OBVIOUS
  <2>2. Numbered(<<>>, 0)
    BY <2>1 DEF Numbered
  <2> QED BY <1>1, <2>1, <2>2, InitShape DEF Init, WInv, Ordered, Writes, FlushDue
<1>2. WInv /\ [Next]_vars => WInv'
  BY NextKeepsWrites
<1>3. ASSUME WInv PROVE WritesInOrder
  <2> DEFINE sent == wire \o wbio
  <2>1. sent \in Seq(Nat) /\ write_pending \in Seq(Nat) /\ accepted \in Nat
    BY <1>3 DEF WInv, Ordered
  <2>2. Numbered(sent, accepted)
    BY <1>3, <2>1, NumberedPrefix DEF WInv, Ordered, Writes
  <2>3. \A i \in 1..(Len(sent) - 1) : sent[i] < sent[i + 1]
    <3> HIDE DEF sent
    <3>1. Len(sent) \in Nat
      BY <2>1
    <3>2. \A i \in 1..(Len(sent) - 1) : i \in 1..Len(sent) /\ i + 1 \in 1..Len(sent) /\ i < i + 1
      BY <3>1
    <3> QED BY <2>2, <3>2 DEF Numbered
  <2>4. outcome = "none" /\ ~closed => sent \o write_pending = [i \in 1..accepted |-> i]
    BY <1>3 DEF WInv, Ordered, Writes
  <2>5. stack = <<>> /\ ~closed => wbio = <<>> /\ wbio_flights = 0
    BY <1>3 DEF WInv, FlushDue, Flushing
  <2> QED BY <2>3, <2>4, <2>5 DEF WritesInOrder
<1> QED BY <1>1, <1>2, <1>3, PTL DEF Spec

-----------------------------------------------------------------------------
(***************************************************************************)
(* The reads, if the downstream does not resume the stage from inside a    *)
(* callback.  Write and OnError may be called while a read or a completion *)
(* is in a callback; they move no input.  Place is where the innermost     *)
(* other activation is, and below that is at most a Resume() that has      *)
(* resumed the upstream.                                                   *)
(***************************************************************************)
Side == {"Write", "OnError"}

\* The innermost activation of s that is not at the side.
MainAt(s, i) == s[i].method \notin Side /\ \A j \in 1..(i - 1) : s[j].method \in Side
PlaceIn(s) ==
    IF \E i \in 1..Len(s) : MainAt(s, i)
    THEN s[CHOOSE i \in 1..Len(s) : MainAt(s, i)].pc
    ELSE "idle"
Place == PlaceIn(stack)

Layered ==
    \A i \in 1..Len(stack) : i > 1 /\ stack[i - 1].method \notin Side => stack[i].cb = "resume"

\* A stage that has signalled is closed, or about to be.
ClosePlaces == {"close", "close_reads"}
AboutToClose(s) ==
    \E i \in 1..Len(s) : s[i].pc \in ClosePlaces /\ \A j \in 1..(i - 1) : s[j].method \in Side
Closing == outcome # "none" => closed \/ AboutToClose(stack)

Typed ==
    /\ received \in Nat /\ rbio \in Nat /\ pending_read_chain \in Nat /\ delivered \in Nat
    /\ flights \in Nat /\ wbio_flights \in Nat /\ suspend_count \in Nat
    /\ server \in {"eof", "notify", "quit"}
    /\ handshake_state \in {"NotStarted", "InProgress", "Complete"}
    /\ rbio <= received /\ received <= Total

Ended == input = "done" \/ (server # "eof" /\ received = Total)

\* All the input has been read, unless the stage has failed or is closed.
Settled == closed \/ outcome # "none" \/ rbio = 0

\* Where SSL may still have input to take.
Moving == {"handshake", "send_first", "drain", "read", "reading", "batched", "fail"}

Conserved ==
    /\ handshake_state # "Complete" =>
          /\ delivered = 0 /\ pending_read_chain = 0
          /\ Taken < Hs \/ server = "quit"
          /\ Place = "handshake" \/ Settled
    /\ handshake_state = "Complete" =>
          /\ server # "quit"
          /\ delivered + pending_read_chain <= Taken - Hs
          /\ delivered + pending_read_chain <= Records
          /\ outcome = "none" /\ ~closed =>
                \/ delivered + pending_read_chain = Taken - Hs
                \/ delivered + pending_read_chain = Records /\ Records <= Taken - Hs

Progress ==
    /\ Place \notin Moving => IsSuspended \/ Settled
    /\ Place \in {"flush", "completing", "flushed"} => Ended /\ Settled
    /\ done_pending => Ended
    /\ Place = "handshake" => rbio > 0 /\ handshake_state = "InProgress"
    /\ Place \in {"send_first", "reading", "batched"} => handshake_state = "Complete"

Rest == Layered /\ Closing /\ Typed /\ Conserved /\ Progress
IInv == Shape /\ Rest

-----------------------------------------------------------------------------
(***************************************************************************)
(* Where the main activation is, as the stack moves.                       *)
(***************************************************************************)
LEMMA PlaceOfTop ==
    ASSUME NEW s \in Seq(Frames), s # <<>>, s[1].method \notin Side
    PROVE  PlaceIn(s) = s[1].pc
<1>1. Len(s) \in Nat /\ 1 \in 1..Len(s)
  OBVIOUS
<1>2. MainAt(s, 1)
  BY DEF MainAt
<1>3. ASSUME NEW i \in 1..Len(s), MainAt(s, i) PROVE i = 1
  <2>1. CASE i > 1
    <3>1. 1 \in 1..(i - 1)
      BY <1>1, <2>1
    <3> QED BY <1>3, <3>1 DEF MainAt
  <2> QED BY <1>1, <2>1
<1>4. (CHOOSE i \in 1..Len(s) : MainAt(s, i)) = 1
  BY <1>1, <1>2, <1>3
<1> QED BY <1>1, <1>2, <1>4 DEF PlaceIn

\* An activation at the side does not count.
LEMMA PlaceUnderSide ==
    ASSUME NEW s \in Seq(Frames), NEW t \in Seq(Frames), Len(t) = Len(s) + 1,
           t[1].method \in Side, \A i \in 1..Len(s) : t[i + 1] = s[i]
    PROVE  PlaceIn(t) = PlaceIn(s)
<1>1. Len(s) \in Nat /\ Len(t) \in Nat
  OBVIOUS
<1>2. ASSUME NEW i \in 1..Len(s) PROVE MainAt(t, i + 1) <=> MainAt(s, i)
  <2>1. t[i + 1] = s[i] /\ i \in Nat /\ i >= 1 /\ i <= Len(s)
    BY <1>1
  <2>2. ASSUME MainAt(s, i), NEW j \in 1..(i + 1 - 1) PROVE t[j].method \in Side
    <3>1. CASE j = 1
      BY <3>1
    <3>2. CASE j > 1
      <4>1. j - 1 \in 1..(i - 1) /\ j - 1 \in 1..Len(s) /\ j = (j - 1) + 1
        BY <1>1, <2>1, <3>2
      <4>2. t[j] = s[j - 1]
        BY <4>1
      <4> QED BY <2>2, <4>1, <4>2 DEF MainAt
    <3> QED BY <2>1, <3>1, <3>2
  <2>3. ASSUME MainAt(t, i + 1), NEW j \in 1..(i - 1) PROVE s[j].method \in Side
    <3>1. j + 1 \in 1..(i + 1 - 1) /\ j \in 1..Len(s)
      BY <1>1, <2>1
    <3> QED BY <2>3, <3>1 DEF MainAt
  <2> QED BY <2>1, <2>2, <2>3 DEF MainAt
<1>3. ASSUME NEW i \in 1..Len(t), MainAt(t, i) PROVE i - 1 \in 1..Len(s) /\ i = (i - 1) + 1 /\ MainAt(s, i - 1)
  <2>1. i # 1
    BY <1>3 DEF MainAt
  <2>2. i - 1 \in 1..Len(s) /\ i = (i - 1) + 1
    BY <1>1, <2>1
  <2>3. MainAt(s, i - 1) <=> MainAt(t, (i - 1) + 1)
    BY <1>2, <2>2
  <2> QED BY <1>3, <2>2, <2>3
<1>4. ASSUME NEW i \in 1..Len(s), MainAt(s, i), NEW j \in 1..Len(s), MainAt(s, j) PROVE i = j
  <2>1. ~(i < j)
    <3>1. i < j => i \in 1..(j - 1)
      BY <1>1
    <3> QED BY <1>4, <3>1 DEF MainAt
  <2>2. ~(j < i)
    <3>1. j < i => j \in 1..(i - 1)
      BY <1>1
    <3> QED BY <1>4, <3>1 DEF MainAt
  <2> QED BY <1>1, <2>1, <2>2
<1>5. CASE \E i \in 1..Len(s) : MainAt(s, i)
  <2>1. PICK i \in 1..Len(s) : MainAt(s, i)
    BY <1>5
  <2>2. i + 1 \in 1..Len(t) /\ MainAt(t, i + 1) /\ t[i + 1] = s[i]
    BY <1>1, <1>2, <2>1
  <2>3. ASSUME NEW j \in 1..Len(t), MainAt(t, j) PROVE j = i + 1
    <3>1. j - 1 \in 1..Len(s) /\ j = (j - 1) + 1 /\ MainAt(s, j - 1)
      BY <1>3, <2>3
    <3>2. j - 1 = i
      BY <1>4, <2>1, <3>1
    <3> QED BY <3>1, <3>2
  <2>4. (CHOOSE j \in 1..Len(t) : MainAt(t, j)) = i + 1
    BY <2>2, <2>3
  <2>5. (CHOOSE j \in 1..Len(s) : MainAt(s, j)) = i
    BY <1>4, <2>1
  <2>6. \E j \in 1..Len(t) : MainAt(t, j)
    BY <2>2
  <2> QED BY <1>5, <2>2, <2>4, <2>5, <2>6 DEF PlaceIn
<1>6. CASE ~ \E i \in 1..Len(s) : MainAt(s, i)
  <2>1. ~ \E j \in 1..Len(t) : MainAt(t, j)
    BY <1>3, <1>6
  <2> QED BY <1>6, <2>1 DEF PlaceIn
<1> QED BY <1>5, <1>6

\* An activation at the side that moves stays at the side.
LEMMA PlaceBesideSide ==
    ASSUME NEW s \in Seq(Frames), NEW t \in Seq(Frames), s # <<>>, Len(t) = Len(s),
           s[1].method \in Side, t[1].method \in Side,
           \A i \in 1..Len(s) : i > 1 => t[i] = s[i]
    PROVE  PlaceIn(t) = PlaceIn(s)
<1>1. /\ Tail(s) \in Seq(Frames) /\ Len(s) = Len(Tail(s)) + 1
      /\ \A i \in 1..Len(Tail(s)) : s[i + 1] = Tail(s)[i]
      /\ \A i \in 1..Len(Tail(s)) : i + 1 \in 1..Len(s) /\ i + 1 > 1
  OBVIOUS
<1>2. PlaceIn(s) = PlaceIn(Tail(s))
  BY <1>1, PlaceUnderSide
<1>3. \A i \in 1..Len(Tail(s)) : t[i + 1] = Tail(s)[i]
  BY <1>1
<1>4. PlaceIn(t) = PlaceIn(Tail(s))
  BY <1>1, <1>3, PlaceUnderSide
<1> QED BY <1>2, <1>4

LEMMA AboutToCloseTop ==
    ASSUME NEW s \in Seq(Frames), s # <<>>
    PROVE  /\ s[1].pc \in ClosePlaces => AboutToClose(s)
           /\ s[1].method \notin Side /\ AboutToClose(s) => s[1].pc \in ClosePlaces
<1>1. Len(s) \in Nat /\ 1 \in 1..Len(s) /\ 1..(1 - 1) = {}
  OBVIOUS
<1>2. s[1].pc \in ClosePlaces => AboutToClose(s)
  BY <1>1 DEF AboutToClose
<1>3. ASSUME s[1].method \notin Side, AboutToClose(s) PROVE s[1].pc \in ClosePlaces
  <2>1. PICK i \in 1..Len(s) : s[i].pc \in ClosePlaces /\ \A j \in 1..(i - 1) : s[j].method \in Side
    BY <1>3 DEF AboutToClose
  <2>2. i > 1 => 1 \in 1..(i - 1)
    BY <1>1
  <2>3. i = 1
    BY <1>1, <1>3, <2>1, <2>2
  <2> QED BY <2>1, <2>3
<1> QED BY <1>2, <1>3

LEMMA AboutToCloseUnderSide ==
    ASSUME NEW s \in Seq(Frames), NEW t \in Seq(Frames), Len(t) = Len(s) + 1,
           t[1].method \in Side, \A i \in 1..Len(s) : t[i + 1] = s[i]
    PROVE  /\ AboutToClose(s) => AboutToClose(t)
           /\ AboutToClose(t) => AboutToClose(s) \/ t[1].pc \in ClosePlaces
<1>1. Len(s) \in Nat /\ Len(t) \in Nat
  OBVIOUS
<1>2. ASSUME AboutToClose(s) PROVE AboutToClose(t)
  <2>1. PICK i \in 1..Len(s) : s[i].pc \in ClosePlaces /\ \A j \in 1..(i - 1) : s[j].method \in Side
    BY <1>2 DEF AboutToClose
  <2>2. i + 1 \in 1..Len(t) /\ t[i + 1] = s[i]
    BY <1>1
  <2>3. ASSUME NEW j \in 1..(i + 1 - 1) PROVE t[j].method \in Side
    <3>1. CASE j = 1
      BY <3>1
    <3>2. CASE j > 1
      <4>1. j - 1 \in 1..(i - 1) /\ j - 1 \in 1..Len(s) /\ j = (j - 1) + 1
        BY <1>1, <3>2
      <4>2. t[j] = s[j - 1]
        BY <4>1
      <4> QED BY <2>1, <4>1, <4>2
    <3> QED BY <1>1, <3>1, <3>2
  <2> QED BY <2>1, <2>2, <2>3 DEF AboutToClose
<1>3. ASSUME AboutToClose(t), t[1].pc \notin ClosePlaces PROVE AboutToClose(s)
  <2>1. PICK i \in 1..Len(t) : t[i].pc \in ClosePlaces /\ \A j \in 1..(i - 1) : t[j].method \in Side
    BY <1>3 DEF AboutToClose
  <2>2. i - 1 \in 1..Len(s) /\ i = (i - 1) + 1
    <3>1. i # 1
      BY <1>3, <2>1
    <3> QED BY <1>1, <3>1
  <2>3. s[i - 1].pc \in ClosePlaces
    BY <2>1, <2>2
  <2>4. ASSUME NEW j \in 1..((i - 1) - 1) PROVE s[j].method \in Side
    <3>1. j + 1 \in 1..(i - 1) /\ j \in 1..Len(s)
      BY <1>1, <2>2
    <3> QED BY <2>1, <3>1
  <2> QED BY <2>2, <2>3, <2>4 DEF AboutToClose
<1> QED BY <1>2, <1>3

LEMMA AboutToCloseBesideSide ==
    ASSUME NEW s \in Seq(Frames), NEW t \in Seq(Frames), s # <<>>, Len(t) = Len(s),
           s[1].method \in Side, t[1].method \in Side,
           \A i \in 1..Len(s) : i > 1 => t[i] = s[i]
    PROVE  AboutToClose(s) => AboutToClose(t) \/ s[1].pc \in ClosePlaces
<1>1. /\ Tail(s) \in Seq(Frames) /\ Len(s) = Len(Tail(s)) + 1
      /\ \A i \in 1..Len(Tail(s)) : s[i + 1] = Tail(s)[i]
      /\ \A i \in 1..Len(Tail(s)) : i + 1 \in 1..Len(s) /\ i + 1 > 1
  OBVIOUS
<1>2. AboutToClose(s) => AboutToClose(Tail(s)) \/ s[1].pc \in ClosePlaces
  BY <1>1, AboutToCloseUnderSide
<1>3. \A i \in 1..Len(Tail(s)) : t[i + 1] = Tail(s)[i]
  BY <1>1
<1>4. AboutToClose(Tail(s)) => AboutToClose(t)
  BY <1>1, <1>3, AboutToCloseUnderSide
<1> QED BY <1>2, <1>4

-----------------------------------------------------------------------------
(***************************************************************************)
(* The five ways the stack moves.                                          *)
(***************************************************************************)
\* The innermost activation moves on and stays at the side or off it.
LEMMA MainMoves ==
    ASSUME Stacked, Stacked', Layered, stack # <<>>, Stays, Top.method \notin Side,
           NEW method, NEW pc, NEW cb, Now(method, pc, cb), method \notin Side
    PROVE  /\ Layered' /\ Place = Top.pc /\ Place' = pc
           /\ AboutToClose(stack) => Top.pc \in ClosePlaces
           /\ pc \in ClosePlaces => AboutToClose(stack')
<1>1. /\ stack \in Seq(Frames) /\ stack' \in Seq(Frames) /\ stack' # <<>> /\ Len(stack') = Len(stack)
      /\ Top = stack[1] /\ Top' = stack'[1] /\ Top'.method = method /\ Top'.pc = pc
  BY DEF Stacked, Now, Top, Stays
<1>2. Place = Top.pc /\ Place' = pc
  BY <1>1, PlaceOfTop DEF Place
<1>3. /\ AboutToClose(stack) => Top.pc \in ClosePlaces
      /\ pc \in ClosePlaces => AboutToClose(stack')
  BY <1>1, AboutToCloseTop
<1>4. ASSUME NEW i \in 1..Len(stack'), i > 1, stack'[i - 1].method \notin Side PROVE stack'[i].cb = "resume"
  <2>1. i \in 1..Len(stack) /\ stack'[i] = stack[i] /\ i - 1 \in 1..Len(stack)
    BY <1>1, <1>4 DEF Stays
  <2>2. stack[i - 1].method \notin Side
    <3>1. CASE i - 1 = 1
      BY <1>1, <3>1
    <3>2. CASE i - 1 > 1
      BY <1>4, <2>1, <3>2 DEF Stays
    <3> QED BY <2>1, <3>1, <3>2
  <2> QED BY <1>4, <2>1, <2>2 DEF Layered
<1> QED BY <1>2, <1>3, <1>4 DEF Layered

LEMMA SideMoves ==
    ASSUME Stacked, Stacked', Layered, stack # <<>>, Stays, Top.method \in Side,
           NEW method, NEW pc, NEW cb, Now(method, pc, cb), method \in Side
    PROVE  /\ Layered' /\ Place' = Place
           /\ AboutToClose(stack) => Top.pc \in ClosePlaces \/ AboutToClose(stack')
           /\ pc \in ClosePlaces => AboutToClose(stack')
<1>1. /\ stack \in Seq(Frames) /\ stack' \in Seq(Frames) /\ stack' # <<>> /\ Len(stack') = Len(stack)
      /\ Top = stack[1] /\ Top' = stack'[1] /\ Top'.method = method /\ Top'.pc = pc
  BY DEF Stacked, Now, Top, Stays
<1>2. Place' = Place
  BY <1>1, PlaceBesideSide DEF Place, Stays
<1>3. /\ AboutToClose(stack) => AboutToClose(stack') \/ Top.pc \in ClosePlaces
      /\ pc \in ClosePlaces => AboutToClose(stack')
  BY <1>1, AboutToCloseBesideSide, AboutToCloseTop DEF Stays
<1>4. ASSUME NEW i \in 1..Len(stack'), i > 1, stack'[i - 1].method \notin Side PROVE stack'[i].cb = "resume"
  <2>1. i \in 1..Len(stack) /\ stack'[i] = stack[i] /\ i - 1 \in 1..Len(stack)
    BY <1>1, <1>4 DEF Stays
  <2>2. i - 1 > 1
    BY <1>1, <1>4, <2>1
  <2>3. stack[i - 1].method \notin Side
    BY <1>4, <2>1, <2>2 DEF Stays
  <2> QED BY <1>4, <2>1, <2>3 DEF Layered
<1> QED BY <1>2, <1>3, <1>4 DEF Layered

LEMMA SideEnters ==
    ASSUME Stacked, Layered, NEW method \in Side, NEW pc, In(method, pc)
    PROVE  /\ Layered' /\ Place' = Place
           /\ AboutToClose(stack) => AboutToClose(stack')
<1>1. /\ stack \in Seq(Frames) /\ stack' \in Seq(Frames) /\ stack' # <<>> /\ Len(stack') = Len(stack) + 1
      /\ Top' = stack'[1] /\ stack'[1].method \in Side
      /\ \A i \in 1..Len(stack) : stack'[i + 1] = stack[i]
  BY DEF Stacked, In, Now, Top
<1>2. Place' = Place
  BY <1>1, PlaceUnderSide DEF Place
<1>3. AboutToClose(stack) => AboutToClose(stack')
  BY <1>1, AboutToCloseUnderSide
<1>4. ASSUME NEW i \in 1..Len(stack'), i > 1, stack'[i - 1].method \notin Side PROVE stack'[i].cb = "resume"
  <2>1. Len(stack) \in Nat /\ i \in Nat
    BY <1>1
  <2>2. i - 1 # 1
    BY <1>1, <1>4
  <2>3. /\ i - 1 \in 1..Len(stack) /\ i = (i - 1) + 1 /\ i - 1 > 1
        /\ i - 2 \in 1..Len(stack) /\ i - 1 = (i - 2) + 1 /\ i - 2 = (i - 1) - 1
    BY <1>1, <1>4, <2>1, <2>2
  <2>4. stack'[i] = stack[i - 1] /\ stack'[i - 1] = stack[i - 2]
    BY <1>1, <2>3
  <2>5. stack[(i - 1) - 1].method \notin Side
    BY <1>4, <2>3, <2>4
  <2> QED BY <2>3, <2>4, <2>5 DEF Layered
<1> QED BY <1>2, <1>3, <1>4 DEF Layered

\* The upstream calls from the event loop, or from its Resume().
LEMMA UpstreamPlace ==
    ASSUME Stacked, UpstreamRuns
    PROVE  Place \in {"idle", "resumed"} /\ ~AboutToClose(stack)
<1>1. CASE stack = <<>>
  BY <1>1 DEF Place, PlaceIn, AboutToClose
<1>2. CASE stack # <<>>
  <2>1. Top = stack[1] /\ Top.method = "Resume" /\ Top.pc = "resumed"
    <3>1. /\ Top = stack[1] /\ Top \in Frames /\ Fits(Top.method, Top.pc, Top.cb)
          /\ Top.cb \in {"idle", "resume"}
      BY <1>2, TopKnown DEF UpstreamRuns, Inside
    <3>2. Top.cb = "resume"
      BY <3>1 DEF Frames, Calls
    <3> QED BY <3>1, <3>2 DEF Fits
  <2>2. stack \in Seq(Frames) /\ stack[1].method \notin Side /\ stack[1].pc \notin ClosePlaces
    BY <2>1 DEF Stacked, Side, ClosePlaces
  <2> QED BY <1>2, <2>1, <2>2, PlaceOfTop, AboutToCloseTop DEF Place
<1> QED BY <1>1, <1>2

LEMMA MainEnters ==
    ASSUME Stacked, Layered, UpstreamRuns, NEW method, method \notin Side, NEW pc, In(method, pc)
    PROVE  Layered' /\ Place' = pc
<1>1. /\ stack \in Seq(Frames) /\ stack' \in Seq(Frames) /\ stack' # <<>> /\ Len(stack') = Len(stack) + 1
      /\ Top' = stack'[1] /\ stack'[1].method \notin Side /\ stack'[1].pc = pc
      /\ \A i \in 1..Len(stack) : stack'[i + 1] = stack[i]
  BY DEF Stacked, In, Now, Top
<1>2. Place' = pc
  BY <1>1, PlaceOfTop DEF Place
<1>3. ASSUME NEW i \in 1..Len(stack'), i > 1, stack'[i - 1].method \notin Side PROVE stack'[i].cb = "resume"
  <2>1. Len(stack) \in Nat /\ i \in Nat /\ i - 1 \in 1..Len(stack) /\ i = (i - 1) + 1
    BY <1>1, <1>3
  <2>2. stack'[i] = stack[i - 1]
    BY <1>1, <2>1
  <2>3. CASE i - 1 = 1
    <3>1. stack # <<>> /\ Top = stack[1]
      BY <1>1, <2>1 DEF Top
    <3>2. stack[1] \in Frames /\ stack[1].cb \in {"idle", "resume"}
      BY <3>1, TopKnown DEF UpstreamRuns, Inside
    <3>3. stack[1].cb = "resume"
      BY <3>2 DEF Frames, Calls
    <3> QED BY <2>2, <2>3, <3>3
  <2>4. CASE i - 1 > 1
    <3>1. i - 2 \in 1..Len(stack) /\ i - 1 = (i - 2) + 1 /\ i - 2 = (i - 1) - 1
      BY <2>1, <2>4
    <3>2. stack'[i - 1] = stack[i - 2]
      BY <1>1, <3>1
    <3>3. stack[(i - 1) - 1].method \notin Side
      BY <1>3, <3>1, <3>2
    <3> QED BY <2>1, <2>2, <2>4, <3>3 DEF Layered
  <2> QED BY <2>1, <2>3, <2>4
<1> QED BY <1>2, <1>3 DEF Layered

\* A method returns: to what it was called from.
LEMMA Leaves ==
    ASSUME Stacked, Layered, stack # <<>>, Top.pc \notin ClosePlaces, stack' = Tail(stack), closed => closed'
    PROVE  /\ Layered'
           /\ AboutToClose(stack) => AboutToClose(stack')
           /\ \/ Top.method \in Side /\ Place' = Place
              \/ Top.method \notin Side /\ Place = Top.pc /\ Place' \in {"idle", "resumed"}
<1>1. /\ stack \in Seq(Frames) /\ stack' \in Seq(Frames) /\ Top = stack[1]
      /\ Len(stack') = Len(stack) - 1 /\ Stacked' /\ Len(stack) \in Nat
      /\ \A i \in 1..Len(stack') : stack'[i] = stack[i + 1] /\ i + 1 \in 1..Len(stack)
  BY Popped DEF Stacked, Top
<1>2. ASSUME NEW i \in 1..Len(stack'), i > 1, stack'[i - 1].method \notin Side PROVE stack'[i].cb = "resume"
  <2>1. /\ i + 1 \in 1..Len(stack) /\ stack'[i] = stack[i + 1] /\ i + 1 > 1
        /\ stack'[i - 1] = stack[(i - 1) + 1] /\ (i - 1) + 1 = (i + 1) - 1
    BY <1>1, <1>2
  <2> QED BY <1>2, <2>1 DEF Layered
<1>3. Layered'
  BY <1>2 DEF Layered
<1>4. CASE Top.method \in Side
  <2>1. Len(stack) = Len(stack') + 1 /\ \A i \in 1..Len(stack') : stack[i + 1] = stack'[i]
    BY <1>1
  <2> QED BY <1>1, <1>3, <1>4, <2>1, PlaceUnderSide, AboutToCloseUnderSide DEF Place
<1>5. CASE Top.method \notin Side
  <2>1. Place = Top.pc /\ ~AboutToClose(stack)
    BY <1>1, <1>5, PlaceOfTop, AboutToCloseTop DEF Place
  <2>2. CASE stack' = <<>>
    BY <1>3, <1>5, <2>1, <2>2 DEF Place, PlaceIn
  <2>3. CASE stack' # <<>>
    <3>1. /\ 2 \in 1..Len(stack) /\ stack[2 - 1] = Top /\ 1 \in 1..Len(stack') /\ 2 > 1
          /\ stack'[1] = stack[2] /\ stack' \in Seq(Frames)
      BY <1>1, <2>3
    <3>2. stack'[1].cb = "resume" /\ FrameOK(stack'[1])
      BY <1>1, <1>5, <3>1 DEF Layered, Stacked
    <3>3. stack'[1].method = "Resume" /\ stack'[1].pc = "resumed"
      BY <3>2 DEF FrameOK, Fits
    <3>4. PlaceIn(stack') = "resumed"
      BY <2>3, <3>1, <3>3, PlaceOfTop DEF Side
    <3> QED BY <1>3, <1>5, <2>1, <3>4 DEF Place
  <2> QED BY <2>2, <2>3
<1> QED BY <1>4, <1>5

\* A step within a method, seen from the main activation.
Steps(from, to) ==
    /\ \/ Top.method \notin Side /\ Place = from /\ Place' = to
       \/ Top.method \in Side /\ Place' = Place
    /\ AboutToClose(stack) => from \in ClosePlaces \/ AboutToClose(stack')
    /\ to \in ClosePlaces => AboutToClose(stack')

LEMMA MovedSteps ==
    ASSUME Stacked, Layered, stack # <<>>, NEW pc, NEW cb, MovedTo(pc, cb)
    PROVE  Layered' /\ Steps(Top.pc, pc)
<1>1. Stacked' /\ Stays /\ Now(Top.method, pc, cb)
  BY DEF MovedTo
<1>2. CASE Top.method \in Side
  BY <1>1, <1>2, SideMoves DEF Steps
<1>3. CASE Top.method \notin Side
  BY <1>1, <1>3, MainMoves DEF Steps
<1> QED BY <1>2, <1>3

\* The same when the method changes.
LEMMA TurnedSteps ==
    ASSUME Stacked, Layered, stack # <<>>, Stacked', Stays, Top.method \notin Side,
           NEW method, method \notin Side, NEW pc, NEW cb, Now(method, pc, cb)
    PROVE  Layered' /\ Place = Top.pc /\ Steps(Top.pc, pc)
  BY MainMoves DEF Steps

LEMMA ToldSteps ==
    ASSUME Stacked, Layered, stack # <<>>, NEW signal, NEW pc, Told(signal, pc), signal # "none"
    PROVE  /\ Layered' /\ Steps(Top.pc, pc)
           /\ outcome' # "none" /\ (outcome # "none" => outcome' = outcome)
           /\ outcome = "none" => outcome' = signal
  BY MovedSteps DEF Told

\* The innermost activation is off the side unless it is at one of the places of
\* Write and OnError.
SidePlaces == {"encrypt", "send", "fail", "close", "close_reads", "exit"}

LEMMA MainPlace ==
    ASSUME Stacked, Layered, stack # <<>>, Top.pc \notin SidePlaces
    PROVE  Top.method \notin Side /\ Place = Top.pc /\ ~AboutToClose(stack)
<1>1. Top = stack[1] /\ Fits(Top.method, Top.pc, Top.cb) /\ stack \in Seq(Frames)
  BY TopKnown DEF Stacked
<1>2. Top.method \notin Side /\ Top.pc \notin ClosePlaces
  BY <1>1 DEF Fits, Side, SidePlaces, ClosePlaces
<1> QED BY <1>1, <1>2, PlaceOfTop, AboutToCloseTop DEF Place

-----------------------------------------------------------------------------
(***************************************************************************)
(* The steps that take no input out of SSL.                                *)
(***************************************************************************)
EndPlaces == {"flush", "completing", "flushed"}
ReadingPlaces == {"send_first", "reading", "batched"}

\* A closed stage may drop what is buffered.
Calm ==
    /\ UNCHANGED <<received, rbio, server>>
    /\ \/ handshake_state' = handshake_state
       \/ handshake_state = "NotStarted" /\ handshake_state' = "InProgress"
    /\ delivered' + pending_read_chain' <= delivered + pending_read_chain
    /\ closed' \/ delivered' + pending_read_chain' = delivered + pending_read_chain
    /\ closed => closed'
    /\ outcome # "none" => outcome' # "none"
    /\ Ended => Ended'
    /\ done_pending' => Ended'

LEMMA SumOfCounts ==
    ASSUME NEW a \in Nat, NEW b \in Nat
    PROVE  a + b \in Nat /\ (a + b <= 0 => a = 0 /\ b = 0)
  OBVIOUS

LEMMA CalmConserves ==
    ASSUME Typed, Typed', Conserved, Calm, Place' = "handshake" \/ Settled' \/ Place # "handshake"
    PROVE  Conserved'
<1> DEFINE sum == delivered + pending_read_chain
           after == delivered' + pending_read_chain'
           past == Taken - Hs
<1>1. /\ received \in Nat /\ rbio \in Nat /\ Hs \in Nat /\ Records \in Nat
      /\ delivered \in Nat /\ pending_read_chain \in Nat
      /\ delivered' \in Nat /\ pending_read_chain' \in Nat
  BY TlsAssumption DEF Typed
<1>2. Taken' = Taken /\ Taken \in Int /\ past \in Int /\ sum \in Nat /\ after \in Nat
  <2>1. received' = received /\ rbio' = rbio
    BY DEF Calm
  <2>2. Taken' = Taken /\ Taken \in Int
    BY <1>1, <2>1 DEF Taken
  <2>3. past \in Int
    BY <1>1, <2>2
  <2> QED BY <1>1, <2>2, <2>3, SumOfCounts
<1>3. after <= sum /\ (closed' \/ after = sum) /\ (Settled => Settled')
  BY DEF Calm, Settled
<1>4. ASSUME handshake_state' # "Complete"
      PROVE  /\ delivered' = 0 /\ pending_read_chain' = 0
             /\ Taken' < Hs \/ server' = "quit"
             /\ Place' = "handshake" \/ Settled'
  <2>1. handshake_state # "Complete" /\ server' = server
    BY <1>4 DEF Calm
  <2>2. delivered = 0 /\ pending_read_chain = 0 /\ (Taken < Hs \/ server = "quit")
        /\ (Place = "handshake" \/ Settled)
    BY <2>1 DEF Conserved
  <2>3. delivered' + pending_read_chain' <= 0
    BY <2>2 DEF Calm
  <2>4. delivered' = 0 /\ pending_read_chain' = 0
    BY <1>1, <2>3, SumOfCounts
  <2> QED BY <1>2, <1>3, <2>1, <2>2, <2>4
<1>5. ASSUME handshake_state' = "Complete"
      PROVE  /\ server' # "quit" /\ after <= past /\ after <= Records
             /\ outcome' = "none" /\ ~closed' => after = past \/ (after = Records /\ Records <= past)
  <2>1. handshake_state = "Complete" /\ server' = server
    BY <1>5 DEF Calm
  <2>2. /\ server # "quit" /\ sum <= past /\ sum <= Records
        /\ outcome = "none" /\ ~closed => sum = past \/ (sum = Records /\ Records <= past)
    BY <2>1 DEF Conserved
  <2>3. outcome' = "none" /\ ~closed' => outcome = "none" /\ ~closed
    BY DEF Calm
  <2>4. after <= past /\ after <= Records
    <3> HIDE DEF after, sum, past
    <3> QED BY <1>1, <1>2, <1>3, <2>2
  <2> HIDE DEF after, sum, past
  <2> QED BY <1>3, <2>1, <2>2, <2>3, <2>4
<1> QED BY <1>2, <1>4, <1>5 DEF Conserved

LEMMA SamePlaceKeeps ==
    ASSUME Typed, Typed', Conserved, Progress, Calm, Place' = Place, IsSuspended => IsSuspended'
    PROVE  Conserved' /\ Progress'
<1>1. Conserved'
  BY CalmConserves
<1>2. Settled => Settled'
  BY DEF Calm, Settled
<1>3. Place' \notin Moving => IsSuspended' \/ Settled'
  BY <1>2 DEF Progress
<1>4. Place' \in EndPlaces => Ended' /\ Settled'
  BY <1>2 DEF Progress, Calm, EndPlaces
<1>5. Place' = "handshake" => rbio' > 0 /\ handshake_state' = "InProgress"
  BY DEF Progress, Calm
<1>6. Place' \in ReadingPlaces => handshake_state' = "Complete"
  BY DEF Progress, Calm, ReadingPlaces
<1> QED BY <1>1, <1>3, <1>4, <1>5, <1>6 DEF Progress, EndPlaces, ReadingPlaces, Calm

LEMMA NewPlaceKeeps ==
    ASSUME Typed, Typed', Conserved, Calm, Place # "handshake" \/ Settled', Place' # "handshake",
           Place' \notin Moving => IsSuspended' \/ Settled',
           Place' \in EndPlaces => Ended' /\ Settled',
           Place' \in ReadingPlaces => handshake_state = "Complete"
    PROVE  Conserved' /\ Progress'
<1>1. Conserved'
  BY CalmConserves
<1> QED BY <1>1 DEF Progress, EndPlaces, ReadingPlaces, Calm

\* A step within a method.
LEMMA StepKeeps ==
    ASSUME Typed, Typed', Conserved, Progress, Calm, IsSuspended => IsSuspended',
           NEW from, NEW to, Steps(from, to),
           from # "handshake" \/ Settled', to # "handshake",
           to \in Moving \/ from \notin Moving \/ Settled' \/ IsSuspended',
           to \in EndPlaces => from \in EndPlaces,
           to \in ReadingPlaces => handshake_state = "Complete"
    PROVE  Conserved' /\ Progress'
<1>1. CASE Place' = Place
  BY <1>1, SamePlaceKeeps
<1>2. CASE Place = from /\ Place' = to
  <2>1. Settled => Settled'
    BY DEF Calm, Settled
  <2>2. Place' \notin Moving => IsSuspended' \/ Settled'
    BY <1>2, <2>1 DEF Progress
  <2>3. Place' \in EndPlaces => Ended' /\ Settled'
    BY <1>2, <2>1 DEF Progress, EndPlaces, Calm
  <2> QED BY <1>2, <2>2, <2>3, NewPlaceKeeps
<1> QED BY <1>1, <1>2 DEF Steps

-----------------------------------------------------------------------------
(***************************************************************************)
(* The counters.                                                           *)
(***************************************************************************)
LEMMA LeastOfTwo ==
    ASSUME NEW a \in Int, NEW b \in Int
    PROVE  Min({a, b}) = IF a <= b THEN a ELSE b
  BY DEF Min

LEMMA GreatestOfTwo ==
    ASSUME NEW a \in Int, NEW b \in Int
    PROVE  Max({a, b}) = IF a <= b THEN b ELSE a
  BY DEF Max

LEMMA StreamKnown ==
    ASSUME Typed
    PROVE  /\ Hs \in Nat /\ Hs > 0 /\ Records \in Nat /\ Total \in Nat /\ Taken \in Nat
           /\ Taken + rbio = received /\ Available \in Nat /\ Available <= Total
           /\ server = "quit" => Total = 1
           /\ server = "notify" => Total = Hs + Records + 1
           /\ server = "eof" => Total = Hs + Records
<1>1. Hs \in Nat /\ Hs > 0 /\ Records \in Nat
  BY TlsAssumption
<1>2. /\ server = "quit" => Total = 1
      /\ server = "notify" => Total = Hs + Records + 1
      /\ server = "eof" => Total = Hs + Records
  BY DEF Total
<1>3. Total \in Nat
  BY <1>1, <1>2 DEF Typed
<1>4. Taken \in Nat /\ Taken + rbio = received
  BY DEF Typed, Taken
<1>5. Available \in Nat /\ Available <= Total
  <2>1. flights \in Int /\ Total \in Int
    BY <1>3 DEF Typed
  <2>2. Min({flights, Total}) = IF flights <= Total THEN flights ELSE Total
    BY <2>1, LeastOfTwo
  <2> QED BY <1>3, <2>1, <2>2 DEF Available, Typed
<1> QED BY <1>1, <1>2, <1>3, <1>4, <1>5

\* The part of Typed that is about the writes and the suspensions.
LEMMA TypedStays ==
    ASSUME Typed, UNCHANGED <<reading, server>>,
           handshake_state' \in {"NotStarted", "InProgress", "Complete"},
           flights' \in Nat, wbio_flights' \in Nat, suspend_count' \in Nat
    PROVE  Typed'
<1>1. Total' = Total
  BY DEF Total
<1> QED BY <1>1 DEF Typed, reading

LEMMA TypedForward ==
    ASSUME Typed, UNCHANGED <<received, server, handshake_state, flights, wbio_flights, suspend_count>>,
           rbio' \in Nat, rbio' <= rbio, NEW more \in Nat, NEW pc, Forward(more, pc)
    PROVE  /\ Typed' /\ delivered' + pending_read_chain' = delivered + (pending_read_chain + more)
           /\ delivered <= delivered'
<1>1. Total' = Total
  BY DEF Total
<1>2. PICK used \in {0, pending_read_chain + more} :
          /\ pending_read_chain' = pending_read_chain + more - used
          /\ delivered' = delivered + used
  BY DEF Forward
<1>3. /\ pending_read_chain' \in Nat /\ delivered' \in Nat
      /\ delivered' + pending_read_chain' = delivered + (pending_read_chain + more)
      /\ delivered <= delivered'
  BY <1>2 DEF Typed
<1>4. rbio' <= received
  BY DEF Typed
<1> QED BY <1>1, <1>3, <1>4 DEF Typed

LEMMA TypedFlush ==
    ASSUME Typed, UNCHANGED <<reading, server, handshake_state, suspend_count>>, NEW pc, FlushWbio(pc)
    PROVE  Typed'
<1>1. flights' \in Nat /\ wbio_flights' \in Nat
  BY DEF FlushWbio, Typed, wbios
<1> QED BY <1>1, TypedStays DEF Typed

LEMMA TypedBase == ASSUME Typed, Base PROVE Typed'
<1>1. UNCHANGED <<reading, server, handshake_state, flights, wbio_flights>>
  BY DEF Base, tls, writing, wbios
<1>2. suspend_count' \in Nat
  <2>1. suspend_count \in Nat
    BY DEF Typed
  <2>2. CASE Suspend
    BY <2>1, <2>2 DEF Suspend
  <2>3. CASE Resume
    BY <2>1, <2>3 DEF Resume
  <2>4. CASE Close \/ Return \/ Exit \/ CloseStep \/ ResumeUpstream \/ CompleteDeferred
    BY <2>1, <2>4 DEF Close, Return, Exit, CloseStep, ResumeUpstream, CompleteDeferred, backpressure
  <2> QED BY <2>2, <2>3, <2>4 DEF Base, CommonNext
<1> QED BY <1>1, <1>2, TypedStays DEF Typed

LEMMA CallsKeepTyped ==
    ASSUME Typed, StartHandshake \/ Deliver \/ OnDone \/ OnError \/ Write
    PROVE  Typed'
<1>1. CASE StartHandshake
  <2>1. /\ UNCHANGED <<reading, server, flights, suspend_count>>
        /\ handshake_state' = "InProgress" /\ wbio_flights' = 1
    BY <1>1 DEF StartHandshake, unmoved, backpressure
  <2> QED BY <2>1, TypedStays DEF Typed
<1>2. CASE Deliver
  <2>1. PICK n \in 1..(Hs + Records + 1) : OnData(n)
    BY <1>2 DEF Deliver
  <2>2. /\ UNCHANGED <<pending_read_chain, delivered, server, handshake_state, flights, wbio_flights>>
        /\ suspend_count' = suspend_count
        /\ \/ UNCHANGED <<received, rbio>>
           \/ received' = received + n /\ rbio' = rbio + n
        /\ received + n <= Available
    BY <2>1 DEF OnData, unmoved, writing, wbios, tls, backpressure
  <2>3. Total' = Total /\ n \in Nat /\ Total \in Nat /\ Available \in Nat /\ Available <= Total
    BY <2>2, StreamKnown, TlsAssumption DEF Total
  <2>4. received + n <= Total
    BY <2>2, <2>3 DEF Typed
  <2> QED BY <2>2, <2>3, <2>4 DEF Typed
<1>3. CASE OnDone \/ OnError \/ Write
  <2>1. UNCHANGED <<reading, server, handshake_state, flights, wbio_flights, suspend_count>>
    BY <1>3 DEF OnDone, OnError, Write, unmoved, writing, wbios, tls, backpressure
  <2> QED BY <2>1, TypedStays DEF Typed
<1> QED BY <1>1, <1>2, <1>3

\* The steps of the code that take no input out of SSL.
LEMMA CodeKeepsTyped ==
    ASSUME Typed,
           \/ EncryptWrite \/ Flush \/ HandshakeFlush \/ FlushAndRetry \/ SSLError \/ WriteError
           \/ Ready \/ ReadsBegin \/ Batched \/ WantMore \/ ProcessPending \/ FlushAndComplete
           \/ CompleteWithFlush \/ Flushed \/ CloseReads \/ Fail
           \/ DoClose \/ DoCloseData \/ DoCloseDone \/ DoCloseClear
    PROVE  /\ Typed' /\ UNCHANGED <<received, rbio, server, handshake_state, suspend_count>>
           /\ delivered' + pending_read_chain' <= delivered + pending_read_chain
           /\ DoCloseClear \/ delivered' + pending_read_chain' = delivered + pending_read_chain
           /\ delivered <= delivered'
<1> DEFINE Same == UNCHANGED <<reading, server, handshake_state, flights, wbio_flights, suspend_count>>
<1>1. ASSUME Same
      PROVE  /\ Typed' /\ UNCHANGED <<received, rbio, server, handshake_state, suspend_count>>
             /\ delivered' + pending_read_chain' = delivered + pending_read_chain
             /\ delivered' + pending_read_chain' <= delivered + pending_read_chain
             /\ delivered <= delivered'
  <2>1. Typed'
    BY <1>1, TypedStays DEF Typed
  <2> QED BY <1>1, <2>1 DEF Typed, reading
<1>2. CASE EncryptWrite
  <2>1. Same
    BY <1>2 DEF EncryptWrite, tls, backpressure
  <2> QED BY <1>1, <2>1
<1>3. CASE Flush \/ HandshakeFlush \/ FlushAndRetry
  <2>1. PICK pc : FlushWbio(pc)
    BY <1>3 DEF Flush, HandshakeFlush, FlushAndRetry
  <2>2. UNCHANGED <<reading, server, handshake_state, suspend_count>>
    BY <1>3 DEF Flush, HandshakeFlush, FlushAndRetry, tls, backpressure
  <2>3. Typed'
    BY <2>1, <2>2, TypedFlush
  <2> QED BY <2>2, <2>3 DEF Typed, reading
<1>4. CASE SSLError \/ WriteError \/ Fail \/ DoCloseDone
  <2>1. Same
    BY <1>4 DEF SSLError, WriteError, Fail, DoCloseDone, unmoved, writing, wbios, tls, backpressure
  <2> QED BY <1>1, <2>1
<1>5. CASE Ready \/ ReadsBegin \/ Batched \/ FlushAndComplete \/ Flushed \/ CloseReads
  <2>1. Same
    BY <1>5 DEF Ready, ReadsBegin, Batched, FlushAndComplete, Flushed, CloseReads, writing, wbios, tls,
                backpressure
  <2> QED BY <1>1, <2>1
<1>6. CASE WantMore \/ ProcessPending \/ CompleteWithFlush \/ DoCloseData
  <2>1. UNCHANGED <<received, rbio, server, handshake_state, flights, wbio_flights, suspend_count>>
    BY <1>6 DEF WantMore, ProcessPending, CompleteWithFlush, DoCloseData, unmoved, writing, wbios, tls,
                backpressure
  <2>2. UNCHANGED <<pending_read_chain, delivered>> \/ \E pc : Forward(0, pc)
    BY <1>6 DEF WantMore, ProcessPending, CompleteWithFlush, DoCloseData
  <2>3. CASE UNCHANGED <<pending_read_chain, delivered>>
    <3>1. Same
      BY <2>1, <2>3 DEF reading
    <3> QED BY <1>1, <3>1
  <2>4. CASE \E pc : Forward(0, pc)
    <3>1. PICK pc : Forward(0, pc)
      BY <2>4
    <3>2. rbio' \in Nat /\ rbio' <= rbio
      BY <2>1 DEF Typed
    <3>3. /\ Typed' /\ delivered' + pending_read_chain' = delivered + (pending_read_chain + 0)
          /\ delivered <= delivered'
      BY <2>1, <3>1, <3>2, TypedForward
    <3>4. /\ delivered' + pending_read_chain' = delivered + pending_read_chain
          /\ delivered' + pending_read_chain' <= delivered + pending_read_chain
      <4>1. /\ pending_read_chain + 0 = pending_read_chain
            /\ delivered + pending_read_chain <= delivered + pending_read_chain
        BY DEF Typed
      <4> QED BY <3>3, <4>1
    <3> QED BY <2>1, <3>3, <3>4
  <2> QED BY <2>2, <2>3, <2>4
<1>7. CASE DoClose
  <2>1. /\ UNCHANGED <<reading, server, handshake_state, flights, suspend_count>>
        /\ wbio_flights' = 0
    BY <1>7 DEF DoClose, backpressure
  <2>2. Typed'
    BY <2>1, TypedStays DEF Typed
  <2> QED BY <2>1, <2>2 DEF Typed, reading
<1>8. CASE DoCloseClear
  <2>1. /\ UNCHANGED <<received, rbio, delivered, server, handshake_state, flights, wbio_flights, suspend_count>>
        /\ pending_read_chain' = 0
    BY <1>8 DEF DoCloseClear, wbios, tls, backpressure
  <2>2. Total' = Total
    BY <2>1 DEF Total
  <2> QED BY <1>8, <2>1, <2>2 DEF Typed
<1> QED BY <1>2, <1>3, <1>4, <1>5, <1>6, <1>7, <1>8

-----------------------------------------------------------------------------
(***************************************************************************)
(* The invariant is kept by the steps that take no input out of SSL ...    *)
(***************************************************************************)
LEMMA RestStep ==
    ASSUME Rest, Typed', Layered', Calm, IsSuspended => IsSuspended',
           NEW from, NEW to, Steps(from, to),
           from # "handshake" \/ Settled', to # "handshake",
           to \in Moving \/ from \notin Moving \/ Settled' \/ IsSuspended',
           to \in EndPlaces => from \in EndPlaces,
           to \in ReadingPlaces => handshake_state = "Complete",
           from \notin ClosePlaces \/ closed' \/ to \in ClosePlaces,
           outcome' # "none" => outcome # "none" \/ to \in ClosePlaces \/ closed'
    PROVE  Rest'
<1>1. Conserved' /\ Progress'
  BY StepKeeps DEF Rest
<1>2. Closing'
  BY DEF Rest, Closing, Steps, Calm
<1> QED BY <1>1, <1>2 DEF Rest

LEMMA CodeCalm ==
    ASSUME Shape, Rest,
           \/ EncryptWrite \/ Flush \/ HandshakeFlush \/ FlushAndRetry \/ SSLError \/ WriteError
           \/ Ready \/ ReadsBegin \/ Batched \/ WantMore \/ ProcessPending \/ FlushAndComplete
           \/ CompleteWithFlush \/ Flushed \/ CloseReads \/ Fail
           \/ DoClose \/ DoCloseData \/ DoCloseDone \/ DoCloseClear
    PROVE  Typed' /\ Calm /\ (IsSuspended => IsSuspended')
<1>1. Stacked /\ Layered /\ Typed /\ Progress
  BY DEF Shape, Rest
<1>2. /\ Typed' /\ UNCHANGED <<received, rbio, server, handshake_state, suspend_count>>
      /\ delivered' + pending_read_chain' <= delivered + pending_read_chain
      /\ DoCloseClear \/ delivered' + pending_read_chain' = delivered + pending_read_chain
  BY <1>1, CodeKeepsTyped
<1>3. input' = input
  BY DEF EncryptWrite, Flush, HandshakeFlush, FlushAndRetry, SSLError, WriteError, Ready, ReadsBegin,
         Batched, WantMore, ProcessPending, FlushAndComplete, CompleteWithFlush, Flushed, CloseReads,
         Fail, DoClose, DoCloseData, DoCloseDone, DoCloseClear
<1>4. Ended' <=> Ended
  <2>1. Total' = Total
    BY <1>2 DEF Total
  <2> QED BY <1>2, <1>3, <2>1 DEF Ended
<1>5. done_pending' = done_pending \/ Flushed
  BY DEF EncryptWrite, Flush, HandshakeFlush, FlushAndRetry, SSLError, WriteError, Ready, ReadsBegin,
         Batched, WantMore, ProcessPending, FlushAndComplete, CompleteWithFlush, CloseReads,
         Fail, DoClose, DoCloseData, DoCloseDone, DoCloseClear, unmoved
<1>6. Flushed => Ended
  <2> SUFFICES ASSUME Flushed PROVE Ended
    OBVIOUS
  <2>1. stack # <<>> /\ Top.pc = "flushed"
    BY DEF Flushed, At
  <2>2. Place = "flushed"
    BY <1>1, <2>1, MainPlace DEF SidePlaces
  <2> QED BY <1>1, <2>2 DEF Progress
<1>7. done_pending' => Ended'
  BY <1>1, <1>4, <1>5, <1>6 DEF Progress
<1>8. closed => closed'
  BY DEF EncryptWrite, Flush, HandshakeFlush, FlushAndRetry, SSLError, WriteError, Ready, ReadsBegin,
         Batched, WantMore, ProcessPending, FlushAndComplete, CompleteWithFlush, Flushed, CloseReads,
         Fail, DoClose, DoCloseData, DoCloseDone, DoCloseClear, unmoved, lifecycle, RequestClose
<1>9. outcome # "none" => outcome' # "none"
  <2>1. UNCHANGED outcome \/ \E signal \in {"error", "done"} : \E pc : Tell(signal, pc)
    BY DEF EncryptWrite, Flush, HandshakeFlush, FlushAndRetry, SSLError, WriteError, Ready, ReadsBegin,
           Batched, WantMore, ProcessPending, FlushAndComplete, CompleteWithFlush, Flushed, CloseReads,
           Fail, DoClose, DoCloseData, DoCloseDone, DoCloseClear
  <2> QED BY <2>1 DEF Tell
<1>10. DoCloseClear => closed'
  <2> SUFFICES ASSUME DoCloseClear PROVE closed
    BY <1>8
  <2> QED BY <1>1, AtKnown DEF DoCloseClear, Fits, Methods, ReadPlaces
<1>11. IsSuspended => IsSuspended'
  BY <1>2 DEF IsSuspended
<1>12. closed' \/ delivered' + pending_read_chain' = delivered + pending_read_chain
  BY <1>2, <1>10
<1> QED BY <1>2, <1>4, <1>7, <1>8, <1>9, <1>11, <1>12 DEF Calm

\* Places, as the provers need them.
LEMMA PlacesApart ==
    /\ {"handshake", "send_first", "drain", "read", "reading", "batched", "fail"} = Moving
    /\ {"flush", "completing", "flushed"} = EndPlaces
    /\ {"send_first", "reading", "batched"} = ReadingPlaces
    /\ {"close", "close_reads"} = ClosePlaces
    /\ AfterReads \notin Moving \cup EndPlaces \cup ReadingPlaces \cup ClosePlaces
  BY DEF Moving, EndPlaces, ReadingPlaces, ClosePlaces, AfterReads

\* A step to a place where nothing is asked, if SSL has no input to take.
LEMMA RestQuiet ==
    ASSUME Rest, Typed', Layered', Calm, IsSuspended => IsSuspended',
           NEW from, NEW to, Steps(from, to), from \notin Moving \/ Settled' \/ IsSuspended',
           from # "handshake" \/ Settled',
           to \notin Moving \cup EndPlaces \cup ReadingPlaces,
           from \notin ClosePlaces \/ closed' \/ to \in ClosePlaces,
           outcome' # "none" => outcome # "none" \/ to \in ClosePlaces \/ closed'
    PROVE  Rest'
<1>1. to # "handshake"
  BY DEF Moving
<1> QED BY <1>1, RestStep

LEMMA EncryptWriteKeeps == ASSUME Shape, Rest, EncryptWrite PROVE Rest'
<1>1. Stacked /\ Layered /\ stack # <<>> /\ Top.pc = "encrypt" /\ outcome' = outcome
  BY AtKnown DEF Shape, Rest, EncryptWrite
<1>2. Layered' /\ Steps("encrypt", "send")
  BY <1>1, EncryptWriteMoves, MovedSteps
<1>3. Typed' /\ Calm /\ (IsSuspended => IsSuspended')
  BY CodeCalm
<1> QED BY <1>1, <1>2, <1>3, RestQuiet DEF Moving, EndPlaces, ReadingPlaces, ClosePlaces

LEMMA FlushKeeps == ASSUME Shape, Rest, Flush PROVE Rest'
<1>1. Stacked /\ Layered /\ stack # <<>> /\ Top.pc = "send" /\ outcome' = outcome
  BY AtKnown DEF Shape, Rest, Flush
<1>2. Layered' /\ Steps("send", AfterReads)
  BY <1>1, FlushMoves, MovedSteps
<1>3. Typed' /\ Calm /\ (IsSuspended => IsSuspended')
  BY CodeCalm
<1>4. "send" \notin Moving \cup ClosePlaces
  BY DEF Moving, ClosePlaces
<1> QED BY <1>1, <1>2, <1>3, <1>4, RestQuiet, PlacesApart

LEMMA HandshakeFlushKeeps == ASSUME Shape, Rest, HandshakeFlush PROVE Rest'
<1>1. Stacked /\ Layered /\ stack # <<>> /\ Top.pc = "send_first" /\ outcome' = outcome
  BY AtKnown DEF Shape, Rest, HandshakeFlush
<1>2. Layered' /\ Steps("send_first", "read")
  BY <1>1, HandshakeFlushMoves, MovedSteps
<1>3. Typed' /\ Calm /\ (IsSuspended => IsSuspended')
  BY CodeCalm
<1> QED BY <1>1, <1>2, <1>3, RestStep DEF Moving, EndPlaces, ReadingPlaces, ClosePlaces

LEMMA FlushAndRetryKeeps == ASSUME Shape, Rest, FlushAndRetry PROVE Rest'
<1> DEFINE pc == IF write_pending = <<>> THEN AfterReads ELSE "encrypt"
<1>1. Stacked /\ Layered /\ stack # <<>> /\ Top.pc = "send_retry" /\ outcome' = outcome
  BY AtKnown DEF Shape, Rest, FlushAndRetry
<1>2. MovedTo(pc, "none") \/ MovedTo(pc, "write")
  BY <1>1, FlushAndRetryMoves
<1>3. pc \notin Moving \cup EndPlaces \cup ReadingPlaces
  <2>1. "encrypt" \notin Moving \cup EndPlaces \cup ReadingPlaces
    BY DEF Moving, EndPlaces, ReadingPlaces
  <2> QED BY <2>1, PlacesApart
<1> HIDE DEF pc
<1>4. Layered' /\ Steps("send_retry", pc)
  BY <1>1, <1>2, MovedSteps
<1>5. Typed' /\ Calm /\ (IsSuspended => IsSuspended')
  BY CodeCalm
<1>6. "send_retry" \notin Moving \cup ClosePlaces
  BY DEF Moving, ClosePlaces
<1> QED BY <1>1, <1>3, <1>4, <1>5, <1>6, RestQuiet, PlacesApart

LEMMA ToldKeeps ==
    ASSUME Shape, Rest, Typed', Calm, IsSuspended => IsSuspended', stack # <<>>,
           NEW signal \in {"error", "done"}, NEW pc, Told(signal, pc),
           pc \in ClosePlaces \/ (closed /\ pc = "clear" /\ Top.pc = "last_done")
    PROVE  Rest'
<1>1. Stacked /\ Layered
  BY DEF Shape, Rest
<1>2. Layered' /\ Steps(Top.pc, pc) /\ outcome' # "none"
  BY <1>1, ToldSteps
<1>3. Settled'
  BY <1>2 DEF Settled
<1>4. pc \notin Moving \cup EndPlaces \cup ReadingPlaces
  BY DEF Moving, EndPlaces, ReadingPlaces, ClosePlaces
<1>5. Top.pc \notin ClosePlaces \/ closed' \/ pc \in ClosePlaces
  BY DEF ClosePlaces
<1>6. outcome' # "none" => outcome # "none" \/ pc \in ClosePlaces \/ closed'
  BY DEF Calm
<1> QED BY <1>2, <1>3, <1>4, <1>5, <1>6, RestQuiet

LEMMA SSLErrorKeeps == ASSUME Shape, Rest, SSLError PROVE Rest'
<1>1. stack # <<>> /\ Told("error", "close_reads")
  BY SSLErrorMoves DEF SSLError, At, Shape
<1>2. Typed' /\ Calm /\ (IsSuspended => IsSuspended')
  BY CodeCalm
<1>3. "close_reads" \in ClosePlaces
  BY DEF ClosePlaces
<1> QED BY <1>1, <1>2, <1>3, ToldKeeps

LEMMA WriteErrorKeeps == ASSUME Shape, Rest, WriteError PROVE Rest'
<1>1. stack # <<>> /\ Told("error", "close_reads")
  BY WriteErrorMoves DEF WriteError, At, Shape
<1>2. Typed' /\ Calm /\ (IsSuspended => IsSuspended')
  BY CodeCalm
<1>3. "close_reads" \in ClosePlaces
  BY DEF ClosePlaces
<1> QED BY <1>1, <1>2, <1>3, ToldKeeps

LEMMA FailKeeps == ASSUME Shape, Rest, Fail PROVE Rest'
<1>1. stack # <<>> /\ Told("error", "close")
  BY FailMoves DEF Fail, At, Shape
<1>2. Typed' /\ Calm /\ (IsSuspended => IsSuspended')
  BY CodeCalm
<1>3. "close" \in ClosePlaces
  BY DEF ClosePlaces
<1> QED BY <1>1, <1>2, <1>3, ToldKeeps

\* The handshake callback returns to what called the handshake.
LEMMA ReadyKeeps == ASSUME Shape, Rest, Ready PROVE Rest'
<1>1. Stacked /\ Layered /\ stack # <<>> /\ Top.pc = "ready" /\ outcome' = outcome
  BY AtKnown DEF Shape, Rest, Ready
<1>2. Top.method \notin Side /\ "Read" \notin Side
  BY <1>1, ReadyMoves DEF Side
<1>3. Layered' /\ Steps("ready", "exit")
  BY <1>1, <1>2, ReadyMoves, TurnedSteps
<1>4. Typed' /\ Calm /\ (IsSuspended => IsSuspended')
  BY CodeCalm
<1> QED BY <1>1, <1>3, <1>4, RestQuiet DEF Moving, EndPlaces, ReadingPlaces, ClosePlaces

LEMMA FlushAndCompleteKeeps == ASSUME Shape, Rest, FlushAndComplete PROVE Rest'
<1>1. Stacked /\ Layered /\ stack # <<>> /\ Top.pc = "flush" /\ outcome' = outcome
  BY AtKnown DEF Shape, Rest, FlushAndComplete
<1>2. Top.method \notin Side /\ "Complete" \notin Side
  BY <1>1, FlushAndCompleteMoves DEF Side
<1>3. Layered' /\ Steps("flush", "completing")
  BY <1>1, <1>2, FlushAndCompleteMoves, TurnedSteps
<1>4. Typed' /\ Calm /\ (IsSuspended => IsSuspended')
  BY CodeCalm
<1> QED BY <1>1, <1>3, <1>4, RestStep DEF Moving, EndPlaces, ReadingPlaces, ClosePlaces

\* Nothing is read by a closed or a suspended stage, nor before the handshake
\* is complete, when SSL has taken all it was given.
LEMMA ReadsBeginKeeps == ASSUME Shape, Rest, ReadsBegin PROVE Rest'
<1> DEFINE pc == IF closed \/ handshake_state # "Complete" \/ IsSuspended THEN AfterReads ELSE "reading"
<1>1. Stacked /\ Layered /\ stack # <<>> /\ Top.pc = "read" /\ outcome' = outcome
  BY AtKnown DEF Shape, Rest, ReadsBegin
<1>2. MovedTo(pc, "none")
  BY <1>1, ReadsBeginMoves
<1>3. Layered' /\ Steps("read", pc)
  <2> HIDE DEF pc
  <2> QED BY <1>1, <1>2, MovedSteps
<1>4. Typed' /\ Calm /\ (IsSuspended => IsSuspended')
  BY CodeCalm
<1>5. CASE closed \/ handshake_state # "Complete" \/ IsSuspended
  <2>1. pc = AfterReads
    BY <1>5
  <2>2. "read" \notin ClosePlaces
    BY DEF ClosePlaces
  <2>3. Place = "read"
    BY <1>1, MainPlace DEF SidePlaces
  <2>4. Settled' \/ IsSuspended'
    <3>1. Settled \/ IsSuspended
      BY <1>5, <2>3 DEF Rest, Conserved, Settled
    <3> QED BY <1>4, <3>1 DEF Calm, Settled
  <2>5. Steps("read", AfterReads)
    BY <1>3, <2>1
  <2> QED BY <1>1, <1>3, <1>4, <2>2, <2>4, <2>5, RestQuiet, PlacesApart
<1>6. CASE ~(closed \/ handshake_state # "Complete" \/ IsSuspended)
  <2>1. pc = "reading"
    BY <1>6
  <2>2. Steps("read", "reading")
    BY <1>3, <2>1
  <2> QED BY <1>1, <1>3, <1>4, <1>6, <2>2, RestStep DEF Moving, EndPlaces, ReadingPlaces, ClosePlaces
<1> QED BY <1>5, <1>6

LEMMA BatchedKeeps == ASSUME Shape, Rest, Batched PROVE Rest'
<1> DEFINE pc == IF IsSuspended THEN AfterReads ELSE "reading"
<1>1. Stacked /\ Layered /\ stack # <<>> /\ Top.pc = "batched" /\ outcome' = outcome
  BY AtKnown DEF Shape, Rest, Batched
<1>2. MovedTo(pc, "none")
  BY <1>1, BatchedMoves
<1>3. Layered' /\ Steps("batched", pc)
  <2> HIDE DEF pc
  <2> QED BY <1>1, <1>2, MovedSteps
<1>4. Typed' /\ Calm /\ (IsSuspended => IsSuspended')
  BY CodeCalm
<1>5. CASE IsSuspended
  <2>1. Steps("batched", AfterReads)
    BY <1>3, <1>5
  <2>2. "batched" \notin ClosePlaces
    BY DEF ClosePlaces
  <2> QED BY <1>1, <1>3, <1>4, <1>5, <2>1, <2>2, RestQuiet, PlacesApart
<1>6. CASE ~IsSuspended
  <2>1. Steps("batched", "reading")
    BY <1>3, <1>6
  <2>2. handshake_state = "Complete"
    <3>1. Place = "batched"
      BY <1>1, MainPlace DEF SidePlaces
    <3> QED BY <3>1 DEF Rest, Progress
  <2> QED BY <1>1, <1>3, <1>4, <2>1, <2>2, RestStep DEF Moving, EndPlaces, ReadingPlaces, ClosePlaces
<1> QED BY <1>5, <1>6

\* SSL has nothing more to give: it has taken all its input.
LEMMA WantMoreKeeps == ASSUME Shape, Rest, WantMore PROVE Rest'
<1>1. /\ Stacked /\ Layered /\ stack # <<>> /\ Top.pc = "reading" /\ outcome' = outcome
      /\ rbio = 0 /\ rbio' = rbio
  BY AtKnown DEF Shape, Rest, WantMore
<1>2. PICK next \in {AfterReads, "send_retry"} : MovedTo(next, "data") \/ MovedTo(next, "none")
  BY <1>1, WantMoreMoves
<1>3. Layered' /\ Steps("reading", next)
  BY <1>1, <1>2, MovedSteps
<1>4. Typed' /\ Calm /\ (IsSuspended => IsSuspended')
  BY CodeCalm
<1>5. Settled'
  BY <1>1 DEF Settled
<1>6. "reading" \notin ClosePlaces /\ "send_retry" \notin Moving \cup EndPlaces \cup ReadingPlaces
  BY DEF ClosePlaces, Moving, EndPlaces, ReadingPlaces
<1> QED BY <1>1, <1>2, <1>3, <1>4, <1>5, <1>6, RestQuiet, PlacesApart

LEMMA ProcessPendingKeeps == ASSUME Shape, Rest, ProcessPending PROVE Rest'
<1>1. Stacked /\ Layered /\ stack # <<>> /\ Top.pc = "drain" /\ outcome' = outcome
  BY AtKnown DEF Shape, Rest, ProcessPending
<1>2. Layered' /\ Steps("drain", "read")
  BY <1>1, ProcessPendingMoves, MovedSteps
<1>3. Typed' /\ Calm /\ (IsSuspended => IsSuspended')
  BY CodeCalm
<1> QED BY <1>1, <1>2, <1>3, RestStep DEF Moving, EndPlaces, ReadingPlaces, ClosePlaces

LEMMA CompleteWithFlushKeeps == ASSUME Shape, Rest, CompleteWithFlush PROVE Rest'
<1>1. Stacked /\ Flags /\ Layered /\ stack # <<>> /\ Top.pc = "completing"
  BY AtKnown DEF Shape, Rest, CompleteWithFlush
<1>2. Typed' /\ Calm /\ (IsSuspended => IsSuspended')
  BY CodeCalm
<1>3. CASE Told("done", "close_reads")
  <2>1. "close_reads" \in ClosePlaces
    BY DEF ClosePlaces
  <2> QED BY <1>1, <1>2, <1>3, <2>1, ToldKeeps
<1>4. CASE MovedTo("flushed", "data") /\ outcome' = outcome
  <2>1. Layered' /\ Steps("completing", "flushed")
    BY <1>1, <1>4, MovedSteps
  <2> QED BY <1>2, <1>4, <2>1, RestStep DEF Moving, EndPlaces, ReadingPlaces, ClosePlaces
<1> QED BY <1>1, <1>3, <1>4, CompleteWithFlushMoves

LEMMA FlushedKeeps == ASSUME Shape, Rest, Flushed PROVE Rest'
<1>1. Stacked /\ Flags /\ Layered /\ stack # <<>> /\ Top.pc = "flushed"
  BY AtKnown DEF Shape, Rest, Flushed, At
<1>2. Typed' /\ Calm /\ (IsSuspended => IsSuspended')
  BY CodeCalm
<1>3. CASE \E signal \in {"error", "done"} : Told(signal, "close_reads")
  <2>1. "close_reads" \in ClosePlaces
    BY DEF ClosePlaces
  <2> QED BY <1>1, <1>2, <1>3, <2>1, ToldKeeps
<1>4. CASE MovedTo(AfterReads, "none") /\ outcome' = outcome
  <2>1. Layered' /\ Steps("flushed", AfterReads)
    BY <1>1, <1>4, MovedSteps
  <2>2. "flushed" \notin Moving \cup ClosePlaces
    BY DEF Moving, ClosePlaces
  <2> QED BY <1>2, <1>4, <2>1, <2>2, RestQuiet, PlacesApart
<1> QED BY <1>1, <1>3, <1>4, FlushedMoves

LEMMA CloseReadsKeeps == ASSUME Shape, Rest, CloseReads PROVE Rest'
<1>1. Stacked /\ Layered /\ stack # <<>> /\ Top.pc = "close_reads" /\ outcome' = outcome
  BY AtKnown DEF Shape, Rest, CloseReads
<1>2. Layered' /\ Steps("close_reads", AfterReads) /\ closed'
  BY <1>1, CloseReadsMoves, MovedSteps
<1>3. Typed' /\ Calm /\ (IsSuspended => IsSuspended')
  BY CodeCalm
<1>4. "close_reads" \notin Moving
  BY DEF Moving
<1> QED BY <1>1, <1>2, <1>3, <1>4, RestQuiet, PlacesApart

\* DoClose runs only for a closed stage.
LEMMA DoCloseKeeps == ASSUME Shape, Rest, DoClose PROVE Rest'
<1> DEFINE pc == IF finalized \/ IsSuspended THEN "clear" ELSE "last_data"
<1>1. Stacked /\ Flags /\ Layered /\ stack = <<>>
  BY DEF Shape, Rest, DoClose
<1>2. Stacked' /\ Len(stack') = 1 /\ Now("DoClose", pc, "none") /\ closed
  BY <1>1, DoCloseMoves
<1>3. Typed' /\ Calm
  BY CodeCalm
<1>4. closed' /\ Settled'
  BY <1>2, <1>3 DEF Calm, Settled
<1>5. Layered' /\ Place' = pc
  <2>1. stack' \in Seq(Frames) /\ stack' # <<>> /\ stack'[1].method = "DoClose" /\ stack'[1].pc = pc
    BY <1>2 DEF Stacked, Now, Top
  <2>2. Place' = pc
    BY <2>1, PlaceOfTop DEF Place, Side
  <2>3. Layered'
    BY <1>2 DEF Layered
  <2> QED BY <2>2, <2>3
<1>6. Place = "idle"
  BY <1>1 DEF Place, PlaceIn
<1>7. pc \notin Moving \cup EndPlaces \cup ReadingPlaces /\ pc # "handshake"
  BY DEF Moving, EndPlaces, ReadingPlaces
<1> HIDE DEF pc
<1>8. Conserved' /\ Progress'
  BY <1>3, <1>4, <1>5, <1>6, <1>7, NewPlaceKeeps DEF Rest
<1> QED BY <1>3, <1>4, <1>5, <1>8 DEF Rest, Closing

LEMMA DoCloseDataKeeps == ASSUME Shape, Rest, DoCloseData PROVE Rest'
<1>1. Stacked /\ Layered /\ stack # <<>> /\ Top.pc = "last_data" /\ outcome' = outcome
  BY AtKnown DEF Shape, Rest, DoCloseData
<1>2. Layered' /\ Steps("last_data", "last_done")
  BY <1>1, DoCloseDataMoves, MovedSteps
<1>3. Typed' /\ Calm /\ (IsSuspended => IsSuspended')
  BY CodeCalm
<1> QED BY <1>1, <1>2, <1>3, RestQuiet DEF Moving, EndPlaces, ReadingPlaces, ClosePlaces

LEMMA DoCloseDoneKeeps == ASSUME Shape, Rest, DoCloseDone PROVE Rest'
<1>1. Stacked /\ Flags /\ Layered /\ stack # <<>> /\ Top.pc = "last_done"
  BY AtKnown DEF Shape, Rest, DoCloseDone
<1>2. Typed' /\ Calm /\ (IsSuspended => IsSuspended')
  BY CodeCalm
<1>3. CASE Told("done", "clear")
  BY <1>1, <1>2, <1>3, DoCloseDoneMoves, ToldKeeps
<1>4. CASE MovedTo("clear", "none") /\ outcome' = outcome
  <2>1. Layered' /\ Steps("last_done", "clear")
    BY <1>1, <1>4, MovedSteps
  <2> QED BY <1>2, <1>4, <2>1, RestQuiet DEF Moving, EndPlaces, ReadingPlaces, ClosePlaces
<1> QED BY <1>1, <1>3, <1>4, DoCloseDoneMoves

LEMMA DoCloseClearKeeps == ASSUME Shape, Rest, DoCloseClear PROVE Rest'
<1>1. Stacked /\ Layered /\ stack # <<>> /\ Top.pc = "clear" /\ outcome' = outcome
  BY AtKnown DEF Shape, Rest, DoCloseClear
<1>2. Layered' /\ Steps("clear", "exit")
  BY <1>1, DoCloseClearMoves, MovedSteps
<1>3. Typed' /\ Calm /\ (IsSuspended => IsSuspended')
  BY CodeCalm
<1> QED BY <1>1, <1>2, <1>3, RestQuiet DEF Moving, EndPlaces, ReadingPlaces, ClosePlaces

-----------------------------------------------------------------------------
(***************************************************************************)
(* ... by the steps every stage has, and by the calls ...                  *)
(***************************************************************************)
LEMMA BaseCalm ==
    ASSUME Rest, Base
    PROVE  Typed' /\ Calm /\ outcome' = outcome
<1>1. Typed' /\ UNCHANGED <<received, rbio, delivered, pending_read_chain, server, handshake_state>>
      /\ input' = input /\ outcome' = outcome
  BY TypedBase DEF Rest, Base, reading, tls
<1>2. (closed => closed') /\ (done_pending' => done_pending)
  BY DEF Base, CommonNext, Suspend, Resume, Close, Return, Exit, CloseStep, ResumeUpstream,
         CompleteDeferred, RequestClose, lifecycle
<1>3. Ended' <=> Ended
  BY <1>1 DEF Ended, Total
<1>4. done_pending' => Ended'
  BY <1>2, <1>3 DEF Rest, Progress
<1>5. delivered + pending_read_chain <= delivered + pending_read_chain
  BY DEF Rest, Typed
<1> QED BY <1>1, <1>2, <1>3, <1>4, <1>5 DEF Calm

LEMMA StackSame ==
    ASSUME Rest, stack' = stack, Typed', Calm, IsSuspended => IsSuspended',
           outcome' # "none" => outcome # "none"
    PROVE  Rest'
<1>1. Place' = Place
  BY DEF Place
<1>2. Conserved' /\ Progress'
  BY <1>1, SamePlaceKeeps DEF Rest
<1>3. Layered' /\ Closing'
  BY DEF Rest, Layered, Closing, Calm
<1> QED BY <1>2, <1>3 DEF Rest

LEMMA SuspendKeeps == ASSUME Rest, Base, Suspend PROVE Rest'
<1>1. Typed' /\ Calm /\ outcome' = outcome /\ suspend_count \in Nat
  BY BaseCalm DEF Rest, Typed
<1>2. stack' = stack /\ suspend_count' = suspend_count + 1
  BY DEF Suspend
<1>3. IsSuspended'
  BY <1>1, <1>2 DEF IsSuspended
<1> QED BY <1>1, <1>2, <1>3, StackSame

LEMMA CloseKeeps == ASSUME Rest, Base, Close PROVE Rest'
<1>1. Typed' /\ Calm /\ outcome' = outcome
  BY BaseCalm
<1>2. stack' = stack /\ IsSuspended' = IsSuspended
  BY DEF Close, backpressure, IsSuspended
<1> QED BY <1>1, <1>2, StackSame

LEMMA ReturnKeeps == ASSUME Shape, Rest, Base, Return PROVE Rest'
<1>1. Typed' /\ Calm /\ outcome' = outcome
  BY BaseCalm
<1>2. Stacked /\ Layered /\ stack # <<>> /\ MovedTo(Top.pc, "none")
  BY ReturnStep DEF Shape, Rest
<1>3. Layered' /\ Steps(Top.pc, Top.pc)
  BY <1>2, MovedSteps
<1>4. Place' = Place
  BY <1>3 DEF Steps
<1>5. IsSuspended' = IsSuspended
  BY DEF Return, backpressure, IsSuspended
<1>6. Conserved' /\ Progress'
  BY <1>1, <1>4, <1>5, SamePlaceKeeps DEF Rest
<1>7. Closing'
  BY <1>1, <1>3 DEF Rest, Closing, Steps, Calm
<1> QED BY <1>1, <1>3, <1>6, <1>7 DEF Rest

LEMMA ExitKeeps == ASSUME Shape, Rest, Base, Exit PROVE Rest'
<1>1. Typed' /\ Calm /\ outcome' = outcome
  BY BaseCalm
<1>2. /\ Stacked /\ Layered /\ stack # <<>> /\ Top.pc = "exit" /\ stack' = Tail(stack)
      /\ closed => closed'
  BY ExitStep DEF Shape, Rest
<1>3. IsSuspended' = IsSuspended
  BY DEF Exit, backpressure, IsSuspended
<1>4. /\ Layered'
      /\ AboutToClose(stack) => AboutToClose(stack')
      /\ \/ Top.method \in Side /\ Place' = Place
         \/ Top.method \notin Side /\ Place = "exit" /\ Place' \in {"idle", "resumed"}
  BY <1>2, Leaves DEF ClosePlaces
<1>5. Closing'
  BY <1>1, <1>4 DEF Rest, Closing, Calm
<1>6. CASE Place' = Place
  BY <1>1, <1>3, <1>4, <1>5, <1>6, SamePlaceKeeps DEF Rest
<1>7. CASE Place = "exit" /\ Place' \in {"idle", "resumed"}
  <2>1. Place # "handshake" /\ Place' # "handshake" /\ Place' \notin Moving \cup EndPlaces \cup ReadingPlaces
    BY <1>7 DEF Moving, EndPlaces, ReadingPlaces
  <2>2. IsSuspended' \/ Settled'
    <3>1. IsSuspended \/ Settled
      BY <1>7 DEF Rest, Progress, Moving
    <3> QED BY <1>1, <1>3, <3>1 DEF Calm, Settled
  <2>3. Conserved' /\ Progress'
    BY <1>1, <2>1, <2>2, NewPlaceKeeps DEF Rest
  <2> QED BY <1>1, <1>4, <1>5, <2>3 DEF Rest
<1> QED BY <1>4, <1>6, <1>7

LEMMA CloseStepKeeps == ASSUME Shape, Rest, Base, CloseStep PROVE Rest'
<1>1. Typed' /\ Calm /\ outcome' = outcome
  BY BaseCalm
<1>2. Stacked /\ Layered /\ stack # <<>> /\ Top.pc = "close" /\ MovedTo("exit", "none") /\ closed'
  BY CloseMoves DEF Shape, Rest
<1>3. Layered' /\ Steps("close", "exit")
  BY <1>2, MovedSteps
<1>4. IsSuspended' = IsSuspended
  BY DEF CloseStep, backpressure, IsSuspended
<1> QED BY <1>1, <1>2, <1>3, <1>4, RestQuiet DEF Moving, EndPlaces, ReadingPlaces, ClosePlaces

LEMMA ResumeUpstreamKeeps == ASSUME Shape, Rest, Base, ResumeUpstream PROVE Rest'
<1>1. Typed' /\ Calm /\ outcome' = outcome
  BY BaseCalm
<1>2. /\ Stacked /\ Layered /\ stack # <<>> /\ Top.pc = "drained"
      /\ MovedTo("resumed", "none") \/ MovedTo("resumed", "resume")
  BY ResumeUpstreamMoves DEF Shape, Rest
<1>3. Layered' /\ Steps("drained", "resumed")
  BY <1>2, MovedSteps
<1>4. IsSuspended' = IsSuspended
  BY DEF ResumeUpstream, IsSuspended
<1> QED BY <1>1, <1>3, <1>4, RestQuiet DEF Moving, EndPlaces, ReadingPlaces, ClosePlaces

\* A completion that was held back runs when the reads are done.
LEMMA CompleteDeferredKeeps == ASSUME Shape, Rest, Base, CompleteDeferred PROVE Rest'
<1>1. Typed' /\ Calm /\ outcome' = outcome
  BY BaseCalm
<1>2. /\ Stacked /\ Layered /\ stack # <<>> /\ Top.pc = "resumed"
      /\ \/ done_pending /\ ~IsSuspended /\ MovedTo("flush", "none")
         \/ MovedTo("exit", "none")
  BY CompleteDeferredMoves DEF Shape, Rest
<1>3. IsSuspended' = IsSuspended
  BY DEF CompleteDeferred, backpressure, IsSuspended
<1>4. CASE MovedTo("exit", "none")
  <2>1. Layered' /\ Steps("resumed", "exit")
    BY <1>2, <1>4, MovedSteps
  <2> QED BY <1>1, <1>3, <2>1, RestQuiet DEF Moving, EndPlaces, ReadingPlaces, ClosePlaces
<1>5. CASE done_pending /\ ~IsSuspended /\ MovedTo("flush", "none")
  <2>1. Layered' /\ Steps("resumed", "flush")
    BY <1>2, <1>5, MovedSteps
  <2>2. Place = "resumed" /\ ~AboutToClose(stack)
    BY <1>2, MainPlace DEF SidePlaces
  <2>3. Settled /\ Ended
    BY <1>5, <2>2 DEF Rest, Progress, Moving
  <2>4. Settled' /\ Ended'
    BY <1>1, <2>3 DEF Calm, Settled
  <2>5. Place' \in {"flush", "resumed"}
    BY <2>1, <2>2 DEF Steps
  <2>6. Place # "handshake" /\ Place' # "handshake" /\ Place' \notin ReadingPlaces
    BY <2>2, <2>5 DEF ReadingPlaces
  <2>7. Conserved' /\ Progress'
    BY <1>1, <2>4, <2>6, NewPlaceKeeps DEF Rest
  <2>8. Closing'
    BY <1>1, <2>2 DEF Rest, Closing, Calm
  <2> QED BY <1>1, <2>1, <2>7, <2>8 DEF Rest
<1> QED BY <1>2, <1>4, <1>5

\* Resume() runs on its own, and drains an open stage.
LEMMA ResumeKeeps == ASSUME NestedResume = FALSE, Shape, Rest, Base, Resume PROVE Rest'
<1>1. Typed' /\ Calm /\ outcome' = outcome
  BY BaseCalm
<1>2. /\ Stacked /\ Layered /\ stack = <<>> /\ suspend_count \in Nat /\ suspend_count > 0
      /\ suspend_count' = suspend_count - 1
  BY DEF Shape, Rest, Resume, Typed
<1>3. CASE stack' = stack /\ suspend_count # 1
  <2>1. IsSuspended'
    BY <1>2, <1>3 DEF IsSuspended
  <2> QED BY <1>1, <1>3, <2>1, StackSame
<1>4. CASE /\ Stacked' /\ Len(stack') = Len(stack) + 1
           /\ (closed /\ Now("Resume", "drained", "none")) \/ Now("Resume", "drain", "none")
  <2>1. PICK pc : Now("Resume", pc, "none") /\ (pc = "drain" \/ (pc = "drained" /\ closed))
    BY <1>4
  <2>2. Len(stack') = 1
    BY <1>2, <1>4
  <2>3. Layered' /\ Place' = pc
    <3>1. stack' \in Seq(Frames) /\ stack' # <<>> /\ stack'[1].method = "Resume" /\ stack'[1].pc = pc
      BY <1>4, <2>1 DEF Stacked, Now, Top
    <3>2. Place' = pc
      BY <3>1, PlaceOfTop DEF Place, Side
    <3> QED BY <2>2, <3>2 DEF Layered
  <2>4. Place = "idle" /\ ~AboutToClose(stack)
    BY <1>2 DEF Place, PlaceIn, AboutToClose
  <2>5. Place' \notin Moving => Settled'
    BY <1>1, <2>1, <2>3 DEF Moving, Settled, Calm
  <2>6. Place' # "handshake" /\ Place' \notin EndPlaces \cup ReadingPlaces
    BY <2>1, <2>3 DEF EndPlaces, ReadingPlaces
  <2>7. Conserved' /\ Progress'
    BY <1>1, <2>4, <2>5, <2>6, NewPlaceKeeps DEF Rest
  <2>8. Closing'
    BY <1>1, <2>4 DEF Rest, Closing, Calm
  <2> QED BY <1>1, <2>3, <2>7, <2>8 DEF Rest
<1> QED BY <1>2, <1>3, <1>4, ResumeEnters

LEMMA BaseKeeps == ASSUME NestedResume = FALSE, Shape, Rest, Base PROVE Rest'
  BY SuspendKeeps, CloseKeeps, ReturnKeeps, ExitKeeps, CloseStepKeeps, ResumeUpstreamKeeps,
     CompleteDeferredKeeps, ResumeKeeps DEF Base, CommonNext

LEMMA UpstreamFinds ==
    ASSUME Shape, Rest, UpstreamRuns
    PROVE  /\ Place # "handshake" /\ ~AboutToClose(stack)
           /\ IsSuspended \/ Settled
           /\ handshake_state # "Complete" => Settled
<1>1. Place \in {"idle", "resumed"} /\ ~AboutToClose(stack)
  BY UpstreamPlace DEF Shape
<1>2. Place \notin Moving /\ Place # "handshake"
  BY <1>1 DEF Moving
<1> QED BY <1>1, <1>2 DEF Rest, Progress, Conserved

LEMMA StartHandshakeKeeps == ASSUME Shape, Rest, StartHandshake PROVE Rest'
<1>1. Stacked /\ Layered /\ UpstreamRuns /\ "StartHandshake" \notin Side
  BY DEF Shape, Rest, StartHandshake, UpstreamRuns, Inside, Side
<1>2. Layered' /\ Place' = "send"
  BY <1>1, StartHandshakeEnters, MainEnters
<1>3. Typed'
  BY CallsKeepTyped DEF Rest
<1>4. /\ UNCHANGED <<received, rbio, delivered, pending_read_chain, server, suspend_count>>
      /\ UNCHANGED <<input, outcome, closed, done_pending>>
      /\ handshake_state = "NotStarted" /\ handshake_state' = "InProgress"
  BY DEF StartHandshake, unmoved, reading, backpressure
<1>5. Calm
  <2>1. Ended' <=> Ended
    BY <1>4 DEF Ended, Total
  <2>2. delivered + pending_read_chain <= delivered + pending_read_chain
    BY DEF Rest, Typed
  <2> QED BY <1>4, <2>1, <2>2 DEF Calm, Rest, Progress
<1>6. Place # "handshake" /\ ~AboutToClose(stack) /\ (IsSuspended \/ Settled)
  BY <1>1, UpstreamFinds
<1>7. IsSuspended' \/ Settled'
  BY <1>4, <1>6 DEF IsSuspended, Settled
<1>8. Place' # "handshake" /\ Place' \notin Moving \cup EndPlaces \cup ReadingPlaces
  BY <1>2 DEF Moving, EndPlaces, ReadingPlaces
<1>9. Conserved' /\ Progress'
  BY <1>3, <1>5, <1>6, <1>7, <1>8, NewPlaceKeeps DEF Rest
<1>10. Closing'
  BY <1>4, <1>6 DEF Rest, Closing
<1> QED BY <1>2, <1>3, <1>9, <1>10 DEF Rest

\* The completion comes when all the input was read, or is held back.
LEMMA OnDoneKeeps == ASSUME Shape, Rest, OnDone PROVE Rest'
<1>1. Stacked /\ Layered /\ UpstreamRuns /\ "OnDone" \notin Side
  BY DEF Shape, Rest, OnDone, Side
<1>2. Typed'
  BY CallsKeepTyped DEF Rest
<1>3. /\ UNCHANGED <<received, rbio, delivered, pending_read_chain, server, suspend_count>>
      /\ UNCHANGED <<outcome, closed, handshake_state>> /\ input' = "done"
  BY DEF OnDone, reading, backpressure, tls
<1>4. Calm /\ Ended'
  <2>1. Ended'
    BY <1>3 DEF Ended
  <2>2. delivered + pending_read_chain <= delivered + pending_read_chain
    BY DEF Rest, Typed
  <2> QED BY <1>3, <2>1, <2>2 DEF Calm
<1>5. IsSuspended' = IsSuspended
  BY <1>3 DEF IsSuspended
<1>6. CASE IsSuspended /\ stack' = stack
  BY <1>2, <1>3, <1>4, <1>5, <1>6, StackSame
<1>7. CASE ~IsSuspended /\ In("OnDone", "completing")
  <2>1. Layered' /\ Place' = "completing"
    BY <1>1, <1>7, MainEnters
  <2>2. Place # "handshake" /\ ~AboutToClose(stack) /\ Settled
    BY <1>1, <1>7, UpstreamFinds
  <2>3. Settled'
    BY <1>4, <2>2 DEF Calm, Settled
  <2>4. Place' # "handshake" /\ Place' \notin ReadingPlaces
    BY <2>1 DEF ReadingPlaces
  <2>5. Conserved' /\ Progress'
    BY <1>2, <1>4, <2>2, <2>3, <2>4, NewPlaceKeeps DEF Rest
  <2>6. Closing'
    BY <1>3, <2>2 DEF Rest, Closing
  <2> QED BY <1>2, <2>1, <2>5, <2>6 DEF Rest
<1> QED BY <1>1, <1>6, <1>7, OnDoneEnters

\* Write and OnError may come at any time and move no input.
LEMMA SideCallsKeep == ASSUME Shape, Rest, Write \/ OnError PROVE Rest'
<1>1. Stacked /\ Layered
  BY DEF Shape, Rest
<1>2. \E method \in Side, pc \in {"encrypt", "fail"} : In(method, pc)
  BY <1>1, WriteEnters, OnErrorEnters DEF Side
<1>3. Layered' /\ Place' = Place /\ (AboutToClose(stack) => AboutToClose(stack'))
  BY <1>1, <1>2, SideEnters
<1>4. Typed'
  BY CallsKeepTyped DEF Rest
<1>5. /\ UNCHANGED <<received, rbio, delivered, pending_read_chain, server, suspend_count>>
      /\ UNCHANGED <<outcome, closed, handshake_state, done_pending>>
      /\ input' = input \/ input = "open"
  BY DEF Write, OnError, reading, backpressure, tls, unmoved
<1>6. Calm
  <2>1. Ended => Ended'
    BY <1>5 DEF Ended, Total
  <2>2. delivered + pending_read_chain <= delivered + pending_read_chain
    BY DEF Rest, Typed
  <2> QED BY <1>5, <2>1, <2>2 DEF Calm, Rest, Progress
<1>7. IsSuspended' = IsSuspended
  BY <1>5 DEF IsSuspended
<1>8. Conserved' /\ Progress'
  BY <1>3, <1>4, <1>6, <1>7, SamePlaceKeeps DEF Rest
<1>9. Closing'
  BY <1>3, <1>5 DEF Rest, Closing
<1> QED BY <1>3, <1>4, <1>8, <1>9 DEF Rest

\* Data comes only when the stage has read what came before, or holds it back.
LEMMA OnDataKeeps == ASSUME Shape, Rest, NEW n \in 1..(Hs + Records + 1), OnData(n) PROVE Rest'
<1>1. Stacked /\ Layered /\ UpstreamRuns /\ "Read" \notin Side
  BY DEF Shape, Rest, OnData, Side
<1>2. Typed'
  <2>1. Deliver
    BY DEF Deliver
  <2> QED BY <2>1, CallsKeepTyped DEF Rest
<1>3. /\ UNCHANGED <<delivered, pending_read_chain, server, suspend_count, input>>
      /\ UNCHANGED <<outcome, closed, handshake_state, done_pending>>
      /\ handshake_state # "NotStarted" /\ input = "open" /\ received + n <= Available
  BY DEF OnData, backpressure, tls, unmoved
<1>4. /\ Place # "handshake" /\ ~AboutToClose(stack) /\ (IsSuspended \/ Settled)
      /\ handshake_state # "Complete" => Settled
  BY <1>1, UpstreamFinds
<1>5. Closing'
  BY <1>3, <1>4 DEF Rest, Closing
<1>6. CASE In("Read", "fail") /\ UNCHANGED <<received, rbio>>
  <2>1. Layered' /\ Place' = "fail"
    BY <1>1, <1>6, MainEnters
  <2>2. Calm
    <3>1. Ended' <=> Ended
      BY <1>3, <1>6 DEF Ended, Total
    <3>2. delivered + pending_read_chain <= delivered + pending_read_chain
      BY DEF Rest, Typed
    <3> QED BY <1>3, <1>6, <3>1, <3>2 DEF Calm, Rest, Progress
  <2>3. Place' # "handshake" /\ Place' \in Moving /\ Place' \notin EndPlaces \cup ReadingPlaces
    BY <2>1 DEF Moving, EndPlaces, ReadingPlaces
  <2>4. Conserved' /\ Progress'
    BY <1>2, <1>4, <2>2, <2>3, NewPlaceKeeps DEF Rest
  <2> QED BY <1>2, <1>5, <2>1, <2>4 DEF Rest
<1>7. CASE /\ received' = received + n /\ rbio' = rbio + n
           /\ \/ handshake_state = "Complete" /\ In("Read", "read")
              \/ handshake_state # "Complete" /\ In("Read", "handshake")
  <2>1. Layered' /\ Place' = IF handshake_state = "Complete" THEN "read" ELSE "handshake"
    BY <1>1, <1>7, MainEnters
  <2>2. /\ received \in Nat /\ rbio \in Nat /\ n \in Nat /\ n >= 1 /\ Hs \in Nat
        /\ Available \in Nat /\ Available <= Total /\ Total \in Nat
    BY StreamKnown DEF Rest, Typed
  <2>3. Taken' = Taken /\ rbio' > 0
    BY <1>7, <2>2 DEF Taken
  <2>4. ~Ended
    <3>1. received # Total
      BY <1>3, <2>2
    <3> QED BY <1>3, <3>1 DEF Ended
  <2>5. ~done_pending'
    BY <1>3, <2>4 DEF Rest, Progress
  <2>6. handshake_state # "Complete" => handshake_state = "InProgress"
    BY <1>3 DEF Rest, Typed
  <2>7. Conserved'
    <3>1. ASSUME handshake_state' # "Complete"
          PROVE  /\ delivered' = 0 /\ pending_read_chain' = 0
                 /\ Taken' < Hs \/ server' = "quit"
                 /\ Place' = "handshake"
      BY <1>3, <2>1, <2>3, <3>1 DEF Rest, Conserved
    <3>2. ASSUME handshake_state' = "Complete"
          PROVE  /\ server' # "quit"
                 /\ delivered' + pending_read_chain' <= Taken' - Hs
                 /\ delivered' + pending_read_chain' <= Records
                 /\ outcome' = "none" /\ ~closed' =>
                       \/ delivered' + pending_read_chain' = Taken' - Hs
                       \/ delivered' + pending_read_chain' = Records /\ Records <= Taken' - Hs
      BY <1>3, <2>3, <3>2 DEF Rest, Conserved
    <3> QED BY <3>1, <3>2 DEF Conserved
  <2>8. Place' \in Moving /\ Place' \notin EndPlaces \cup ReadingPlaces
    BY <2>1 DEF Moving, EndPlaces, ReadingPlaces
  <2>9. Place' = "handshake" => handshake_state' = "InProgress"
    BY <1>3, <2>1, <2>6
  <2>10. Progress'
    BY <2>3, <2>5, <2>8, <2>9 DEF Progress, EndPlaces, ReadingPlaces
  <2> QED BY <1>2, <1>5, <2>1, <2>7, <2>10 DEF Rest
<1> QED BY <1>1, <1>6, <1>7, OnDataEnters

-----------------------------------------------------------------------------
(***************************************************************************)
(* ... and by the steps in which SSL takes input.                          *)
(***************************************************************************)
LEMMA ProcessHandshakeKeeps == ASSUME Shape, Rest, ProcessHandshake PROVE Rest'
<1> DEFINE units == Min({rbio, Hs - Taken})
<1>1. /\ Stacked /\ Layered /\ stack # <<>> /\ Top.pc = "handshake" /\ ~NextIsNotify
      /\ rbio' = rbio - units /\ wbio_flights' = wbio_flights + units
      /\ UNCHANGED <<received, delivered, pending_read_chain, flights, server, suspend_count>>
      /\ UNCHANGED <<outcome, closed, done_pending, input>>
      /\ (Taken + units = Hs /\ handshake_state' = "Complete")
         \/ (Taken + units # Hs /\ handshake_state' = handshake_state)
  BY AtKnown DEF Shape, Rest, ProcessHandshake, lifecycle, backpressure
<1>2. Place = "handshake" /\ Top.method \notin Side /\ ~AboutToClose(stack)
  BY <1>1, MainPlace DEF SidePlaces
<1>3. rbio > 0 /\ handshake_state = "InProgress"
  BY <1>2 DEF Rest, Progress
<1>4. /\ rbio \in Nat /\ received \in Nat /\ rbio <= received /\ received <= Total
      /\ Hs \in Nat /\ Taken \in Nat /\ Taken + rbio = received /\ Records \in Nat
      /\ server = "quit" => Total = 1
      /\ wbio_flights \in Nat
  BY StreamKnown DEF Rest, Typed
<1>5. server # "quit" /\ Taken < Hs /\ delivered = 0 /\ pending_read_chain = 0
  <2>1. /\ delivered = 0 /\ pending_read_chain = 0
        /\ Taken < Hs \/ server = "quit"
    BY <1>3 DEF Rest, Conserved
  <2>2. server # "quit"
    <3> SUFFICES ASSUME server = "quit" PROVE FALSE
      OBVIOUS
    <3>1. Total = 1 /\ Taken + 1 = Total
      BY <1>3, <1>4
    <3> QED BY <1>1, <3>1 DEF NextIsNotify
  <2> QED BY <2>1, <2>2
<1>6. units = IF rbio <= Hs - Taken THEN rbio ELSE Hs - Taken
  BY <1>4, LeastOfTwo
<1> HIDE DEF units
<1>7. units \in Nat /\ units <= rbio /\ units <= Hs - Taken /\ (units = rbio \/ units = Hs - Taken)
  BY <1>4, <1>5, <1>6
<1>8. rbio' \in Nat /\ rbio' <= received /\ Taken' = Taken + units
  BY <1>1, <1>4, <1>7 DEF Taken
<1>9. Typed'
  <2>1. Total' = Total
    BY <1>1 DEF Total
  <2>2. wbio_flights' \in Nat
    BY <1>1, <1>4, <1>7
  <2> QED BY <1>1, <1>4, <1>8, <2>1, <2>2 DEF Rest, Typed
<1>11. Ended' <=> Ended
  BY <1>1 DEF Ended, Total
<1>12. Closing'
  BY <1>1, <1>2 DEF Rest, Closing
<1>13. CASE handshake_state' = "Complete"
  <2>1. "Handshake" \notin Side /\ Stacked' /\ Stays /\ Now("Handshake", "send_first", "none")
    BY <1>1, <1>3, <1>13, ProcessHandshakeMoves DEF Side
  <2>2. Layered' /\ Place' = "send_first"
    BY <1>1, <1>2, <2>1, MainMoves
  <2>3. Taken' = Hs
    BY <1>1, <1>3, <1>8, <1>13
  <2>4. Conserved'
    BY <1>1, <1>4, <1>5, <1>13, <2>3 DEF Conserved
  <2>5. Progress'
    BY <1>1, <1>11, <1>13, <2>2 DEF Rest, Progress, Moving
  <2> QED BY <1>9, <1>12, <2>2, <2>4, <2>5 DEF Rest
<1>14. CASE handshake_state' = handshake_state /\ Taken + units # Hs
  <2>1. "Read" \notin Side /\ Stacked' /\ Stays /\ Now("Read", "send", "none")
    BY <1>1, <1>3, <1>14, ProcessHandshakeMoves DEF Side
  <2>2. Layered' /\ Place' = "send"
    BY <1>1, <1>2, <2>1, MainMoves
  <2>3. rbio' = 0 /\ Taken' < Hs
    BY <1>1, <1>4, <1>7, <1>8, <1>14
  <2>4. Settled'
    BY <2>3 DEF Settled
  <2>5. Conserved'
    BY <1>1, <1>3, <1>5, <1>14, <2>3, <2>4 DEF Conserved
  <2>6. Progress'
    BY <1>1, <1>11, <2>2, <2>4 DEF Rest, Progress
  <2> QED BY <1>9, <1>12, <2>2, <2>5, <2>6 DEF Rest
<1> QED BY <1>1, <1>13, <1>14

\* A close_notify is the last unit of the stream.
LEMMA NotifyTaken ==
    ASSUME Typed, NextIsNotify, rbio > 0, rbio' = rbio - 1, UNCHANGED <<received, server, input>>
    PROVE  rbio = 1 /\ rbio' = 0 /\ received = Total /\ Ended' /\ Taken' = Taken + 1 /\ Taken + 1 = Total
<1>1. /\ rbio \in Nat /\ received \in Nat /\ received <= Total /\ Total \in Nat
      /\ Taken \in Nat /\ Taken + rbio = received /\ Taken + 1 = Total /\ server # "eof"
  BY StreamKnown DEF Typed, NextIsNotify
<1>2. rbio = 1 /\ received = Total
  BY <1>1
<1>3. Taken' = Taken + 1
  BY <1>1 DEF Taken
<1>4. Ended'
  BY <1>1, <1>2 DEF Ended, Total
<1> QED BY <1>1, <1>2, <1>3, <1>4

\* The server quits instead of its handshake.
LEMMA HandshakeQuitKeeps == ASSUME Shape, Rest, HandshakeQuit PROVE Rest'
<1> DEFINE pc == IF IsSuspended THEN "exit" ELSE "completing"
<1>1. /\ Stacked /\ Layered /\ Typed /\ stack # <<>> /\ Top.pc = "handshake" /\ NextIsNotify
      /\ rbio' = rbio - 1
      /\ UNCHANGED <<received, delivered, pending_read_chain, flights, wbio_flights, suspend_count>>
      /\ UNCHANGED <<server, handshake_state, outcome, closed, input>>
  BY AtKnown DEF Shape, Rest, HandshakeQuit, lifecycle, backpressure, writing, wbios, tls
<1>2. Place = "handshake" /\ Top.method \notin Side /\ ~AboutToClose(stack)
  BY <1>1, MainPlace DEF SidePlaces
<1>3. MovedTo(pc, "none")
  BY <1>1, HandshakeQuitMoves
<1>4. pc \in {"exit", "completing"}
  OBVIOUS
<1> HIDE DEF pc
<1>5. Layered' /\ Place' = pc
  BY <1>1, <1>2, <1>3, MovedSteps DEF Steps
<1>6. rbio > 0 /\ handshake_state = "InProgress"
  BY <1>2 DEF Rest, Progress
<1>7. rbio = 1 /\ rbio' = 0 /\ received = Total /\ Ended' /\ Taken' = Taken + 1 /\ Taken + 1 = Total
  BY <1>1, <1>6, NotifyTaken
<1>8. Typed'
  <2>1. Total' = Total
    BY <1>1 DEF Total
  <2> QED BY <1>1, <1>7, <2>1 DEF Typed
<1>9. server = "quit" /\ delivered = 0 /\ pending_read_chain = 0
  <2>1. /\ delivered = 0 /\ pending_read_chain = 0
        /\ Taken < Hs \/ server = "quit"
    BY <1>6 DEF Rest, Conserved
  <2>2. server # "quit" => Total = Hs + Records + 1
    BY <1>1, StreamKnown DEF NextIsNotify, Typed
  <2>3. Taken \in Nat /\ Hs \in Nat /\ Records \in Nat
    BY <1>1, StreamKnown
  <2> QED BY <1>7, <2>1, <2>2, <2>3
<1>10. Settled'
  BY <1>7 DEF Settled
<1>11. Conserved'
  BY <1>1, <1>6, <1>9, <1>10 DEF Conserved
<1>12. Progress'
  BY <1>4, <1>5, <1>7, <1>10 DEF Progress
<1>13. Closing'
  BY <1>1, <1>2 DEF Rest, Closing
<1> QED BY <1>5, <1>8, <1>11, <1>12, <1>13 DEF Rest

\* A record is worth one unit of output; there are Records of them.
LEMMA RecordTaken ==
    ASSUME Typed, Conserved, handshake_state = "Complete", ~NextIsNotify, rbio > 0
    PROVE  /\ delivered + pending_read_chain + 1 <= Taken + 1 - Hs
           /\ delivered + pending_read_chain + 1 <= Records
           /\ outcome = "none" /\ ~closed => delivered + pending_read_chain + 1 = Taken + 1 - Hs
<1> DEFINE sum == delivered + pending_read_chain
<1>1. /\ Hs \in Nat /\ Records \in Nat /\ Taken \in Nat /\ Taken + rbio = received /\ rbio \in Nat
      /\ Total \in Nat /\ received \in Nat /\ received <= Total
      /\ server = "notify" => Total = Hs + Records + 1
      /\ server = "eof" => Total = Hs + Records
  BY StreamKnown DEF Typed
<1>2. server \in {"eof", "notify"}
  BY DEF Typed, Conserved
<1>3. Taken + 1 <= Total
  BY <1>1
<1>4. Taken + 1 <= Hs + Records
  <2>1. server = "notify" => Taken + 1 # Total
    BY DEF NextIsNotify
  <2> QED BY <1>1, <1>2, <1>3, <2>1
<1>5. /\ sum \in Nat /\ sum <= Taken - Hs
      /\ outcome = "none" /\ ~closed => sum = Taken - Hs \/ (sum = Records /\ Records <= Taken - Hs)
  BY DEF Typed, Conserved
<1> HIDE DEF sum
<1>6. /\ sum + 1 <= Taken + 1 - Hs /\ sum + 1 <= Records
      /\ outcome = "none" /\ ~closed => sum + 1 = Taken + 1 - Hs
  BY <1>1, <1>4, <1>5
<1> QED BY <1>6 DEF sum

\* The conjunct of Conserved for a handshake that is complete.
LEMMA ConservedIf ==
    ASSUME handshake_state' = "Complete", server' # "quit",
           NEW sum, delivered' + pending_read_chain' = sum,
           NEW past, Taken' - Hs = past, sum <= past, sum <= Records,
           outcome' = "none" /\ ~closed' => sum = past
    PROVE  Conserved'
  BY DEF Conserved

LEMMA ReadRecordKeeps == ASSUME Shape, Rest, ReadRecord PROVE Rest'
<1>1. /\ Stacked /\ Flags /\ Layered /\ Typed /\ stack # <<>> /\ Top.pc = "reading" /\ ~NextIsNotify
      /\ rbio > 0 /\ rbio' = rbio - 1
      /\ UNCHANGED <<received, flights, wbio_flights, suspend_count>>
      /\ UNCHANGED <<server, handshake_state, closed, input, done_pending>>
  BY AtKnown DEF Shape, Rest, ReadRecord, unmoved, backpressure, writing, wbios, tls
<1>2. Place = "reading" /\ Top.method \notin Side /\ ~AboutToClose(stack)
  BY <1>1, MainPlace DEF SidePlaces
<1>3. handshake_state = "Complete"
  BY <1>2 DEF Rest, Progress
<1>4. /\ rbio \in Nat /\ received \in Nat /\ rbio <= received /\ Hs \in Nat /\ Records \in Nat
      /\ Taken \in Nat /\ delivered \in Nat /\ pending_read_chain \in Nat
  BY <1>1, StreamKnown DEF Typed
<1>5. rbio' \in Nat /\ rbio' <= rbio /\ rbio' <= received' /\ Taken' = Taken + 1
  BY <1>1, <1>4 DEF Taken
<1>6. /\ delivered + pending_read_chain + 1 <= Taken + 1 - Hs
      /\ delivered + pending_read_chain + 1 <= Records
      /\ outcome = "none" /\ ~closed => delivered + pending_read_chain + 1 = Taken + 1 - Hs
      /\ server # "quit"
  BY <1>1, <1>3, RecordTaken DEF Rest, Conserved
<1>7. Ended' <=> Ended
  BY <1>1 DEF Ended, Total
<1>8. done_pending' => Ended'
  BY <1>1, <1>7 DEF Rest, Progress
<1>9. Total' = Total
  BY <1>1 DEF Total
<1>10. CASE Told("error", "close_reads") /\ UNCHANGED <<pending_read_chain, delivered>>
  <2>1. Layered' /\ Place' = "close_reads" /\ AboutToClose(stack') /\ outcome' # "none"
    BY <1>1, <1>2, <1>10, ToldSteps DEF Steps, ClosePlaces
  <2>2. Typed'
    BY <1>1, <1>5, <1>9, <1>10 DEF Typed
  <2>3. delivered + pending_read_chain <= Taken + 1 - Hs /\ delivered + pending_read_chain <= Records
    BY <1>4, <1>6
  <2>4. Conserved'
    <3>1. Taken' - Hs = Taken + 1 - Hs
      BY <1>4, <1>5
    <3>2. handshake_state' = "Complete" /\ server' # "quit"
      BY <1>1, <1>3, <1>6
    <3>3. delivered' + pending_read_chain' = delivered + pending_read_chain
      BY <1>10
    <3> QED BY <2>1, <2>3, <3>1, <3>2, <3>3, ConservedIf
  <2>5. Progress'
    BY <1>8, <2>1 DEF Progress, Settled
  <2> QED BY <2>1, <2>2, <2>4, <2>5 DEF Rest, Closing
<1>11. CASE UNCHANGED <<outcome, finalized>> /\ MovedTo("batched", "data") /\ Forward(1, "batched")
  <2>1. Layered' /\ Place' = "batched"
    BY <1>1, <1>2, <1>11, MovedSteps DEF Steps
  <2>2. Typed' /\ delivered' + pending_read_chain' = delivered + (pending_read_chain + 1)
    BY <1>1, <1>5, <1>11, TypedForward
  <2>3. delivered' + pending_read_chain' = delivered + pending_read_chain + 1
    BY <1>4, <2>2
  <2>4. Conserved'
    <3>1. Taken' - Hs = Taken + 1 - Hs
      BY <1>4, <1>5
    <3>2. handshake_state' = "Complete" /\ server' # "quit"
      BY <1>1, <1>3, <1>6
    <3>3. delivered' + pending_read_chain' = delivered + pending_read_chain + 1
      BY <2>3
    <3>4. outcome' = "none" /\ ~closed' =>
             delivered + pending_read_chain + 1 = Taken + 1 - Hs
      BY <1>1, <1>6, <1>11
    <3> QED BY <1>6, <3>1, <3>2, <3>3, <3>4, ConservedIf
  <2>5. Progress'
    BY <1>1, <1>3, <1>8, <2>1 DEF Progress, Moving
  <2>6. Closing'
    BY <1>1, <1>2, <1>11 DEF Rest, Closing
  <2> QED BY <2>1, <2>2, <2>4, <2>5, <2>6 DEF Rest
<1>12. CASE /\ UNCHANGED <<outcome, finalized>> /\ stack' = stack /\ delivered' = delivered
            /\ pending_read_chain' = pending_read_chain + 1
  <2>1. Layered' /\ Place' = "reading"
    BY <1>1, <1>2, <1>12 DEF Layered, Place
  <2>2. Typed' /\ delivered' + pending_read_chain' = delivered + pending_read_chain + 1
    BY <1>1, <1>4, <1>5, <1>9, <1>12 DEF Typed
  <2>3. Conserved'
    <3>1. Taken' - Hs = Taken + 1 - Hs
      BY <1>4, <1>5
    <3>2. handshake_state' = "Complete" /\ server' # "quit"
      BY <1>1, <1>3, <1>6
    <3>3. delivered' + pending_read_chain' = delivered + pending_read_chain + 1
      BY <2>2
    <3>4. outcome' = "none" /\ ~closed' =>
             delivered + pending_read_chain + 1 = Taken + 1 - Hs
      BY <1>1, <1>6, <1>12
    <3> QED BY <1>6, <3>1, <3>2, <3>3, <3>4, ConservedIf
  <2>4. Progress'
    BY <1>1, <1>3, <1>8, <2>1 DEF Progress, Moving
  <2>5. Closing'
    BY <1>1, <1>2, <1>12 DEF Rest, Closing
  <2> QED BY <2>1, <2>2, <2>3, <2>4, <2>5 DEF Rest
<1> QED BY <1>1, <1>10, <1>11, <1>12, ReadRecordMoves

\* The close_notify of the server comes after all its records.
LEMMA ShutdownKeeps == ASSUME Shape, Rest, Shutdown PROVE Rest'
<1> DEFINE pc == IF IsSuspended THEN AfterReads ELSE "completing"
<1>1. /\ Stacked /\ Layered /\ Typed /\ stack # <<>> /\ Top.pc = "reading" /\ NextIsNotify
      /\ rbio > 0 /\ rbio' = rbio - 1
      /\ UNCHANGED <<received, delivered, pending_read_chain, flights, wbio_flights, suspend_count>>
      /\ UNCHANGED <<server, handshake_state, outcome, closed, input>>
  BY AtKnown DEF Shape, Rest, Shutdown, lifecycle, backpressure, writing, wbios, tls
<1>2. Place = "reading" /\ Top.method \notin Side /\ ~AboutToClose(stack)
  BY <1>1, MainPlace DEF SidePlaces
<1>3. MovedTo(pc, "none")
  BY <1>1, ShutdownMoves
<1>4. pc \notin Moving \cup ReadingPlaces
  <2>1. "completing" \notin Moving \cup ReadingPlaces
    BY DEF Moving, ReadingPlaces
  <2> QED BY <2>1, PlacesApart
<1> HIDE DEF pc
<1>5. Layered' /\ Place' = pc
  BY <1>1, <1>2, <1>3, MovedSteps DEF Steps
<1>6. handshake_state = "Complete"
  BY <1>2 DEF Rest, Progress
<1>7. rbio = 1 /\ rbio' = 0 /\ received = Total /\ Ended' /\ Taken' = Taken + 1 /\ Taken + 1 = Total
  BY <1>1, NotifyTaken
<1>8. Typed'
  <2>1. Total' = Total
    BY <1>1 DEF Total
  <2> QED BY <1>1, <1>7, <2>1 DEF Typed
<1>9. Settled'
  BY <1>7 DEF Settled
<1>10. Conserved'
  <2> DEFINE sum == delivered + pending_read_chain
  <2>1. /\ server # "quit" /\ sum <= Taken - Hs /\ sum <= Records
        /\ outcome = "none" /\ ~closed => sum = Taken - Hs \/ (sum = Records /\ Records <= Taken - Hs)
    BY <1>6 DEF Rest, Conserved
  <2>2. /\ Taken = Hs + Records /\ Taken \in Nat /\ Hs \in Nat /\ Records \in Nat /\ sum \in Nat
    <3>1. Total = Hs + Records + 1
      BY <1>1, <2>1, StreamKnown DEF NextIsNotify, Typed
    <3> QED BY <1>1, <1>7, <3>1, StreamKnown DEF Typed
  <2>3. /\ sum <= Taken' - Hs
        /\ outcome = "none" /\ ~closed => sum = Records /\ Records <= Taken' - Hs
    <3> HIDE DEF sum
    <3> QED BY <1>7, <2>1, <2>2
  <2> QED BY <1>1, <1>6, <2>1, <2>3 DEF Conserved
<1>11. Progress'
  <2>1. Place' # "handshake" /\ Place' \notin ReadingPlaces
    BY <1>4, <1>5 DEF Moving
  <2> QED BY <1>7, <1>9, <2>1 DEF Progress, ReadingPlaces
<1>12. Closing'
  BY <1>1, <1>2 DEF Rest, Closing
<1> QED BY <1>5, <1>8, <1>10, <1>11, <1>12 DEF Rest

\* The invariant is inductive.
LEMMA NextKeeps == ASSUME NestedResume = FALSE, IInv, [Next]_vars PROVE IInv'
<1>1. Shape /\ Rest /\ Shape'
  BY NextKeepsShape DEF IInv
<1> SUFFICES Rest'
  BY <1>1 DEF IInv
<1>2. CASE Base
  BY <1>1, <1>2, BaseKeeps
<1>3. CASE StartHandshake \/ OnDone \/ OnError \/ Write
  BY <1>1, <1>3, StartHandshakeKeeps, OnDoneKeeps, SideCallsKeep
<1>4. CASE Deliver
  BY <1>1, <1>4, OnDataKeeps DEF Deliver
<1>5. CASE Code
  BY <1>1, <1>5, EncryptWriteKeeps, FlushKeeps, HandshakeFlushKeeps, FlushAndRetryKeeps, SSLErrorKeeps,
     WriteErrorKeeps, FailKeeps, ReadyKeeps, FlushAndCompleteKeeps, ReadsBeginKeeps, BatchedKeeps,
     WantMoreKeeps, ProcessPendingKeeps, CompleteWithFlushKeeps, FlushedKeeps, CloseReadsKeeps,
     DoCloseKeeps, DoCloseDataKeeps, DoCloseDoneKeeps, DoCloseClearKeeps, ProcessHandshakeKeeps,
     HandshakeQuitKeeps, ReadRecordKeeps, ShutdownKeeps DEF Code
<1>6. CASE UNCHANGED vars
  <2>1. /\ UNCHANGED <<received, rbio, delivered, pending_read_chain, server, handshake_state, input>>
        /\ UNCHANGED <<flights, wbio_flights, suspend_count, outcome, closed, done_pending, stack>>
    BY <1>6 DEF vars, componentVars, lifecycle, backpressure, reading, writing, wbios, tls
  <2>2. Taken' = Taken /\ Total' = Total /\ Place' = Place
    BY <2>1 DEF Taken, Total, Place
  <2>3. Typed' /\ Layered' /\ Closing'
    BY <1>1, <2>1, <2>2 DEF Rest, Typed, Layered, Closing
  <2>4. (Settled' <=> Settled) /\ (Ended' <=> Ended) /\ (IsSuspended' <=> IsSuspended)
    BY <2>1, <2>2 DEF Settled, Ended, IsSuspended
  <2>5. Conserved' /\ Progress'
    BY <1>1, <2>1, <2>2, <2>4 DEF Rest, Conserved, Progress
  <2> QED BY <2>3, <2>5 DEF Rest
<1> QED BY <1>1, <1>2, <1>3, <1>4, <1>5, <1>6 DEF Next

LEMMA InitKeeps == ASSUME Init PROVE IInv
<1>1. /\ stack = <<>> /\ received = 0 /\ rbio = 0 /\ delivered = 0 /\ pending_read_chain = 0
      /\ server \in {"eof", "notify", "quit"} /\ handshake_state = "NotStarted"
      /\ flights = 0 /\ wbio_flights = 0 /\ suspend_count = 0 /\ outcome = "none"
      /\ done_pending = FALSE
  BY DEF Init, ComponentInit
<1>2. Hs \in Nat /\ Hs > 0 /\ Records \in Nat
  BY TlsAssumption
<1>3. Place = "idle"
  BY <1>1 DEF Place, PlaceIn
<1>4. Typed
  <2>1. Total \in Nat
    BY <1>1, <1>2 DEF Total
  <2> QED BY <1>1, <2>1 DEF Typed
<1>5. Taken = 0
  BY <1>1 DEF Taken
<1>6. Conserved
  BY <1>1, <1>2, <1>5 DEF Conserved, Settled
<1>7. Layered /\ Closing
  BY <1>1 DEF Layered, Closing
<1>8. Progress
  BY <1>1, <1>3 DEF Progress, Settled
<1> QED BY <1>4, <1>6, <1>7, <1>8, InitShape DEF IInv, Rest

-----------------------------------------------------------------------------
(***************************************************************************)
(* The refinement.  Every step is one of five kinds.                       *)
(***************************************************************************)
Owed == IF server = "quit" THEN 0 ELSE Max({0, Min({received - Hs, Records})})

visible == <<received, server, delivered, input, closed, outcome>>

Receives == /\ Owed <= Owed' /\ (Ended => Ended' /\ Owed' = Owed)
            /\ UNCHANGED <<delivered, closed, outcome>>
Delivers == /\ outcome = "none" \/ closed
            /\ delivered <= delivered'
            /\ UNCHANGED <<received, server, input, closed, outcome>>
Signals == /\ outcome = "none" /\ outcome' \in {"done", "error"}
           /\ outcome' = "done" => closed \/ (Ended /\ delivered = Owed)
           /\ UNCHANGED <<received, server, delivered, input, closed>>
Closes == closed' = TRUE /\ UNCHANGED <<received, server, delivered, input, outcome>>

Kinds == UNCHANGED visible \/ Receives \/ Delivers \/ Signals \/ Closes

LEMMA OwedKnown ==
    ASSUME Typed
    PROVE  /\ Owed \in Nat
           /\ server # "quit" /\ received < Hs => Owed = 0
           /\ server # "quit" /\ received >= Hs =>
                 Owed = IF received - Hs <= Records THEN received - Hs ELSE Records
           /\ server = "quit" => Owed = 0
<1> DEFINE least == Min({received - Hs, Records})
<1>1. received \in Nat /\ Hs \in Nat /\ Records \in Nat /\ received - Hs \in Int
  BY StreamKnown DEF Typed
<1>2. least = IF received - Hs <= Records THEN received - Hs ELSE Records
  BY <1>1, LeastOfTwo
<1>3. least \in Int
  BY <1>1, <1>2
<1>4. Max({0, least}) = IF 0 <= least THEN least ELSE 0
  BY <1>3, GreatestOfTwo
<1>5. Owed = IF server = "quit" THEN 0 ELSE Max({0, least})
  BY DEF Owed
<1> HIDE DEF least
<1> QED BY <1>1, <1>2, <1>3, <1>4, <1>5

LEMMA CapGrows ==
    ASSUME NEW a \in Nat, NEW b \in Nat, NEW h \in Nat, NEW cap \in Nat, a <= b
    PROVE  (IF a - h <= cap THEN a - h ELSE cap) <= (IF b - h <= cap THEN b - h ELSE cap)
  OBVIOUS

LEMMA OwedGrows ==
    ASSUME Typed, Typed', server' = server, received <= received'
    PROVE  Owed <= Owed' /\ (received' = received => Owed' = Owed)
<1>1. received \in Nat /\ received' \in Nat /\ Hs \in Nat /\ Records \in Nat
  BY StreamKnown DEF Typed
<1>2. /\ Owed' \in Nat
      /\ server' # "quit" /\ received' < Hs => Owed' = 0
      /\ server' # "quit" /\ received' >= Hs =>
            Owed' = IF received' - Hs <= Records THEN received' - Hs ELSE Records
      /\ server' = "quit" => Owed' = 0
  <2>1. (Typed => /\ Owed \in Nat
                  /\ server # "quit" /\ received < Hs => Owed = 0
                  /\ server # "quit" /\ received >= Hs =>
                        Owed = IF received - Hs <= Records THEN received - Hs ELSE Records
                  /\ server = "quit" => Owed = 0)'
    BY OwedKnown, PTL
  <2> QED BY <2>1
<1>3. received' = received => Owed' = Owed
  BY DEF Owed
<1>4. Owed <= Owed'
  <2>1. CASE server = "quit" \/ received < Hs
    <3>1. Owed = 0
      BY <2>1, OwedKnown
    <3> QED BY <1>2, <3>1
  <2>2. CASE server # "quit" /\ received >= Hs
    <3>1. Owed = IF received - Hs <= Records THEN received - Hs ELSE Records
      BY <2>2, OwedKnown
    <3>2. server' # "quit" /\ received' >= Hs
      BY <1>1, <2>2
    <3>3. Owed' = IF received' - Hs <= Records THEN received' - Hs ELSE Records
      BY <1>2, <3>2
    <3>4. \A b \in Nat : received <= b =>
             (IF received - Hs <= Records THEN received - Hs ELSE Records)
             <= (IF b - Hs <= Records THEN b - Hs ELSE Records)
      BY <1>1, CapGrows
    <3>5. (IF received - Hs <= Records THEN received - Hs ELSE Records)
          <= (IF received' - Hs <= Records THEN received' - Hs ELSE Records)
      BY <1>1, <3>4
    <3> QED BY <3>1, <3>3, <3>5
  <2> QED BY <1>1, <2>1, <2>2
<1> QED BY <1>3, <1>4

\* Nothing is delivered that was not received.
LEMMA DeliveredOwed == ASSUME Typed, Conserved PROVE delivered + pending_read_chain <= Owed
<1>1. /\ received \in Nat /\ Hs \in Nat /\ Records \in Nat /\ Taken \in Nat /\ Taken + rbio = received
      /\ rbio \in Nat /\ delivered \in Nat /\ pending_read_chain \in Nat
  BY StreamKnown DEF Typed
<1>2. CASE handshake_state # "Complete"
  BY <1>1, <1>2, OwedKnown DEF Conserved
<1>3. CASE handshake_state = "Complete"
  <2> DEFINE sum == delivered + pending_read_chain
  <2>1. server # "quit" /\ sum <= Taken - Hs /\ sum <= Records /\ sum \in Nat
    BY <1>1, <1>3 DEF Conserved
  <2> HIDE DEF sum
  <2>2. received >= Hs /\ sum <= received - Hs
    BY <1>1, <2>1
  <2>3. sum <= Owed
    BY <1>1, <2>1, <2>2, OwedKnown
  <2> QED BY <2>3 DEF sum
<1> QED BY <1>2, <1>3

\* When the input was all read and nothing is buffered, everything was delivered.
LEMMA AllDelivered ==
    ASSUME Typed, Conserved, Settled, Place # "handshake", pending_read_chain = 0, outcome = "none", ~closed
    PROVE  delivered = Owed
<1>1. /\ received \in Nat /\ Hs \in Nat /\ Records \in Nat /\ Taken \in Nat /\ Taken + rbio = received
      /\ rbio = 0 /\ delivered \in Nat
  BY StreamKnown DEF Typed, Settled
<1>2. Taken = received /\ delivered + pending_read_chain = delivered
  BY <1>1
<1>3. CASE handshake_state # "Complete"
  BY <1>1, <1>2, <1>3, OwedKnown DEF Conserved
<1>4. CASE handshake_state = "Complete"
  <2>1. /\ server # "quit" /\ delivered <= received - Hs /\ delivered <= Records
        /\ delivered = received - Hs \/ (delivered = Records /\ Records <= received - Hs)
    BY <1>2, <1>4 DEF Conserved
  <2> QED BY <1>1, <2>1, OwedKnown
<1> QED BY <1>3, <1>4

LEMMA MayDeliver ==
    ASSUME Shape, Rest, stack # <<>>, Top.pc \notin SidePlaces
    PROVE  outcome = "none" \/ closed
  BY MainPlace DEF Shape, Rest, Closing

\* The steps that hand something down, or nothing.
LEMMA DeliversKinds ==
    ASSUME Shape, Rest, \/ WantMore \/ ProcessPending \/ DoCloseData
    PROVE  Kinds
<1>1. stack # <<>> /\ Top.pc \in {"reading", "drain", "last_data"}
  BY DEF WantMore, ProcessPending, DoCloseData, At
<1>2. outcome = "none" \/ closed
  BY <1>1, MayDeliver DEF SidePlaces
<1>3. delivered <= delivered'
  BY CodeKeepsTyped DEF Rest
<1>4. UNCHANGED <<received, server, input, closed, outcome>>
  BY DEF WantMore, ProcessPending, DoCloseData, lifecycle, tls
<1> QED BY <1>2, <1>3, <1>4 DEF Kinds, Delivers

\* A step that signals gives the first signal or none.
LEMMA ToldKinds ==
    ASSUME NEW signal \in {"error", "done"}, NEW pc, Told(signal, pc),
           UNCHANGED <<received, server, delivered, input, closed>>,
           outcome = "none" /\ signal = "done" => closed \/ (Ended /\ delivered = Owed)
    PROVE  Kinds
  BY DEF Told, Kinds, Signals, visible

\* The end of the stream is reported after all of it was delivered.
LEMMA CompletionKinds == ASSUME Shape, Rest, CompleteWithFlush \/ Flushed PROVE Kinds
<1>1. Stacked /\ Flags /\ Layered /\ Typed /\ Conserved
  BY DEF Shape, Rest
<1>2. stack # <<>> /\ Top.pc \in {"completing", "flushed"}
  BY DEF CompleteWithFlush, Flushed, At
<1>3. Place = Top.pc /\ (outcome = "none" \/ closed)
  BY <1>1, <1>2, MainPlace, MayDeliver DEF SidePlaces
<1>4. Ended /\ Settled /\ Place # "handshake"
  BY <1>2, <1>3 DEF Rest, Progress
<1>5. UNCHANGED <<received, server, input, closed>>
  BY DEF CompleteWithFlush, Flushed, unmoved, reading, tls
<1>6. ASSUME pending_read_chain = 0 PROVE outcome = "none" => closed \/ (Ended /\ delivered = Owed)
  BY <1>1, <1>4, <1>6, AllDelivered
<1>7. CASE CompleteWithFlush
  <2>1. CASE pending_read_chain = 0 /\ Told("done", "close_reads") /\ UNCHANGED <<pending_read_chain, delivered>>
    BY <1>5, <1>6, <2>1, ToldKinds
  <2>2. CASE Forward(0, "flushed") /\ UNCHANGED <<outcome, finalized>>
    <3>1. delivered <= delivered'
      BY <1>1, <1>7, CodeKeepsTyped
    <3> QED BY <1>3, <1>5, <2>2, <3>1 DEF Kinds, Delivers
  <2> QED BY <1>1, <1>7, <2>1, <2>2, CompleteWithFlushMoves
<1>8. CASE Flushed
  <2>1. delivered' = delivered
    BY <1>8 DEF Flushed, reading
  <2>2. CASE UNCHANGED <<outcome, finalized>>
    BY <1>5, <2>1, <2>2 DEF Kinds, visible
  <2>3. CASE Told("error", "close_reads")
    BY <1>5, <2>1, <2>3, ToldKinds
  <2>4. CASE ~(pending_read_chain > 0) /\ Told("done", "close_reads")
    <3>1. pending_read_chain = 0
      BY <1>1, <2>4 DEF Typed
    <3> QED BY <1>5, <1>6, <2>1, <2>4, <3>1, ToldKinds
  <2> QED BY <1>1, <1>8, <2>2, <2>3, <2>4, FlushedMoves
<1> QED BY <1>7, <1>8

LEMMA ReadRecordKinds == ASSUME Shape, Rest, ReadRecord PROVE Kinds
<1>1. /\ Stacked /\ Flags /\ Typed /\ stack # <<>> /\ Top.pc = "reading"
      /\ UNCHANGED <<received, server, input, closed, handshake_state, flights, wbio_flights, suspend_count>>
      /\ rbio > 0 /\ rbio' = rbio - 1
  BY DEF Shape, Rest, ReadRecord, At, unmoved, tls, writing, wbios, backpressure
<1>2. outcome = "none" \/ closed
  BY <1>1, MayDeliver DEF SidePlaces
<1>3. CASE Told("error", "close_reads") /\ UNCHANGED <<pending_read_chain, delivered>>
  BY <1>1, <1>3, ToldKinds
<1>4. CASE UNCHANGED <<outcome, finalized>> /\ Forward(1, "batched")
  <2>1. rbio' \in Nat /\ rbio' <= rbio
    BY <1>1 DEF Typed
  <2>2. delivered <= delivered'
    BY <1>1, <1>4, <2>1, TypedForward
  <2> QED BY <1>1, <1>2, <1>4, <2>2 DEF Kinds, Delivers
<1>5. CASE UNCHANGED <<outcome, finalized>> /\ delivered' = delivered
  BY <1>1, <1>5 DEF Kinds, visible
<1> QED BY <1>1, <1>3, <1>4, <1>5, ReadRecordMoves

LEMMA ErrorKinds == ASSUME Shape, SSLError \/ WriteError \/ Fail PROVE Kinds
<1>1. \E pc : Told("error", pc)
  BY SSLErrorMoves, WriteErrorMoves, FailMoves DEF Shape
<1>2. UNCHANGED <<received, server, delivered, input, closed>>
  BY DEF SSLError, WriteError, Fail, unmoved, reading, tls
<1> QED BY <1>1, <1>2, ToldKinds

LEMMA DoCloseDoneKinds == ASSUME Shape, DoCloseDone PROVE Kinds
<1>1. closed /\ (Told("done", "clear") \/ UNCHANGED <<outcome, finalized>>)
  BY DoCloseDoneMoves DEF Shape
<1>2. UNCHANGED <<received, server, delivered, input, closed>>
  BY DEF DoCloseDone, unmoved, reading, tls
<1>3. CASE Told("done", "clear")
  BY <1>1, <1>2, <1>3, ToldKinds
<1> QED BY <1>1, <1>2, <1>3 DEF Kinds, visible

\* What arrives, and the end of it.
LEMMA ReceivesKinds == ASSUME Shape, Rest, Typed', Deliver \/ OnDone \/ OnError PROVE Kinds
<1>1. /\ UNCHANGED <<server, delivered, closed, outcome>> /\ input = "open"
      /\ received' = received \/ (input' = input /\ \E n \in 1..(Hs + Records + 1) :
                                     received' = received + n /\ received + n <= Available)
  BY DEF Deliver, OnData, OnDone, OnError, unmoved, reading, tls
<1>2. /\ received \in Nat /\ Available \in Nat /\ Total \in Nat /\ Available <= Total
      /\ Hs \in Nat /\ Records \in Nat
  BY StreamKnown DEF Rest, Typed
<1>3. received <= received' /\ (received' = received \/ (input' = input /\ received # Total))
  BY <1>1, <1>2
<1>4. Owed <= Owed' /\ (received' = received => Owed' = Owed)
  BY <1>1, <1>3, OwedGrows DEF Rest
<1>5. Ended => received' = received
  BY <1>1, <1>3 DEF Ended
<1>6. Ended => Ended'
  BY <1>1, <1>5 DEF Ended, Total
<1> QED BY <1>1, <1>4, <1>5, <1>6 DEF Kinds, Receives

LEMMA NextKinds == ASSUME IInv, IInv', [Next]_vars PROVE Kinds
<1>1. Shape /\ Rest /\ Typed'
  BY DEF IInv, Rest
<1>2. CASE Base
  <2>1. UNCHANGED <<received, server, delivered, input, outcome>>
    BY <1>2 DEF Base, reading, tls
  <2>2. UNCHANGED closed \/ closed' = TRUE
    BY <1>2 DEF Base, CommonNext, Suspend, Resume, Close, Return, Exit, CloseStep, ResumeUpstream,
                CompleteDeferred, RequestClose, lifecycle
  <2> QED BY <2>1, <2>2 DEF Kinds, Closes, visible
<1>3. CASE StartHandshake \/ Write
  BY <1>3 DEF StartHandshake, Write, unmoved, reading, tls, Kinds, visible
<1>4. CASE Deliver \/ OnDone \/ OnError
  BY <1>1, <1>4, ReceivesKinds
<1>5. CASE \/ EncryptWrite \/ Flush \/ HandshakeFlush \/ FlushAndRetry \/ Ready \/ ReadsBegin
           \/ Batched \/ FlushAndComplete
  BY <1>5 DEF EncryptWrite, Flush, HandshakeFlush, FlushAndRetry, Ready, ReadsBegin, Batched,
              FlushAndComplete, lifecycle, reading, tls, Kinds, visible
<1>6. CASE ProcessHandshake \/ HandshakeQuit \/ Shutdown \/ DoClose \/ DoCloseClear
  BY <1>6 DEF ProcessHandshake, HandshakeQuit, Shutdown, DoClose, DoCloseClear, lifecycle, reading, tls,
              Kinds, visible
<1>7. CASE CloseReads
  <2>1. UNCHANGED <<received, server, delivered, input, outcome>>
    BY <1>7 DEF CloseReads, reading, tls
  <2>2. UNCHANGED closed \/ closed' = TRUE
    BY <1>7 DEF CloseReads, RequestClose
  <2> QED BY <2>1, <2>2 DEF Kinds, Closes, visible
<1>8. CASE SSLError \/ WriteError \/ Fail \/ DoCloseDone
  BY <1>1, <1>8, ErrorKinds, DoCloseDoneKinds
<1>9. CASE ReadRecord \/ WantMore \/ ProcessPending \/ DoCloseData \/ CompleteWithFlush \/ Flushed
  BY <1>1, <1>9, ReadRecordKinds, DeliversKinds, CompletionKinds
<1>10. CASE UNCHANGED vars
  BY <1>10 DEF vars, componentVars, lifecycle, reading, tls, Kinds, visible
<1> QED BY <1>2, <1>3, <1>4, <1>5, <1>6, <1>7, <1>8, <1>9, <1>10 DEF Next, Code

\* Each kind of step is a step of Stage.
LEMMA StageStep == ASSUME IInv, IInv', [Next]_vars PROVE [S!Next]_(S!vars)
<1>1. Typed /\ Typed' /\ Conserved' /\ Kinds
  BY NextKinds DEF IInv, Rest
<1> DEFINE owed == IF server = "quit" THEN 0 ELSE Max({0, Min({received - Hs, Records})})
           ended == input = "done" \/ (server # "eof" /\ received = Total)
<1>2. owed = Owed /\ (ended <=> Ended)
  BY DEF Owed, Ended
<1>3. owed' = Owed' /\ (ended' <=> Ended')
  BY DEF Owed, Ended
<1>4. CASE UNCHANGED visible
  <2>1. owed' = owed /\ ended' = ended
    BY <1>4 DEF visible, Total
  <2> QED BY <1>4, <2>1 DEF visible, S!vars
<1>5. CASE Receives
  <2>1. owed' >= owed /\ (ended => ended' /\ owed' = owed)
    <3>1. Owed \in Nat /\ Owed' \in Nat
      <4>1. (Typed => Owed \in Nat)'
        BY OwedKnown, PTL
      <4> QED BY <1>1, <4>1, OwedKnown
    <3> HIDE DEF owed, ended
    <3> QED BY <1>2, <1>3, <1>5, <3>1 DEF Receives
  <2> QED BY <1>5, <2>1 DEF Receives, S!Next, S!Receive
<1>6. CASE Delivers
  <2>1. owed' = owed /\ ended' = ended
    BY <1>6 DEF Delivers, Total
  <2>2. delivered' <= owed
    <3>1. (Typed /\ Conserved => delivered + pending_read_chain <= Owed)'
      BY DeliveredOwed, PTL
    <3>2. (Typed => Owed \in Nat)'
      BY OwedKnown, PTL
    <3>3. delivered' <= Owed'
      BY <1>1, <3>1, <3>2 DEF Typed
    <3> HIDE DEF owed, ended
    <3> QED BY <1>3, <2>1, <3>3
  <2>3. CASE delivered' = delivered
    BY <1>6, <2>1, <2>3 DEF Delivers, S!vars
  <2>4. CASE delivered < delivered'
    BY <1>6, <2>1, <2>2, <2>4 DEF Delivers, S!Next, S!Deliver
  <2> QED BY <1>1, <1>6, <2>3, <2>4 DEF Delivers, Typed
<1>7. CASE Signals
  <2>1. owed' = owed /\ ended' = ended
    BY <1>7 DEF Signals, Total
  <2>2. CASE outcome' = "done"
    <3>1. closed \/ (ended /\ delivered = owed)
      BY <1>2, <1>7, <2>2 DEF Signals
    <3> QED BY <1>7, <2>1, <2>2, <3>1 DEF Signals, S!Next, S!Done
  <2>3. CASE outcome' # "done"
    <3>1. outcome' = "error"
      BY <1>7, <2>3 DEF Signals
    <3> QED BY <1>7, <2>1, <3>1 DEF Signals, S!Next, S!Fail
  <2> QED BY <2>2, <2>3
<1>8. CASE Closes
  <2>1. owed' = owed /\ ended' = ended
    BY <1>8 DEF Closes, Total
  <2> QED BY <1>8, <2>1 DEF Closes, S!Next, S!Close
<1> QED BY <1>1, <1>4, <1>5, <1>6, <1>7, <1>8 DEF Kinds

\* The TLS stage is a stage, for every handshake, number of records, segment
\* size and limit: what it hands down is the application data the server sent,
\* once, and the end of the stream is reported only when all of it was handed
\* down, whatever comes with the end of the handshake, however its reads are
\* suspended, and whoever writes meanwhile.
THEOREM StageImplemented == ASSUME NestedResume = FALSE PROVE Spec => ImplementsStage
<1>1. Init => S!Init
  <2> SUFFICES ASSUME Init PROVE S!Init
    OBVIOUS
  <2>1. Typed /\ received = 0 /\ delivered = 0 /\ input = "open" /\ outcome = "none" /\ closed = FALSE
    BY InitKeeps DEF IInv, Rest, Init, ComponentInit
  <2>2. Hs > 0 /\ Hs \in Nat
    BY TlsAssumption
  <2>3. Owed = 0
    BY <2>1, <2>2, OwedKnown
  <2>4. server # "eof" => received # Total
    <3>1. Total > 0
      <4>1. Hs \in Nat /\ Hs > 0 /\ Records \in Nat
        BY TlsAssumption
      <4> QED BY <4>1 DEF Total
    <3> QED BY <2>1, <3>1
  <2>5. (input = "done" \/ (server # "eof" /\ received = Total)) = FALSE
    BY <2>1, <2>4
  <2> QED BY <2>1, <2>3, <2>5 DEF S!Init, Owed
<1>2. Init => IInv
  BY InitKeeps
<1>3. IInv /\ [Next]_vars => IInv'
  BY NextKeeps
<1>4. IInv /\ IInv' /\ [Next]_vars => [S!Next]_(S!vars)
  BY StageStep
<1> QED BY <1>1, <1>2, <1>3, <1>4, PTL DEF Spec, ImplementsStage, S!Spec
=============================================================================
