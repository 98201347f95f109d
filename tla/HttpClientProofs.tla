--------------------------- MODULE HttpClientProofs ---------------------------
(***************************************************************************)
(* HttpClient keeps the promise of LossyStage, for every response, every   *)
(* cut of it into chains and segments, and every suspension: the invariant *)
(* IInv says where every unit of the response is while methods and         *)
(* callbacks run, what a paused parser makes the stage lose included, and  *)
(* what the places of the code imply for the message.                      *)
(***************************************************************************)
EXTENDS HttpClient, TLAPS

(***************************************************************************)
(* The activations of the stage, if the downstream does not resume it from *)
(* inside a callback: at most one at work, on top of a Resume() that has   *)
(* resumed the upstream.                                                   *)
(***************************************************************************)
OwnMethods == {"OnDataWhole", "OnDataSplit"}
LastMethods == {"OnDone", "OnDoneFinish", "Flush", "FlushFinish"}
Methods == OwnMethods \cup LastMethods \cup {"OnError", "Resume"}
ParsePlaces == {"parse", "body", "complete", "completed", "reset"}
LoopPlaces == ParsePlaces \cup {"execute"}
ResumePlaces == {"drain", "redelivered", "completed_late", "drained", "resumed", "flush"}
Places == LoopPlaces \cup ResumePlaces
          \cup {"finish", "status", "completing", "flushed", "fail", "stop", "close", "exit"}
Callbacks == {"none", "data", "done", "error", "resume"}
Frames == [method : Methods, pc : Places, cb : Callbacks, left : Nat, pos : Nat, guard : BOOLEAN]

\* The places each method has.
Fits(method, pc, cb, pos) ==
    /\ cb = "resume" => pc = "resumed"
    /\ cb # "none" => pc \in {"close", "stop", "reset", "body", "completed", "redelivered",
                             "completed_late", "flushed", "resumed"}
    /\ pc \in {"drain", "redelivered", "completed_late"} => pos = 0
    /\ pc \in ResumePlaces => method = "Resume"
    /\ pc \in LoopPlaces \cup {"stop"} =>
          method \in OwnMethods \cup {"Resume", "OnDoneFinish", "FlushFinish"}
    /\ pc = "finish" => method \in {"OnDone", "Flush"}
    /\ pc \in {"status", "completing", "flushed"} => method \in LastMethods
    /\ pc \in {"execute", "body"} => method \notin {"OnDoneFinish", "FlushFinish"}
    /\ method = "OnError" => pc \in {"fail", "close", "exit"}

FrameOK(f) == Fits(f.method, f.pc, f.cb, f.pos)

Stacked ==
    /\ stack \in Seq(Frames)
    /\ \A i \in 1..Len(stack) : FrameOK(stack[i]) /\ (i > 1 => stack[i].cb = "resume")

LEMMA TopKnown ==
    ASSUME Stacked, stack # <<>>
    PROVE  Top = stack[1] /\ Top \in Frames /\ FrameOK(Top) /\ 1 \in 1..Len(stack)
  BY DEF Stacked, Top

\* The innermost activation goes on.
LEMMA TopChanged ==
    ASSUME Stacked, stack # <<>>, NEW f \in Frames, FrameOK(f), stack' = [stack EXCEPT ![1] = f]
    PROVE  Stacked' /\ stack' # <<>> /\ Top' = f
<1>1. Len(stack) \in Nat /\ 1 \in 1..Len(stack)
  BY DEF Stacked
<1>2. /\ stack' \in Seq(Frames) /\ Len(stack') = Len(stack) /\ stack'[1] = f
      /\ \A i \in 1..Len(stack) : i > 1 => stack'[i] = stack[i]
  BY <1>1 DEF Stacked
<1>3. stack' # <<>> /\ Top' = f
  BY <1>1, <1>2 DEF Top
<1> QED BY <1>1, <1>2, <1>3 DEF Stacked

\* A method is entered.
LEMMA Pushed ==
    ASSUME Stacked, stack = <<>> \/ Top.cb = "resume", NEW f \in Frames, FrameOK(f),
           stack' = <<f>> \o stack
    PROVE  Stacked' /\ stack' # <<>> /\ Top' = f
<1>1. /\ stack' \in Seq(Frames) /\ Len(stack') = Len(stack) + 1 /\ stack'[1] = f
      /\ \A i \in 1..Len(stack') : i > 1 => stack'[i] = stack[i - 1] /\ i - 1 \in 1..Len(stack)
  BY DEF Stacked
<1>2. stack' # <<>> /\ Top' = f
  BY <1>1 DEF Top, Stacked
<1>3. stack # <<>> => stack[1].cb = "resume"
  BY TopKnown
<1>4. ASSUME NEW i \in 1..Len(stack), i > 1 \/ stack # <<>> PROVE stack[i].cb = "resume"
  BY <1>3, <1>4 DEF Stacked
<1> QED BY <1>1, <1>2, <1>4 DEF Stacked

\* A method returns.
LEMMA Popped ==
    ASSUME Stacked, stack # <<>>, stack' = Tail(stack)
    PROVE  /\ Stacked'
           /\ stack' # <<>> => Top'.cb = "resume" /\ Top'.pc = "resumed" /\ Top'.method = "Resume"
<1>1. /\ stack' \in Seq(Frames) /\ Len(stack') = Len(stack) - 1
      /\ \A i \in 1..Len(stack') : stack'[i] = stack[i + 1] /\ i + 1 \in 1..Len(stack) /\ i + 1 > 1
  BY DEF Stacked
<1>2. Stacked'
  BY <1>1 DEF Stacked
<1>3. ASSUME stack' # <<>> PROVE Top' = stack[2] /\ 2 \in 1..Len(stack)
  BY <1>1, <1>3 DEF Top
<1> QED BY <1>2, <1>3 DEF Stacked, FrameOK, Fits, ResumePlaces

-----------------------------------------------------------------------------
(***************************************************************************)
(* Where the units of the response are.  Until the stage is closed or has  *)
(* given its terminal signal, a unit that was received is parsed, or       *)
(* consumed unparsed, or left of the argument of OnData or of the segment  *)
(* that llhttp is at; a unit of body that is parsed is delivered or in     *)
(* pending_chain_, and `lost' counts the others.                           *)
(***************************************************************************)
LeftAt(method, pc, left) == IF method \in OwnMethods /\ pc \in LoopPlaces THEN left ELSE 0
PosAt(pc, pos) == IF pc \in ParsePlaces THEN pos ELSE 0

Place == IF stack = <<>> THEN "idle" ELSE Top.pc
Method == IF stack = <<>> THEN "none" ELSE Top.method
Left == IF stack = <<>> THEN 0 ELSE LeftAt(Top.method, Top.pc, Top.left)
Pos == IF stack = <<>> THEN 0 ELSE PosAt(Top.pc, Top.pos)
Remaining == Left + Pos + pending_input

Running == ~closed /\ outcome = "none"

\* The body in the first n units.
BodyOf(n) == IF response.ok /\ n > 0 THEN Min({n - 1, response.body}) ELSE 0

\* The message is over.
Ends == IF response.framing = "close" THEN input = "done" /\ Remaining = 0 ELSE parsed = Units

Typed ==
    /\ received \in Nat /\ parsed \in Nat /\ lost \in Nat /\ pending_input = 0
    /\ pending_chain \in Nat /\ delivered \in Nat /\ suspend_count \in Nat
    /\ closed \in BOOLEAN /\ paused \in BOOLEAN /\ finalized \in BOOLEAN
    /\ in_message \in BOOLEAN /\ message_complete \in BOOLEAN /\ done_pending \in BOOLEAN
    /\ input \in {"open", "done", "failed"} /\ outcome \in {"none", "done", "error"}
    /\ response \in [ok : BOOLEAN, framing : Framings, body : Nat]
    /\ failed \in BOOLEAN

Counted ==
    /\ parsed + Remaining <= received /\ received <= Units
    /\ Running /\ Place # "fail" => parsed + Remaining = received
    /\ delivered + pending_chain + lost <= BodyOf(parsed)
    /\ Running => delivered + pending_chain + lost = BodyOf(parsed)

\* What the parser's callbacks find.
Message ==
    /\ ~in_message => parsed = 0 \/ (outcome # "none" /\ Ends)
    /\ in_message => parsed > 0
    /\ message_complete => in_message /\ Ends
    /\ Place = "body" \/ paused => in_message /\ response.ok
    /\ Place = "complete" => in_message /\ Ends
    /\ Place \in {"completed", "completed_late"} => message_complete /\ response.ok
    /\ Place = "reset" => outcome # "none" /\ Ends

\* What the end of OnDone and FlushAndComplete find.
Finishing ==
    /\ done_pending \/ Method \in LastMethods \/ Place = "flush" => input = "done"
    /\ Place = "flush" \/ (Place = "finish" /\ Method = "Flush") => ~IsSuspended
    /\ Method \in {"OnDoneFinish", "FlushFinish"} /\ Place = "parse" =>
          Pos = 0 /\ (message_complete \/ outcome # "none")
    /\ Place = "status" /\ Running =>
          \/ Remaining = 0 /\ (message_complete \/ ~in_message)
          \/ paused /\ IsSuspended /\ Method = "OnDone"
    /\ Place \in {"completing", "flushed"} /\ Running =>
          Remaining = 0 /\ (parsed = 0 \/ (message_complete /\ response.ok))

\* The parser is paused only while the stage is suspended or is being resumed.
Pausing ==
    paused /\ Running => IsSuspended \/ Place \in {"drain", "redelivered", "completed_late"}

\* After a terminal signal the stage is closed, or the response is over.
Signalled ==
    /\ finalized => outcome # "none"
    /\ failed => closed
    /\ outcome # "none" => closed \/ Place \in {"close", "stop"} \/ (pending_chain = 0 /\ Ends)

IInv == Stacked /\ Typed /\ Counted /\ Message /\ Finishing /\ Pausing /\ Signalled

LEMMA LeastOfTwo ==
    ASSUME NEW a \in Int, NEW b \in Int
    PROVE  Min({a, b}) = IF a <= b THEN a ELSE b
  BY DEF Min

LEMMA ResponseKnown ==
    ASSUME Typed
    PROVE  /\ response.ok \in BOOLEAN /\ response.framing \in Framings /\ response.body \in Nat
           /\ Units \in Nat /\ Units > response.body /\ Units >= 1
           /\ response.framing # "chunked" => Units = response.body + 1
  BY DEF Typed, Units, Framings

LEMMA BodyKnown ==
    ASSUME Typed, NEW n \in Nat
    PROVE  /\ BodyOf(n) \in Nat
           /\ ~response.ok \/ n = 0 => BodyOf(n) = 0
           /\ response.ok /\ n > 0 /\ n <= response.body => BodyOf(n) = n - 1
           /\ response.ok /\ n > response.body => BodyOf(n) = response.body
<1>1. response.body \in Nat
  BY ResponseKnown
<1>2. CASE ~response.ok \/ n = 0
  BY <1>1, <1>2 DEF BodyOf
<1>3. CASE response.ok /\ n > 0
  <2>1. BodyOf(n) = IF n - 1 <= response.body THEN n - 1 ELSE response.body
    BY <1>1, <1>3, LeastOfTwo DEF BodyOf
  <2> QED BY <1>1, <1>3, <2>1
<1> QED BY <1>2, <1>3

LEMMA BodyGrows ==
    ASSUME Typed, NEW m \in Nat, NEW n \in Nat, m <= n
    PROVE  BodyOf(m) <= BodyOf(n)
<1>1. response.body \in Nat /\ BodyOf(m) \in Nat /\ BodyOf(n) \in Nat
  BY ResponseKnown, BodyKnown
<1>2. CASE ~response.ok \/ m = 0
  BY <1>1, <1>2, BodyKnown
<1>3. CASE response.ok /\ m > 0
  BY <1>1, <1>3, BodyKnown
<1> QED BY <1>2, <1>3

-----------------------------------------------------------------------------
(***************************************************************************)
(* How the innermost activation moves.                                     *)
(***************************************************************************)
Frame(method, pc, cb, left, pos) ==
    [method |-> method, pc |-> pc, cb |-> cb, left |-> left, pos |-> pos, guard |-> Top.guard]

Moved(method, pc, cb, left, pos) ==
    /\ stack' # <<>>
    /\ Place' = pc /\ Method' = method /\ Top'.cb = cb
    /\ Left' = LeftAt(method, pc, left) /\ Pos' = PosAt(pc, pos)

LEMMA TopMoves ==
    ASSUME Stacked, stack # <<>>, NEW method \in Methods, NEW pc \in Places, NEW cb \in Callbacks,
           NEW left \in Nat, NEW pos \in Nat, Fits(method, pc, cb, pos),
           stack' = [stack EXCEPT ![1] = Frame(method, pc, cb, left, pos)]
    PROVE  Stacked' /\ Moved(method, pc, cb, left, pos)
<1> DEFINE f == Frame(method, pc, cb, left, pos)
<1>1. Top \in Frames
  BY TopKnown
<1>2. f \in Frames /\ FrameOK(f)
  BY <1>1 DEF Frame, Frames, FrameOK
<1>3. f.method = method /\ f.pc = pc /\ f.cb = cb /\ f.left = left /\ f.pos = pos
  BY DEF Frame
<1>4. stack' = [stack EXCEPT ![1] = f]
  OBVIOUS
<1> HIDE DEF f
<1>5. Stacked' /\ stack' # <<>> /\ Top' = f
  BY <1>2, <1>4, TopChanged
<1> QED BY <1>3, <1>5 DEF Moved, Place, Method, Left, Pos

\* What the scalars say of the innermost activation.
LEMMA TopFields ==
    ASSUME Stacked, stack # <<>>
    PROVE  /\ Top = stack[1] /\ 1 \in 1..Len(stack)
           /\ Top.method \in Methods /\ Top.pc \in Places /\ Top.cb \in Callbacks
           /\ Top.left \in Nat /\ Top.pos \in Nat /\ Top.guard \in BOOLEAN
           /\ Fits(Top.method, Top.pc, Top.cb, Top.pos)
           /\ Place = Top.pc /\ Method = Top.method
           /\ Left = LeftAt(Top.method, Top.pc, Top.left) /\ Pos = PosAt(Top.pc, Top.pos)
           /\ Top = Frame(Top.method, Top.pc, Top.cb, Top.left, Top.pos)
<1>1. Top = stack[1] /\ Top \in Frames /\ FrameOK(Top) /\ 1 \in 1..Len(stack)
  BY TopKnown
<1>2. Top = Frame(Top.method, Top.pc, Top.cb, Top.left, Top.pos)
  BY <1>1 DEF Frame, Frames
<1> QED BY <1>1, <1>2 DEF Frames, FrameOK, Place, Method, Left, Pos

LEMMA GotoMoves ==
    ASSUME Stacked, stack # <<>>, NEW pc \in Places, Fits(Top.method, pc, Top.cb, Top.pos), Goto(pc)
    PROVE  Stacked' /\ Moved(Top.method, pc, Top.cb, Top.left, Top.pos)
<1>1. Top = stack[1] /\ Top \in Frames /\ 1 \in 1..Len(stack)
  BY TopKnown
<1>2. [stack[1] EXCEPT !.pc = pc] = Frame(Top.method, pc, Top.cb, Top.left, Top.pos)
  BY <1>1 DEF Frame, Frames
<1>3. stack' = [stack EXCEPT ![1] = Frame(Top.method, pc, Top.cb, Top.left, Top.pos)]
  BY <1>1, <1>2 DEF Goto, Stacked
<1> QED BY <1>3, TopMoves, TopFields

LEMMA CallStackMoves ==
    ASSUME Stacked, stack # <<>>, NEW pc \in Places, NEW cb \in Callbacks,
           Fits(Top.method, pc, cb, Top.pos),
           stack' = [stack EXCEPT ![1].cb = cb, ![1].pc = pc]
    PROVE  Stacked' /\ Moved(Top.method, pc, cb, Top.left, Top.pos)
<1>1. Top = stack[1] /\ Top \in Frames /\ 1 \in 1..Len(stack)
  BY TopKnown
<1> DEFINE g == Frame(Top.method, Top.pc, cb, Top.left, Top.pos)
<1>2. g = [stack[1] EXCEPT !.cb = cb] /\ g \in Frames
  BY <1>1 DEF Frame, Frames
<1>3. [g EXCEPT !.pc = pc] = Frame(Top.method, pc, cb, Top.left, Top.pos)
  BY DEF Frame
<1>4. [g EXCEPT !.pc = pc] = [stack[1] EXCEPT !.cb = cb, !.pc = pc]
  BY <1>2
<1>5. stack' = [stack EXCEPT ![1] = Frame(Top.method, pc, cb, Top.left, Top.pos)]
  BY <1>1, <1>3, <1>4 DEF Stacked
<1> QED BY <1>5, TopMoves, TopFields

LEMMA CallMoves ==
    ASSUME Stacked, stack # <<>>, NEW pc \in Places, NEW cb \in Callbacks,
           Fits(Top.method, pc, cb, Top.pos), CallDownstream(cb, pc)
    PROVE  Stacked' /\ Moved(Top.method, pc, cb, Top.left, Top.pos)
  BY CallStackMoves DEF CallDownstream

LEMMA ReturnMoves ==
    ASSUME Stacked, stack # <<>>, stack' = [stack EXCEPT ![1].cb = "none"]
    PROVE  Stacked' /\ Moved(Top.method, Top.pc, "none", Top.left, Top.pos)
<1>1. Top = stack[1] /\ Top \in Frames /\ 1 \in 1..Len(stack)
  BY TopKnown
<1>2. [stack[1] EXCEPT !.cb = "none"] = Frame(Top.method, Top.pc, "none", Top.left, Top.pos)
  BY <1>1 DEF Frame, Frames
<1>3. stack' = [stack EXCEPT ![1] = Frame(Top.method, Top.pc, "none", Top.left, Top.pos)]
  BY <1>1, <1>2 DEF Stacked
<1>4. Fits(Top.method, Top.pc, "none", Top.pos)
  BY TopFields DEF Fits
<1> QED BY <1>3, <1>4, TopMoves, TopFields DEF Callbacks

\* The step enters a method.
LEMMA EnterMoves ==
    ASSUME Stacked, stack = <<>> \/ Top.cb = "resume", NEW method \in Methods, NEW pc \in Places,
           NEW left \in Nat, NEW guard \in BOOLEAN, Fits(method, pc, "none", 0),
           Enter(method, pc, left, guard)
    PROVE  Stacked' /\ Moved(method, pc, "none", left, 0)
<1> DEFINE f == [method |-> method, pc |-> pc, cb |-> "none", left |-> left, pos |-> 0,
                 guard |-> guard]
<1>1. f \in Frames /\ FrameOK(f)
  BY DEF Frames, FrameOK, Callbacks
<1>2. stack' = <<f>> \o stack
  BY DEF Enter
<1>3. f.method = method /\ f.pc = pc /\ f.cb = "none" /\ f.left = left /\ f.pos = 0
  OBVIOUS
<1> HIDE DEF f
<1>4. Stacked' /\ stack' # <<>> /\ Top' = f
  BY <1>1, <1>2, Pushed
<1> QED BY <1>3, <1>4 DEF Moved, Place, Method, Left, Pos

\* The innermost method returns.
LEMMA ExitMoves ==
    ASSUME Stacked, stack # <<>>, Top.pc = "exit", stack' = Tail(stack)
    PROVE  /\ Stacked' /\ Left' = Left /\ Pos' = Pos
           /\ \/ Place' = "idle" /\ Method' = "none"
              \/ Place' = "resumed" /\ Method' = "Resume"
<1>1. Stacked' /\ (stack' # <<>> => Top'.cb = "resume" /\ Top'.pc = "resumed" /\ Top'.method = "Resume")
  BY Popped
<1>2. Left = 0 /\ Pos = 0
  BY DEF Left, Pos, LeftAt, PosAt, LoopPlaces, ParsePlaces
<1>3. CASE stack' = <<>>
  BY <1>1, <1>2, <1>3 DEF Left, Pos, Place, Method
<1>4. CASE stack' # <<>>
  <2>1. Top'.pc = "resumed" /\ Top'.method = "Resume"
    BY <1>1, <1>4
  <2> QED BY <1>1, <1>2, <1>4, <2>1
          DEF Left, Pos, Place, Method, LeftAt, PosAt, LoopPlaces, ParsePlaces
<1> QED BY <1>3, <1>4

-----------------------------------------------------------------------------
(***************************************************************************)
(* What a step keeps that moves no units into or out of the parser.        *)
(***************************************************************************)
LEMMA ResponseSame ==
    ASSUME Typed, response' = response
    PROVE  Units' = Units /\ \A n \in Nat : BodyOf(n)' = BodyOf(n)
  BY DEF Units, BodyOf

LEMMA CountsTyped ==
    ASSUME IInv
    PROVE  /\ Left \in Nat /\ Pos \in Nat /\ pending_input \in Nat /\ Remaining \in Nat
           /\ Remaining = Left + Pos + pending_input
           /\ parsed \in Nat /\ received \in Nat /\ Units \in Nat /\ BodyOf(parsed) \in Nat
           /\ pending_chain \in Nat /\ delivered \in Nat /\ lost \in Nat
<1>1. Left \in Nat /\ Pos \in Nat
  <2>1. CASE stack = <<>>
    BY <2>1 DEF Left, Pos
  <2>2. CASE stack # <<>>
    BY <2>2, TopFields DEF IInv, Left, Pos, LeftAt, PosAt
  <2> QED BY <2>1, <2>2
<1>2. Typed
  BY DEF IInv
<1>3. parsed \in Nat /\ received \in Nat /\ pending_chain \in Nat /\ delivered \in Nat
      /\ pending_input \in Nat /\ lost \in Nat
  BY <1>2 DEF Typed
<1> QED BY <1>1, <1>2, <1>3, BodyKnown, ResponseKnown DEF Remaining

\* The step may hand body down, and may give the terminal signal.
Steady ==
    /\ UNCHANGED <<received, parsed, pending_input, lost, input, response>>
    /\ Remaining' = Remaining
    /\ pending_chain' \in Nat /\ delivered' \in Nat
    /\ delivered' + pending_chain' = delivered + pending_chain
    /\ closed => closed'
    /\ outcome # "none" => outcome' = outcome
    /\ Place = "fail" => Place' = "fail" \/ outcome' # "none"

LEMMA SteadyKeeps ==
    ASSUME IInv, Steady
    PROVE  Counted' /\ Ends' = Ends /\ (Running' => Running)
<1>1. Typed /\ Counted
  BY DEF IInv
<1>2. Units' = Units /\ BodyOf(parsed)' = BodyOf(parsed)
  BY <1>1, ResponseSame DEF Steady, Typed
<1>3. Running' => Running
  BY DEF Steady, Running
<1>4. Ends' = Ends
  BY <1>2 DEF Ends, Steady
<1>5. /\ parsed' + Remaining' <= received' /\ received' <= Units'
      /\ Running' /\ Place' # "fail" => parsed' + Remaining' = received'
  BY <1>1, <1>2, <1>3 DEF Counted, Steady, Running
<1>6. /\ delivered' + pending_chain' + lost' <= BodyOf(parsed)'
      /\ Running' => delivered' + pending_chain' + lost' = BodyOf(parsed)'
  BY <1>1, <1>2, <1>3, CountsTyped DEF Counted, Steady
<1> QED BY <1>3, <1>4, <1>5, <1>6 DEF Counted

\* What is known of the activation that runs the code at pc.
LEMMA AtKnown ==
    ASSUME IInv, NEW pc, At(pc)
    PROVE  /\ stack # <<>> /\ Top.cb = "none" /\ Top.pc = pc /\ Place = pc
           /\ Top.method \in Methods /\ Method = Top.method
           /\ Top.left \in Nat /\ Top.pos \in Nat
           /\ Fits(Top.method, pc, "none", Top.pos)
           /\ Left = LeftAt(Top.method, pc, Top.left) /\ Pos = PosAt(pc, Top.pos)
           /\ Stacked /\ Typed /\ Counted /\ Message /\ Finishing /\ Pausing /\ Signalled
  BY TopFields DEF At, IInv

\* A step of the base class or of the code that moves no data at all.
Still ==
    /\ UNCHANGED <<received, parsed, pending_input, lost, input, response>>
    /\ UNCHANGED <<pending_chain, delivered, in_message, message_complete, outcome, failed>>

LEMMA StillSteady ==
    ASSUME IInv, Still, Left' = Left, Pos' = Pos, closed => closed', Place = "fail" => Place' = "fail"
    PROVE  Counted' /\ Ends' = Ends /\ (Running' => Running) /\ Remaining' = Remaining
<1>1. Remaining' = Remaining
  BY DEF Remaining, Still
<1>2. Steady
  BY <1>1, CountsTyped DEF Still, Steady
<1> QED BY <1>1, <1>2, SteadyKeeps

-----------------------------------------------------------------------------
(***************************************************************************)
(* The steps of the base class.                                            *)
(***************************************************************************)
\* The stack stands still.
LEMMA SuspendKeeps == ASSUME IInv, Suspend, UNCHANGED <<local, response>> PROVE IInv'
<1>1. Still /\ stack' = stack /\ closed' = closed /\ suspend_count' = suspend_count + 1
      /\ UNCHANGED <<paused, done_pending, finalized>>
  BY DEF Suspend, Still, local, parser, data, lifecycle, signals
<1>2. Stacked' /\ Place' = Place /\ Method' = Method /\ Left' = Left /\ Pos' = Pos
  BY <1>1 DEF IInv, Stacked, Place, Method, Left, Pos, Top
<1>3. Counted' /\ Ends' = Ends /\ (Running' => Running) /\ Remaining' = Remaining
  BY <1>1, <1>2, StillSteady
<1>4. suspend_count \in Nat /\ IsSuspended'
  BY <1>1 DEF IInv, Typed, IsSuspended
<1>5. Typed'
  BY <1>1, <1>4 DEF IInv, Typed, Still
<1>6. Message' /\ Signalled' /\ Pausing'
  BY <1>1, <1>2, <1>3, <1>4 DEF IInv, Message, Signalled, Pausing, Still
<1>7. Place \notin {"flush", "finish"}
  <2>1. CASE stack = <<>>
    BY <2>1 DEF Place
  <2>2. CASE stack # <<>>
    BY <2>2, TopFields DEF IInv, Suspend, CallerRuns, Inside, Fits
  <2> QED BY <2>1, <2>2
<1>8. Finishing'
  BY <1>1, <1>2, <1>3, <1>4, <1>7 DEF IInv, Finishing, Still
<1> QED BY <1>2, <1>3, <1>5, <1>6, <1>8 DEF IInv

LEMMA CloseKeeps == ASSUME IInv, Close, UNCHANGED <<local, response>> PROVE IInv'
<1>1. Still /\ stack' = stack /\ closed' = TRUE
      /\ UNCHANGED <<paused, done_pending, finalized, suspend_count>>
  BY DEF Close, RequestClose, Still, local, parser, data, backpressure, signals
<1>2. Stacked' /\ Place' = Place /\ Method' = Method /\ Left' = Left /\ Pos' = Pos
      /\ IsSuspended' = IsSuspended
  BY <1>1 DEF IInv, Stacked, Place, Method, Left, Pos, Top, IsSuspended
<1>3. Counted' /\ Ends' = Ends /\ ~Running' /\ Remaining' = Remaining
  BY <1>1, <1>2, StillSteady DEF Running
<1>4. Typed'
  BY <1>1 DEF IInv, Typed, Still
<1>5. Message' /\ Signalled' /\ Pausing' /\ Finishing'
  BY <1>1, <1>2, <1>3 DEF IInv, Message, Signalled, Pausing, Finishing, Still
<1> QED BY <1>2, <1>3, <1>4, <1>5 DEF IInv

LEMMA ReturnKeeps == ASSUME IInv, Return, UNCHANGED <<local, response>> PROVE IInv'
<1>1. Still /\ closed' = closed /\ UNCHANGED <<paused, done_pending, finalized, suspend_count>>
  BY DEF Return, ReleaseGuard, Still, local, parser, data, backpressure, signals, lifecycle
<1>2. Stacked' /\ Place' = Place /\ Method' = Method /\ Left' = Left /\ Pos' = Pos
      /\ IsSuspended' = IsSuspended
  BY <1>1, ReturnMoves, TopFields DEF IInv, Return, Moved, IsSuspended
<1>3. Counted' /\ Ends' = Ends /\ (Running' => Running) /\ Remaining' = Remaining
  BY <1>1, <1>2, StillSteady
<1>4. Typed'
  BY <1>1 DEF IInv, Typed, Still
<1>5. Message' /\ Signalled' /\ Pausing' /\ Finishing'
  BY <1>1, <1>2, <1>3 DEF IInv, Message, Signalled, Pausing, Finishing, Still
<1> QED BY <1>2, <1>3, <1>4, <1>5 DEF IInv

LEMMA ExitKeeps == ASSUME IInv, Exit, UNCHANGED <<local, response>> PROVE IInv'
<1>1. Still /\ closed' = closed /\ UNCHANGED <<paused, done_pending, finalized, suspend_count>>
  BY DEF Exit, ReleaseGuard, Still, local, parser, data, backpressure, signals, lifecycle
<1>2. At("exit") /\ Place = "exit" /\ Stacked /\ stack # <<>> /\ Top.pc = "exit"
  BY AtKnown DEF Exit
<1>3. Stacked' /\ Left' = Left /\ Pos' = Pos /\ IsSuspended' = IsSuspended
      /\ \/ Place' = "idle" /\ Method' = "none"
         \/ Place' = "resumed" /\ Method' = "Resume"
  BY <1>1, <1>2, ExitMoves DEF Exit, IsSuspended
<1>4. Counted' /\ Ends' = Ends /\ (Running' => Running) /\ Remaining' = Remaining
  BY <1>1, <1>2, <1>3, StillSteady
<1>5. Typed'
  BY <1>1 DEF IInv, Typed, Still
<1>6. Message' /\ Signalled' /\ Pausing'
  BY <1>1, <1>2, <1>3, <1>4 DEF IInv, Message, Signalled, Pausing, Still
<1>7. Finishing'
  BY <1>1, <1>2, <1>3, <1>4 DEF IInv, Finishing, Still, LastMethods
<1> QED BY <1>3, <1>4, <1>5, <1>6, <1>7 DEF IInv

LEMMA CloseStepKeeps == ASSUME IInv, CloseStep, UNCHANGED <<local, response>> PROVE IInv'
<1> DEFINE pc == IF Top.method = "Resume" THEN "drained" ELSE "exit"
<1>1. Still /\ closed' = TRUE /\ UNCHANGED <<paused, done_pending, finalized, suspend_count>>
  <2>1. closed \in BOOLEAN
    BY DEF IInv, Typed
  <2> QED BY <2>1 DEF CloseStep, RequestClose, Still, local, parser, data, backpressure, signals
<1>2. At("close") /\ Place = "close" /\ Stacked /\ stack # <<>> /\ Top.cb = "none"
      /\ Left = LeftAt(Top.method, "close", Top.left) /\ Pos = PosAt("close", Top.pos)
      /\ Method = Top.method /\ Fits(Top.method, "close", "none", Top.pos)
  BY AtKnown DEF CloseStep
<1>3. pc \in Places /\ Fits(Top.method, pc, Top.cb, Top.pos) /\ Goto(pc)
  BY <1>2 DEF CloseStep, Fits, Places, LoopPlaces, ParsePlaces, ResumePlaces
<1>4. pc \in {"drained", "exit"}
  OBVIOUS
<1> HIDE DEF pc
<1>5. Stacked' /\ Moved(Top.method, pc, Top.cb, Top.left, Top.pos)
  BY <1>2, <1>3, GotoMoves
<1>6. Place' \in {"drained", "exit"} /\ Method' = Method /\ Left' = Left /\ Pos' = Pos
      /\ IsSuspended' = IsSuspended
  BY <1>1, <1>2, <1>4, <1>5 DEF Moved, LeftAt, PosAt, LoopPlaces, ParsePlaces, IsSuspended
<1>7. Counted' /\ Ends' = Ends /\ ~Running' /\ Remaining' = Remaining
  BY <1>1, <1>2, <1>6, StillSteady DEF Running
<1>8. Typed'
  BY <1>1 DEF IInv, Typed, Still
<1>9. Message' /\ Signalled' /\ Pausing' /\ Finishing'
  BY <1>1, <1>2, <1>6, <1>7 DEF IInv, Message, Signalled, Pausing, Finishing, Still
<1> QED BY <1>5, <1>7, <1>8, <1>9 DEF IInv

LEMMA ResumeUpstreamKeeps == ASSUME IInv, ResumeUpstream, UNCHANGED <<local, response>> PROVE IInv'
<1>1. Still /\ closed' = closed /\ UNCHANGED <<paused, done_pending, finalized, suspend_count>>
  BY DEF ResumeUpstream, Still, local, parser, data, signals, lifecycle
<1>2. At("drained") /\ Place = "drained" /\ Stacked /\ stack # <<>> /\ Top.cb = "none"
      /\ Left = LeftAt(Top.method, "drained", Top.left) /\ Pos = PosAt("drained", Top.pos)
      /\ Method = Top.method /\ Fits(Top.method, "drained", "none", Top.pos)
  BY AtKnown DEF ResumeUpstream
<1>3. "resumed" \in Places /\ Fits(Top.method, "resumed", "none", Top.pos)
      /\ "resume" \in Callbacks /\ Fits(Top.method, "resumed", "resume", Top.pos)
  BY <1>2 DEF Fits, Places, ResumePlaces, Callbacks
<1>4. Stacked' /\ \E cb : Moved(Top.method, "resumed", cb, Top.left, Top.pos)
  <2>1. CASE Top.guard /\ ~IsSuspended
    <3>1. stack' = [stack EXCEPT ![1].cb = "resume", ![1].pc = "resumed"]
      BY <2>1 DEF ResumeUpstream
    <3>2. Stacked' /\ Moved(Top.method, "resumed", "resume", Top.left, Top.pos)
      BY <1>2, <1>3, <3>1, CallStackMoves
    <3> QED BY <3>2
  <2>2. CASE ~(Top.guard /\ ~IsSuspended)
    <3>1. Goto("resumed")
      BY <2>2 DEF ResumeUpstream
    <3> QED BY <1>2, <1>3, <3>1, GotoMoves
  <2> QED BY <2>1, <2>2
<1>5. Place' = "resumed" /\ Method' = Method /\ Left' = Left /\ Pos' = Pos
      /\ IsSuspended' = IsSuspended
  BY <1>1, <1>2, <1>4 DEF Moved, LeftAt, PosAt, LoopPlaces, ParsePlaces, IsSuspended
<1>6. Counted' /\ Ends' = Ends /\ (Running' => Running) /\ Remaining' = Remaining
  BY <1>1, <1>2, <1>5, StillSteady
<1>7. Typed'
  BY <1>1 DEF IInv, Typed, Still
<1>8. Message' /\ Signalled' /\ Pausing' /\ Finishing'
  BY <1>1, <1>2, <1>5, <1>6 DEF IInv, Message, Signalled, Pausing, Finishing, Still
<1> QED BY <1>4, <1>6, <1>7, <1>8 DEF IInv

LEMMA CompleteDeferredKeeps ==
    ASSUME IInv, CompleteDeferred, UNCHANGED <<local, response>> PROVE IInv'
<1> DEFINE pc == IF done_pending /\ ~IsSuspended THEN "flush" ELSE "exit"
<1>1. Still /\ closed' = closed /\ UNCHANGED <<paused, finalized, suspend_count>>
      /\ done_pending' \in BOOLEAN /\ (done_pending' => done_pending)
  BY DEF CompleteDeferred, Still, local, parser, data, signals, lifecycle, backpressure, IInv, Typed
<1>2. At("resumed") /\ Place = "resumed" /\ Stacked /\ stack # <<>> /\ Top.cb = "none"
      /\ Left = LeftAt(Top.method, "resumed", Top.left) /\ Pos = PosAt("resumed", Top.pos)
      /\ Method = Top.method /\ Fits(Top.method, "resumed", "none", Top.pos)
  BY AtKnown DEF CompleteDeferred
<1>3. pc \in Places /\ Fits(Top.method, pc, Top.cb, Top.pos) /\ Goto(pc)
  BY <1>2 DEF CompleteDeferred, Fits, Places, ResumePlaces
<1>4. pc \in {"flush", "exit"} /\ (pc = "flush" => done_pending /\ ~IsSuspended)
  OBVIOUS
<1> HIDE DEF pc
<1>5. Stacked' /\ Moved(Top.method, pc, Top.cb, Top.left, Top.pos)
  BY <1>2, <1>3, GotoMoves
<1>6. Place' = pc /\ Method' = Method /\ Left' = Left /\ Pos' = Pos
      /\ IsSuspended' = IsSuspended
  BY <1>1, <1>2, <1>4, <1>5 DEF Moved, LeftAt, PosAt, LoopPlaces, ParsePlaces, IsSuspended
<1>7. Counted' /\ Ends' = Ends /\ (Running' => Running) /\ Remaining' = Remaining
  BY <1>1, <1>2, <1>6, StillSteady
<1>8. Typed'
  BY <1>1 DEF IInv, Typed, Still
<1>9. Message' /\ Signalled' /\ Pausing' /\ Finishing'
  BY <1>1, <1>2, <1>4, <1>6, <1>7 DEF IInv, Message, Signalled, Pausing, Finishing, Still
<1> QED BY <1>5, <1>7, <1>8, <1>9 DEF IInv

LEMMA ResumeKeeps ==
    ASSUME NestedResume = FALSE, IInv, Resume, UNCHANGED <<local, response>> PROVE IInv'
<1>1. Still /\ closed' = closed /\ UNCHANGED <<paused, done_pending, finalized>>
      /\ suspend_count > 0 /\ suspend_count' = suspend_count - 1 /\ suspend_count \in Nat
  BY DEF Resume, Still, local, parser, data, signals, lifecycle, IInv, Typed
<1>2. Typed'
  BY <1>1 DEF IInv, Typed, Still
<1>3. CASE suspend_count # 1
  <2>1. stack' = stack /\ IsSuspended' /\ IsSuspended
    BY <1>1, <1>3 DEF Resume, IsSuspended
  <2>2. Stacked' /\ Place' = Place /\ Method' = Method /\ Left' = Left /\ Pos' = Pos
    BY <2>1 DEF IInv, Stacked, Place, Method, Left, Pos, Top
  <2>3. Counted' /\ Ends' = Ends /\ (Running' => Running) /\ Remaining' = Remaining
    BY <1>1, <2>2, StillSteady
  <2>4. Message' /\ Signalled' /\ Pausing' /\ Finishing'
    BY <1>1, <2>1, <2>2, <2>3 DEF IInv, Message, Signalled, Pausing, Finishing, Still
  <2> QED BY <1>2, <2>2, <2>3, <2>4 DEF IInv
<1>4. CASE suspend_count = 1
  <2> DEFINE pc == IF closed THEN "drained" ELSE "drain"
  <2>1. stack = <<>> /\ Stacked /\ closed \in BOOLEAN
    BY DEF IInv, Resume, Typed
  <2>2. Place = "idle" /\ Left = 0 /\ Pos = 0
    BY <2>1 DEF Place, Left, Pos
  <2>3. "Resume" \in Methods /\ pc \in Places /\ Fits("Resume", pc, "none", 0)
        /\ (~closed) \in BOOLEAN /\ 0 \in Nat
    BY <2>1 DEF Methods, Places, ResumePlaces, Fits
  <2>4. Enter("Resume", pc, 0, ~closed)
    BY <1>4 DEF Resume
  <2>5. pc \in {"drained", "drain"} /\ (pc = "drained" => closed)
    OBVIOUS
  <2> HIDE DEF pc
  <2>6. Stacked' /\ Moved("Resume", pc, "none", 0, 0)
    BY <2>1, <2>3, <2>4, EnterMoves
  <2>7. Place' = pc /\ Method' = "Resume" /\ Left' = Left /\ Pos' = Pos
    BY <2>2, <2>6 DEF Moved, LeftAt, PosAt
  <2>8. Counted' /\ Ends' = Ends /\ (Running' => Running) /\ Remaining' = Remaining
    BY <1>1, <2>2, <2>7, StillSteady
  <2>9. Message' /\ Signalled'
    BY <1>1, <2>2, <2>5, <2>7, <2>8 DEF IInv, Message, Signalled, Still
  <2>10. Pausing'
    BY <1>1, <2>5, <2>7, <2>8 DEF Pausing, Running
  <2>11. Finishing'
    BY <1>1, <2>2, <2>5, <2>7, <2>8 DEF IInv, Finishing, Still, LastMethods
  <2> QED BY <1>2, <2>6, <2>8, <2>9, <2>10, <2>11 DEF IInv
<1> QED BY <1>3, <1>4

LEMMA BaseKeeps == ASSUME NestedResume = FALSE, IInv, Base PROVE IInv'
  BY SuspendKeeps, CloseKeeps, ReturnKeeps, ExitKeeps, CloseStepKeeps, ResumeUpstreamKeeps,
     CompleteDeferredKeeps, ResumeKeeps DEF Base, CommonNext

-----------------------------------------------------------------------------
(***************************************************************************)
(* Calls of the upstream.                                                  *)
(***************************************************************************)
\* The upstream calls an idle stage, or one that waits in its Resume().
LEMMA UpstreamKnown ==
    ASSUME IInv, UpstreamRuns
    PROVE  /\ Stacked /\ (stack = <<>> \/ Top.cb = "resume")
           /\ Left = 0 /\ Pos = 0 /\ Place \in {"idle", "resumed"} /\ Method \in {"none", "Resume"}
<1>1. CASE stack = <<>>
  BY <1>1 DEF IInv, Left, Pos, Place, Method
<1>2. CASE stack # <<>>
  <2>1. Top.cb = "resume"
    BY <1>2, TopFields DEF UpstreamRuns, Inside, IInv, Callbacks
  <2>2. Top.pc = "resumed" /\ Top.method = "Resume"
    BY <1>2, <2>1, TopFields DEF IInv, Fits, ResumePlaces
  <2> QED BY <1>2, <2>1, <2>2 DEF IInv, Left, Pos, LeftAt, PosAt, LoopPlaces, ParsePlaces,
                                  Place, Method
<1> QED BY <1>1, <1>2

\* The stage is told that its upstream has ended or failed.
LEMMA TerminalKeeps ==
    ASSUME IInv, UpstreamRuns, input = "open", NEW method \in {"OnDone", "OnError"},
           NEW pc \in {"finish", "fail"}, Fits(method, pc, "none", 0),
           Enter(method, pc, 0, TRUE),
           input' = (IF method = "OnDone" THEN "done" ELSE "failed"),
           UNCHANGED <<closed, suspend_count, finalized, done_pending, received, parsed, lost, failed>>,
           UNCHANGED <<pending_input, pending_chain, delivered, in_message, message_complete>>,
           UNCHANGED <<outcome, response>>,
           paused' \in BOOLEAN, paused' => paused
    PROVE  IInv'
<1>1. /\ Stacked /\ (stack = <<>> \/ Top.cb = "resume")
      /\ Left = 0 /\ Pos = 0 /\ Place \in {"idle", "resumed"} /\ Method \in {"none", "Resume"}
  BY UpstreamKnown
<1>2. method \in Methods /\ pc \in Places /\ 0 \in Nat /\ TRUE \in BOOLEAN
  BY DEF Methods, LastMethods, Places, LoopPlaces
<1>3. Stacked' /\ Moved(method, pc, "none", 0, 0)
  BY <1>1, <1>2, EnterMoves
<1>4. Place' = pc /\ Method' = method /\ Left' = 0 /\ Pos' = 0 /\ IsSuspended' = IsSuspended
  BY <1>3 DEF Moved, LeftAt, PosAt, IsSuspended
<1>5. Typed /\ Counted /\ Message /\ Finishing /\ Pausing /\ Signalled
  BY DEF IInv
<1>6. Typed'
  BY <1>5 DEF Typed
<1>7. Remaining' = Remaining /\ Running' = Running
  BY <1>1, <1>4 DEF Remaining, Running
<1>8. Units' = Units /\ BodyOf(parsed)' = BodyOf(parsed)
  BY <1>5, ResponseSame DEF Typed
<1>9. Counted'
  BY <1>1, <1>5, <1>7, <1>8 DEF Counted
<1>10. Ends => Ends'
  BY <1>7, <1>8 DEF Ends
<1>11. Message' /\ Pausing' /\ Signalled'
  BY <1>1, <1>4, <1>5, <1>7, <1>10 DEF Message, Pausing, Signalled
<1>12. Finishing'
  BY <1>1, <1>4, <1>5, <1>7 DEF Finishing, LastMethods
<1> QED BY <1>3, <1>6, <1>9, <1>11, <1>12 DEF IInv

LEMMA OnDoneKeeps == ASSUME IInv, OnDone PROVE IInv'
<1>1. pending_input = 0 /\ paused \in BOOLEAN
  BY DEF IInv, Typed
<1>2. Fits("OnDone", "finish", "none", 0)
  BY DEF Fits, ResumePlaces, LoopPlaces, ParsePlaces, LastMethods
<1>3. Enter("OnDone", "finish", 0, TRUE)
  <2>1. ~(pending_input > 0)
    BY <1>1
  <2> QED BY <2>1, Zenon DEF OnDone
<1>4. paused' \in BOOLEAN /\ (paused' => paused)
  BY <1>1 DEF OnDone
<1> QED BY <1>2, <1>3, <1>4, TerminalKeeps DEF OnDone, unmoved, signals, backpressure, data

LEMMA OnErrorKeeps == ASSUME IInv, OnError PROVE IInv'
<1>1. paused \in BOOLEAN
  BY DEF IInv, Typed
<1>2. Fits("OnError", "fail", "none", 0)
  BY DEF Fits, LoopPlaces, ParsePlaces, ResumePlaces
<1> QED BY <1>1, <1>2, TerminalKeeps DEF OnError, unmoved, signals, backpressure, data, parser

LEMMA OnDataKeeps ==
    ASSUME IInv, NEW n \in 1..(MaxBody + 2), NEW segments \in {1, 2}, OnData(n, segments)
    PROVE  IInv'
<1> DEFINE method == IF segments = 1 THEN "OnDataWhole" ELSE "OnDataSplit"
<1>1. /\ Stacked /\ (stack = <<>> \/ Top.cb = "resume")
      /\ Left = 0 /\ Pos = 0 /\ Place \in {"idle", "resumed"} /\ Method \in {"none", "Resume"}
  BY UpstreamKnown DEF OnData
<1>2. n \in Nat /\ n > 0
  BY HttpAssumption
<1>3. /\ UNCHANGED <<closed, suspend_count, finalized, done_pending, parsed, lost, failed, paused>>
      /\ UNCHANGED <<pending_chain, delivered, in_message, message_complete>>
      /\ UNCHANGED <<input, outcome, response>>
      /\ input = "open" /\ received + n <= Units /\ received' = received + n /\ ~closed
  BY DEF OnData, unmoved, signals, backpressure, data, parser
<1>4. Typed /\ Counted /\ Message /\ Finishing /\ Pausing /\ Signalled
  BY DEF IInv
<1>5. Enter(method, "execute", n, TRUE) /\ pending_input' = 0
  <2>1. pending_input = 0 /\ ~(pending_input > 0)
    BY <1>4 DEF Typed
  <2> QED BY <2>1, Zenon DEF OnData
<1>6. method \in OwnMethods /\ method \in Methods /\ "execute" \in Places
      /\ Fits(method, "execute", "none", 0) /\ method \notin LastMethods
  BY DEF OwnMethods, Methods, Places, LoopPlaces, ParsePlaces, Fits, ResumePlaces, LastMethods
<1> HIDE DEF method
<1>7. Stacked' /\ Moved(method, "execute", "none", n, 0)
  BY <1>1, <1>2, <1>5, <1>6, EnterMoves
<1>8. Place' = "execute" /\ Left' = n /\ Pos' = 0 /\ Method' \notin LastMethods
  BY <1>6, <1>7 DEF Moved, LeftAt, PosAt, LoopPlaces, ParsePlaces
<1>9. Typed'
  BY <1>2, <1>3, <1>4, <1>5 DEF Typed
<1>10. Units' = Units /\ BodyOf(parsed)' = BodyOf(parsed)
  BY <1>3, <1>4, ResponseSame DEF Typed
<1>11. Running' = Running /\ IsSuspended' = IsSuspended
  BY <1>3 DEF Running, IsSuspended
<1>12. Counted'
  <2>1. Remaining = 0 /\ Remaining' = n /\ received \in Nat /\ parsed \in Nat
    BY <1>1, <1>2, <1>4, <1>5, <1>8 DEF Remaining, Typed
  <2>2. /\ parsed <= received
        /\ Running => parsed = received
    BY <1>1, <1>4, <2>1 DEF Counted
  <2>3. /\ parsed' + Remaining' <= received' /\ received' <= Units'
        /\ Running' /\ Place' # "fail" => parsed' + Remaining' = received'
    BY <1>2, <1>3, <1>10, <1>11, <2>1, <2>2
  <2> QED BY <1>3, <1>4, <1>10, <1>11, <2>3 DEF Counted
<1>13. ~Ends
  <2>1. parsed < Units
    BY <1>2, <1>3, <1>4, CountsTyped DEF Counted
  <2> QED BY <1>3, <2>1, CountsTyped DEF Ends
<1>14. Message' /\ Pausing' /\ Signalled'
  BY <1>1, <1>3, <1>4, <1>8, <1>11, <1>13 DEF Message, Pausing, Signalled
<1>15. Finishing'
  BY <1>1, <1>3, <1>4, <1>8, <1>11, <1>13 DEF Finishing, LastMethods
<1> QED BY <1>7, <1>9, <1>12, <1>14, <1>15 DEF IInv

-----------------------------------------------------------------------------
(***************************************************************************)
(* The stage gives a signal.                                               *)
(***************************************************************************)
LEMMA Told ==
    ASSUME IInv, stack # <<>>, Top.cb = "none", NEW signal \in {"done", "error"},
           NEW pc \in {"close", "stop", "reset"}, Fits(Top.method, pc, "none", Top.pos), Tell(signal, pc)
    PROVE  /\ Stacked' /\ \E cb : Moved(Top.method, pc, cb, Top.left, Top.pos)
           /\ finalized' = TRUE /\ outcome' \in {"done", "error"}
           /\ outcome' = IF outcome = "none" THEN signal ELSE outcome
<1>1. Stacked /\ Typed /\ (finalized => outcome # "none")
  BY DEF IInv, Signalled
<1>2. pc \in Places /\ signal \in Callbacks /\ "none" \in Callbacks
      /\ Fits(Top.method, pc, signal, Top.pos)
  BY DEF Places, LoopPlaces, ParsePlaces, Callbacks, Fits
<1>3. Stacked' /\ \E cb : Moved(Top.method, pc, cb, Top.left, Top.pos)
  <2>1. CASE finalized
    <3>1. Goto(pc)
      BY <2>1 DEF Tell, Emit
    <3> QED BY <1>1, <1>2, <3>1, GotoMoves
  <2>2. CASE ~finalized
    <3>1. CallDownstream(signal, pc)
      BY <2>2 DEF Tell, Emit
    <3> QED BY <1>1, <1>2, <3>1, CallMoves
  <2> QED BY <2>1, <2>2
<1>4. finalized' = TRUE
  BY <1>1 DEF Tell, Emit, signals, Typed
<1>5. outcome' = IF outcome = "none" THEN signal ELSE outcome
  BY <1>1 DEF Tell
<1> QED BY <1>1, <1>3, <1>4, <1>5 DEF Typed

\* A message that is over leaves nothing to parse.
LEMMA NothingRemains == ASSUME IInv, Ends PROVE Remaining = 0 /\ Left = 0 /\ Pos = 0 /\ pending_input = 0
<1>1. parsed + Remaining <= received /\ received <= Units
  BY DEF IInv, Counted
<1>2. Remaining = 0
  BY <1>1, CountsTyped DEF Ends
<1> QED BY <1>2, CountsTyped

\* The method has given a signal and goes on to close the stage.
LEMMA LeavingKeeps ==
    ASSUME IInv, Stacked', Typed', Place' \in {"close", "stop"}, Method' = Method, Left' = 0, Pos' = 0,
           outcome' # "none", UNCHANGED <<input, response, received, failed, closed>>,
           done_pending' => done_pending, paused' => in_message' /\ response.ok,
           parsed' <= received, delivered' + pending_chain' + lost' <= BodyOf(parsed'),
           ~in_message' => parsed' = 0 \/ Ends', message_complete' => in_message' /\ Ends',
           in_message' => parsed' > 0
    PROVE  IInv'
<1>1. Typed /\ Counted /\ Finishing /\ Signalled
  BY DEF IInv
<1>2. Units' = Units /\ BodyOf(parsed)' = BodyOf(parsed')
  BY <1>1, ResponseSame DEF Typed, BodyOf
<1>3. Remaining' = 0 /\ ~Running' /\ parsed' \in Nat
  BY DEF Typed, Remaining, Running
<1>4. Counted'
  BY <1>1, <1>2, <1>3 DEF Counted
<1>5. Message' /\ Finishing' /\ Pausing'
  BY <1>1, <1>3 DEF Message, Finishing, Pausing
<1>6. Signalled'
  BY <1>1 DEF Signalled
<1> QED BY <1>4, <1>5, <1>6 DEF IInv

\* The same for the methods that move no units.
LEMMA LeavesKeeps ==
    ASSUME IInv, stack # <<>>, Top.cb = "none", NEW signal \in {"done", "error"},
           NEW pc \in {"close", "stop"}, Fits(Top.method, pc, "none", Top.pos),
           Tell(signal, pc), done_pending' = done_pending, paused' = paused,
           UNCHANGED <<closed, suspend_count, received, parsed, lost, failed, pending_input>>,
           UNCHANGED <<pending_chain, delivered, in_message, input, response>>,
           message_complete' \in BOOLEAN, message_complete' => in_message /\ Ends
    PROVE  IInv' /\ outcome' = IF outcome = "none" THEN signal ELSE outcome
<1>1. Stacked /\ Typed /\ Counted /\ Message
  BY DEF IInv
<1>3. /\ Stacked' /\ \E cb : Moved(Top.method, pc, cb, Top.left, Top.pos)
      /\ finalized' = TRUE /\ outcome' \in {"done", "error"}
      /\ outcome' = IF outcome = "none" THEN signal ELSE outcome
  BY Told
<1>4. Place' = pc /\ Method' = Method /\ Left' = 0 /\ Pos' = 0
  BY <1>1, <1>3, TopFields DEF Moved, LeftAt, PosAt, LoopPlaces, ParsePlaces
<1>5. Typed'
  BY <1>1, <1>3 DEF Typed
<1>6. Ends => Ends'
  <2>1. Units' = Units
    BY <1>1, ResponseSame
  <2>2. Remaining' = 0
    BY <1>4, <1>5 DEF Remaining, Typed
  <2> QED BY <2>1, <2>2 DEF Ends
<1>7. /\ parsed' <= received /\ delivered' + pending_chain' + lost' <= BodyOf(parsed')
      /\ (~in_message' => parsed' = 0 \/ Ends') /\ (message_complete' => in_message' /\ Ends')
      /\ (paused' => in_message' /\ response.ok) /\ (in_message' => parsed' > 0)
  <2>1. parsed + Remaining <= received /\ delivered + pending_chain + lost <= BodyOf(parsed)
    BY <1>1 DEF Counted
  <2>2. parsed <= received
    BY <2>1, CountsTyped
  <2>3. (~in_message => parsed = 0 \/ Ends) /\ (in_message => parsed > 0)
        /\ (paused => in_message /\ response.ok)
    BY <1>1 DEF Message
  <2> QED BY <1>6, <2>1, <2>2, <2>3
<1>8. IInv'
  BY <1>3, <1>4, <1>5, <1>7, LeavingKeeps
<1> QED BY <1>3, <1>8

\* The body held back is handed down, and the method goes on at pc.
LEMMA Forwarded ==
    ASSUME IInv, stack # <<>>, Top.cb = "none",
           NEW pc \in {"completed", "redelivered", "completed_late", "flushed"},
           Fits(Top.method, pc, "none", Top.pos), Forward(0, pc)
    PROVE  /\ Stacked' /\ Moved(Top.method, pc, "data", Top.left, Top.pos)
           /\ pending_chain' \in Nat /\ delivered' \in Nat
           /\ delivered' + pending_chain' = delivered + pending_chain
           /\ delivered' >= delivered /\ (delivered' > delivered => pending_chain > 0)
<1>1. Stacked /\ pending_chain \in Nat /\ delivered \in Nat
  BY DEF IInv, Typed
<1>2. pc \in Places /\ "data" \in Callbacks /\ Fits(Top.method, pc, "data", Top.pos)
  BY DEF Places, LoopPlaces, ParsePlaces, ResumePlaces, Callbacks, Fits
<1>3. CallDownstream("data", pc)
  BY DEF Forward
<1>4. PICK used \in {0, pending_chain + 0} :
         pending_chain' = pending_chain + 0 - used /\ delivered' = delivered + used
  BY DEF Forward
<1>5. used \in Nat /\ used <= pending_chain
  BY <1>1, <1>4
<1> QED BY <1>1, <1>2, <1>3, <1>4, <1>5, CallMoves

-----------------------------------------------------------------------------
(***************************************************************************)
(* The loop over llhttp_execute.                                           *)
(***************************************************************************)
\* The loop is left: a method that parses does not wait for a completion.
LEMMA LoopLeft ==
    ASSUME IInv, stack # <<>>, Top.cb = "none", Top.pc \in {"execute", "stop"},
           Top.method \notin {"OnDoneFinish", "FlushFinish"}, LeaveLoop
    PROVE  /\ Stacked' /\ done_pending' = done_pending
           /\ Place' \in {"drained", "exit"} /\ Method' = Method /\ Left' = 0 /\ Pos' = 0
<1> DEFINE pc == IF Top.method = "Resume" THEN "drained" ELSE "exit"
<1>1. Stacked /\ Typed /\ Method = Top.method /\ Top.method \in OwnMethods \cup {"Resume"}
      /\ Fits(Top.method, Top.pc, Top.cb, Top.pos) /\ Top.left \in Nat /\ Top.pos \in Nat
  BY TopFields DEF IInv, Fits, LoopPlaces
<1>2. Goto(pc) /\ done_pending' = done_pending
  BY <1>1 DEF LeaveLoop, OwnMethods, Typed
<1>3. pc \in Places /\ Fits(Top.method, pc, "none", Top.pos) /\ pc \in {"drained", "exit"}
      /\ Top.method \in Methods
  BY <1>1 DEF Fits, Places, LoopPlaces, ParsePlaces, ResumePlaces, OwnMethods, LastMethods, Methods
<1> HIDE DEF pc
<1>4. Stacked' /\ Moved(Top.method, pc, "none", Top.left, Top.pos)
  BY <1>1, <1>2, <1>3, GotoMoves
<1> QED BY <1>1, <1>2, <1>3, <1>4 DEF Moved, LeftAt, PosAt, LoopPlaces, ParsePlaces

LEMMA ExecutedKeeps == ASSUME IInv, Executed PROVE IInv'
<1>1. /\ stack # <<>> /\ Top.cb = "none" /\ Top.pc = "execute" /\ Place = "execute"
      /\ Method = Top.method /\ Fits(Top.method, "execute", "none", Top.pos) /\ Top.left \in Nat
      /\ Left = LeftAt(Top.method, "execute", Top.left) /\ Pos = PosAt("execute", Top.pos)
      /\ Stacked /\ Typed /\ Counted /\ Message /\ Finishing /\ Pausing /\ Signalled
  BY AtKnown DEF Executed
<1>2. Left = 0 /\ Pos = 0 /\ Top.method \notin LastMethods
  BY <1>1 DEF Executed, ChainSize, Own, OwnMethods, LeftAt, PosAt, ParsePlaces, Fits,
              LoopPlaces, LastMethods
<1>3. /\ Stacked' /\ done_pending' = done_pending
      /\ Place' \in {"drained", "exit"} /\ Method' = Method /\ Left' = Left /\ Pos' = Pos
  BY <1>1, <1>2, LoopLeft DEF Executed, LastMethods
<1>4. Still /\ UNCHANGED <<closed, suspend_count, paused, finalized>>
  BY DEF Executed, Still, lifecycle, backpressure, signals, local, parser, data
<1>5. Counted' /\ Ends' = Ends /\ (Running' => Running) /\ Remaining' = Remaining
  BY <1>1, <1>3, <1>4, StillSteady
<1>6. Typed' /\ IsSuspended' = IsSuspended
  BY <1>1, <1>3, <1>4 DEF Typed, Still, IsSuspended
<1>7. Message' /\ Pausing' /\ Signalled'
  BY <1>1, <1>3, <1>4, <1>5, <1>6 DEF Message, Pausing, Signalled, Still
<1>8. Finishing'
  BY <1>1, <1>2, <1>3, <1>4, <1>5, <1>6 DEF Finishing, Still
<1> QED BY <1>3, <1>5, <1>6, <1>7, <1>8 DEF IInv

\* A paused parser refuses all that is left: it is consumed, and what is body of
\* it is lost.  One that has failed refuses it too, but its stage is closed.
LEMMA RefusedTakes ==
    ASSUME IInv, Refused
    PROVE  \/ /\ paused /\ Left \in Nat /\ Pos = 0 /\ parsed' = parsed + Left /\ lost' \in Nat
              /\ lost' - lost = BodyOf(parsed') - BodyOf(parsed) /\ lost' >= lost
              /\ parsed' <= received
           \/ closed /\ UNCHANGED <<parsed, lost>>
<1>1. /\ Top.method \in Methods /\ Top.left \in Nat /\ Fits(Top.method, "execute", "none", Top.pos)
      /\ Left = LeftAt(Top.method, "execute", Top.left) /\ Pos = PosAt("execute", Top.pos)
      /\ Typed /\ Counted /\ Message /\ Signalled
  BY AtKnown DEF Refused
<1>2. pending_input = 0 /\ ChainSize > 0 /\ (paused \/ failed)
  BY <1>1 DEF Refused, Typed
<1>3. Own /\ ChainSize = Left /\ Left \in Nat /\ Left > 0 /\ Pos = 0
  BY <1>1, <1>2 DEF ChainSize, Own, OwnMethods, LeftAt, PosAt, ParsePlaces, LoopPlaces
<1>4. CASE paused
  <2>1. parsed' = parsed + Left /\ lost' = lost + BodyUpTo(parsed')
    BY <1>3, <1>4 DEF Refused
  <2>2. in_message /\ response.ok /\ parsed > 0 /\ parsed \in Nat /\ lost \in Nat
    BY <1>1, <1>4 DEF Message, Typed
  <2>3. parsed' \in Nat /\ parsed' > parsed /\ parsed' <= received
    <3>1. parsed + Remaining <= received /\ Remaining = Left + Pos + pending_input
      BY <1>1, CountsTyped DEF Counted
    <3> QED BY <1>2, <1>3, <2>1, <2>2, <3>1, CountsTyped
  <2>4. response.body \in Nat
    BY <1>1, ResponseKnown
  <2>5. BodyUpTo(parsed') = BodyOf(parsed') - BodyOf(parsed)
    <3>1. ASSUME NEW k \in Nat, k > 0
          PROVE  BodyOf(k) \in Nat /\ Min({k, response.body + 1}) = BodyOf(k) + 1
      <4>1. Min({k, response.body + 1}) = IF k <= response.body + 1 THEN k ELSE response.body + 1
        BY <2>4, LeastOfTwo
      <4>2. BodyOf(k) \in Nat /\ (k <= response.body => BodyOf(k) = k - 1)
            /\ (k > response.body => BodyOf(k) = response.body)
        BY <1>1, <2>2, <3>1, BodyKnown
      <4> QED BY <2>4, <3>1, <4>1, <4>2
    <3>2. Min({parsed', response.body + 1}) = BodyOf(parsed') + 1
      BY <2>2, <2>3, <3>1
    <3>3. Min({parsed, response.body + 1}) = BodyOf(parsed) + 1
      BY <2>2, <3>1
    <3>4. BodyOf(parsed') \in Nat /\ BodyOf(parsed) \in Nat
      BY <1>1, <2>2, <2>3, BodyKnown
    <3>5. BodyUpTo(parsed') = (BodyOf(parsed') + 1) - (BodyOf(parsed) + 1)
      BY <3>2, <3>3 DEF BodyUpTo
    <3> QED BY <3>4, <3>5
  <2>6. BodyOf(parsed) \in Nat /\ BodyOf(parsed') \in Nat /\ BodyOf(parsed) <= BodyOf(parsed')
    BY <1>1, <2>2, <2>3, BodyKnown, BodyGrows
  <2> QED BY <1>3, <1>4, <2>1, <2>2, <2>3, <2>5, <2>6
<1>5. CASE ~paused
  <2>1. UNCHANGED <<parsed, lost>>
    BY <1>5 DEF Refused
  <2> QED BY <1>1, <1>2, <1>5, <2>1 DEF Signalled
<1> QED BY <1>4, <1>5

LEMMA RefusedKeeps == ASSUME IInv, Refused PROVE IInv'
<1>1. /\ stack # <<>> /\ Top.cb = "none" /\ Top.pc = "execute" /\ Place = "execute"
      /\ Method = Top.method /\ Fits(Top.method, "execute", "none", Top.pos) /\ Top.left \in Nat
      /\ Left = LeftAt(Top.method, "execute", Top.left) /\ Pos = PosAt("execute", Top.pos)
      /\ Stacked /\ Typed /\ Counted /\ Message /\ Finishing /\ Pausing /\ Signalled
  BY AtKnown DEF Refused
<1>2. \/ /\ paused /\ Left \in Nat /\ Pos = 0 /\ parsed' = parsed + Left /\ lost' \in Nat
         /\ lost' - lost = BodyOf(parsed') - BodyOf(parsed) /\ lost' >= lost
         /\ parsed' <= received
      \/ closed /\ UNCHANGED <<parsed, lost>>
  BY RefusedTakes
<1>3. Top.method \notin LastMethods /\ ChainSize > 0
  BY <1>1 DEF Refused, Fits, LoopPlaces, OwnMethods, LastMethods
<1>4. /\ Stacked' /\ done_pending' = done_pending
      /\ Place' \in {"drained", "exit"} /\ Method' = Method /\ Left' = 0 /\ Pos' = 0
  BY <1>1, <1>3, LoopLeft DEF Refused, LastMethods
<1>5. /\ UNCHANGED <<closed, suspend_count, paused, failed, finalized, received>>
      /\ UNCHANGED <<in_message, message_complete, pending_chain, delivered>>
      /\ UNCHANGED <<input, outcome, response>>
  BY DEF Refused, lifecycle, backpressure, signals, data
<1>6. pending_input' = 0
  BY <1>1 DEF Refused, Typed
<1>7. Typed'
  BY <1>1, <1>2, <1>4, <1>5, <1>6 DEF Typed
<1>8. Units' = Units /\ BodyOf(parsed)' = BodyOf(parsed') /\ Running' = Running
      /\ IsSuspended' = IsSuspended
  BY <1>1, <1>5, ResponseSame DEF BodyOf, Running, IsSuspended
<1>9. ~Ends
  <2>1. Left > 0
    BY <1>1, <1>3 DEF ChainSize, Own, OwnMethods, LeftAt, LoopPlaces, Typed
  <2> QED BY <2>1, NothingRemains, CountsTyped
<1>10. Remaining' = 0 /\ parsed' \in Nat /\ received \in Nat
  BY <1>4, <1>6, <1>7, CountsTyped DEF Remaining, Typed
<1>11. /\ parsed \in Nat /\ BodyOf(parsed) \in Nat /\ BodyOf(parsed') \in Nat
       /\ pending_chain \in Nat /\ delivered \in Nat /\ lost \in Nat
  BY <1>1, <1>10, BodyKnown, CountsTyped
<1>12. /\ parsed + Remaining <= received /\ received <= Units
       /\ Running /\ Place # "fail" => parsed + Remaining = received
       /\ delivered + pending_chain + lost <= BodyOf(parsed)
       /\ Running => delivered + pending_chain + lost = BodyOf(parsed)
       /\ Remaining = Left + Pos /\ Left \in Nat /\ Pos \in Nat
  BY <1>1, CountsTyped DEF Counted, Typed
<1>13. Counted'
  <2>1. CASE /\ paused /\ Left \in Nat /\ Pos = 0 /\ parsed' = parsed + Left /\ lost' \in Nat
             /\ lost' - lost = BodyOf(parsed') - BodyOf(parsed) /\ lost' >= lost
             /\ parsed' <= received
    <3>1. /\ parsed' + Remaining' <= received' /\ received' <= Units'
          /\ Running' /\ Place' # "fail" => parsed' + Remaining' = received'
      BY <1>1, <1>5, <1>8, <1>10, <1>12, <2>1
    <3>2. /\ delivered' + pending_chain' + lost' <= BodyOf(parsed')
          /\ Running' => delivered' + pending_chain' + lost' = BodyOf(parsed')
      BY <1>5, <1>8, <1>11, <1>12, <2>1
    <3> QED BY <1>8, <3>1, <3>2 DEF Counted
  <2>2. CASE closed /\ UNCHANGED <<parsed, lost>>
    <3>1. ~Running' /\ parsed <= received
      BY <1>5, <1>8, <1>11, <1>12, <2>2, CountsTyped DEF Running
    <3> QED BY <1>5, <1>8, <1>10, <1>12, <2>2, <3>1 DEF Counted
  <2> QED BY <1>2, <2>1, <2>2
<1>14. parsed' = 0 <=> parsed = 0
  BY <1>1, <1>2, <1>11 DEF Message
<1>15. Message' /\ Pausing' /\ Signalled'
  BY <1>1, <1>4, <1>5, <1>8, <1>9, <1>10, <1>11, <1>14 DEF Message, Pausing, Signalled
<1>16. Finishing'
  BY <1>1, <1>3, <1>4, <1>5, <1>8 DEF Finishing
<1> QED BY <1>4, <1>7, <1>13, <1>15, <1>16 DEF IInv

\* What llhttp takes is a segment of what the loop has.
LEMMA ChunkKnown ==
    ASSUME IInv, At("execute"), ChainSize > 0
    PROVE  /\ Chunk \in Nat /\ Chunk >= 1 /\ Chunk <= ChainSize /\ ChainSize \in Nat
           /\ ChainSize = (IF Own THEN Top.left ELSE pending_input)
           /\ (Own <=> Top.method \in OwnMethods) /\ Left = (IF Own THEN Top.left ELSE 0) /\ Pos = 0
<1>1. Top.left \in Nat /\ pending_input \in Nat
      /\ Left = LeftAt(Top.method, "execute", Top.left) /\ Pos = PosAt("execute", Top.pos)
  BY AtKnown DEF Typed
<1> QED BY <1>1 DEF ChainSize, Chunk, Own, OwnMethods, LeftAt, PosAt, LoopPlaces, ParsePlaces

LEMMA ExecuteMoves ==
    ASSUME IInv, Execute
    PROVE  LET left == IF Own THEN Top.left - Chunk ELSE Top.left
           IN  left \in Nat /\ Stacked' /\ Moved(Top.method, "parse", "none", left, Chunk)
<1> DEFINE left == IF Own THEN Top.left - Chunk ELSE Top.left
<1>1. /\ stack # <<>> /\ Top.cb = "none" /\ Top.pc = "execute" /\ Top.method \in Methods
      /\ Top.left \in Nat /\ Top.pos \in Nat /\ Fits(Top.method, "execute", "none", Top.pos) /\ Stacked
  BY AtKnown DEF Execute
<1>2. /\ Chunk \in Nat /\ Chunk <= ChainSize /\ ChainSize = (IF Own THEN Top.left ELSE pending_input)
  BY ChunkKnown DEF Execute
<1>3. left \in Nat
  BY <1>1, <1>2
<1>4. Top = stack[1] /\ 1 \in 1..Len(stack) /\ Top = Frame(Top.method, Top.pc, Top.cb, Top.left, Top.pos)
  BY <1>1, TopFields
<1>5. stack' = [stack EXCEPT ![1].pc = "parse", ![1].pos = Chunk, ![1].left = left]
  BY <1>4 DEF Execute
<1> HIDE DEF left
<1> DEFINE f == Frame(Top.method, "parse", "none", left, Chunk)
           g == Frame(Top.method, "parse", "none", Top.left, Top.pos)
           h == Frame(Top.method, "parse", "none", Top.left, Chunk)
<1>6. [stack[1] EXCEPT !.pc = "parse"] = g /\ [g EXCEPT !.pos = Chunk] = h /\ [h EXCEPT !.left = left] = f
  <2>1. Top \in Frames
    BY <1>1, TopKnown
  <2>2. [stack[1] EXCEPT !.pc = "parse"] = g
    BY <1>1, <1>4, <2>1 DEF Frame, Frames
  <2>3. [g EXCEPT !.pos = Chunk] = h
    BY DEF Frame
  <2>4. [h EXCEPT !.left = left] = f
    BY DEF Frame
  <2> QED BY <2>2, <2>3, <2>4
<1> HIDE DEF f, g, h
<1>7. [stack[1] EXCEPT !.pc = "parse", !.pos = Chunk, !.left = left] = f
  BY <1>6
<1>8. stack' = [stack EXCEPT ![1] = f]
  BY <1>4, <1>5, <1>7 DEF Stacked
<1>9. Fits(Top.method, "parse", "none", Chunk)
  BY <1>1 DEF Fits, LoopPlaces, ParsePlaces, ResumePlaces
<1>10. "parse" \in Places /\ "none" \in Callbacks
  BY DEF Places, LoopPlaces, ParsePlaces, Callbacks
<1>11. Stacked' /\ Moved(Top.method, "parse", "none", left, Chunk)
  BY <1>1, <1>2, <1>3, <1>8, <1>9, <1>10, TopMoves DEF f
<1> QED BY <1>3, <1>11 DEF left

LEMMA ExecuteKeeps == ASSUME IInv, Execute PROVE IInv'
<1> DEFINE left == IF Own THEN Top.left - Chunk ELSE Top.left
<1>1. /\ stack # <<>> /\ Top.cb = "none" /\ Place = "execute" /\ Method = Top.method
      /\ Top.method \in Methods /\ Fits(Top.method, "execute", "none", Top.pos) /\ Top.left \in Nat
      /\ Stacked /\ Typed /\ Counted /\ Message /\ Finishing /\ Pausing /\ Signalled
  BY AtKnown DEF Execute
<1>2. left \in Nat /\ Stacked' /\ Moved(Top.method, "parse", "none", left, Chunk)
  BY ExecuteMoves
<1>3. /\ Chunk \in Nat /\ Chunk >= 1 /\ Chunk <= ChainSize /\ ChainSize \in Nat
      /\ ChainSize = (IF Own THEN Top.left ELSE pending_input)
      /\ (Own <=> Top.method \in OwnMethods) /\ Left = (IF Own THEN Top.left ELSE 0) /\ Pos = 0
  BY ChunkKnown DEF Execute
<1>4. /\ UNCHANGED <<closed, suspend_count, paused, finalized, done_pending, received, parsed>>
      /\ UNCHANGED <<in_message, message_complete, pending_chain, delivered, lost, failed>>
      /\ UNCHANGED <<input, outcome, response>> /\ ~paused
      /\ pending_input' = IF Own THEN pending_input ELSE pending_input - Chunk
  BY DEF Execute, lifecycle, backpressure, signals, parser, data
<1>5. Place' = "parse" /\ Method' = Method /\ Pos' = Chunk /\ Left' = (IF Own THEN left ELSE 0)
  BY <1>1, <1>2, <1>3 DEF Moved, LeftAt, PosAt, LoopPlaces, ParsePlaces
<1>6. pending_input' \in Nat /\ Remaining' = Remaining /\ Remaining > 0
  <2>1. Remaining = Left + Pos + pending_input /\ pending_input \in Nat
    BY CountsTyped
  <2>2. Remaining' = Left' + Pos' + pending_input'
    BY DEF Remaining
  <2>3. CASE Own
    BY <1>1, <1>3, <1>4, <1>5, <2>1, <2>2, <2>3
  <2>4. CASE ~Own
    BY <1>1, <1>3, <1>4, <1>5, <2>1, <2>2, <2>4
  <2> QED BY <2>3, <2>4
<1> HIDE DEF left
<1>7. Typed'
  <2>1. pending_input' = 0
    BY <1>1, <1>3, <1>4 DEF Typed
  <2> QED BY <1>1, <1>4, <2>1 DEF Typed
<1>8. Units' = Units /\ BodyOf(parsed)' = BodyOf(parsed) /\ Running' = Running
      /\ IsSuspended' = IsSuspended
  BY <1>1, <1>4, ResponseSame DEF Typed, Running, IsSuspended
<1>9. ~Ends
  BY <1>6, CountsTyped, NothingRemains
<1>10. Counted' /\ ~Ends'
  BY <1>1, <1>4, <1>5, <1>6, <1>8, <1>9 DEF Counted, Ends
<1>11. Message' /\ Pausing' /\ Signalled'
  BY <1>1, <1>4, <1>5, <1>8, <1>9 DEF Message, Pausing, Signalled
<1>12. Method \notin {"OnDoneFinish", "FlushFinish"}
  BY <1>1 DEF Fits
<1>13. Finishing'
  BY <1>1, <1>4, <1>5, <1>8, <1>12 DEF Finishing
<1> QED BY <1>2, <1>7, <1>10, <1>11, <1>13 DEF IInv

LEMMA ChunkEndsKeeps == ASSUME IInv, ChunkEnds PROVE IInv'
<1> DEFINE pc == IF Top.method \in {"OnDoneFinish", "FlushFinish"} THEN "status" ELSE "execute"
<1>1. /\ stack # <<>> /\ Top.cb = "none" /\ Place = "parse" /\ Method = Top.method
      /\ Top.method \in Methods /\ Fits(Top.method, "parse", "none", Top.pos) /\ Top.left \in Nat
      /\ Left = LeftAt(Top.method, "parse", Top.left) /\ Pos = PosAt("parse", Top.pos)
      /\ Stacked /\ Typed /\ Counted /\ Message /\ Finishing /\ Pausing /\ Signalled
  BY AtKnown DEF ChunkEnds
<1>2. Goto(pc) /\ pc \in Places /\ Fits(Top.method, pc, Top.cb, Top.pos) /\ pc \in {"status", "execute"}
      /\ (pc = "status" <=> Top.method \in {"OnDoneFinish", "FlushFinish"}) /\ Top.pos = 0
  BY <1>1 DEF ChunkEnds, InFinish, OwnMethods, Fits, Places, LoopPlaces, ParsePlaces, ResumePlaces, LastMethods
<1> HIDE DEF pc
<1>3. Stacked' /\ Moved(Top.method, pc, "none", Top.left, Top.pos)
  BY <1>1, <1>2, GotoMoves
<1>4. Place' = pc /\ Method' = Method /\ Left' = Left /\ Pos' = Pos
  BY <1>1, <1>2, <1>3 DEF Moved, LeftAt, PosAt, LoopPlaces, ParsePlaces, OwnMethods
<1>5. Still /\ UNCHANGED <<closed, suspend_count, paused, finalized, done_pending>>
  BY DEF ChunkEnds, Still, lifecycle, backpressure, signals, local, parser, data
<1>6. Counted' /\ Ends' = Ends /\ (Running' => Running) /\ Remaining' = Remaining
  BY <1>1, <1>4, <1>5, StillSteady
<1>7. Typed' /\ IsSuspended' = IsSuspended
  BY <1>1, <1>5 DEF Typed, Still, IsSuspended
<1>8. Message' /\ Pausing' /\ Signalled'
  BY <1>1, <1>2, <1>4, <1>5, <1>6, <1>7 DEF Message, Pausing, Signalled, Still
<1>9. Ends => Remaining = 0
  BY NothingRemains
<1>10. pc = "status" /\ Running => message_complete /\ Remaining = 0
  BY <1>1, <1>2, <1>9 DEF Finishing, Message, Running
<1>11. Finishing'
  BY <1>1, <1>2, <1>4, <1>5, <1>6, <1>7, <1>10 DEF Finishing, Still
<1> QED BY <1>3, <1>6, <1>7, <1>8, <1>11 DEF IInv

\* The parser takes a unit: the message is not over.
LEMMA TakesUnit ==
    ASSUME IInv, At("parse"), Top.pos > 0
    PROVE  /\ stack # <<>> /\ Top.cb = "none" /\ Place = "parse" /\ Method = Top.method
           /\ Top.method \in Methods \ {"OnDoneFinish", "FlushFinish", "OnError"}
           /\ Top.left \in Nat /\ Top.pos \in Nat /\ Top.pos - 1 \in Nat
           /\ Fits(Top.method, "parse", "none", Top.pos)
           /\ Left = LeftAt(Top.method, "parse", Top.left) /\ Pos = Top.pos
           /\ ~Ends /\ ~message_complete /\ (in_message \/ parsed = 0)
           /\ (outcome # "none" => closed)
           /\ parsed + 1 <= Units /\ Remaining > 0
           /\ Stacked /\ Typed /\ Counted /\ Message /\ Finishing /\ Pausing /\ Signalled
<1>1. /\ stack # <<>> /\ Top.cb = "none" /\ Place = "parse" /\ Method = Top.method
      /\ Top.method \in Methods
      /\ Top.left \in Nat /\ Top.pos \in Nat
      /\ Fits(Top.method, "parse", "none", Top.pos)
      /\ Left = LeftAt(Top.method, "parse", Top.left) /\ Pos = PosAt("parse", Top.pos)
      /\ Stacked /\ Typed /\ Counted /\ Message /\ Finishing /\ Pausing /\ Signalled
  BY AtKnown
<1>2. Pos = Top.pos
  BY <1>1 DEF PosAt, ParsePlaces
<1>3. Remaining > 0 /\ Top.pos - 1 \in Nat
  BY <1>1, <1>2, CountsTyped
<1>4. ~Ends
  BY <1>3, CountsTyped, NothingRemains
<1>5. parsed + 1 <= Units
  BY <1>1, <1>3, CountsTyped DEF Counted
<1>6. Top.method \notin {"OnDoneFinish", "FlushFinish", "OnError"}
  BY <1>1, <1>2 DEF Finishing, Fits
<1>7. ~message_complete /\ (in_message \/ parsed = 0) /\ (outcome # "none" => closed)
  BY <1>1, <1>4 DEF Message, Signalled
<1> QED BY <1>1, <1>2, <1>3, <1>4, <1>5, <1>6, <1>7

LEMMA TakeMoves ==
    ASSUME IInv, At("parse"), Top.pos > 0, Take("parse"),
           NEW pc, pc = IF EndsMessage(parsed + 1) THEN "complete" ELSE "parse"
    PROVE  Stacked' /\ Moved(Top.method, pc, "none", Top.left, Top.pos - 1)
<1>1. /\ stack # <<>> /\ Top.cb = "none" /\ Top.method \in Methods \ {"OnDoneFinish", "FlushFinish", "OnError"}
      /\ Top.left \in Nat /\ Top.pos \in Nat /\ Top.pos - 1 \in Nat /\ Stacked
      /\ Fits(Top.method, "parse", "none", Top.pos)
  BY TakesUnit
<1>2. Top = stack[1] /\ 1 \in 1..Len(stack) /\ Top \in Frames
  BY <1>1, TopKnown
<1>3. stack' = [stack EXCEPT ![1].pos = Top.pos - 1, ![1].pc = pc]
  BY <1>2 DEF Take
<1> DEFINE f == Frame(Top.method, pc, "none", Top.left, Top.pos - 1)
           g == Frame(Top.method, Top.pc, "none", Top.left, Top.pos - 1)
<1>4. [stack[1] EXCEPT !.pos = Top.pos - 1] = g
  BY <1>1, <1>2 DEF Frame, Frames
<1>5. [g EXCEPT !.pc = pc] = f
  BY DEF Frame
<1> HIDE DEF f, g
<1>6. [stack[1] EXCEPT !.pos = Top.pos - 1, !.pc = pc] = f
  BY <1>4, <1>5
<1>7. stack' = [stack EXCEPT ![1] = f]
  BY <1>1, <1>2, <1>3, <1>6 DEF Stacked
<1>8. Fits(Top.method, pc, "none", Top.pos - 1)
  BY <1>1 DEF Fits, LoopPlaces, ParsePlaces, ResumePlaces
<1>9. pc \in Places /\ "none" \in Callbacks
  BY DEF Places, LoopPlaces, ParsePlaces, Callbacks
<1> QED BY <1>1, <1>7, <1>8, <1>9, TopMoves DEF f

\* The parser takes a unit that is no body.
LEMMA TakeKeeps ==
    ASSUME IInv, At("parse"), Top.pos > 0, Take("parse"), in_message' = TRUE,
           BodyOf(parsed + 1) = BodyOf(parsed),
           UNCHANGED <<closed, suspend_count, paused, finalized, done_pending, received>>,
           UNCHANGED <<message_complete, pending_input, pending_chain, delivered, lost, failed>>,
           UNCHANGED <<input, outcome, response>>
    PROVE  IInv'
<1> DEFINE pc == IF EndsMessage(parsed + 1) THEN "complete" ELSE "parse"
<1>1. /\ stack # <<>> /\ Top.cb = "none" /\ Place = "parse" /\ Method = Top.method
      /\ Top.method \in Methods \ {"OnDoneFinish", "FlushFinish", "OnError"}
      /\ Top.left \in Nat /\ Top.pos \in Nat /\ Top.pos - 1 \in Nat
      /\ Fits(Top.method, "parse", "none", Top.pos)
      /\ Left = LeftAt(Top.method, "parse", Top.left) /\ Pos = Top.pos
      /\ ~Ends /\ ~message_complete /\ (in_message \/ parsed = 0)
      /\ (outcome # "none" => closed)
      /\ parsed + 1 <= Units /\ Remaining > 0
      /\ Stacked /\ Typed /\ Counted /\ Message /\ Finishing /\ Pausing /\ Signalled
  BY TakesUnit
<1>2. Stacked' /\ Moved(Top.method, pc, "none", Top.left, Top.pos - 1)
  BY TakeMoves
<1>3. pc \in {"complete", "parse"} /\ (pc = "complete" => EndsMessage(parsed + 1))
  OBVIOUS
<1> HIDE DEF pc
<1>4. Place' = pc /\ Method' = Method /\ Left' = Left /\ Pos' = Pos - 1
  BY <1>1, <1>2, <1>3 DEF Moved, LeftAt, PosAt, LoopPlaces, ParsePlaces
<1>5. parsed' = parsed + 1
  BY DEF Take
<1>6. Remaining' = Remaining - 1
  BY <1>4, CountsTyped DEF Remaining
<1>7. Typed'
  BY <1>1, <1>5 DEF Typed
<1>8. Units' = Units /\ BodyOf(parsed)' = BodyOf(parsed) /\ Running' = Running
      /\ IsSuspended' = IsSuspended
  <2>1. Units' = Units
    BY <1>1, ResponseSame
  <2>2. BodyOf(parsed)' = BodyOf(parsed + 1)
    BY <1>5 DEF BodyOf
  <2> QED BY <2>1, <2>2 DEF Running, IsSuspended
<1>9. Counted'
  <2>1. parsed + Remaining <= received /\ received <= Units
        /\ (Running /\ Place # "fail" => parsed + Remaining = received)
    BY <1>1 DEF Counted
  <2>2. /\ parsed' + Remaining' = parsed + Remaining
    BY <1>5, <1>6, CountsTyped
  <2>3. /\ parsed' + Remaining' <= received' /\ received' <= Units'
        /\ Running' /\ Place' # "fail" => parsed' + Remaining' = received'
    BY <1>1, <1>8, <2>1, <2>2
  <2> QED BY <1>1, <1>8, <2>3 DEF Counted
<1>10. pc = "complete" => Ends'
  BY <1>3, <1>5, <1>8 DEF EndsMessage, Ends
<1>11. Message'
  <2>1. parsed' > 0
    BY <1>5, CountsTyped
  <2>2. Place' \in {"complete", "parse"} /\ (Place' = "complete" => Ends')
    BY <1>3, <1>4, <1>10
  <2>3. paused => response.ok
    BY <1>1 DEF Message
  <2> QED BY <1>1, <2>1, <2>2, <2>3 DEF Message
<1>12. Pausing'
  BY <1>1, <1>4, <1>8 DEF Pausing
<1>13. Signalled'
  BY <1>1 DEF Signalled
<1>14. Finishing'
  BY <1>1, <1>3, <1>4, <1>8 DEF Finishing
<1> QED BY <1>2, <1>7, <1>9, <1>11, <1>12, <1>13, <1>14 DEF IInv

LEMMA ParseHeadKeeps == ASSUME IInv, ParseHead PROVE IInv'
<1>1. At("parse") /\ Top.pos > 0 /\ parsed = 0 /\ Take("parse") /\ Typed
  BY DEF ParseHead, IsHead, IInv
<1>2. BodyOf(parsed + 1) = BodyOf(parsed)
  <2>1. BodyOf(0) = 0 /\ response.body \in Nat
    BY <1>1, BodyKnown, ResponseKnown
  <2>2. BodyOf(1) = 0
    BY <1>1, <2>1, BodyKnown
  <2> QED BY <1>1, <2>1, <2>2
<1> QED BY <1>1, <1>2, TakeKeeps DEF ParseHead, lifecycle, backpressure, signals, data

LEMMA ParseSilentKeeps == ASSUME IInv, ParseSilent PROVE IInv'
<1>1. At("parse") /\ Top.pos > 0 /\ parsed # 0 /\ Take("parse") /\ Typed
      /\ (parsed \in 1..response.body => in_message /\ ~response.ok)
  BY DEF ParseSilent, IsHead, IsBody, StatusError, IInv
<1>2. in_message /\ in_message' = TRUE
  BY <1>1, TakesUnit DEF ParseSilent, Typed
<1>3. BodyOf(parsed + 1) = BodyOf(parsed)
  <2>1. parsed \in Nat /\ response.body \in Nat /\ response.ok \in BOOLEAN
    BY <1>1, ResponseKnown DEF Typed
  <2>2. CASE ~response.ok
    BY <1>1, <2>1, <2>2, BodyKnown
  <2>3. CASE response.ok
    <3>1. parsed > response.body
      BY <1>1, <2>1, <2>3
    <3> QED BY <1>1, <2>1, <2>3, <3>1, BodyKnown
  <2> QED BY <2>1, <2>2, <2>3
<1> QED BY <1>1, <1>2, <1>3, TakeKeeps DEF ParseSilent, lifecycle, backpressure, signals, data

LEMMA OnBodyKeeps == ASSUME IInv, OnBody PROVE IInv'
<1>1. /\ stack # <<>> /\ Top.cb = "none" /\ Place = "parse" /\ Method = Top.method
      /\ Top.method \in Methods \ {"OnDoneFinish", "FlushFinish", "OnError"}
      /\ Top.left \in Nat /\ Top.pos \in Nat /\ Top.pos - 1 \in Nat
      /\ Fits(Top.method, "parse", "none", Top.pos)
      /\ Left = LeftAt(Top.method, "parse", Top.left) /\ Pos = Top.pos
      /\ ~Ends /\ ~message_complete /\ (in_message \/ parsed = 0)
      /\ (outcome # "none" => closed)
      /\ parsed + 1 <= Units /\ Remaining > 0
      /\ Stacked /\ Typed /\ Counted /\ Message /\ Finishing /\ Pausing /\ Signalled
  BY TakesUnit DEF OnBody
<1>2. parsed \in 1..response.body /\ in_message /\ response.ok /\ parsed' = parsed + 1
  <2>1. parsed \in 1..response.body /\ ~StatusError /\ parsed' = parsed + 1
    BY DEF OnBody, IsBody
  <2>2. parsed # 0
    BY <1>1, <2>1, ResponseKnown
  <2> QED BY <1>1, <2>1, <2>2 DEF StatusError
<1>3. BodyOf(parsed + 1) = BodyOf(parsed) + 1 /\ BodyOf(parsed) = parsed - 1
  <2>1. parsed \in Nat /\ parsed > 0 /\ parsed <= response.body /\ response.body \in Nat
    BY <1>1, <1>2, ResponseKnown DEF Typed
  <2>2. BodyOf(parsed) = parsed - 1
    BY <1>1, <1>2, <2>1, BodyKnown
  <2>3. BodyOf(parsed + 1) = parsed
    BY <1>1, <1>2, <2>1, BodyKnown
  <2> QED BY <2>1, <2>2, <2>3
<1>4. UNCHANGED <<closed, suspend_count, done_pending, received, paused, in_message,
                  message_complete, lost, failed, pending_input, input, response>>
  BY DEF OnBody, unmoved, backpressure
<1>5. BodyOf(parsed)' = BodyOf(parsed') /\ Units' = Units
  BY <1>1, <1>4, ResponseSame DEF BodyOf
<1>6. CASE 1 > MaxBuffered - pending_chain
  <2>1. Tell("error", "stop") /\ UNCHANGED <<pending_chain, delivered>>
    <3>1. ~(1 <= MaxBuffered - pending_chain)
      BY <1>1, <1>6, HttpAssumption DEF Typed
    <3> QED BY <3>1 DEF OnBody, data
  <2>2. Fits(Top.method, "stop", "none", Top.pos)
    BY <1>1 DEF Fits, LoopPlaces, ParsePlaces, ResumePlaces
  <2>3. /\ Stacked' /\ \E cb : Moved(Top.method, "stop", cb, Top.left, Top.pos)
        /\ finalized' = TRUE /\ outcome' \in {"done", "error"}
    BY <1>1, <2>1, <2>2, Told
  <2>4. Place' = "stop" /\ Method' = Method /\ Left' = 0 /\ Pos' = 0
    BY <1>1, <2>3 DEF Moved, LeftAt, PosAt, LoopPlaces, ParsePlaces
  <2>5. Typed'
    BY <1>1, <1>2, <1>4, <2>1, <2>3 DEF Typed
  <2>6. parsed' <= received
    <3>1. parsed + Remaining <= received
      BY <1>1 DEF Counted
    <3>2. Remaining >= 1
      BY <1>1, CountsTyped
    <3> QED BY <1>2, <1>4, <3>1, <3>2, CountsTyped
  <2>7. delivered' + pending_chain' + lost' <= BodyOf(parsed')
    <3>1. delivered + pending_chain + lost <= BodyOf(parsed) /\ BodyOf(parsed') = BodyOf(parsed) + 1
      BY <1>1, <1>2, <1>3 DEF Counted
    <3> QED BY <1>4, <2>1, <3>1, CountsTyped
  <2>8. paused' => in_message' /\ response.ok
    BY <1>2, <1>4
  <2>9. /\ ~in_message' => parsed' = 0 \/ Ends'
        /\ message_complete' => in_message' /\ Ends' /\ TRUE
        /\ in_message' => parsed' > 0
    BY <1>1, <1>2, <1>4
  <2> QED BY <1>1, <1>2, <1>4, <2>3, <2>4, <2>5, <2>6, <2>7, <2>8, <2>9, LeavingKeeps
<1>7. CASE 1 <= MaxBuffered - pending_chain
  <2>1. ~(1 > MaxBuffered - pending_chain)
    BY <1>1, <1>7, HttpAssumption DEF Typed
  <2>2. PICK used \in {0, pending_chain + 1} :
           pending_chain' = pending_chain + 1 - used /\ delivered' = delivered + used
    BY <2>1 DEF OnBody
  <2>3. /\ stack' = [stack EXCEPT ![1].cb = "data", ![1].pc = "body", ![1].pos = @ - 1]
        /\ UNCHANGED <<finalized, outcome>>
    BY <2>1 DEF OnBody
  <2>4. Stacked' /\ Moved(Top.method, "body", "data", Top.left, Top.pos - 1)
    <3>1. Top = stack[1] /\ 1 \in 1..Len(stack) /\ Top \in Frames
      BY <1>1, TopKnown
    <3>2. stack' = [stack EXCEPT ![1].cb = "data", ![1].pc = "body", ![1].pos = Top.pos - 1]
      BY <2>3, <3>1
    <3> DEFINE f == Frame(Top.method, "body", "data", Top.left, Top.pos - 1)
               g == Frame(Top.method, Top.pc, "data", Top.left, Top.pos)
               h == Frame(Top.method, "body", "data", Top.left, Top.pos)
    <3>3. [stack[1] EXCEPT !.cb = "data"] = g
      BY <1>1, <3>1 DEF Frame, Frames
    <3>4. [g EXCEPT !.pc = "body"] = h
      BY DEF Frame
    <3>5. [h EXCEPT !.pos = Top.pos - 1] = f
      BY DEF Frame
    <3> HIDE DEF f, g, h
    <3>6. [stack[1] EXCEPT !.cb = "data", !.pc = "body", !.pos = Top.pos - 1] = f
      BY <3>3, <3>4, <3>5
    <3>7. stack' = [stack EXCEPT ![1] = f]
      BY <1>1, <3>1, <3>2, <3>6 DEF Stacked
    <3>8. Fits(Top.method, "body", "data", Top.pos - 1)
      BY <1>1 DEF Fits, LoopPlaces, ParsePlaces, ResumePlaces
    <3>9. "body" \in Places /\ "data" \in Callbacks
      BY DEF Places, LoopPlaces, ParsePlaces, Callbacks
    <3> QED BY <1>1, <3>7, <3>8, <3>9, TopMoves DEF f
  <2>5. Place' = "body" /\ Method' = Method /\ Left' = Left /\ Pos' = Pos - 1
    BY <1>1, <2>4 DEF Moved, LeftAt, PosAt, LoopPlaces, ParsePlaces
  <2>6. Remaining' = Remaining - 1
    BY <1>4, <2>5, CountsTyped DEF Remaining
  <2>7. /\ pending_chain' \in Nat /\ delivered' \in Nat
        /\ delivered' + pending_chain' = delivered + pending_chain + 1
    BY <2>2, CountsTyped
  <2>8. Typed'
    BY <1>1, <1>2, <1>4, <2>3, <2>7 DEF Typed
  <2>9. Running' = Running /\ IsSuspended' = IsSuspended
    BY <1>4, <2>3 DEF Running, IsSuspended
  <2>10. Counted'
    <3>1. parsed + Remaining <= received /\ received <= Units
          /\ (Running /\ Place # "fail" => parsed + Remaining = received)
          /\ delivered + pending_chain + lost <= BodyOf(parsed)
          /\ (Running => delivered + pending_chain + lost = BodyOf(parsed))
      BY <1>1 DEF Counted
    <3>2. parsed' + Remaining' = parsed + Remaining
      <4>1. parsed \in Nat /\ Remaining \in Nat /\ parsed' = parsed + 1
        BY <1>2, CountsTyped
      <4> QED BY <2>6, <4>1
    <3>3. /\ parsed' + Remaining' <= received' /\ received' <= Units'
          /\ Running' /\ Place' # "fail" => parsed' + Remaining' = received'
      BY <1>1, <1>4, <1>5, <2>9, <3>1, <3>2
    <3>4. BodyOf(parsed') = BodyOf(parsed) + 1
      BY <1>2, <1>3
    <3>5. /\ delivered' + pending_chain' + lost' <= BodyOf(parsed')
          /\ Running' => delivered' + pending_chain' + lost' = BodyOf(parsed')
      BY <1>4, <2>7, <2>9, <3>1, <3>4, CountsTyped
    <3> QED BY <1>5, <3>3, <3>5 DEF Counted
  <2>11. Message' /\ Pausing' /\ Signalled'
    BY <1>1, <1>2, <1>4, <2>3, <2>5, <2>9 DEF Message, Pausing, Signalled
  <2>12. Finishing'
    BY <1>1, <1>4, <2>3, <2>5, <2>9 DEF Finishing
  <2> QED BY <2>4, <2>8, <2>10, <2>11, <2>12 DEF IInv
<1> QED BY <1>1, <1>6, <1>7, HttpAssumption DEF Typed

LEMMA BodyReturnedKeeps == ASSUME IInv, BodyReturned PROVE IInv'
<1> DEFINE pc == IF EndsMessage(parsed) THEN "complete" ELSE "parse"
<1>1. /\ stack # <<>> /\ Top.cb = "none" /\ Place = "body" /\ Method = Top.method
      /\ Top.method \in Methods /\ Fits(Top.method, "body", "none", Top.pos) /\ Top.left \in Nat
      /\ Left = LeftAt(Top.method, "body", Top.left) /\ Pos = PosAt("body", Top.pos)
      /\ Stacked /\ Typed /\ Counted /\ Message /\ Finishing /\ Pausing /\ Signalled
  BY AtKnown DEF BodyReturned
<1>2. Goto(pc) /\ pc \in Places /\ Fits(Top.method, pc, Top.cb, Top.pos) /\ pc \in {"complete", "parse"}
      /\ (pc = "complete" => Ends)
  BY <1>1 DEF BodyReturned, Fits, Places, LoopPlaces, ParsePlaces, ResumePlaces, EndsMessage, Ends
<1> HIDE DEF pc
<1>3. Stacked' /\ Moved(Top.method, pc, "none", Top.left, Top.pos)
  BY <1>1, <1>2, GotoMoves
<1>4. Place' = pc /\ Method' = Method /\ Left' = Left /\ Pos' = Pos
      /\ Method \notin {"OnDoneFinish", "FlushFinish"}
  BY <1>1, <1>2, <1>3 DEF Moved, LeftAt, PosAt, LoopPlaces, ParsePlaces, Fits
<1>5. Still /\ UNCHANGED <<closed, suspend_count, finalized, done_pending>>
      /\ paused' = (paused \/ IsSuspended)
  BY DEF BodyReturned, Still, lifecycle, backpressure, signals, data
<1>6. Counted' /\ Ends' = Ends /\ (Running' => Running) /\ Remaining' = Remaining
  BY <1>1, <1>4, <1>5, StillSteady
<1>7. Typed' /\ IsSuspended' = IsSuspended
  BY <1>1, <1>5 DEF Typed, Still, IsSuspended
<1>8. Message' /\ Signalled'
  BY <1>1, <1>2, <1>4, <1>5, <1>6 DEF Message, Signalled, Still
<1>9. Pausing' /\ Finishing'
  BY <1>1, <1>2, <1>4, <1>5, <1>6, <1>7 DEF Pausing, Finishing, Still
<1> QED BY <1>3, <1>6, <1>7, <1>8, <1>9 DEF IInv

-----------------------------------------------------------------------------
(***************************************************************************)
(* The end of the message.                                                 *)
(***************************************************************************)
LEMMA NothingHeld ==
    ASSUME NEW a \in Nat, NEW b \in Nat, NEW d \in Nat, a + b = d + 0, a >= d
    PROVE  b = 0
  OBVIOUS

\* The method goes on at pc, and may have handed body down.
LEMMA GoesOnKeeps ==
    ASSUME IInv, stack # <<>>, Stacked', NEW pc, Place' = pc,
           Left' = Left, Pos' = Pos, pc # "fail",
           UNCHANGED <<received, parsed, pending_input, lost, failed, input, response, in_message>>,
           UNCHANGED <<closed, suspend_count, finalized, outcome>>,
           pending_chain' \in Nat, delivered' \in Nat,
           delivered' + pending_chain' = delivered + pending_chain,
           delivered' >= delivered, delivered' > delivered => outcome = "none" \/ closed,
           Place \notin {"fail", "close", "stop"},
           paused' \in BOOLEAN, message_complete' \in BOOLEAN, done_pending' \in BOOLEAN
    PROVE  /\ Typed' /\ Counted' /\ Ends' = Ends /\ Running' = Running /\ Remaining' = Remaining
           /\ IsSuspended' = IsSuspended /\ Signalled'
<1>1. Typed /\ Signalled
  BY DEF IInv
<1>2. Remaining' = Remaining /\ Running' = Running /\ IsSuspended' = IsSuspended
  BY DEF Remaining, Running, IsSuspended
<1>3. Steady
  BY <1>2 DEF Steady
<1>4. Counted' /\ Ends' = Ends
  BY <1>3, SteadyKeeps
<1>5. Typed'
  BY <1>1 DEF Typed
<1>6. Signalled'
  <2>1. CASE outcome = "none" \/ closed
    BY <1>1, <2>1 DEF Signalled
  <2>2. CASE outcome # "none" /\ ~closed
    <3>1. pending_chain = 0 /\ Ends
      BY <1>1, <2>2 DEF Signalled
    <3>2. delivered \in Nat /\ delivered' >= delivered
      BY <1>1, <2>2 DEF Typed
    <3>3. delivered' + pending_chain' = delivered + 0
      BY <3>1, Zenon
    <3>4. pending_chain' = 0
      BY <3>2, <3>3, NothingHeld
    <3> QED BY <1>1, <1>4, <3>1, <3>4 DEF Signalled
  <2> QED BY <2>1, <2>2
<1> QED BY <1>2, <1>4, <1>5, <1>6

\* Body is held back only while the stage may still hand it down.
LEMMA HandsDown ==
    ASSUME IInv, pending_chain > 0, Place \notin {"close", "stop"} PROVE outcome = "none" \/ closed
  BY DEF IInv, Signalled, Typed

LEMMA OnMessageCompleteKeeps == ASSUME IInv, OnMessageComplete PROVE IInv'
<1>1. /\ stack # <<>> /\ Top.cb = "none" /\ Place = "complete" /\ Method = Top.method
      /\ Top.method \in Methods /\ Fits(Top.method, "complete", "none", Top.pos) /\ Top.left \in Nat
      /\ Left = LeftAt(Top.method, "complete", Top.left) /\ Pos = PosAt("complete", Top.pos)
      /\ Stacked /\ Typed /\ Counted /\ Message /\ Finishing /\ Pausing /\ Signalled
  BY AtKnown DEF OnMessageComplete
<1>2. /\ UNCHANGED <<closed, suspend_count, done_pending, received, parsed, paused, in_message>>
      /\ UNCHANGED <<lost, failed, pending_input, input, response>> /\ message_complete' = TRUE
  BY DEF OnMessageComplete, unmoved, backpressure
<1>3. in_message /\ Ends
  BY <1>1 DEF Message
<1>4. CASE StatusError
  <2>1. Tell("error", "stop") /\ UNCHANGED <<pending_chain, delivered>>
    BY <1>4 DEF OnMessageComplete, data
  <2>2. Fits(Top.method, "stop", "none", Top.pos)
    BY <1>1 DEF Fits, LoopPlaces, ParsePlaces, ResumePlaces
  <2> QED BY <1>1, <1>2, <1>3, <2>1, <2>2, LeavesKeeps
<1>5. CASE ~StatusError
  <2>1. response.ok
    BY <1>3, <1>5 DEF StatusError
  <2>2. "completed" \in Places /\ Fits(Top.method, "completed", "none", Top.pos)
    BY <1>1 DEF Fits, Places, LoopPlaces, ParsePlaces, ResumePlaces
  <2>3. /\ Stacked' /\ \E cb : Moved(Top.method, "completed", cb, Top.left, Top.pos)
        /\ pending_chain' \in Nat /\ delivered' \in Nat
        /\ delivered' + pending_chain' = delivered + pending_chain /\ delivered' >= delivered
        /\ (delivered' > delivered => pending_chain > 0)
        /\ UNCHANGED <<finalized, outcome>>
    <3>1. CASE pending_chain > 0
      <4>1. Forward(0, "completed") /\ UNCHANGED <<finalized, outcome>>
        BY <1>1, <1>5, <3>1 DEF OnMessageComplete, Typed
      <4> QED BY <1>1, <2>2, <4>1, Forwarded
    <3>2. CASE ~(pending_chain > 0)
      <4>1. Goto("completed") /\ UNCHANGED <<finalized, outcome, pending_chain, delivered>>
        BY <1>1, <1>5, <3>2 DEF OnMessageComplete, Typed, signals, data
      <4>2. Stacked' /\ Moved(Top.method, "completed", Top.cb, Top.left, Top.pos)
        BY <1>1, <2>2, <4>1, GotoMoves
      <4> QED BY <4>1, <4>2, CountsTyped
    <3> QED BY <3>1, <3>2
  <2>4. Place' = "completed" /\ Method' = Method /\ Left' = Left /\ Pos' = Pos
    BY <1>1, <2>3 DEF Moved, LeftAt, PosAt, LoopPlaces, ParsePlaces
  <2>5. /\ Typed' /\ Counted' /\ Ends' = Ends /\ Running' = Running /\ Remaining' = Remaining
        /\ IsSuspended' = IsSuspended /\ Signalled'
    <3>1. delivered' > delivered => outcome = "none" \/ closed
      BY <1>1, <2>3, HandsDown
    <3>2. paused' \in BOOLEAN /\ message_complete' \in BOOLEAN /\ done_pending' \in BOOLEAN
      BY <1>1, <1>2 DEF Typed
    <3> QED BY <1>1, <1>2, <2>3, <2>4, <3>1, <3>2, GoesOnKeeps
  <2>6. Message' /\ Pausing' /\ Finishing'
    BY <1>1, <1>2, <1>3, <2>1, <2>3, <2>4, <2>5 DEF Message, Pausing, Finishing
  <2> QED BY <2>3, <2>5, <2>6 DEF IInv
<1> QED BY <1>4, <1>5

\* EmitDone where the message is over.
LEMMA DoneKeeps ==
    ASSUME IInv, stack # <<>>, Top.cb = "none", Place \in {"completed", "completed_late"},
           Tell("done", "reset"), pending_chain = 0,
           UNCHANGED <<closed, suspend_count, done_pending, received, parsed, paused, in_message>>,
           UNCHANGED <<message_complete, lost, failed, pending_input, pending_chain, delivered>>,
           UNCHANGED <<input, response>>
    PROVE  IInv' /\ outcome' = IF outcome = "none" THEN "done" ELSE outcome
<1>1. /\ Stacked /\ Typed /\ Counted /\ Message /\ Finishing /\ Pausing /\ Signalled
  BY DEF IInv
<1>2. /\ Top.method \in Methods /\ Fits(Top.method, Place, "none", Top.pos)
      /\ Method = Top.method /\ Top.left \in Nat /\ Top.pos \in Nat
      /\ Left = LeftAt(Top.method, Place, Top.left) /\ Pos = PosAt(Place, Top.pos)
  BY <1>1, TopFields
<1>3. message_complete /\ in_message /\ Ends
  BY <1>1 DEF Message
<1>4. Fits(Top.method, "reset", "none", Top.pos)
  BY <1>2 DEF Fits, LoopPlaces, ParsePlaces, ResumePlaces
<1>5. /\ Stacked' /\ \E cb : Moved(Top.method, "reset", cb, Top.left, Top.pos)
      /\ finalized' = TRUE /\ outcome' \in {"done", "error"}
      /\ outcome' = IF outcome = "none" THEN "done" ELSE outcome
  BY <1>4, Told
<1>6. Place' = "reset" /\ Method' = Method /\ Left' = Left /\ Pos' = Pos
  <2>1. Place = "completed_late" => Top.method = "Resume" /\ Top.pos = 0
    BY <1>2 DEF Fits, ResumePlaces
  <2> QED BY <1>2, <1>5, <2>1 DEF Moved, LeftAt, PosAt, LoopPlaces, ParsePlaces, OwnMethods
<1>7. Typed'
  BY <1>1, <1>5 DEF Typed
<1>8. Remaining' = Remaining /\ Steady
  <2>1. Remaining' = Remaining
    BY <1>6 DEF Remaining
  <2> QED BY <1>5, <2>1, CountsTyped DEF Steady
<1>9. Counted' /\ Ends' = Ends
  BY <1>8, SteadyKeeps
<1>10. Message' /\ Finishing' /\ Pausing' /\ Signalled'
  BY <1>1, <1>3, <1>5, <1>6, <1>9 DEF Message, Finishing, Pausing, Signalled, Running
<1> QED BY <1>5, <1>7, <1>9, <1>10 DEF IInv

LEMMA CompletedKeeps == ASSUME IInv, Completed PROVE IInv'
<1>1. /\ stack # <<>> /\ Top.cb = "none" /\ Place = "completed" /\ Method = Top.method
      /\ Top.method \in Methods /\ Fits(Top.method, "completed", "none", Top.pos) /\ Top.left \in Nat
      /\ Left = LeftAt(Top.method, "completed", Top.left) /\ Pos = PosAt("completed", Top.pos)
      /\ Stacked /\ Typed /\ Counted /\ Message /\ Finishing /\ Pausing /\ Signalled
  BY AtKnown DEF Completed
<1>2. /\ UNCHANGED <<closed, suspend_count, done_pending, received, parsed, in_message>>
      /\ UNCHANGED <<message_complete, lost, failed, pending_input, pending_chain, delivered>>
      /\ UNCHANGED <<input, response>>
  BY DEF Completed, unmoved, backpressure, data
<1>3. message_complete /\ in_message /\ Ends
  BY <1>1 DEF Message
<1>4. CASE IsSuspended
  <2>1. paused' = TRUE /\ Goto("parse") /\ UNCHANGED <<finalized, outcome>>
    BY <1>4 DEF Completed, signals
  <2>2. "parse" \in Places /\ Fits(Top.method, "parse", Top.cb, Top.pos)
    BY <1>1 DEF Fits, Places, LoopPlaces, ParsePlaces, ResumePlaces
  <2>3. Stacked' /\ Moved(Top.method, "parse", "none", Top.left, Top.pos)
    BY <1>1, <2>1, <2>2, GotoMoves
  <2>4. Place' = "parse" /\ Method' = Method /\ Left' = Left /\ Pos' = Pos
    BY <1>1, <2>3 DEF Moved, LeftAt, PosAt, LoopPlaces, ParsePlaces
  <2>5. /\ Typed' /\ Counted' /\ Ends' = Ends /\ Running' = Running /\ Remaining' = Remaining
        /\ IsSuspended' = IsSuspended /\ Signalled'
    <3>1. ~(delivered' > delivered) /\ pending_chain' \in Nat /\ delivered' \in Nat
          /\ delivered' >= delivered /\ delivered' + pending_chain' = delivered + pending_chain
      BY <1>2, CountsTyped
    <3>2. paused' \in BOOLEAN /\ message_complete' \in BOOLEAN /\ done_pending' \in BOOLEAN
      BY <1>1, <1>2, <2>1 DEF Typed
    <3> QED BY <1>1, <1>2, <2>1, <2>3, <2>4, <3>1, <3>2, GoesOnKeeps
  <2>6. Pos = 0
    BY <1>3, NothingRemains
  <2>7. Message' /\ Pausing' /\ Finishing'
    BY <1>1, <1>2, <1>3, <1>4, <2>1, <2>4, <2>5, <2>6 DEF Message, Pausing, Finishing
  <2> QED BY <2>3, <2>5, <2>7 DEF IInv
<1>5. CASE ~IsSuspended
  <2>1. paused' = paused /\ IF pending_chain > 0 THEN Tell("error", "stop") ELSE Tell("done", "reset")
    BY <1>5 DEF Completed
  <2>2. CASE pending_chain > 0
    <3>1. Fits(Top.method, "stop", "none", Top.pos)
      BY <1>1 DEF Fits, LoopPlaces, ParsePlaces, ResumePlaces
    <3> QED BY <1>1, <1>2, <1>3, <2>1, <2>2, <3>1, LeavesKeeps DEF Typed
  <2>3. CASE ~(pending_chain > 0)
    BY <1>1, <1>2, <2>1, <2>3, DoneKeeps DEF Typed
  <2> QED BY <2>2, <2>3
<1> QED BY <1>4, <1>5

LEMMA ResetMessageStateKeeps == ASSUME IInv, ResetMessageState PROVE IInv'
<1>1. /\ stack # <<>> /\ Top.cb = "none" /\ Place = "reset" /\ Method = Top.method
      /\ Top.method \in Methods /\ Fits(Top.method, "reset", "none", Top.pos) /\ Top.left \in Nat
      /\ Left = LeftAt(Top.method, "reset", Top.left) /\ Pos = PosAt("reset", Top.pos)
      /\ Stacked /\ Typed /\ Counted /\ Message /\ Finishing /\ Pausing /\ Signalled
  BY AtKnown DEF ResetMessageState
<1>2. /\ UNCHANGED <<closed, suspend_count, done_pending, received, parsed, lost, pending_input>>
      /\ UNCHANGED <<delivered, input, outcome, response>>
      /\ in_message' = FALSE /\ message_complete' = FALSE /\ paused' = FALSE
      /\ failed' = FALSE
      /\ pending_chain' = 0 /\ finalized' = FALSE /\ Goto("parse")
  BY DEF ResetMessageState, backpressure, lifecycle
<1>3. outcome # "none" /\ Ends
  BY <1>1 DEF Message
<1>4. "parse" \in Places /\ Fits(Top.method, "parse", Top.cb, Top.pos)
  BY <1>1 DEF Fits, Places, LoopPlaces, ParsePlaces, ResumePlaces
<1>5. Stacked' /\ Moved(Top.method, "parse", "none", Top.left, Top.pos)
  BY <1>1, <1>2, <1>4, GotoMoves
<1>6. Place' = "parse" /\ Method' = Method /\ Left' = Left /\ Pos' = Pos
  BY <1>1, <1>5 DEF Moved, LeftAt, PosAt, LoopPlaces, ParsePlaces
<1>7. Typed'
  BY <1>1, <1>2 DEF Typed
<1>8. Units' = Units /\ BodyOf(parsed)' = BodyOf(parsed) /\ Remaining' = Remaining /\ ~Running'
  BY <1>1, <1>2, <1>3, <1>6, ResponseSame DEF Typed, Running, Remaining
<1>9. Ends' = Ends
  BY <1>2, <1>8 DEF Ends
<1>10. Counted'
  <2>1. delivered + pending_chain + lost <= BodyOf(parsed)
    BY <1>1 DEF Counted
  <2>2. delivered' + pending_chain' + lost' <= BodyOf(parsed)'
    BY <1>2, <1>8, <2>1, CountsTyped
  <2> QED BY <1>1, <1>2, <1>8, <2>2 DEF Counted
<1>11. Pos = 0
  BY <1>3, NothingRemains
<1>12. Message' /\ Finishing' /\ Pausing' /\ Signalled'
  BY <1>1, <1>2, <1>3, <1>6, <1>8, <1>9, <1>11 DEF Message, Finishing, Pausing, Signalled
<1> QED BY <1>5, <1>7, <1>10, <1>12 DEF IInv

-----------------------------------------------------------------------------
(***************************************************************************)
(* ProcessPending.                                                         *)
(***************************************************************************)
\* The body held back is handed down if there is any, and the method goes on.
LEMMA DrainMoves ==
    ASSUME IInv, stack # <<>>, Top.cb = "none", NEW pc \in {"redelivered", "completed_late"},
           Fits(Top.method, pc, "none", Top.pos),
           IF pending_chain > 0 THEN Forward(0, pc) ELSE Goto(pc) /\ UNCHANGED <<data, crashed>>
    PROVE  /\ Stacked' /\ \E cb : Moved(Top.method, pc, cb, Top.left, Top.pos)
           /\ pending_chain' \in Nat /\ delivered' \in Nat
           /\ delivered' + pending_chain' = delivered + pending_chain /\ delivered' >= delivered
           /\ (delivered' > delivered => pending_chain > 0)
<1>1. CASE pending_chain > 0
  <2>1. Forward(0, pc)
    BY <1>1
  <2>2. /\ Stacked' /\ Moved(Top.method, pc, "data", Top.left, Top.pos)
        /\ pending_chain' \in Nat /\ delivered' \in Nat
        /\ delivered' + pending_chain' = delivered + pending_chain
        /\ delivered' >= delivered /\ (delivered' > delivered => pending_chain > 0)
    BY <2>1, Forwarded
  <2> QED BY <2>2
<1>2. CASE ~(pending_chain > 0)
  <2>1. Goto(pc) /\ pending_chain' = pending_chain /\ delivered' = delivered
    BY <1>2 DEF data
  <2>2. Stacked /\ pc \in Places
    BY DEF IInv, Places, ResumePlaces
  <2>3. Stacked' /\ Moved(Top.method, pc, "none", Top.left, Top.pos)
    BY <2>1, <2>2, GotoMoves
  <2> QED BY <2>1, <2>3, CountsTyped
<1> QED BY <1>1, <1>2

LEMMA ProcessPendingKeeps == ASSUME IInv, ProcessPending PROVE IInv'
<1>1. /\ stack # <<>> /\ Top.cb = "none" /\ Place = "drain" /\ Method = Top.method
      /\ Top.method \in Methods /\ Fits(Top.method, "drain", "none", Top.pos)
      /\ Left = LeftAt(Top.method, "drain", Top.left) /\ Pos = PosAt("drain", Top.pos)
      /\ Stacked /\ Typed /\ Counted /\ Message /\ Finishing /\ Pausing /\ Signalled
  BY AtKnown DEF ProcessPending
<1>2. /\ UNCHANGED <<closed, suspend_count, done_pending, received, parsed, paused, in_message>>
      /\ UNCHANGED <<message_complete, lost, failed, pending_input, finalized, outcome, input, response>>
      /\ IF pending_chain > 0 THEN Forward(0, "redelivered")
         ELSE Goto("redelivered") /\ UNCHANGED <<data, crashed>>
  BY DEF ProcessPending, parser, backpressure, lifecycle
<1>3. Fits(Top.method, "redelivered", "none", Top.pos)
  BY <1>1 DEF Fits, ResumePlaces
<1>4. /\ Stacked' /\ \E cb : Moved(Top.method, "redelivered", cb, Top.left, Top.pos)
      /\ pending_chain' \in Nat /\ delivered' \in Nat
      /\ delivered' + pending_chain' = delivered + pending_chain /\ delivered' >= delivered
      /\ (delivered' > delivered => pending_chain > 0)
  BY <1>1, <1>2, <1>3, DrainMoves
<1>5. Place' = "redelivered" /\ Method' = Method /\ Left' = Left /\ Pos' = Pos
  BY <1>1, <1>4 DEF Moved, LeftAt, PosAt, LoopPlaces, ParsePlaces
<1>6. /\ Typed' /\ Counted' /\ Ends' = Ends /\ Running' = Running /\ Remaining' = Remaining
      /\ IsSuspended' = IsSuspended /\ Signalled'
  <2>1. delivered' > delivered => outcome = "none" \/ closed
    BY <1>1, <1>4, HandsDown
  <2>2. paused' \in BOOLEAN /\ message_complete' \in BOOLEAN /\ done_pending' \in BOOLEAN
    BY <1>1, <1>2 DEF Typed
  <2> QED BY <1>1, <1>2, <1>4, <1>5, <2>1, <2>2, GoesOnKeeps
<1>7. Message' /\ Pausing' /\ Finishing'
  BY <1>1, <1>2, <1>5, <1>6 DEF Message, Pausing, Finishing
<1> QED BY <1>4, <1>6, <1>7 DEF IInv

LEMMA RedeliveredKeeps == ASSUME IInv, Redelivered PROVE IInv'
<1>1. /\ stack # <<>> /\ Top.cb = "none" /\ Place = "redelivered" /\ Method = Top.method
      /\ Top.method \in Methods /\ Fits(Top.method, "redelivered", "none", Top.pos)
      /\ Left = LeftAt(Top.method, "redelivered", Top.left) /\ Pos = PosAt("redelivered", Top.pos)
      /\ Stacked /\ Typed /\ Counted /\ Message /\ Finishing /\ Pausing /\ Signalled
  BY AtKnown DEF Redelivered
<1>2. /\ UNCHANGED <<closed, suspend_count, done_pending, received, parsed, in_message>>
      /\ UNCHANGED <<message_complete, lost, failed, pending_input, finalized, outcome, input, response>>
  BY DEF Redelivered, backpressure, lifecycle
<1>3. Method = "Resume" /\ Left = 0 /\ Pos = 0
  BY <1>1 DEF Fits, ResumePlaces, LeftAt, PosAt, LoopPlaces, ParsePlaces
<1>4. ASSUME NEW pc \in {"drained", "execute", "completed_late"}
      PROVE  pc \in Places /\ Fits(Top.method, pc, "none", Top.pos)
  BY <1>1, <1>3 DEF Fits, Places, LoopPlaces, ResumePlaces
<1>5. message_complete \in BOOLEAN /\ done_pending \in BOOLEAN /\ paused \in BOOLEAN
  BY <1>1 DEF Typed
<1>6. CASE IsSuspended
  <2>1. Goto("drained") /\ paused' = paused /\ UNCHANGED <<pending_chain, delivered>>
    BY <1>6 DEF Redelivered, data
  <2>2. Stacked' /\ Moved(Top.method, "drained", "none", Top.left, Top.pos)
    BY <1>1, <1>4, <2>1, GotoMoves
  <2>3. Place' = "drained" /\ Method' = Method /\ Left' = Left /\ Pos' = Pos
    BY <1>1, <1>3, <2>2 DEF Moved, LeftAt, PosAt, LoopPlaces, ParsePlaces
  <2>4. /\ Typed' /\ Counted' /\ Ends' = Ends /\ Running' = Running /\ Remaining' = Remaining
        /\ IsSuspended' = IsSuspended /\ Signalled'
    <3>1. ~(delivered' > delivered) /\ pending_chain' \in Nat /\ delivered' \in Nat
          /\ delivered' >= delivered /\ delivered' + pending_chain' = delivered + pending_chain
      BY <2>1, CountsTyped
    <3> QED BY <1>1, <1>2, <1>5, <2>1, <2>2, <2>3, <3>1, GoesOnKeeps
  <2>5. Message' /\ Pausing' /\ Finishing'
    BY <1>1, <1>2, <1>3, <1>6, <2>1, <2>3, <2>4 DEF Message, Pausing, Finishing
  <2> QED BY <2>2, <2>4, <2>5 DEF IInv
<1>7. CASE ~IsSuspended /\ message_complete /\ ~StatusError /\ ~done_pending
  <2>1. /\ paused' = paused
        /\ IF pending_chain > 0 THEN Forward(0, "completed_late")
           ELSE Goto("completed_late") /\ UNCHANGED <<data, crashed>>
    BY <1>7 DEF Redelivered
  <2>2. /\ Stacked' /\ \E cb : Moved(Top.method, "completed_late", cb, Top.left, Top.pos)
        /\ pending_chain' \in Nat /\ delivered' \in Nat
        /\ delivered' + pending_chain' = delivered + pending_chain /\ delivered' >= delivered
        /\ (delivered' > delivered => pending_chain > 0)
    BY <1>1, <1>4, <2>1, DrainMoves
  <2>3. Place' = "completed_late" /\ Method' = Method /\ Left' = Left /\ Pos' = Pos
    BY <1>1, <1>3, <2>2 DEF Moved, LeftAt, PosAt, LoopPlaces, ParsePlaces
  <2>4. /\ Typed' /\ Counted' /\ Ends' = Ends /\ Running' = Running /\ Remaining' = Remaining
        /\ IsSuspended' = IsSuspended /\ Signalled'
    <3>1. delivered' > delivered => outcome = "none" \/ closed
      BY <1>1, <2>2, HandsDown
    <3> QED BY <1>1, <1>2, <1>5, <2>1, <2>2, <2>3, <3>1, GoesOnKeeps
  <2>5. in_message /\ response.ok
    BY <1>1, <1>7 DEF Message, StatusError
  <2>6. Message' /\ Pausing' /\ Finishing'
    BY <1>1, <1>2, <1>3, <1>7, <2>3, <2>4, <2>5 DEF Message, Pausing, Finishing
  <2> QED BY <2>2, <2>4, <2>6 DEF IInv
<1>8. CASE ~IsSuspended /\ (~message_complete \/ StatusError \/ done_pending)
  <2>1. Goto("execute") /\ paused' = FALSE /\ UNCHANGED <<pending_chain, delivered>>
    BY <1>8 DEF Redelivered, data
  <2>2. Stacked' /\ Moved(Top.method, "execute", "none", Top.left, Top.pos)
    BY <1>1, <1>4, <2>1, GotoMoves
  <2>3. Place' = "execute" /\ Method' = Method /\ Left' = Left /\ Pos' = Pos
    BY <1>1, <1>3, <2>2 DEF Moved, LeftAt, PosAt, LoopPlaces, ParsePlaces, OwnMethods
  <2>4. /\ Typed' /\ Counted' /\ Ends' = Ends /\ Running' = Running /\ Remaining' = Remaining
        /\ IsSuspended' = IsSuspended /\ Signalled'
    <3>1. ~(delivered' > delivered) /\ pending_chain' \in Nat /\ delivered' \in Nat
          /\ delivered' >= delivered /\ delivered' + pending_chain' = delivered + pending_chain
      BY <2>1, CountsTyped
    <3>2. pending_chain' \in Nat /\ delivered' \in Nat /\ delivered' >= delivered
          /\ delivered' + pending_chain' = delivered + pending_chain /\ Stacked'
      BY <2>2, <3>1
    <3>3. paused' \in BOOLEAN /\ message_complete' \in BOOLEAN /\ done_pending' \in BOOLEAN
      BY <1>2, <1>5, <2>1, Zenon
    <3> QED BY <1>1, <1>2, <2>3, <3>1, <3>2, <3>3, GoesOnKeeps
  <2>5. Message' /\ Pausing' /\ Finishing'
    BY <1>1, <1>2, <1>3, <1>8, <2>1, <2>3, <2>4 DEF Message, Pausing, Finishing
  <2> QED BY <2>2, <2>4, <2>5 DEF IInv
<1> QED BY <1>6, <1>7, <1>8 DEF Redelivered

LEMMA CompletedLateKeeps == ASSUME IInv, CompletedLate PROVE IInv'
<1>1. /\ stack # <<>> /\ Top.cb = "none" /\ Place = "completed_late" /\ Method = Top.method
      /\ Top.method \in Methods /\ Fits(Top.method, "completed_late", "none", Top.pos)
      /\ Left = LeftAt(Top.method, "completed_late", Top.left) /\ Pos = PosAt("completed_late", Top.pos)
      /\ Stacked /\ Typed /\ Counted /\ Message /\ Finishing /\ Pausing /\ Signalled
  BY AtKnown DEF CompletedLate
<1>2. /\ UNCHANGED <<closed, suspend_count, done_pending, received, parsed, paused, in_message>>
      /\ UNCHANGED <<message_complete, lost, failed, pending_input, pending_chain, delivered>>
      /\ UNCHANGED <<input, response>>
  BY DEF CompletedLate, unmoved, backpressure, data, parser
<1>3. message_complete /\ in_message /\ Ends
  BY <1>1 DEF Message
<1>4. CASE IsSuspended
  <2>1. Goto("drained") /\ UNCHANGED <<finalized, outcome>>
    BY <1>4 DEF CompletedLate, signals
  <2>2. "drained" \in Places /\ Fits(Top.method, "drained", Top.cb, Top.pos)
    BY <1>1 DEF Fits, Places, ResumePlaces
  <2>3. Stacked' /\ Moved(Top.method, "drained", "none", Top.left, Top.pos)
    BY <1>1, <2>1, <2>2, GotoMoves
  <2>4. Place' = "drained" /\ Method' = Method /\ Left' = Left /\ Pos' = Pos
    BY <1>1, <2>3 DEF Moved, LeftAt, PosAt, LoopPlaces, ParsePlaces
  <2>5. /\ Typed' /\ Counted' /\ Ends' = Ends /\ Running' = Running /\ Remaining' = Remaining
        /\ IsSuspended' = IsSuspended /\ Signalled'
    <3>1. ~(delivered' > delivered) /\ pending_chain' \in Nat /\ delivered' \in Nat
          /\ delivered' >= delivered /\ delivered' + pending_chain' = delivered + pending_chain
      BY <1>2, CountsTyped
    <3>2. paused' \in BOOLEAN /\ message_complete' \in BOOLEAN /\ done_pending' \in BOOLEAN
      BY <1>1, <1>2 DEF Typed
    <3> QED BY <1>1, <1>2, <2>1, <2>3, <2>4, <3>1, <3>2, GoesOnKeeps
  <2>6. Message' /\ Pausing' /\ Finishing'
    BY <1>1, <1>2, <1>3, <1>4, <2>4, <2>5 DEF Message, Pausing, Finishing
  <2> QED BY <2>3, <2>5, <2>6 DEF IInv
<1>5. CASE ~IsSuspended
  <2>1. IF pending_chain > 0 THEN Tell("error", "close") ELSE Tell("done", "reset")
    BY <1>5 DEF CompletedLate
  <2>2. CASE pending_chain > 0
    <3>1. Fits(Top.method, "close", "none", Top.pos)
      BY <1>1 DEF Fits, LoopPlaces, ParsePlaces, ResumePlaces
    <3> QED BY <1>1, <1>2, <1>3, <2>1, <2>2, <3>1, LeavesKeeps DEF Typed
  <2>3. CASE ~(pending_chain > 0)
    BY <1>1, <1>2, <2>1, <2>3, DoneKeeps DEF Typed
  <2> QED BY <2>2, <2>3
<1> QED BY <1>4, <1>5

-----------------------------------------------------------------------------
(***************************************************************************)
(* FlushAndComplete and the end of OnDone.                                 *)
(***************************************************************************)
\* The method goes on as another one, with nothing left of an argument.
LEMMA BecomesMoves ==
    ASSUME Stacked, stack # <<>>, Top.cb = "none", NEW method \in Methods, NEW pc \in Places,
           Fits(method, pc, "none", Top.pos),
           stack' = [stack EXCEPT ![1].method = method, ![1].pc = pc]
    PROVE  Stacked' /\ Moved(method, pc, "none", Top.left, Top.pos)
<1>1. Top = stack[1] /\ Top \in Frames /\ 1 \in 1..Len(stack)
  BY TopKnown
<1> DEFINE g == Frame(method, Top.pc, "none", Top.left, Top.pos)
<1>2. g = [stack[1] EXCEPT !.method = method] /\ g \in Frames
  BY <1>1 DEF Frame, Frames
<1>3. [g EXCEPT !.pc = pc] = Frame(method, pc, "none", Top.left, Top.pos)
  BY DEF Frame
<1>4. [g EXCEPT !.pc = pc] = [stack[1] EXCEPT !.method = method, !.pc = pc]
  BY <1>2
<1>5. stack' = [stack EXCEPT ![1] = Frame(method, pc, "none", Top.left, Top.pos)]
  BY <1>1, <1>3, <1>4 DEF Stacked
<1>6. "none" \in Callbacks /\ Top.left \in Nat /\ Top.pos \in Nat
  BY TopFields DEF Callbacks
<1> QED BY <1>5, <1>6, TopMoves

LEMMA FlushAndCompleteKeeps == ASSUME IInv, FlushAndComplete PROVE IInv'
<1>1. /\ stack # <<>> /\ Top.cb = "none" /\ Place = "flush" /\ Method = Top.method
      /\ Top.method \in Methods /\ Fits(Top.method, "flush", "none", Top.pos)
      /\ Left = LeftAt(Top.method, "flush", Top.left) /\ Pos = PosAt("flush", Top.pos)
      /\ Stacked /\ Typed /\ Counted /\ Message /\ Finishing /\ Pausing /\ Signalled
  BY AtKnown DEF FlushAndComplete
<1>2. /\ UNCHANGED <<closed, suspend_count, done_pending, received, parsed, in_message>>
      /\ UNCHANGED <<message_complete, lost, failed, pending_input, pending_chain, delivered>>
      /\ UNCHANGED <<finalized, outcome, input, response>>
      /\ stack' = [stack EXCEPT ![1].method = "Flush", ![1].pc = "finish"]
      /\ paused' = (paused /\ pending_input = 0)
  BY <1>1 DEF Typed, FlushAndComplete, backpressure, lifecycle, data, signals
<1>4. "finish" \in Places /\ "Flush" \in Methods /\ Fits("Flush", "finish", "none", Top.pos)
  BY DEF Fits, Places, LoopPlaces, ParsePlaces, ResumePlaces, Methods, LastMethods
<1>5. Stacked' /\ Moved("Flush", "finish", "none", Top.left, Top.pos)
  BY <1>1, <1>2, <1>4, BecomesMoves
<1>6. Place' = "finish" /\ Method' = "Flush" /\ Left' = Left /\ Pos' = Pos
  BY <1>1, <1>5 DEF Moved, LeftAt, PosAt, LoopPlaces, ParsePlaces, OwnMethods
<1>7. /\ Typed' /\ Counted' /\ Ends' = Ends /\ Running' = Running /\ Remaining' = Remaining
      /\ IsSuspended' = IsSuspended /\ Signalled'
  <2>1. ~(delivered' > delivered) /\ pending_chain' \in Nat /\ delivered' \in Nat
        /\ delivered' >= delivered /\ delivered' + pending_chain' = delivered + pending_chain
    BY <1>2, CountsTyped
  <2>2. paused' \in BOOLEAN /\ message_complete' \in BOOLEAN /\ done_pending' \in BOOLEAN
    BY <1>1, <1>2 DEF Typed
  <2> QED BY <1>1, <1>2, <1>5, <1>6, <2>1, <2>2, GoesOnKeeps
<1>8. paused' => paused
  BY <1>1, <1>2 DEF Typed
<1>9. Message' /\ Pausing' /\ Finishing'
  BY <1>1, <1>2, <1>6, <1>7, <1>8 DEF Message, Pausing, Finishing, LastMethods
<1> QED BY <1>5, <1>7, <1>9 DEF IInv

\* The method of a message delimited by the connection goes on in llhttp_finish.
LEMMA FinishMoves ==
    ASSUME Stacked, stack # <<>>, Top.cb = "none", NEW method \in Methods, NEW pc \in Places,
           Fits(method, pc, "none", 0),
           stack' = [stack EXCEPT ![1].pc = pc, ![1].pos = 0, ![1].method = method]
    PROVE  Stacked' /\ Moved(method, pc, "none", Top.left, 0)
<1>1. Top = stack[1] /\ Top \in Frames /\ 1 \in 1..Len(stack)
  BY TopKnown
<1> DEFINE f == Frame(method, pc, "none", Top.left, 0)
           g == Frame(Top.method, pc, "none", Top.left, Top.pos)
           h == Frame(Top.method, pc, "none", Top.left, 0)
<1>2. [stack[1] EXCEPT !.pc = pc] = g /\ [g EXCEPT !.pos = 0] = h /\ [h EXCEPT !.method = method] = f
  <2>1. [stack[1] EXCEPT !.pc = pc] = g
    BY <1>1 DEF Frame, Frames
  <2>2. [g EXCEPT !.pos = 0] = h
    BY DEF Frame
  <2>3. [h EXCEPT !.method = method] = f
    BY DEF Frame
  <2> QED BY <2>1, <2>2, <2>3
<1> HIDE DEF f, g, h
<1>3. [stack[1] EXCEPT !.pc = pc, !.pos = 0, !.method = method] = f
  BY <1>2
<1>4. stack' = [stack EXCEPT ![1] = f]
  BY <1>1, <1>3 DEF Stacked
<1>5. "none" \in Callbacks /\ Top.left \in Nat /\ 0 \in Nat
  BY TopFields DEF Callbacks
<1> QED BY <1>4, <1>5, TopMoves DEF f

LEMMA FinishKeeps == ASSUME IInv, Finish PROVE IInv'
<1>1. /\ stack # <<>> /\ Top.cb = "none" /\ Place = "finish" /\ Method = Top.method
      /\ Top.method \in Methods /\ Fits(Top.method, "finish", "none", Top.pos)
      /\ Left = LeftAt(Top.method, "finish", Top.left) /\ Pos = PosAt("finish", Top.pos)
      /\ Stacked /\ Typed /\ Counted /\ Message /\ Finishing /\ Pausing /\ Signalled
  BY AtKnown DEF Finish
<1>2. /\ UNCHANGED <<closed, suspend_count, done_pending, received, parsed, paused, in_message>>
      /\ UNCHANGED <<message_complete, lost, failed, pending_input, pending_chain, delivered>>
      /\ UNCHANGED <<input, response>>
  BY DEF Finish, backpressure, unmoved, data, parser
<1>3. Method \in {"OnDone", "Flush"} /\ input = "done" /\ Left = 0 /\ Pos = 0 /\ Remaining = 0
  BY <1>1 DEF Fits, Finishing, LastMethods, LeftAt, PosAt, LoopPlaces, ParsePlaces,
     Remaining, Typed
<1>5. /\ ~(delivered' > delivered) /\ pending_chain' \in Nat /\ delivered' \in Nat
      /\ delivered' >= delivered /\ delivered' + pending_chain' = delivered + pending_chain
  BY <1>2, CountsTyped
<1>6. paused' \in BOOLEAN /\ message_complete' \in BOOLEAN /\ done_pending' \in BOOLEAN
  BY <1>1, <1>2 DEF Typed
<1>7. CASE message_complete \/ paused \/ failed \/ ~in_message
  <2>1. Goto("status") /\ UNCHANGED <<finalized, outcome>>
    BY <1>1, <1>7 DEF Finish, signals, Typed
  <2>2. "status" \in Places /\ Fits(Top.method, "status", Top.cb, Top.pos)
    BY <1>1, <1>3 DEF Fits, Places, LoopPlaces, ParsePlaces, ResumePlaces, LastMethods
  <2>3. Stacked' /\ Moved(Top.method, "status", "none", Top.left, Top.pos)
    BY <1>1, <2>1, <2>2, GotoMoves
  <2>4. Place' = "status" /\ Method' = Method /\ Left' = Left /\ Pos' = Pos
    BY <1>1, <1>3, <2>3 DEF Moved, LeftAt, PosAt, LoopPlaces, ParsePlaces
  <2>5. /\ Typed' /\ Counted' /\ Ends' = Ends /\ Running' = Running /\ Remaining' = Remaining
        /\ IsSuspended' = IsSuspended /\ Signalled'
    BY <1>1, <1>2, <1>5, <1>6, <2>1, <2>3, <2>4, GoesOnKeeps
  <2>6. Message' /\ Pausing'
    BY <1>1, <1>2, <2>1, <2>4, <2>5 DEF Message, Pausing
  <2>7. Running => \/ Remaining = 0 /\ (message_complete \/ ~in_message)
                   \/ paused /\ IsSuspended /\ Method = "OnDone"
    <3>1. CASE paused
      BY <1>1, <1>3, <3>1 DEF Pausing, Finishing
    <3>2. CASE ~paused
      BY <1>1, <1>3, <1>7, <3>2 DEF Signalled, Running
    <3> QED BY <3>1, <3>2
  <2>8. Finishing'
    BY <1>1, <1>2, <1>3, <2>4, <2>5, <2>7 DEF Finishing, LastMethods
  <2> QED BY <2>3, <2>5, <2>6, <2>8 DEF IInv
<1>8. CASE ~message_complete /\ ~paused /\ ~failed /\ in_message /\ response.framing = "close"
  <2> DEFINE method == IF Top.method = "OnDone" THEN "OnDoneFinish" ELSE "FlushFinish"
  <2>1. /\ stack' = [stack EXCEPT ![1].pc = "complete", ![1].pos = 0,
                           ![1].method = IF @ = "OnDone" THEN "OnDoneFinish" ELSE "FlushFinish"]
        /\ UNCHANGED <<finalized, outcome>>
    BY <1>1, <1>8 DEF Finish, signals, Typed
  <2>2. Top = stack[1]
    BY <1>1, TopKnown
  <2>3. stack' = [stack EXCEPT ![1].pc = "complete", ![1].pos = 0, ![1].method = method]
    BY <2>1, <2>2
  <2>4. method \in {"OnDoneFinish", "FlushFinish"}
    OBVIOUS
  <2> HIDE DEF method
  <2>5. method \in Methods /\ "complete" \in Places /\ Fits(method, "complete", "none", 0)
    BY <2>4 DEF Fits, Methods, LastMethods, Places, LoopPlaces, ParsePlaces, ResumePlaces
  <2>6. Stacked' /\ Moved(method, "complete", "none", Top.left, 0)
    BY <1>1, <2>3, <2>5, FinishMoves
  <2>7. Place' = "complete" /\ Method' = method /\ Left' = Left /\ Pos' = Pos
    BY <1>3, <2>4, <2>6 DEF Moved, LeftAt, PosAt, LoopPlaces, ParsePlaces, OwnMethods
  <2>8. /\ Typed' /\ Counted' /\ Ends' = Ends /\ Running' = Running /\ Remaining' = Remaining
        /\ IsSuspended' = IsSuspended /\ Signalled'
    BY <1>1, <1>2, <1>5, <1>6, <2>1, <2>6, <2>7, GoesOnKeeps
  <2>9. Ends
    BY <1>3, <1>8 DEF Ends
  <2>10. Message' /\ Pausing' /\ Finishing'
    BY <1>1, <1>2, <1>3, <1>8, <2>4, <2>7, <2>8, <2>9 DEF Message, Pausing, Finishing, LastMethods
  <2> QED BY <2>6, <2>8, <2>10 DEF IInv
<1>9. CASE ~message_complete /\ ~paused /\ ~failed /\ in_message /\ response.framing # "close"
  <2>1. Tell("error", "close")
    BY <1>1, <1>9 DEF Finish, Typed
  <2>2. Fits(Top.method, "close", "none", Top.pos)
    BY <1>1 DEF Fits, LoopPlaces, ParsePlaces, ResumePlaces
  <2> QED BY <1>1, <1>2, <1>6, <1>9, <2>1, <2>2, LeavesKeeps
<1> QED BY <1>7, <1>8, <1>9

\* What is known where the end of OnDone or FlushAndComplete runs.
LEMMA LastKnown ==
    ASSUME IInv, NEW pc \in {"status", "completing", "flushed"}, At(pc)
    PROVE  /\ stack # <<>> /\ Top.cb = "none" /\ Place = pc /\ Method = Top.method
           /\ Top.method \in LastMethods /\ input = "done" /\ Left = 0 /\ Pos = 0
           /\ Stacked /\ Typed /\ Counted /\ Message /\ Finishing /\ Pausing /\ Signalled
           /\ \A next \in {"completing", "flushed", "close", "exit"} :
                 next \in Places /\ Fits(Top.method, next, "none", Top.pos)
<1>1. /\ stack # <<>> /\ Top.cb = "none" /\ Place = pc /\ Method = Top.method
      /\ Fits(Top.method, pc, "none", Top.pos)
      /\ Left = LeftAt(Top.method, pc, Top.left) /\ Pos = PosAt(pc, Top.pos)
      /\ Stacked /\ Typed /\ Counted /\ Message /\ Finishing /\ Pausing /\ Signalled
  BY AtKnown
<1>2. Top.method \in LastMethods
  BY <1>1 DEF Fits
<1>3. input = "done" /\ Left = 0 /\ Pos = 0
  BY <1>1, <1>2 DEF Finishing, LeftAt, PosAt, LoopPlaces, ParsePlaces
<1>4. ASSUME NEW next \in {"completing", "flushed", "close", "exit"}
      PROVE  next \in Places /\ Fits(Top.method, next, "none", Top.pos)
  BY <1>2 DEF Fits, Places, LoopPlaces, ParsePlaces, ResumePlaces, LastMethods
<1> QED BY <1>1, <1>2, <1>3, <1>4

\* The method goes on there, and may have held the completion back.
LEMMA LastGoesOn ==
    ASSUME IInv, stack # <<>>, Top.cb = "none", Left = 0, Pos = 0, input = "done",
           Method \in LastMethods, Place \notin {"fail", "close", "stop"},
           NEW pc \in {"completing", "flushed", "exit"}, NEW cb,
           Stacked', Moved(Top.method, pc, cb, Top.left, Top.pos),
           UNCHANGED <<received, parsed, pending_input, lost, failed, input, response, in_message>>,
           UNCHANGED <<closed, suspend_count, finalized, outcome, paused, message_complete>>,
           pending_chain' \in Nat, delivered' \in Nat,
           delivered' + pending_chain' = delivered + pending_chain,
           delivered' >= delivered, delivered' > delivered => outcome = "none" \/ closed,
           done_pending' \in BOOLEAN,
           pc # "exit" /\ Running =>
              Remaining = 0 /\ (parsed = 0 \/ (message_complete /\ response.ok))
    PROVE  IInv'
<1>1. /\ Stacked /\ Typed /\ Counted /\ Message /\ Finishing /\ Pausing /\ Signalled
      /\ Method = Top.method
  BY TopFields DEF IInv
<1>2. Place' = pc /\ Method' = Method /\ Left' = Left /\ Pos' = Pos
  BY <1>1 DEF Moved, LeftAt, PosAt, LoopPlaces, ParsePlaces
<1>3. paused' \in BOOLEAN /\ message_complete' \in BOOLEAN /\ pc # "fail"
  BY <1>1 DEF Typed
<1>4. /\ Typed' /\ Counted' /\ Ends' = Ends /\ Running' = Running /\ Remaining' = Remaining
      /\ IsSuspended' = IsSuspended /\ Signalled'
  BY <1>2, <1>3, GoesOnKeeps
<1>5. Place \in {"drain", "redelivered", "completed_late"} => FALSE
  BY <1>1, TopFields DEF Fits, ResumePlaces, LastMethods
<1>6. Message' /\ Pausing'
  BY <1>1, <1>2, <1>4, <1>5 DEF Message, Pausing
<1>7. Finishing'
  BY <1>1, <1>2, <1>4 DEF Finishing
<1> QED BY <1>4, <1>6, <1>7 DEF IInv

LEMMA StatusKeeps == ASSUME IInv, Status PROVE IInv'
<1>1. /\ stack # <<>> /\ Top.cb = "none" /\ Place = "status" /\ Method = Top.method
      /\ Top.method \in LastMethods /\ input = "done" /\ Left = 0 /\ Pos = 0
      /\ Stacked /\ Typed /\ Counted /\ Message /\ Finishing /\ Pausing /\ Signalled
  BY LastKnown DEF Status
<1>2. \A next \in {"completing", "flushed", "close", "exit"} :
         next \in Places /\ Fits(Top.method, next, "none", Top.pos)
  BY LastKnown DEF Status
<1>3. /\ UNCHANGED <<closed, suspend_count, received, parsed, paused, in_message>>
      /\ UNCHANGED <<message_complete, lost, failed, pending_input, pending_chain, delivered>>
      /\ UNCHANGED <<input, response>>
  BY DEF Status, backpressure, data, parser
<1>4. CASE StatusError /\ ~finalized
  <2>1. Tell("error", "close") /\ done_pending' = done_pending
    BY <1>1, <1>4 DEF Status, Typed
  <2>2. message_complete' \in BOOLEAN /\ (message_complete' => in_message /\ Ends)
    BY <1>1, <1>3 DEF Typed, Message
  <2> QED BY <1>1, <1>2, <1>3, <2>1, <2>2, LeavesKeeps
<1>5. CASE ~StatusError \/ finalized
  <2>1. /\ UNCHANGED <<finalized, outcome>>
        /\ IF Top.method \in {"OnDone", "OnDoneFinish"} /\ IsSuspended
           THEN done_pending' = TRUE /\ Goto("exit")
           ELSE Goto("completing") /\ UNCHANGED done_pending
    BY <1>1, <1>5 DEF Status, signals, Typed
  <2>2. /\ pending_chain' \in Nat /\ delivered' \in Nat /\ delivered' >= delivered
        /\ delivered' + pending_chain' = delivered + pending_chain /\ ~(delivered' > delivered)
    BY <1>3, CountsTyped
  <2>3. CASE Top.method \in {"OnDone", "OnDoneFinish"} /\ IsSuspended
    <3>1. done_pending' = TRUE /\ Goto("exit") /\ Fits(Top.method, "exit", Top.cb, Top.pos)
          /\ "exit" \in Places
      BY <1>1, <1>2, <2>1, <2>3
    <3>2. Stacked' /\ Moved(Top.method, "exit", "none", Top.left, Top.pos)
      BY <1>1, <3>1, GotoMoves
    <3> QED BY <1>1, <1>3, <2>1, <2>2, <3>1, <3>2, LastGoesOn
  <2>4. CASE ~(Top.method \in {"OnDone", "OnDoneFinish"} /\ IsSuspended)
    <3>1. done_pending' = done_pending /\ Goto("completing") /\ "completing" \in Places
          /\ Fits(Top.method, "completing", Top.cb, Top.pos)
      BY <1>1, <1>2, <2>1, <2>4
    <3>2. Stacked' /\ Moved(Top.method, "completing", "none", Top.left, Top.pos)
      BY <1>1, <3>1, GotoMoves
    <3>3. done_pending' \in BOOLEAN
      BY <1>1, <3>1 DEF Typed
    <3>4. Running => Remaining = 0 /\ (parsed = 0 \/ (message_complete /\ response.ok))
      <4> SUFFICES ASSUME Running PROVE Remaining = 0 /\ (parsed = 0 \/ (message_complete /\ response.ok))
        OBVIOUS
      <4>1. Remaining = 0 /\ (message_complete \/ ~in_message)
        BY <1>1, <2>4 DEF Finishing
      <4>2. ~StatusError /\ outcome = "none"
        BY <1>1, <1>5 DEF Signalled, Running
      <4>3. message_complete => response.ok
        BY <1>1, <4>2 DEF Message, StatusError
      <4>4. ~in_message => parsed = 0
        BY <1>1, <4>2 DEF Message
      <4> QED BY <4>1, <4>3, <4>4
    <3> QED BY <1>1, <1>3, <2>1, <2>2, <3>1, <3>2, <3>3, <3>4, LastGoesOn
  <2> QED BY <2>3, <2>4
<1> QED BY <1>4, <1>5

LEMMA CompleteWithFlushKeeps == ASSUME IInv, CompleteWithFlush PROVE IInv'
<1>1. /\ stack # <<>> /\ Top.cb = "none" /\ Place = "completing" /\ Method = Top.method
      /\ Top.method \in LastMethods /\ input = "done" /\ Left = 0 /\ Pos = 0
      /\ Stacked /\ Typed /\ Counted /\ Message /\ Finishing /\ Pausing /\ Signalled
  BY LastKnown DEF CompleteWithFlush
<1>2. \A next \in {"completing", "flushed", "close", "exit"} :
         next \in Places /\ Fits(Top.method, next, "none", Top.pos)
  BY LastKnown DEF CompleteWithFlush
<1>3. /\ UNCHANGED <<closed, suspend_count, done_pending, received, parsed, paused, in_message>>
      /\ UNCHANGED <<message_complete, lost, failed, pending_input, input, response>>
  BY DEF CompleteWithFlush, unmoved, backpressure, parser
<1>4. CASE pending_chain = 0
  <2>1. Tell("done", "close") /\ UNCHANGED <<pending_chain, delivered>>
    BY <1>4 DEF CompleteWithFlush, data
  <2>2. message_complete' \in BOOLEAN /\ (message_complete' => in_message /\ Ends)
    BY <1>1, <1>3 DEF Typed, Message
  <2> QED BY <1>1, <1>2, <1>3, <2>1, <2>2, LeavesKeeps
<1>5. CASE pending_chain # 0
  <2>1. Forward(0, "flushed") /\ UNCHANGED <<finalized, outcome>>
    BY <1>5 DEF CompleteWithFlush
  <2>2. /\ Stacked' /\ Moved(Top.method, "flushed", "data", Top.left, Top.pos)
        /\ pending_chain' \in Nat /\ delivered' \in Nat
        /\ delivered' + pending_chain' = delivered + pending_chain
        /\ delivered' >= delivered /\ (delivered' > delivered => pending_chain > 0)
    BY <1>1, <1>2, <2>1, Forwarded
  <2>3. delivered' > delivered => outcome = "none" \/ closed
    BY <1>1, <2>2, HandsDown
  <2>4. Running => Remaining = 0 /\ (parsed = 0 \/ (message_complete /\ response.ok))
    BY <1>1 DEF Finishing
  <2>5. done_pending' \in BOOLEAN
    BY <1>1, <1>3 DEF Typed
  <2> QED BY <1>1, <1>3, <2>1, <2>2, <2>3, <2>4, <2>5, LastGoesOn
<1> QED BY <1>4, <1>5

LEMMA FlushedKeeps == ASSUME IInv, Flushed PROVE IInv'
<1>1. /\ stack # <<>> /\ Top.cb = "none" /\ Place = "flushed" /\ Method = Top.method
      /\ Top.method \in LastMethods /\ input = "done" /\ Left = 0 /\ Pos = 0
      /\ Stacked /\ Typed /\ Counted /\ Message /\ Finishing /\ Pausing /\ Signalled
  BY LastKnown DEF Flushed
<1>2. \A next \in {"completing", "flushed", "close", "exit"} :
         next \in Places /\ Fits(Top.method, next, "none", Top.pos)
  BY LastKnown DEF Flushed
<1>3. /\ UNCHANGED <<closed, suspend_count, received, parsed, paused, in_message>>
      /\ UNCHANGED <<message_complete, lost, failed, pending_input, pending_chain, delivered>>
      /\ UNCHANGED <<input, response>>
  BY DEF Flushed, backpressure, data, parser
<1>4. CASE IsSuspended
  <2>1. done_pending' = TRUE /\ Goto("exit") /\ UNCHANGED <<finalized, outcome>>
    BY <1>4 DEF Flushed, signals
  <2>2. Fits(Top.method, "exit", Top.cb, Top.pos) /\ "exit" \in Places
    BY <1>1, <1>2
  <2>3. Stacked' /\ Moved(Top.method, "exit", "none", Top.left, Top.pos)
    BY <1>1, <2>1, <2>2, GotoMoves
  <2>4. /\ pending_chain' \in Nat /\ delivered' \in Nat /\ delivered' >= delivered
        /\ delivered' + pending_chain' = delivered + pending_chain /\ ~(delivered' > delivered)
    BY <1>3, CountsTyped
  <2> QED BY <1>1, <1>3, <2>1, <2>3, <2>4, LastGoesOn
<1>5. CASE ~IsSuspended
  <2> DEFINE signal == IF pending_chain > 0 THEN "error" ELSE "done"
  <2>1. Tell(signal, "close") /\ done_pending' = done_pending /\ signal \in {"done", "error"}
    BY <1>5 DEF Flushed
  <2> HIDE DEF signal
  <2>2. message_complete' \in BOOLEAN /\ (message_complete' => in_message /\ Ends)
    BY <1>1, <1>3 DEF Typed, Message
  <2> QED BY <1>1, <1>2, <1>3, <2>1, <2>2, LeavesKeeps
<1> QED BY <1>4, <1>5

LEMMA FailKeeps == ASSUME IInv, Fail PROVE IInv'
<1>1. stack # <<>> /\ Top.cb = "none" /\ Typed /\ Message
  BY AtKnown DEF Fail
<1>2. /\ UNCHANGED <<closed, suspend_count, done_pending, received, parsed, paused, in_message>>
      /\ UNCHANGED <<message_complete, lost, failed, pending_input, pending_chain, delivered>>
      /\ UNCHANGED <<input, response>> /\ Tell("error", "close")
  BY DEF Fail, unmoved, backpressure, data, parser
<1>4. Fits(Top.method, "close", "none", Top.pos)
  BY AtKnown DEF Fail, Fits, LoopPlaces, ParsePlaces, ResumePlaces
<1>3. message_complete' \in BOOLEAN /\ (message_complete' => in_message /\ Ends)
  BY <1>1, <1>2 DEF Typed, Message
<1> QED BY <1>1, <1>2, <1>3, <1>4, LeavesKeeps

\* What llhttp cannot parse.
LEMMA MalformedKeeps == ASSUME IInv, Malformed PROVE IInv'
<1>1. /\ stack # <<>> /\ Top.cb = "none" /\ Typed /\ Message
      /\ Fits(Top.method, "parse", "none", Top.pos)
  BY AtKnown DEF Malformed
<1>2. /\ UNCHANGED <<closed, suspend_count, done_pending, received, parsed, paused, in_message>>
      /\ UNCHANGED <<message_complete, lost, failed, pending_input, pending_chain, delivered>>
      /\ UNCHANGED <<input, response>> /\ Tell("error", "stop")
  BY DEF Malformed, unmoved, backpressure, data, parser
<1>3. message_complete' \in BOOLEAN /\ (message_complete' => in_message /\ Ends)
  BY <1>1, <1>2 DEF Typed, Message
<1>4. Fits(Top.method, "stop", "none", Top.pos)
  BY <1>1 DEF Fits, LoopPlaces, ParsePlaces, ResumePlaces
<1> QED BY <1>1, <1>2, <1>3, <1>4, LeavesKeeps

\* An error inside the parser closes the stage.
LEMMA StopKeeps == ASSUME IInv, Stop PROVE IInv'
<1>1. /\ stack # <<>> /\ Top.cb = "none" /\ Top.pc = "stop" /\ Place = "stop"
      /\ Method = Top.method /\ Fits(Top.method, "stop", "none", Top.pos)
      /\ Left = LeftAt(Top.method, "stop", Top.left) /\ Pos = PosAt("stop", Top.pos)
      /\ Stacked /\ Typed /\ Counted /\ Message /\ Finishing /\ Pausing /\ Signalled
  BY AtKnown DEF Stop
<1>2. /\ closed' = TRUE /\ UNCHANGED <<suspend_count, finalized, paused, received, parsed, lost>>
      /\ UNCHANGED <<pending_input, pending_chain, delivered, in_message, message_complete>>
      /\ UNCHANGED <<input, outcome, response>>
  <2>1. closed \in BOOLEAN
    BY <1>1 DEF Typed
  <2> QED BY <2>1 DEF Stop, RequestClose, backpressure, signals, data
<1>3. Left = 0 /\ Pos = 0
  BY <1>1 DEF LeftAt, PosAt, LoopPlaces, ParsePlaces
<1>4. /\ Stacked' /\ done_pending' = done_pending /\ failed' \in {failed, TRUE}
      /\ Place' \in {"drained", "exit"} /\ Method' = Method /\ Left' = 0 /\ Pos' = 0
  <2>1. CASE InFinish
    <3>1. Goto("exit") /\ UNCHANGED <<failed, done_pending>>
      BY <2>1 DEF Stop
    <3>2. "exit" \in Places /\ Fits(Top.method, "exit", Top.cb, Top.pos)
      BY <1>1, <2>1 DEF InFinish, Fits, Places, LoopPlaces, ParsePlaces, ResumePlaces
    <3>3. Stacked' /\ Moved(Top.method, "exit", "none", Top.left, Top.pos)
      BY <1>1, <3>1, <3>2, GotoMoves
    <3> QED BY <1>1, <3>1, <3>3 DEF Moved, LeftAt, PosAt, LoopPlaces, ParsePlaces
  <2>2. CASE ~InFinish
    <3>1. failed' = TRUE /\ LeaveLoop
      BY <2>2 DEF Stop
    <3>2. Top.method \notin {"OnDoneFinish", "FlushFinish"}
      BY <2>2 DEF InFinish
    <3> QED BY <1>1, <3>1, <3>2, LoopLeft
  <2> QED BY <2>1, <2>2
<1>5. failed' \in BOOLEAN /\ done_pending' \in BOOLEAN
  BY <1>1, <1>4 DEF Typed
<1>6. Remaining' = Remaining /\ ~Running' /\ IsSuspended' = IsSuspended
  BY <1>2, <1>3, <1>4 DEF Remaining, Running, IsSuspended
<1>7. Steady
  BY <1>1, <1>2, <1>6, CountsTyped DEF Steady
<1>8. Counted' /\ Ends' = Ends
  BY <1>7, SteadyKeeps
<1>9. Typed'
  BY <1>1, <1>2, <1>5 DEF Typed
<1>10. Message' /\ Signalled' /\ Pausing' /\ Finishing'
  BY <1>1, <1>2, <1>4, <1>6, <1>8 DEF Message, Signalled, Pausing, Finishing
<1> QED BY <1>4, <1>8, <1>9, <1>10 DEF IInv

\* A stage whose buffers are about to be released is closed.
Deferred == close_pending \/ close_deferred => closed

LEMMA DoCloseKeeps == ASSUME Deferred, IInv, DoClose PROVE IInv'
<1>1. /\ stack = <<>> /\ closed /\ pending_chain' = 0 /\ pending_input' = 0
      /\ UNCHANGED <<closed, suspend_count, done_pending, received, parsed, paused, in_message>>
      /\ UNCHANGED <<message_complete, lost, failed, delivered, finalized, outcome, input, response, stack>>
  BY DEF DoClose, Deferred, backpressure, signals, parser
<1>2. Stacked /\ Typed /\ Counted /\ Message /\ Finishing /\ Pausing /\ Signalled
  BY DEF IInv
<1>3. /\ Stacked' /\ Place = "idle" /\ Place' = "idle" /\ Method' = Method
      /\ Left = 0 /\ Pos = 0 /\ Left' = 0 /\ Pos' = 0
  BY <1>1, <1>2 DEF Stacked, Place, Method, Left, Pos
<1>4. Typed'
  BY <1>1, <1>2 DEF Typed
<1>5. Remaining' = 0 /\ ~Running'
  BY <1>1, <1>3 DEF Remaining, Running
<1>6. Units' = Units /\ BodyOf(parsed)' = BodyOf(parsed) /\ IsSuspended' = IsSuspended
  BY <1>1, <1>2, ResponseSame DEF Typed, IsSuspended
<1>7. Counted'
  <2>1. parsed + Remaining <= received /\ delivered + pending_chain + lost <= BodyOf(parsed)
    BY <1>2 DEF Counted
  <2>2. parsed + 0 <= received /\ delivered + 0 + lost <= BodyOf(parsed)
    BY <2>1, CountsTyped
  <2> QED BY <1>1, <1>2, <1>5, <1>6, <2>2 DEF Counted
<1>8. Ends => Ends'
  BY <1>1, <1>5, <1>6 DEF Ends
<1>9. Message' /\ Finishing' /\ Pausing' /\ Signalled'
  BY <1>1, <1>2, <1>3, <1>5, <1>6, <1>8 DEF Message, Finishing, Pausing, Signalled
<1> QED BY <1>3, <1>4, <1>7, <1>9 DEF IInv

-----------------------------------------------------------------------------
(***************************************************************************)
(* The invariant, and that the stage does not reopen.                      *)
(***************************************************************************)
LEMMA CodeKeeps == ASSUME Deferred, IInv, Code PROVE IInv'
  BY ExecutedKeeps, RefusedKeeps, ExecuteKeeps, ChunkEndsKeeps, ParseHeadKeeps, ParseSilentKeeps,
     MalformedKeeps, OnBodyKeeps, BodyReturnedKeeps, OnMessageCompleteKeeps, CompletedKeeps,
     ResetMessageStateKeeps, ProcessPendingKeeps, RedeliveredKeeps, CompletedLateKeeps,
     FlushAndCompleteKeeps, FinishKeeps, StatusKeeps, CompleteWithFlushKeeps,
     StopKeeps,
     FlushedKeeps, FailKeeps, DoCloseKeeps DEF Code

LEMMA DeferredKeeps == ASSUME IInv, Deferred, Next PROVE Deferred' /\ (closed => closed')
<1>1. closed \in BOOLEAN
  BY DEF IInv, Typed
<1>2. CASE Base
  BY <1>1, <1>2 DEF Base, CommonNext, Suspend, Resume, Close, Return, Exit, CloseStep,
     ResumeUpstream, CompleteDeferred, RequestClose, ReleaseGuard, ScheduleClose, lifecycle, Deferred
<1>4. ASSUME UNCHANGED <<close_pending, close_deferred, closed>> PROVE Deferred' /\ (closed => closed')
  BY <1>4 DEF Deferred
<1>3. CASE Upstream
  <2>1. ASSUME NEW n, NEW segments, OnData(n, segments)
        PROVE  UNCHANGED <<close_pending, close_deferred, closed>>
    BY <2>1 DEF OnData, unmoved
  <2>2. OnDone \/ OnError => UNCHANGED <<close_pending, close_deferred, closed>>
    BY DEF OnDone, OnError, unmoved
  <2>3. UNCHANGED <<close_pending, close_deferred, closed>>
    BY <1>3, <2>1, <2>2 DEF Upstream
  <2> QED BY <1>4, <2>3
<1>5. CASE Code
  <2>1. CASE Executed \/ Refused \/ Execute \/ ChunkEnds \/ ParseHead \/ ParseSilent \/ BodyReturned
    BY <1>4, <2>1 DEF Executed, Refused, Execute, ChunkEnds, ParseHead, ParseSilent, BodyReturned,
       lifecycle
  <2>2. CASE ResetMessageState \/ ProcessPending \/ Redelivered \/ FlushAndComplete
    BY <1>4, <2>2 DEF ResetMessageState, ProcessPending, Redelivered, FlushAndComplete,
       lifecycle
  <2>3. CASE Malformed \/ OnBody \/ OnMessageComplete \/ Completed \/ CompletedLate \/ Finish
    BY <1>4, <2>3 DEF Malformed, OnBody, OnMessageComplete, Completed, CompletedLate, Finish, unmoved
  <2>4. CASE Status \/ CompleteWithFlush \/ Flushed \/ Fail
    BY <1>4, <2>4 DEF Status, CompleteWithFlush, Flushed, Fail, unmoved
  <2>5. CASE DoClose
    BY <2>5 DEF DoClose, Deferred
  <2>6. CASE Stop
    BY <1>1, <2>6 DEF Stop, RequestClose, ScheduleClose, Deferred
  <2> QED BY <1>5, <2>1, <2>2, <2>3, <2>4, <2>5, <2>6 DEF Code
<1> QED BY <1>2, <1>3, <1>5 DEF Next

LEMMA UpstreamKeeps == ASSUME IInv, Upstream PROVE IInv'
<1>1. ASSUME NEW n \in 1..(MaxBody + 2), NEW segments \in {1, 2}, OnData(n, segments) PROVE IInv'
  <2> QED BY <1>1, OnDataKeeps
<1> QED BY <1>1, OnDoneKeeps, OnErrorKeeps DEF Upstream

LEMMA NextKeeps ==
    ASSUME NestedResume = FALSE
    PROVE  IInv /\ Deferred /\ [Next]_vars => IInv' /\ Deferred'
<1> SUFFICES ASSUME IInv, Deferred, [Next]_vars PROVE IInv' /\ Deferred'
  OBVIOUS
<1>1. CASE Next
  BY <1>1, BaseKeeps, UpstreamKeeps, CodeKeeps, DeferredKeeps DEF Next
<1>2. CASE UNCHANGED vars
  <2>1. /\ UNCHANGED <<closed, suspend_count, done_pending, received, parsed, paused, in_message>>
        /\ UNCHANGED <<message_complete, lost, failed, delivered, finalized, outcome, input, response, stack>>
        /\ UNCHANGED <<pending_chain, pending_input, close_pending, close_deferred>>
    BY <1>2 DEF vars, componentVars, lifecycle, backpressure, signals, local, parser, data
  <2>2. Stacked' /\ Place' = Place /\ Method' = Method /\ Left' = Left /\ Pos' = Pos
    BY <2>1 DEF IInv, Stacked, Place, Method, Left, Pos, Top
  <2>3. Still
    BY <2>1 DEF Still
  <2>4. Counted' /\ Ends' = Ends /\ (Running' => Running) /\ Remaining' = Remaining
    BY <2>1, <2>2, <2>3, StillSteady
  <2>5. Typed' /\ IsSuspended' = IsSuspended
    BY <2>1 DEF IInv, Typed, IsSuspended
  <2>6. Message' /\ Finishing' /\ Pausing' /\ Signalled' /\ Deferred'
    BY <2>1, <2>2, <2>4, <2>5 DEF IInv, Message, Finishing, Pausing, Signalled, Deferred
  <2> QED BY <2>2, <2>4, <2>5, <2>6 DEF IInv
<1> QED BY <1>1, <1>2

LEMMA InitKeeps == ASSUME Init PROVE IInv /\ Deferred
<1>1. /\ stack = <<>> /\ suspend_count = 0 /\ done_pending = FALSE /\ finalized = FALSE
      /\ closed = FALSE /\ close_pending = FALSE /\ close_deferred = FALSE
  BY DEF Init, ComponentInit
<1>2. /\ received = 0 /\ parsed = 0 /\ lost = 0 /\ pending_input = 0 /\ pending_chain = 0
      /\ delivered = 0 /\ paused = FALSE /\ failed = FALSE /\ in_message = FALSE /\ message_complete = FALSE
      /\ input = "open" /\ outcome = "none"
  BY DEF Init
<1>3. response \in [ok : BOOLEAN, framing : Framings, body : Nat]
  <2>1. 0..MaxBody \subseteq Nat
    BY HttpAssumption
  <2> QED BY <2>1 DEF Init
<1>4. Typed
  BY <1>1, <1>2, <1>3 DEF Typed
<1>5. Stacked /\ Place = "idle" /\ Method = "none" /\ Left = 0 /\ Pos = 0
  BY <1>1 DEF Stacked, Place, Method, Left, Pos
<1>6. Remaining = 0 /\ BodyOf(parsed) = 0 /\ Units \in Nat
  BY <1>2, <1>4, <1>5, BodyKnown, ResponseKnown DEF Remaining
<1>7. Counted
  BY <1>2, <1>6 DEF Counted
<1>8. Message /\ Finishing /\ Pausing /\ Signalled /\ Deferred
  BY <1>1, <1>2, <1>5, <1>6 DEF Message, Finishing, Pausing, Signalled, Deferred, LastMethods
<1> QED BY <1>4, <1>5, <1>7, <1>8 DEF IInv

-----------------------------------------------------------------------------
(***************************************************************************)
(* What a step looks like from below and above the stage.                  *)
(***************************************************************************)
visible == <<received, delivered, lost, input, closed, outcome, response>>

Receives ==
    /\ UNCHANGED <<delivered, lost, closed, outcome, response>>
    /\ input = "open" /\ received' >= received
    /\ received' > received => received' <= Units

Delivers ==
    /\ UNCHANGED <<received, lost, input, closed, outcome, response>>
    /\ delivered' >= delivered /\ (delivered' > delivered => outcome = "none" \/ closed)

Drops ==
    /\ UNCHANGED <<received, delivered, input, closed, outcome, response>>
    /\ paused /\ lost' >= lost

Signals ==
    /\ UNCHANGED <<received, delivered, lost, input, closed, response>>
    /\ outcome = "none"
    /\ \/ outcome' = "error"
       \/ outcome' = "done" /\ (closed \/ (Whole /\ delivered + lost = BodyOf(received)))

Closes == closed' = TRUE /\ UNCHANGED <<received, delivered, lost, input, outcome, response>>

Kinds == UNCHANGED visible \/ Receives \/ Delivers \/ Drops \/ Signals \/ Closes

\* Where the end of the message is reported, the response is whole.
LEMMA WholeKnown ==
    ASSUME IInv, Running, Place # "fail", pending_chain = 0, Remaining = 0,
           (parsed = 0 /\ input = "done") \/ (Ends /\ response.ok)
    PROVE  Whole /\ delivered + lost = BodyOf(received)
<1>1. Typed /\ Counted
  BY DEF IInv
<1>2. parsed + Remaining = received /\ delivered + pending_chain + lost = BodyOf(parsed)
  BY <1>1 DEF Counted
<1>3. parsed = received /\ delivered + lost = BodyOf(parsed)
  BY <1>2, CountsTyped
<1>4. CASE parsed = 0 /\ input = "done"
  BY <1>3, <1>4 DEF Whole
<1>5. CASE Ends /\ response.ok
  BY <1>3, <1>5 DEF Whole, Ends
<1> QED BY <1>3, <1>4, <1>5

\* What a step that gives a signal may give.
LEMMA TellKinds ==
    ASSUME IInv, NEW signal \in {"done", "error"}, NEW pc, Tell(signal, pc),
           UNCHANGED <<received, delivered, lost, input, closed, response>>,
           signal = "done" /\ Running => Whole /\ delivered + lost = BodyOf(received)
    PROVE  Kinds
<1>1. Typed /\ Signalled
  BY DEF IInv
<1>2. outcome' = IF outcome = "none" THEN signal ELSE outcome
  BY <1>1 DEF Tell, Signalled, Typed
<1>3. CASE outcome = "none"
  BY <1>1, <1>2, <1>3 DEF Kinds, Signals, Running
<1>4. CASE outcome # "none"
  BY <1>2, <1>4 DEF Kinds, visible
<1> QED BY <1>3, <1>4

\* What a step that hands body down may do.
LEMMA ForwardKinds ==
    ASSUME IInv, NEW more \in {0, 1}, NEW used \in {0, pending_chain + more},
           delivered' = delivered + used,
           used > 0 => outcome = "none" \/ closed,
           UNCHANGED <<received, lost, input, closed, outcome, response>>
    PROVE  Kinds
<1>1. pending_chain \in Nat /\ delivered \in Nat
  BY CountsTyped
<1>2. used \in Nat
  BY <1>1
<1>3. delivered' >= delivered /\ (delivered' > delivered => used > 0)
  BY <1>1, <1>2
<1> QED BY <1>3 DEF Kinds, Delivers

LEMMA HandKinds ==
    ASSUME IInv, NEW pc, Forward(0, pc), Place \notin {"close", "stop"},
           UNCHANGED <<received, lost, input, closed, outcome, response>>
    PROVE  Kinds
<1>1. pending_chain \in Nat /\ delivered \in Nat
  BY CountsTyped
<1>2. PICK used \in {0, pending_chain + 0} : delivered' = delivered + used
  BY DEF Forward
<1>3. used > 0 => pending_chain > 0
  BY <1>1, <1>2
<1>4. used > 0 => outcome = "none" \/ closed
  BY <1>3, HandsDown
<1> QED BY <1>2, <1>4, ForwardKinds

LEMMA BaseKinds == ASSUME IInv, Base PROVE Kinds
<1>1. UNCHANGED <<received, delivered, lost, input, outcome, response>>
  BY DEF Base, local, parser, data
<1>2. closed' = closed \/ closed' = TRUE
  BY DEF Base, CommonNext, Suspend, Resume, Close, Return, Exit, CloseStep,
     ResumeUpstream, CompleteDeferred, RequestClose, lifecycle
<1> QED BY <1>1, <1>2 DEF Kinds, visible, Closes

LEMMA UpstreamKinds == ASSUME IInv, Upstream PROVE Kinds
<1>1. received \in Nat
  BY CountsTyped
<1>2. CASE OnDone \/ OnError
  <2>1. UNCHANGED <<delivered, lost, closed, outcome, response, received>> /\ input = "open"
    BY <1>2 DEF OnDone, OnError, unmoved, data
  <2>2. received' >= received /\ ~(received' > received)
    BY <1>1, <2>1
  <2> QED BY <2>1, <2>2 DEF Kinds, Receives
<1>3. ASSUME NEW n \in 1..(MaxBody + 2), NEW segments \in {1, 2}, OnData(n, segments) PROVE Kinds
  <2>1. UNCHANGED <<delivered, lost, closed, outcome, response>> /\ input = "open"
        /\ received' = received + n /\ received + n <= Units
    BY <1>3 DEF OnData, unmoved, data
  <2>2. n \in Nat
    BY HttpAssumption
  <2>3. received' >= received /\ received' <= Units
    BY <1>1, <2>1, <2>2
  <2> QED BY <2>1, <2>3 DEF Kinds, Receives
<1> QED BY <1>2, <1>3 DEF Upstream

LEMMA OnBodyKinds == ASSUME IInv, OnBody PROVE Kinds
<1>1. Place = "parse" /\ Pos = PosAt("parse", Top.pos) /\ Top.pos > 0 /\ Signalled
  BY AtKnown DEF OnBody
<1>2. UNCHANGED <<received, lost, input, closed, response>>
  BY DEF OnBody, unmoved
<1>3. ~Ends
  <2>1. Pos > 0
    BY <1>1 DEF PosAt, ParsePlaces
  <2> QED BY <2>1, NothingRemains
<1>4. outcome = "none" \/ closed
  BY <1>1, <1>3 DEF Signalled
<1>5. CASE Tell("error", "stop") /\ UNCHANGED data
  BY <1>2, <1>5, TellKinds DEF data
<1>6. CASE /\ outcome' = outcome
           /\ \E used \in {0, pending_chain + 1} : delivered' = delivered + used
  BY <1>2, <1>4, <1>6, ForwardKinds
<1> QED BY <1>5, <1>6 DEF OnBody

LEMMA EndKinds == ASSUME IInv, Completed \/ CompletedLate PROVE Kinds
<1>1. Place \in {"completed", "completed_late"} /\ Message /\ Typed
  BY AtKnown DEF Completed, CompletedLate
<1>2. UNCHANGED <<received, delivered, lost, input, closed, response>>
  BY DEF Completed, CompletedLate, unmoved, data
<1>3. Ends /\ response.ok /\ Remaining = 0
  BY <1>1, NothingRemains DEF Message
<1>4. CASE outcome' = outcome
  BY <1>2, <1>4 DEF Kinds, visible
<1>5. CASE pending_chain > 0 /\ \E pc : Tell("error", pc)
  BY <1>2, <1>5, TellKinds
<1>6. CASE ~(pending_chain > 0) /\ Tell("done", "reset")
  <2>1. Running => Whole /\ delivered + lost = BodyOf(received)
    BY <1>1, <1>3, <1>6, WholeKnown DEF Typed
  <2> QED BY <1>2, <1>6, <2>1, TellKinds
<1> QED BY <1>4, <1>5, <1>6 DEF Completed, CompletedLate

LEMMA LastKinds == ASSUME IInv, CompleteWithFlush \/ Flushed PROVE Kinds
<1>1. Place \in {"completing", "flushed"} /\ Message /\ Typed /\ Finishing /\ input = "done"
  BY LastKnown DEF CompleteWithFlush, Flushed
<1>2. UNCHANGED <<received, lost, input, closed, response>>
  BY DEF CompleteWithFlush, Flushed, unmoved
<1>3. pending_chain = 0 /\ Running => Whole /\ delivered + lost = BodyOf(received)
  <2> SUFFICES ASSUME pending_chain = 0, Running PROVE Whole /\ delivered + lost = BodyOf(received)
    OBVIOUS
  <2>1. Remaining = 0 /\ (parsed = 0 \/ (message_complete /\ response.ok))
    BY <1>1 DEF Finishing
  <2>2. message_complete => Ends
    BY <1>1 DEF Message
  <2> QED BY <1>1, <2>1, <2>2, WholeKnown
<1>4. CASE CompleteWithFlush
  <2>1. CASE pending_chain = 0
    BY <1>2, <1>3, <1>4, <2>1, TellKinds DEF CompleteWithFlush, data
  <2>2. CASE pending_chain # 0
    BY <1>1, <1>2, <1>4, <2>2, HandKinds DEF CompleteWithFlush
  <2> QED BY <2>1, <2>2
<1>5. CASE Flushed
  <2>1. delivered' = delivered
    BY <1>5 DEF Flushed, data
  <2>2. CASE IsSuspended
    BY <1>2, <1>5, <2>1, <2>2 DEF Flushed, Kinds, visible
  <2>3. CASE ~IsSuspended /\ pending_chain > 0
    <3>1. Tell("error", "close")
      BY <1>5, <2>3 DEF Flushed
    <3> QED BY <1>2, <2>1, <3>1, TellKinds
  <2>4. CASE ~IsSuspended /\ ~(pending_chain > 0)
    <3>1. Tell("done", "close") /\ pending_chain = 0
      BY <1>1, <1>5, <2>4 DEF Flushed, Typed
    <3> QED BY <1>2, <1>3, <2>1, <3>1, TellKinds
  <2> QED BY <2>2, <2>3, <2>4
<1> QED BY <1>4, <1>5

LEMMA NextKinds == ASSUME IInv, [Next]_vars PROVE Kinds
<1>1. CASE UNCHANGED vars
  BY <1>1 DEF vars, componentVars, lifecycle, local, data, Kinds, visible
<1>2. CASE Executed \/ Execute \/ ChunkEnds \/ ParseHead \/ ParseSilent \/ BodyReturned
  BY <1>2 DEF Executed, Execute, ChunkEnds, ParseHead, ParseSilent, BodyReturned,
     lifecycle, local, data, Kinds, visible
<1>3. CASE ResetMessageState \/ FlushAndComplete \/ DoClose
  BY <1>3 DEF ResetMessageState, FlushAndComplete, DoClose, lifecycle, local, data,
     Kinds, visible
<1>4. CASE OnMessageComplete
  <2>1. UNCHANGED <<received, lost, input, closed, response>> /\ Place \notin {"close", "stop"}
    BY <1>4, AtKnown DEF OnMessageComplete, unmoved
  <2>2. CASE Tell("error", "stop") /\ UNCHANGED data
    BY <2>1, <2>2, TellKinds DEF data
  <2>3. CASE Forward(0, "completed") /\ outcome' = outcome
    BY <2>1, <2>3, HandKinds
  <2>4. CASE UNCHANGED <<data, outcome>>
    BY <2>1, <2>4 DEF Kinds, visible, data
  <2> QED BY <1>4, <2>2, <2>3, <2>4 DEF OnMessageComplete
<1>5. CASE ProcessPending \/ Redelivered
  <2>1. UNCHANGED <<received, lost, input, closed, outcome, response>> /\ Place \notin {"close", "stop"}
    BY <1>5, AtKnown DEF ProcessPending, Redelivered, lifecycle
  <2>2. (\E pc : Forward(0, pc)) \/ UNCHANGED data
    BY <1>5 DEF ProcessPending, Redelivered
  <2>3. CASE UNCHANGED data
    BY <2>1, <2>3 DEF Kinds, visible, data
  <2> QED BY <2>1, <2>2, <2>3, HandKinds
<1>6. CASE Finish \/ Status \/ Fail \/ Malformed
  <2>1. UNCHANGED <<received, delivered, lost, input, closed, response>>
    BY <1>6 DEF Finish, Status, Fail, Malformed, unmoved, data
  <2>2. (\E pc : Tell("error", pc)) \/ outcome' = outcome
    BY <1>6 DEF Finish, Status, Fail, Malformed
  <2>3. CASE outcome' = outcome
    BY <2>1, <2>3 DEF Kinds, visible
  <2> QED BY <2>1, <2>2, <2>3, TellKinds
<1>8. CASE Refused
  <2>1. UNCHANGED <<received, delivered, input, closed, outcome, response>>
    BY <1>8 DEF Refused, lifecycle, data
  <2>2. (paused /\ lost' >= lost) \/ lost' = lost
    BY <1>8, RefusedTakes
  <2> QED BY <2>1, <2>2 DEF Kinds, Drops, visible
<1>9. CASE Stop
  <2>1. UNCHANGED <<received, delivered, lost, input, outcome, response>>
    BY <1>9 DEF Stop, data
  <2>2. closed' = TRUE
    BY <1>9 DEF Stop, RequestClose, IInv, Typed
  <2> QED BY <2>1, <2>2 DEF Kinds, Closes
<1>7. CASE Code
  BY <1>2, <1>3, <1>4, <1>5, <1>6, <1>7, <1>8, <1>9, OnBodyKinds, EndKinds, LastKinds DEF Code
<1> QED BY <1>1, <1>7, BaseKinds, UpstreamKinds DEF Next

-----------------------------------------------------------------------------
(***************************************************************************)
(* The refinement.                                                         *)
(***************************************************************************)
LEMMA StageStep == ASSUME IInv, IInv', [Next]_vars PROVE [S!Next]_(S!vars)
<1> DEFINE owed == IF response.ok /\ received > 0 THEN Min({received - 1, response.body}) ELSE 0
<1>1. Kinds /\ Typed /\ Typed' /\ Counted'
  BY NextKinds DEF IInv
<1>2. owed = BodyOf(received) /\ owed' = BodyOf(received)'
  BY DEF BodyOf
<1>3. response' = response /\ response.ok /\ received' = Units /\ response.framing # "close" => Whole'
  BY DEF Whole, Units
<1>4. received' = received /\ input' = input /\ response' = response => owed' = owed /\ Whole' = Whole
  BY DEF Whole, Units
<1>5. CASE UNCHANGED visible
  <2>1. owed' = owed /\ Whole' = Whole
    BY <1>4, <1>5 DEF visible
  <2> QED BY <1>5, <2>1 DEF visible, S!Next, S!promised
<1>6. CASE Receives
  <2>1. owed' = BodyOf(received')
    BY <1>2, <1>6 DEF Receives, BodyOf
  <2>2. received \in Nat /\ received' \in Nat /\ received <= received'
    BY <1>1, <1>6 DEF Receives, Typed
  <2>3. owed' >= owed
    <3>1. BodyOf(received) <= BodyOf(received') /\ BodyOf(received) \in Nat /\ BodyOf(received') \in Nat
      BY <1>1, <2>2, BodyGrows, BodyKnown
    <3> HIDE DEF owed
    <3> QED BY <1>2, <2>1, <3>1
  <2>4. Whole => Whole' /\ owed' = owed
    <3> SUFFICES ASSUME Whole PROVE Whole' /\ owed' = owed
      OBVIOUS
    <3>1. response.ok /\ received = Units /\ response.framing # "close"
      BY <1>6 DEF Whole, Receives
    <3>2. received' = received
      BY <1>6, <2>2, <3>1 DEF Receives
    <3>3. Whole'
      BY <1>3, <1>6, <3>1, <3>2 DEF Receives
    <3>4. owed' = owed
      BY <1>6, <3>2 DEF Receives
    <3> QED BY <3>3, <3>4
  <2> HIDE DEF owed
  <2> QED BY <1>6, <2>3, <2>4 DEF Receives, S!Next, S!Receive, owed
<1>7. CASE Delivers
  <2>1. owed' = owed /\ Whole' = Whole
    BY <1>4, <1>7 DEF Delivers
  <2>2. delivered \in Nat /\ delivered' \in Nat /\ delivered' + lost <= owed /\ lost \in Nat
    <3>1. parsed' <= received' /\ parsed' \in Nat /\ received' \in Nat
      <4>1. (IInv => Remaining \in Nat /\ parsed \in Nat /\ received \in Nat)'
        BY CountsTyped, PTL
      <4> QED BY <1>1, <4>1 DEF Counted
    <3>2. delivered' + lost <= BodyOf(parsed') /\ lost \in Nat
      <4>1. delivered' + pending_chain' + lost' <= BodyOf(parsed)' /\ BodyOf(parsed)' = BodyOf(parsed')
        BY <1>1, <1>7 DEF Counted, Delivers, BodyOf
      <4>2. BodyOf(parsed') \in Nat
        BY <1>1, <3>1, BodyKnown
      <4> QED BY <1>1, <1>7, <4>1, <4>2 DEF Typed, Delivers
    <3>3. BodyOf(parsed') <= BodyOf(received') /\ BodyOf(parsed') \in Nat /\ BodyOf(received') \in Nat
      BY <1>1, <3>1, BodyGrows, BodyKnown
    <3>4. BodyOf(received') = owed
      BY <1>7, <1>2 DEF Delivers
    <3> HIDE DEF owed
    <3> QED BY <1>1, <3>2, <3>3, <3>4 DEF Typed
  <2>3. CASE delivered' = delivered
    BY <1>7, <2>1, <2>3 DEF Delivers, S!Next, S!promised
  <2>4. CASE delivered < delivered'
    BY <1>7, <2>1, <2>2, <2>4 DEF Delivers, S!Next, S!Deliver
  <2> QED BY <1>7, <2>2, <2>3, <2>4 DEF Delivers
<1>8. CASE Signals
  <2>1. owed' = owed /\ Whole' = Whole
    BY <1>4, <1>8 DEF Signals
  <2>2. CASE outcome' = "done"
    <3>1. closed \/ (Whole /\ delivered + lost = owed)
      BY <1>2, <1>8, <2>2 DEF Signals
    <3> QED BY <1>8, <2>1, <2>2, <3>1 DEF Signals, S!Next, S!Done
  <2>3. CASE outcome' = "error"
    BY <1>8, <2>1, <2>3 DEF Signals, S!Next, S!Fail
  <2> QED BY <1>8, <2>2, <2>3 DEF Signals
<1>9. CASE Closes
  <2>1. owed' = owed /\ Whole' = Whole
    BY <1>4, <1>9 DEF Closes
  <2> QED BY <1>9, <2>1 DEF Closes, S!Next, S!Close
<1>10. CASE Drops
  <2>1. owed' = owed /\ Whole' = Whole
    BY <1>4, <1>10 DEF Drops
  <2>2. lost \in Nat /\ lost' \in Nat /\ delivered + lost' <= owed
    <3>1. parsed' <= received' /\ parsed' \in Nat /\ received' \in Nat
      <4>1. (IInv => Remaining \in Nat /\ parsed \in Nat /\ received \in Nat)'
        BY CountsTyped, PTL
      <4> QED BY <1>1, <4>1 DEF Counted
    <3>2. delivered' + lost' <= BodyOf(parsed') /\ delivered' \in Nat /\ lost' \in Nat
      <4>1. delivered' + pending_chain' + lost' <= BodyOf(parsed)' /\ BodyOf(parsed)' = BodyOf(parsed')
        BY <1>1, <1>10 DEF Counted, Drops, BodyOf
      <4>2. BodyOf(parsed') \in Nat
        BY <1>1, <3>1, BodyKnown
      <4> QED BY <1>1, <4>1, <4>2 DEF Typed
    <3>3. BodyOf(parsed') <= BodyOf(received') /\ BodyOf(parsed') \in Nat /\ BodyOf(received') \in Nat
      BY <1>1, <3>1, BodyGrows, BodyKnown
    <3>4. BodyOf(received') = owed /\ delivered' = delivered
      BY <1>10, <1>2 DEF Drops
    <3> HIDE DEF owed
    <3> QED BY <1>1, <3>2, <3>3, <3>4 DEF Typed
  <2> HIDE DEF owed
  <2>3. CASE lost' = lost
    BY <1>10, <2>1, <2>3 DEF Drops, S!Next, S!promised, owed
  <2>4. CASE lost < lost'
    BY <1>10, <2>1, <2>2, <2>4 DEF Drops, S!Next, S!Drop, owed
  <2> QED BY <1>10, <2>2, <2>3, <2>4 DEF Drops
<1> QED BY <1>1, <1>5, <1>6, <1>7, <1>8, <1>9, <1>10 DEF Kinds

\* HttpClient keeps the promise of LossyStage, for every response, every cut of
\* it into chains and segments, every limit of its buffers and every suspension:
\* what it hands down is body of a successful response, each unit once, it
\* drops some only while its parser is paused (http_client.hpp:360-363), and it
\* reports the end only of a whole message, all of whose body was handed down
\* or dropped.  The downstream resumes it from the event loop.
THEOREM StageImplemented == ASSUME NestedResume = FALSE PROVE Spec => ImplementsStage
<1>1. Init => S!Init
  <2> SUFFICES ASSUME Init PROVE S!Init
    OBVIOUS
  <2>1. received = 0 /\ delivered = 0 /\ input = "open" /\ outcome = "none" /\ closed = FALSE
      /\ lost = 0 /\ paused = FALSE
    BY DEF Init, ComponentInit
  <2>2. Units # 0
    BY InitKeeps, ResponseKnown DEF IInv
  <2>3. Whole = FALSE
    BY <2>1, <2>2 DEF Whole
  <2> QED BY <2>1, <2>3 DEF S!Init
<1>2. Init => IInv /\ Deferred
  BY InitKeeps
<1>3. IInv /\ Deferred /\ [Next]_vars => IInv' /\ Deferred'
  BY NextKeeps
<1>4. IInv /\ IInv' /\ [Next]_vars => [S!Next]_(S!vars)
  BY StageStep
<1> QED BY <1>1, <1>2, <1>3, <1>4, PTL DEF Spec, ImplementsStage, S!Spec
=============================================================================
