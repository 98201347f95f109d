---------------------------- MODULE CramAuthProofs ----------------------------
(***************************************************************************)
(* Three results about the authentication stage: the order of the lines it *)
(* sends, that no request of the owner is left behind, and that the binary *)
(* stream comes through whole and in order.  Each has an invariant of its  *)
(* own over the innermost activation; they share Stacked, which says what  *)
(* the activations below it can be.                                        *)
(***************************************************************************)
EXTENDS CramAuth, TLAPS

Places == {"text", "next_unit", "line_end", "binary", "send_auth", "authenticating",
           "send_subscription", "subscribed", "send_start", "started", "completing", "flushed",
           "fail", "failed", "close", "exit", "drain", "drained", "resumed", "flush"}
Callbacks == {"none", "data", "done", "error", "resume"}
Chunk == Seq(Lines \cup {"part"})

\* Where a handler goes on after an error.
Continuations == {"line_end", "exit", "drained", "authenticating", "subscribed", "started"}

Frames == [method : {"OnData", "OnDone", "OnError", "Subscribe", "StartStreaming", "Resume"},
           pc : Places, cb : Callbacks, left : {0} \cup Chunk, pos : {0} \cup Continuations,
           guard : BOOLEAN]

\* The places a method has, and what it goes on with; OnData is not done with
\* its unit before it comes back to "text".
Fit(method, pc, cb, pos, left) ==
    /\ pc \in Places /\ cb \in Callbacks /\ pos \in {0} \cup Continuations
    /\ method = "OnData" =>
          /\ left \in Chunk
          /\ left = <<>> => (IF pc \in {"fail", "failed"} THEN pos ELSE pc) \in {"text", "binary", "exit"}
    /\ pc = "failed" => method \notin {"OnDone", "OnError"}
    /\ pc \in {"fail", "failed"} /\ method \notin {"OnDone", "OnError"} =>
          /\ pos \in Continuations
          /\ pos \in {"line_end", "authenticating"} => method = "OnData"
          /\ pos = "drained" => method = "Resume"
          /\ pos \in {"authenticating", "subscribed", "started"} =>
                method \in {"OnData", "Subscribe", "StartStreaming"}
    /\ pc \in {"send_auth", "authenticating", "send_subscription", "subscribed", "send_start", "started"} =>
          method \in {"OnData", "Subscribe", "StartStreaming"}
    /\ pc \in {"text", "next_unit", "line_end", "binary", "send_auth", "authenticating"} => method = "OnData"
    /\ pc \in {"drain", "drained", "resumed", "flush"} => method = "Resume"
    /\ pc \in {"completing", "flushed"} => method = "OnDone"
    /\ cb = "resume" => pc = "resumed"
    /\ cb = "data" => pc \in {"exit", "drained", "flushed"}

FrameOK(f) == Fit(f.method, f.pc, f.cb, f.pos, f.left)

\* An activation below the innermost one is in a callback, and an error or a
\* completion is signalled under finalized_.
Stacked ==
    /\ stack \in Seq(Frames)
    /\ finalized \in BOOLEAN /\ closed \in BOOLEAN
    /\ \A i \in 1..Len(stack) :
          /\ FrameOK(stack[i])
          /\ stack[i].cb \in {"done", "error"} \/ stack[i].pc = "failed" => finalized
    /\ \A i \in 2..Len(stack) :
          /\ stack[i].cb # "none"
          /\ ~NestedResume => stack[i].cb = "resume"

LEMMA TopKnown ==
    ASSUME Stacked, stack # <<>>
    PROVE  /\ Top = stack[1] /\ Top \in Frames /\ FrameOK(Top) /\ 1 \in 1..Len(stack)
           /\ Top.cb \in {"done", "error"} \/ Top.pc = "failed" => finalized
  BY DEF Stacked, Top

\* The innermost activation goes on.
LEMMA TopChanged ==
    ASSUME Stacked, stack # <<>>, NEW f \in Frames, FrameOK(f), stack' = [stack EXCEPT ![1] = f],
           finalized' \in BOOLEAN, closed' \in BOOLEAN, finalized => finalized',
           f.cb \in {"done", "error"} \/ f.pc = "failed" => finalized'
    PROVE  Stacked' /\ stack' # <<>> /\ Top' = f
<1>1. Len(stack) \in Nat /\ 1 \in 1..Len(stack)
  BY DEF Stacked
<1>2. /\ stack' \in Seq(Frames) /\ Len(stack') = Len(stack) /\ stack'[1] = f
      /\ \A i \in 2..Len(stack) : stack'[i] = stack[i]
  BY <1>1 DEF Stacked
<1>3. stack' # <<>> /\ Top' = f
  BY <1>1, <1>2 DEF Top
<1>4. ASSUME NEW i \in 1..Len(stack)
      PROVE  FrameOK(stack'[i]) /\ (stack'[i].cb \in {"done", "error"} \/ stack'[i].pc = "failed" => finalized')
  <2>1. CASE i = 1
    BY <1>2, <2>1
  <2>2. CASE i # 1
    BY <1>2, <2>2 DEF Stacked
  <2> QED BY <2>1, <2>2
<1>5. ASSUME NEW i \in 2..Len(stack)
      PROVE  stack'[i].cb # "none" /\ (~NestedResume => stack'[i].cb = "resume")
  BY <1>2 DEF Stacked
<1> QED BY <1>2, <1>3, <1>4, <1>5 DEF Stacked

\* A method is entered, by the upstream, the owner or from inside a callback.
LEMMA Pushed ==
    ASSUME Stacked, stack # <<>> => Top.cb # "none" /\ (~NestedResume => Top.cb = "resume"),
           NEW f \in Frames, FrameOK(f), f.cb = "none", f.pc # "failed", stack' = <<f>> \o stack,
           UNCHANGED <<finalized, closed>>
    PROVE  Stacked' /\ stack' # <<>> /\ Top' = f
<1>1. /\ stack' \in Seq(Frames) /\ Len(stack') = Len(stack) + 1 /\ stack'[1] = f /\ Len(stack) \in Nat
      /\ \A i \in 2..Len(stack') : stack'[i] = stack[i - 1] /\ i - 1 \in 1..Len(stack)
  BY DEF Stacked
<1>2. stack' # <<>> /\ Top' = f
  BY <1>1 DEF Top
<1>3. ASSUME NEW i \in 1..Len(stack)
      PROVE  stack[i].cb # "none" /\ (~NestedResume => stack[i].cb = "resume")
  BY TopKnown DEF Stacked
<1>4. ASSUME NEW i \in 1..Len(stack')
      PROVE  FrameOK(stack'[i]) /\ (stack'[i].cb \in {"done", "error"} \/ stack'[i].pc = "failed" => finalized')
  <2>1. CASE i = 1
    BY <1>1, <2>1
  <2>2. CASE i # 1
    BY <1>1, <2>2 DEF Stacked
  <2> QED BY <2>1, <2>2
<1>5. ASSUME NEW i \in 2..Len(stack')
      PROVE  stack'[i].cb # "none" /\ (~NestedResume => stack'[i].cb = "resume")
  BY <1>1, <1>3
<1> QED BY <1>1, <1>2, <1>4, <1>5 DEF Stacked

\* A method returns, into a callback of the one below it.
LEMMA Popped ==
    ASSUME Stacked, stack # <<>>, stack' = Tail(stack), UNCHANGED <<finalized, closed>>
    PROVE  /\ Stacked'
           /\ stack' # <<>> =>
                 /\ Top'.cb # "none" /\ (~NestedResume => Top'.cb = "resume")
                 /\ FrameOK(Top') /\ Top' \in Frames
                 /\ Top'.cb \in {"done", "error"} \/ Top'.pc = "failed" => finalized
<1>1. /\ stack' \in Seq(Frames) /\ Len(stack') = Len(stack) - 1 /\ Len(stack) \in Nat
      /\ \A i \in 1..Len(stack') : stack'[i] = stack[i + 1] /\ i + 1 \in 2..Len(stack)
  BY DEF Stacked
<1>2. Stacked'
  BY <1>1 DEF Stacked
<1>3. ASSUME stack' # <<>> PROVE Top' = stack[2] /\ 2 \in 2..Len(stack)
  BY <1>1, <1>3 DEF Top
<1> QED BY <1>2, <1>3 DEF Stacked

\* The innermost activation is now this one.
Now(method, pc, cb, pos) ==
    stack' # <<>> /\ Top'.method = method /\ Top'.pc = pc /\ Top'.cb = cb /\ Top'.pos = pos

LEMMA TopMoved ==
    ASSUME Stacked, stack # <<>>, NEW pc, NEW cb, NEW pos, Fit(Top.method, pc, cb, pos, Top.left),
           stack' = [stack EXCEPT ![1] = [Top EXCEPT !.pc = pc, !.cb = cb, !.pos = pos]],
           finalized' \in BOOLEAN, closed' \in BOOLEAN, finalized => finalized',
           cb \in {"done", "error"} \/ pc = "failed" => finalized'
    PROVE  Stacked' /\ Now(Top.method, pc, cb, pos)
<1> DEFINE f == [Top EXCEPT !.pc = pc, !.cb = cb, !.pos = pos]
<1>1. Top \in Frames /\ FrameOK(Top)
  BY TopKnown
<1>2. f.method = Top.method /\ f.pc = pc /\ f.cb = cb /\ f.left = Top.left /\ f.pos = pos
  BY <1>1 DEF Frames
<1>3. f \in Frames
  BY <1>1 DEF Frames, Fit
<1>4. stack' = [stack EXCEPT ![1] = f]
  OBVIOUS
<1> HIDE DEF f
<1>5. FrameOK(f)
  BY <1>1, <1>2 DEF FrameOK
<1>6. Stacked' /\ stack' # <<>> /\ Top' = f
  BY <1>2, <1>3, <1>4, <1>5, TopChanged
<1> QED BY <1>2, <1>6 DEF Now

LEMMA GotoMoves ==
    ASSUME Stacked, stack # <<>>, Top.cb = "none", NEW pc, Fit(Top.method, pc, "none", Top.pos, Top.left), Goto(pc),
           UNCHANGED finalized, closed' \in BOOLEAN, pc = "failed" => finalized
    PROVE  Stacked' /\ Now(Top.method, pc, "none", Top.pos)
<1>1. Top = stack[1] /\ Top \in Frames /\ 1 \in 1..Len(stack)
  BY TopKnown
<1>2. [Top EXCEPT !.pc = pc, !.cb = "none", !.pos = Top.pos] = [stack[1] EXCEPT !.pc = pc]
  BY <1>1 DEF Frames
<1>3. stack' = [stack EXCEPT ![1] = [Top EXCEPT !.pc = pc, !.cb = "none", !.pos = Top.pos]]
  BY <1>1, <1>2 DEF Goto, Stacked
<1>4. finalized' \in BOOLEAN
  BY DEF Stacked
<1> QED BY <1>3, <1>4, TopMoved

LEMMA FailMoves ==
    ASSUME Stacked, stack # <<>>, Top.cb = "none", NEW next \in Continuations, FailThen(next),
           next \in {"line_end", "authenticating"} => Top.method = "OnData",
           next = "drained" => Top.method = "Resume",
           next \in {"authenticating", "subscribed", "started"} =>
              Top.method \in {"OnData", "Subscribe", "StartStreaming"},
           Fit(Top.method, Top.pc, "none", Top.pos, Top.left),
           Top.method = "OnData" /\ Top.left = <<>> => next = "exit",
           UNCHANGED <<finalized, closed>>
    PROVE  Stacked' /\ Now(Top.method, "fail", "none", next)
<1>1. Top = stack[1] /\ Top \in Frames /\ 1 \in 1..Len(stack)
  BY TopKnown
<1>2. [Top EXCEPT !.pc = "fail", !.cb = "none", !.pos = next] = [stack[1] EXCEPT !.pc = "fail", !.pos = next]
  BY <1>1 DEF Frames
<1>3. stack' = [stack EXCEPT ![1] = [Top EXCEPT !.pc = "fail", !.cb = "none", !.pos = next]]
  BY <1>1, <1>2 DEF FailThen, Stacked
<1>4. finalized' \in BOOLEAN /\ closed' \in BOOLEAN
  BY DEF Stacked
<1>5. Fit(Top.method, "fail", "none", next, Top.left)
  BY DEF Fit, Places, Callbacks, Continuations
<1> QED BY <1>3, <1>4, <1>5, TopMoved

LEMMA CallMoves ==
    ASSUME Stacked, stack # <<>>, NEW pc, NEW cb, Fit(Top.method, pc, cb, Top.pos, Top.left),
           stack' = [stack EXCEPT ![1].cb = cb, ![1].pc = pc],
           finalized' \in BOOLEAN, closed' \in BOOLEAN, finalized => finalized',
           cb \in {"done", "error"} \/ pc = "failed" => finalized'
    PROVE  Stacked' /\ Now(Top.method, pc, cb, Top.pos)
<1>1. Top = stack[1] /\ Top \in Frames /\ 1 \in 1..Len(stack)
  BY TopKnown
<1>2. [Top EXCEPT !.pc = pc, !.cb = cb, !.pos = Top.pos] = [stack[1] EXCEPT !.cb = cb, !.pc = pc]
  BY <1>1 DEF Frames
<1>3. stack' = [stack EXCEPT ![1] = [Top EXCEPT !.pc = pc, !.cb = cb, !.pos = Top.pos]]
  BY <1>1, <1>2 DEF Stacked
<1> QED BY <1>3, TopMoved

LEMMA ReturnMoves ==
    ASSUME Stacked, stack # <<>>, stack' = [stack EXCEPT ![1].cb = "none"], UNCHANGED <<finalized, closed>>
    PROVE  Stacked' /\ Now(Top.method, Top.pc, "none", Top.pos)
<1>1. /\ Top = stack[1] /\ Top \in Frames /\ FrameOK(Top) /\ 1 \in 1..Len(stack)
      /\ Top.pc = "failed" => finalized
  BY TopKnown
<1>2. [Top EXCEPT !.pc = Top.pc, !.cb = "none", !.pos = Top.pos] = [stack[1] EXCEPT !.cb = "none"]
  BY <1>1 DEF Frames
<1>3. stack' = [stack EXCEPT ![1] = [Top EXCEPT !.pc = Top.pc, !.cb = "none", !.pos = Top.pos]]
  BY <1>1, <1>2 DEF Stacked
<1>4. finalized' \in BOOLEAN /\ closed' \in BOOLEAN
  BY DEF Stacked
<1>5. Fit(Top.method, Top.pc, "none", Top.pos, Top.left)
  BY <1>1 DEF FrameOK, Fit, Callbacks
<1> QED BY <1>1, <1>3, <1>4, <1>5, TopMoved

\* EmitError and EmitDone.
LEMMA EmitMoves ==
    ASSUME Stacked, stack # <<>>, Top.cb = "none", NEW signal \in {"done", "error"}, NEW pc,
           Fit(Top.method, pc, "none", Top.pos, Top.left), Fit(Top.method, pc, signal, Top.pos, Top.left),
           Emit(signal, pc), UNCHANGED closed
    PROVE  Stacked' /\ finalized' = TRUE /\ \E cb \in {"none", signal} : Now(Top.method, pc, cb, Top.pos)
<1>1. finalized' = TRUE /\ closed' \in BOOLEAN /\ finalized' \in BOOLEAN
  BY DEF Emit, signals, Stacked
<1>2. CASE finalized
  <2>1. Goto(pc) /\ UNCHANGED finalized
    BY <1>2 DEF Emit, signals
  <2>2. Stacked' /\ Now(Top.method, pc, "none", Top.pos)
    BY <1>1, <1>2, <2>1, GotoMoves
  <2> QED BY <1>1, <2>2
<1>3. CASE ~finalized
  <2>1. stack' = [stack EXCEPT ![1].cb = signal, ![1].pc = pc]
    BY <1>3 DEF Emit, CallDownstream
  <2>2. Stacked' /\ Now(Top.method, pc, signal, Top.pos)
    BY <1>1, <2>1, CallMoves
  <2> QED BY <1>1, <2>2
<1> QED BY <1>2, <1>3

LEMMA EnterMoves ==
    ASSUME Stacked, stack # <<>> => Top.cb # "none" /\ (~NestedResume => Top.cb = "resume"),
           NEW method \in {"OnData", "OnDone", "OnError", "Subscribe", "StartStreaming", "Resume"},
           NEW pc, pc # "failed", NEW left \in {0} \cup Chunk, NEW guard \in BOOLEAN,
           Fit(method, pc, "none", 0, left),
           Enter(method, pc, left, guard), UNCHANGED <<finalized, closed>>
    PROVE  Stacked' /\ Now(method, pc, "none", 0)
<1> DEFINE f == [method |-> method, pc |-> pc, cb |-> "none", left |-> left, pos |-> 0, guard |-> guard]
<1>1. f \in Frames /\ FrameOK(f) /\ f.cb = "none" /\ f.pc # "failed"
  BY DEF Frames, FrameOK, Fit
<1>2. stack' = <<f>> \o stack
  BY DEF Enter
<1>3. f.method = method /\ f.pc = pc /\ f.pos = 0
  OBVIOUS
<1> HIDE DEF f
<1>4. Stacked' /\ stack' # <<>> /\ Top' = f
  BY <1>1, <1>2, Pushed
<1> QED BY <1>1, <1>3, <1>4 DEF Now

\* What is known of the activation that runs the code at pc.
LEMMA AtKnown ==
    ASSUME Stacked, NEW pc, At(pc)
    PROVE  /\ stack # <<>> /\ Top.cb = "none" /\ Top.pc = pc /\ Top \in Frames /\ FrameOK(Top)
           /\ Fit(Top.method, pc, "none", Top.pos, Top.left)
  BY TopKnown DEF At, FrameOK

-----------------------------------------------------------------------------
(***************************************************************************)
(* The wire.  Until the first error, where the innermost activation is and *)
(* state_ say what has been sent.                                          *)
(***************************************************************************)
WireLines == {"auth", "subscription", "start_session"}

Subscribing ==
    Len(sent) >= 1 /\ sent[1] = "auth" /\ \A i \in 2..Len(sent) : sent[i] = "subscription"
Starting ==
    /\ Len(sent) >= 3 /\ sent[1] = "auth" /\ sent[Len(sent)] = "start_session"
    /\ \A i \in 2..(Len(sent) - 1) : sent[i] = "subscription"

Place == IF stack = <<>> THEN "idle" ELSE Top.pc

Wired ==
    /\ sent \in Seq(WireLines) /\ state \in States
    /\ ~finalized => sent = <<>> \/ Subscribing \/ Starting
    /\ ~finalized /\ Place # "fail" =>
          /\ Place \in {"send_auth", "authenticating"} => state = "WaitingChallenge"
          /\ Place \in {"send_subscription", "subscribed", "send_start", "started"} => state = "Ready"
          /\ state = "WaitingGreeting" => sent = <<>>
          /\ state = "WaitingChallenge" => sent = IF Place = "authenticating" THEN <<"auth">> ELSE <<>>
          /\ state = "Authenticating" => sent = <<"auth">>
          /\ state = "Ready" => IF Place = "started" THEN Starting ELSE Subscribing
          /\ state = "Streaming" => Starting
          /\ subscription_sent \/ Place \in {"subscribed", "send_start"} => Len(sent) >= 2

(***************************************************************************)
(* The requests of the owner.  One that the stage has not met yet is on    *)
(* its way: the innermost activation is, or will be after its error, at    *)
(* the code that meets it.                                                 *)
(***************************************************************************)
Target ==
    IF stack = <<>> THEN "idle"
    ELSE IF Top.pc \notin {"fail", "failed"} THEN Top.pc
    ELSE IF Top.method \in {"OnDone", "OnError"} THEN "close"
    ELSE Top.pos

Handlers == {"send_auth", "authenticating", "send_subscription", "subscribed", "send_start", "started"}

Requested ==
    /\ subscription_sent => pending_symbols /\ state \in {"Ready", "Streaming"}
    /\ state = "Streaming" => subscription_sent
    /\ state = "Ready" /\ pending_symbols =>
          subscription_sent \/ Target \in {"send_subscription", "subscribed"}
    /\ state = "Ready" /\ subscription_sent /\ start_requested => Target \in {"send_start", "started"}
    /\ Target \in {"send_auth", "authenticating"} => state = "WaitingChallenge"
    /\ Target \in {"send_subscription", "subscribed", "send_start", "started"} => state = "Ready"
    /\ Target = "subscribed" => pending_symbols
    /\ Target \in {"send_start", "started"} => subscription_sent

(***************************************************************************)
(* The binary stream.  Units are lost only by an overflow or a close, and  *)
(* then none is taken any more.                                            *)
(***************************************************************************)
\* The units that follow number n.
Run(s, n) == s \in Seq(Nat) /\ \A i \in 1..Len(s) : s[i] = n + i

Spent == IF stack = <<>> THEN closed
                         ELSE IF Top.method = "OnData"
                              THEN Target = "exit" /\ (closed \/ Top.pc \in {"fail", "failed"})
                              ELSE closed

Streamed ==
    /\ binaries \in Nat
    /\ Run(delivered, 0)
    /\ Run(streaming_chain, Len(delivered))
    /\ Run(pending_chain, Len(delivered) + Len(streaming_chain))
    /\ Len(streaming_chain) <= MaxPending /\ Len(pending_chain) <= MaxPending
    /\ Len(delivered) + Len(streaming_chain) + Len(pending_chain) = binaries \/ Spent
    /\ Place = "flushed" => pending_chain = <<>>

-----------------------------------------------------------------------------
\* What a step keeps, each under the assumptions its theorem makes.
Keeps ==
    /\ Stacked'
    /\ Wired => Wired'
    /\ ~NestedResume /\ ~LateSubscribe /\ Requested => Requested'
    /\ ~NestedResume /\ Streamed => Streamed'

LEMMA SentSame ==
    ASSUME UNCHANGED sent PROVE (Subscribing' <=> Subscribing) /\ (Starting' <=> Starting)
  BY DEF Subscribing, Starting

\* Steps that send and take nothing, and leave the handlers or stay at one.
LEMMA CalmKeeps ==
    ASSUME Stacked, Stacked', UNCHANGED <<state, sent, request, chains>>, finalized => finalized',
           ~finalized' \/ ~NestedResume =>
              Target' = Target \/ (Target \notin Handlers /\ Target' \notin Handlers),
           ~finalized' /\ Place' # "fail" => Place # "fail",
           ~NestedResume /\ Place' = "flushed" => Place = "flushed",
           ~NestedResume /\ Spent => Spent'
    PROVE  Keeps
<1>1. UNCHANGED <<pending_symbols, subscription_sent, start_requested>>
      /\ UNCHANGED <<streaming_chain, pending_chain, binaries, delivered>>
  BY DEF request, chains
<1>2. ASSUME ~NestedResume, Requested PROVE Requested'
  BY <1>1, <1>2 DEF Requested, Handlers
<1>3. ASSUME ~NestedResume, Streamed PROVE Streamed'
  <2>1. /\ Run(delivered, 0)' /\ Run(streaming_chain, Len(delivered))'
        /\ Run(pending_chain, Len(delivered) + Len(streaming_chain))'
    BY <1>1, <1>3 DEF Streamed, Run
  <2> QED BY <1>1, <1>3, <2>1 DEF Streamed
<1>4. ASSUME Wired PROVE Wired'
  <2>1. CASE finalized' \/ Place' = "fail"
    BY <1>4, <2>1, SentSame DEF Wired
  <2>2. CASE ~finalized' /\ Place' # "fail"
    <3>1. ~finalized /\ Place # "fail"
      BY <2>2
    <3>2. Place # "failed" /\ Place' # "failed"
      BY <2>2, <3>1, TopKnown DEF Place, Stacked, Top
    <3>3. Target = Place /\ Target' = Place'
      BY <2>2, <3>1, <3>2 DEF Target, Place
    <3>4. Place' = Place \/ (Place \notin Handlers /\ Place' \notin Handlers)
      BY <2>2, <3>3
    <3> QED BY <1>1, <1>4, <2>2, <3>1, <3>4, SentSame DEF Wired, Handlers
  <2> QED BY <2>1, <2>2
<1> QED BY <1>2, <1>3, <1>4 DEF Keeps

-----------------------------------------------------------------------------
(***************************************************************************)
(* The steps of the base class.                                            *)
(***************************************************************************)
LEMMA StackSame ==
    ASSUME Stacked, UNCHANGED <<stack, finalized>>, closed' \in BOOLEAN
    PROVE  Stacked' /\ Top' = Top /\ Place' = Place /\ Target' = Target
  BY DEF Stacked, Top, Place, Target

\* Nothing moves; the stage may be closed.
LEMMA StillKeeps ==
    ASSUME Stacked, UNCHANGED <<stack, finalized, state, sent, request, chains>>, closed' \in BOOLEAN,
           closed => closed'
    PROVE  Keeps
<1>1. Stacked' /\ Top' = Top /\ Place' = Place /\ Target' = Target
  BY StackSame
<1>2. Spent => Spent'
  BY <1>1 DEF Spent
<1> QED BY <1>1, <1>2, CalmKeeps

LEMMA CloseRequested ==
    ASSUME Stacked, RequestClose PROVE closed' = TRUE
  BY DEF Stacked, RequestClose

LEMMA GuardLeavesOpen ==
    ASSUME (ReleaseGuard /\ UNCHANGED closed) \/ UNCHANGED lifecycle PROVE closed' = closed
  BY DEF lifecycle

\* The innermost activation goes on, outside the handlers.
LEMMA MoveKeeps ==
    ASSUME Stacked, stack # <<>>, Stacked', UNCHANGED <<state, sent, request, chains>>,
           finalized => finalized', closed => closed',
           NEW pc, NEW cb, Now(Top.method, pc, cb, Top.pos),
           \/ pc = Top.pc
           \/ /\ pc \notin Handlers /\ Top.pc \notin Handlers
              /\ pc \notin {"fail", "failed", "flushed"} /\ Top.pc \notin {"fail", "failed"}
              /\ Top.pc # "exit"
    PROVE  Keeps
<1>1. Place = Top.pc /\ Place' = pc
  BY DEF Place, Now
<1>2. CASE pc = Top.pc
  <2>1. Target' = Target
    BY <1>2 DEF Target, Now
  <2>2. Spent => Spent'
    BY <1>2, <2>1 DEF Spent, Now
  <2> QED BY <1>1, <1>2, <2>1, <2>2, CalmKeeps
<1>3. CASE pc # Top.pc
  <2>1. Target = Top.pc /\ Target' = pc
    BY <1>3 DEF Target, Now
  <2>2. Spent => Spent'
    BY <1>3, <2>1 DEF Spent, Now
  <2> QED BY <1>1, <1>3, <2>1, <2>2, CalmKeeps
<1> QED BY <1>2, <1>3

\* An error, outside the handlers.
LEMMA FailKeeps ==
    ASSUME Stacked, stack # <<>>, Top.cb = "none", NEW next \in {"exit", "line_end", "drained"},
           FailThen(next), next = "line_end" => Top.method = "OnData",
           next = "drained" => Top.method = "Resume",
           Fit(Top.method, Top.pc, "none", Top.pos, Top.left),
           Top.method = "OnData" /\ Top.left = <<>> => next = "exit",
           Top.pc \notin Handlers \cup {"fail", "failed", "exit"},
           UNCHANGED <<finalized, closed, state, sent, request, chains>>
    PROVE  Keeps
<1>1. Stacked' /\ Now(Top.method, "fail", "none", next)
  BY FailMoves DEF Continuations
<1>2. Place' = "fail" /\ Target = Top.pc /\ Target' \in {next, "close"}
  BY <1>1 DEF Place, Target, Now
<1>3. Spent => Spent'
  BY <1>1, <1>2 DEF Spent, Now
<1> QED BY <1>1, <1>2, <1>3, CalmKeeps DEF Handlers

\* Entering a method, outside the handlers.
LEMMA EnterKeeps ==
    ASSUME Stacked, Stacked', stack # <<>> => Top.cb # "none",
           NEW method, NEW pc, NEW pos, Now(method, pc, "none", pos),
           pc \notin Handlers \cup {"failed", "flushed"}, pc = "fail" => method \in {"OnDone", "OnError"},
           ~NestedResume => stack = <<>> \/ Top.cb = "resume",
           UNCHANGED <<finalized, closed, state, sent, request, chains>>,
           method = "OnData" => ~closed
    PROVE  Keeps
<1>1. Place' = pc /\ Target' \notin Handlers
  BY DEF Place, Target, Now, Handlers
<1>2. stack # <<>> => FrameOK(Top) /\ (Top.cb \in {"done", "error"} => finalized) /\ Top.cb \in Callbacks
  BY TopKnown DEF Frames
<1>3. ~finalized \/ ~NestedResume => Target \notin Handlers /\ Place \notin {"fail", "failed"}
  BY <1>2 DEF Target, Place, Handlers, FrameOK, Fit, Callbacks
<1>4. ~NestedResume /\ Spent => closed
  BY <1>2 DEF Spent, Target, FrameOK, Fit
<1>5. ~NestedResume /\ Spent => Spent'
  BY <1>4 DEF Spent, Now
<1> QED BY <1>1, <1>3, <1>5, CalmKeeps

LEMMA BaseKeeps == ASSUME Stacked, Base PROVE Keeps
<1>1. UNCHANGED <<state, sent, request, chains>> /\ CommonNext
  BY DEF Base, authVars, handshake
<1>2. CASE Suspend
  BY <1>1, <1>2, StillKeeps DEF Suspend, lifecycle, signals, Stacked
<1>3. CASE Resume
  <2>1. UNCHANGED <<finalized, closed>> /\ (NestedResume \/ stack = <<>>) /\ CallerRuns
    BY <1>3 DEF Resume, signals
  <2>2. CASE UNCHANGED stack
    BY <1>1, <2>1, <2>2, StillKeeps DEF Stacked
  <2>3. CASE Enter("Resume", IF closed THEN "drained" ELSE "drain", 0, ~closed)
    <3> DEFINE pc == IF closed THEN "drained" ELSE "drain"
    <3>1. stack # <<>> => Top.cb # "none" /\ (~NestedResume => Top.cb = "resume")
      BY <2>1 DEF CallerRuns, Inside
    <3>2. pc \in {"drain", "drained"} /\ Enter("Resume", pc, 0, ~closed)
      BY <2>3
    <3> HIDE DEF pc
    <3>3. Fit("Resume", pc, "none", 0, 0) /\ pc # "failed"
      BY <3>2 DEF Fit, Places, Callbacks
    <3>4. Stacked' /\ Now("Resume", pc, "none", 0)
      BY <2>1, <3>1, <3>2, <3>3, EnterMoves
    <3> QED BY <1>1, <2>1, <3>1, <3>2, <3>4, EnterKeeps DEF Handlers
  <2> QED BY <1>3, <2>2, <2>3 DEF Resume
<1>4. CASE Close
  BY <1>1, <1>4, StillKeeps, CloseRequested DEF Close, signals
<1>5. CASE Return
  <2>1. /\ stack # <<>> /\ stack' = [stack EXCEPT ![1].cb = "none"] /\ UNCHANGED <<finalized, closed>>
    BY <1>5, GuardLeavesOpen DEF Return, signals
  <2>2. Stacked' /\ Now(Top.method, Top.pc, "none", Top.pos)
    BY <2>1, ReturnMoves
  <2> QED BY <1>1, <2>1, <2>2, MoveKeeps
<1>6. CASE Exit
  <2>1. /\ stack # <<>> /\ Top.pc = "exit" /\ stack' = Tail(stack) /\ UNCHANGED <<finalized, closed>>
    BY <1>6, GuardLeavesOpen DEF Exit, At, signals
  <2>2. /\ Stacked'
        /\ stack' # <<>> =>
              /\ Top'.cb # "none" /\ (~NestedResume => Top'.cb = "resume")
              /\ FrameOK(Top') /\ Top' \in Frames
              /\ Top'.cb \in {"done", "error"} \/ Top'.pc = "failed" => finalized
    BY <2>1, Popped
  <2>3. Place = "exit" /\ Target = "exit" /\ (Spent => closed)
    BY <2>1 DEF Place, Target, Spent
  <2>4. ~NestedResume /\ stack' # <<>> => Top'.pc = "resumed" /\ Top'.method = "Resume"
    BY <2>2 DEF FrameOK, Fit
  <2>5. ~finalized /\ stack' # <<>> => Top'.pc \in {"exit", "drained", "flushed", "resumed"}
    BY <2>2 DEF FrameOK, Fit, Frames, Callbacks
  <2>6. ~finalized \/ ~NestedResume => Target' \notin Handlers
    BY <2>4, <2>5 DEF Target, Handlers
  <2>7. ~NestedResume => Place' # "flushed" /\ (Spent => Spent')
    BY <2>1, <2>3, <2>4 DEF Place, Spent
  <2> QED BY <1>1, <2>1, <2>2, <2>3, <2>6, <2>7, CalmKeeps DEF Handlers
<1>7. CASE CloseStep
  <2> DEFINE pc == IF Top.method = "Resume" THEN "drained" ELSE "exit"
  <2>1. stack # <<>> /\ Top.cb = "none" /\ Top.pc = "close" /\ Fit(Top.method, "close", "none", Top.pos, Top.left)
    BY <1>7, AtKnown DEF CloseStep
  <2>2. closed' = TRUE /\ UNCHANGED finalized /\ Goto(pc) /\ pc \in {"drained", "exit"}
    BY <1>7, CloseRequested DEF CloseStep, signals
  <2>3. Fit(Top.method, pc, "none", Top.pos, Top.left)
    BY <2>1 DEF Fit, Places
  <2> HIDE DEF pc
  <2>4. Stacked' /\ Now(Top.method, pc, "none", Top.pos)
    BY <2>1, <2>2, <2>3, GotoMoves
  <2> QED BY <1>1, <2>1, <2>2, <2>4, MoveKeeps DEF Handlers
<1>8. CASE ResumeUpstream
  <2>1. /\ stack # <<>> /\ Top.cb = "none" /\ Top.pc = "drained" /\ Fit(Top.method, "drained", "none", Top.pos, Top.left)
        /\ UNCHANGED <<closed, finalized>> /\ closed' \in BOOLEAN /\ finalized' \in BOOLEAN
    BY <1>8, AtKnown DEF ResumeUpstream, signals, lifecycle, Stacked
  <2>2. Fit(Top.method, "resumed", "resume", Top.pos, Top.left) /\ Fit(Top.method, "resumed", "none", Top.pos, Top.left)
    BY <2>1 DEF Fit, Places, Callbacks
  <2>3. CASE stack' = [stack EXCEPT ![1].cb = "resume", ![1].pc = "resumed"]
    <3>1. Stacked' /\ Now(Top.method, "resumed", "resume", Top.pos)
      BY <2>1, <2>2, <2>3, CallMoves
    <3> QED BY <1>1, <2>1, <3>1, MoveKeeps DEF Handlers
  <2>4. CASE Goto("resumed")
    <3>1. Stacked' /\ Now(Top.method, "resumed", "none", Top.pos)
      BY <2>1, <2>2, <2>4, GotoMoves
    <3> QED BY <1>1, <2>1, <3>1, MoveKeeps DEF Handlers
  <2> QED BY <1>8, <2>3, <2>4 DEF ResumeUpstream
<1>9. CASE CompleteDeferred
  <2>1. /\ stack # <<>> /\ Top.cb = "none" /\ Top.pc = "resumed" /\ Fit(Top.method, "resumed", "none", Top.pos, Top.left)
        /\ UNCHANGED <<closed, finalized>> /\ closed' \in BOOLEAN
    BY <1>9, AtKnown DEF CompleteDeferred, signals, lifecycle, Stacked
  <2>2. ASSUME NEW pc \in {"flush", "exit"}, Goto(pc) PROVE Keeps
    <3>1. Fit(Top.method, pc, "none", Top.pos, Top.left)
      BY <2>1 DEF Fit, Places
    <3>2. Stacked' /\ Now(Top.method, pc, "none", Top.pos)
      BY <2>1, <2>2, <3>1, GotoMoves
    <3> QED BY <1>1, <2>1, <3>2, MoveKeeps DEF Handlers
  <2> QED BY <1>9, <2>2 DEF CompleteDeferred
<1> QED BY <1>1, <1>2, <1>3, <1>4, <1>5, <1>6, <1>7, <1>8, <1>9 DEF CommonNext

-----------------------------------------------------------------------------
(***************************************************************************)
(* Calls of the upstream and of the owner.                                 *)
(***************************************************************************)
LEMMA UpstreamAtRest ==
    ASSUME Stacked, UpstreamRuns PROVE stack # <<>> => Top.cb = "resume"
  BY TopKnown DEF UpstreamRuns, Inside, Frames, Callbacks

LEMMA ChunksAre == ASSUME NEW data \in Chunks PROVE data \in Chunk
<1>1. PICK n \in 1..MaxChunk :
         data \in [1..n -> IF state = "Streaming" THEN {"part"} ELSE Lines \cup {"part"}]
  BY DEF Chunks
<1>2. n \in Nat
  BY CramAssumption
<1>3. data \in [1..n -> Lines \cup {"part"}]
  BY <1>1
<1> QED BY <1>2, <1>3 DEF Chunk

LEMMA UpstreamKeeps == ASSUME Stacked, OnData \/ OnDone \/ OnError PROVE Keeps
<1>1. /\ stack # <<>> => Top.cb = "resume"
      /\ ~closed /\ UNCHANGED <<finalized, closed, state, sent, request, chains>>
  BY UpstreamAtRest DEF OnData, OnDone, OnError, signals, handshake
<1>2. ASSUME NEW method \in {"OnData", "OnDone", "OnError"}, NEW pc, NEW left \in Chunk,
             Enter(method, pc, left, TRUE),
             \/ method = "OnData" /\ pc \in {"binary", "text"}
             \/ method = "OnDone" /\ pc = "completing"
             \/ method \in {"OnDone", "OnError"} /\ pc = "fail"
      PROVE  Keeps
  <2>1. Fit(method, pc, "none", 0, left) /\ pc # "failed"
    BY <1>2 DEF Fit, Places, Callbacks
  <2>2. Stacked' /\ Now(method, pc, "none", 0)
    BY <1>1, <1>2, <2>1, EnterMoves
  <2> QED BY <1>1, <1>2, <2>2, EnterKeeps DEF Handlers
<1>3. <<>> \in Chunk
  BY DEF Chunk
<1>4. CASE OnData
  <2>1. PICK data \in Chunks : Enter("OnData", IF state = "Streaming" THEN "binary" ELSE "text", data, TRUE)
    BY <1>4 DEF OnData
  <2>2. data \in Chunk
    BY ChunksAre
  <2> QED BY <1>2, <2>1, <2>2
<1>5. CASE OnDone
  <2>1. CASE UNCHANGED stack
    BY <1>1, <2>1, StillKeeps DEF Stacked
  <2>2. CASE Enter("OnDone", IF state = "Streaming" THEN "completing" ELSE "fail", <<>>, TRUE)
    BY <1>2, <1>3, <2>2
  <2> QED BY <1>5, <2>1, <2>2 DEF OnDone
<1>6. CASE OnError
  BY <1>2, <1>3, <1>6 DEF OnError
<1> QED BY <1>4, <1>5, <1>6

\* Subscribe() and StartStreaming(): the binary stream is not concerned.
LEMMA StreamSame ==
    ASSUME Stacked, Streamed, UNCHANGED chains, closed => closed', Place' # "flushed", Spent => Spent'
    PROVE  Streamed'
<1>1. UNCHANGED <<streaming_chain, pending_chain, binaries, delivered>>
  BY DEF chains
<1>2. /\ Run(delivered, 0)' /\ Run(streaming_chain, Len(delivered))'
      /\ Run(pending_chain, Len(delivered) + Len(streaming_chain))'
  BY <1>1 DEF Streamed, Run
<1> QED BY <1>1, <1>2 DEF Streamed

LEMMA SubscribeKeeps == ASSUME Stacked, Subscribe PROVE Keeps
<1>1. /\ stack = <<>> /\ pending_symbols' = TRUE /\ subscription_sent' = FALSE
      /\ LateSubscribe \/ ~pending_symbols
      /\ UNCHANGED <<finalized, closed, state, sent, start_requested, chains>>
  BY DEF Subscribe, signals, handshake
<1>2. CASE state # "Ready"
  <2>1. UNCHANGED stack
    BY <1>2 DEF Subscribe
  <2>2. Stacked' /\ Top' = Top /\ Place' = Place /\ Target' = Target /\ Place = "idle" /\ Target = "idle"
    BY <1>1, <2>1, StackSame DEF Stacked, Place, Target
  <2>3. Wired => Wired'
    BY <1>1, <1>2, <2>2, SentSame DEF Wired
  <2>4. ~LateSubscribe /\ Requested => Requested'
    BY <1>1, <1>2, <2>2 DEF Requested
  <2>5. Spent => Spent'
    BY <1>1, <2>1 DEF Spent
  <2>6. Streamed => Streamed'
    BY <1>1, <2>2, <2>5, StreamSame
  <2> QED BY <2>2, <2>3, <2>4, <2>6 DEF Keeps
<1>3. CASE state = "Ready"
  <2>1. Enter("Subscribe", "send_subscription", <<>>, FALSE)
    BY <1>3 DEF Subscribe
  <2>2. Fit("Subscribe", "send_subscription", "none", 0, <<>>) /\ <<>> \in {0} \cup Chunk
    <3>1. Fit("Subscribe", "send_subscription", "none", 0, <<>>)
      BY DEF Fit, Places, Callbacks
    <3>2. <<>> \in Chunk
      BY DEF Chunk
    <3> QED BY <3>1, <3>2
  <2>3. Stacked' /\ Now("Subscribe", "send_subscription", "none", 0)
    BY <1>1, <2>1, <2>2, EnterMoves
  <2>4. /\ Place = "idle" /\ Target = "idle" /\ Place' = "send_subscription" /\ Target' = "send_subscription"
    BY <1>1, <2>3 DEF Place, Target, Now
  <2>5. Wired => Wired'
    BY <1>1, <1>3, <2>4, SentSame DEF Wired
  <2>6. ~LateSubscribe /\ Requested => Requested'
    BY <1>1, <1>3, <2>4 DEF Requested
  <2>7. Spent => Spent'
    BY <1>1, <2>3 DEF Spent, Now
  <2>8. Streamed => Streamed'
    BY <1>1, <2>4, <2>7, StreamSame
  <2> QED BY <2>3, <2>5, <2>6, <2>8 DEF Keeps
<1> QED BY <1>2, <1>3

LEMMA StartStreamingKeeps == ASSUME Stacked, StartStreaming PROVE Keeps
<1>1. /\ stack = <<>> /\ start_requested' = TRUE
      /\ UNCHANGED <<finalized, closed, state, sent, pending_symbols, subscription_sent, chains>>
  BY DEF StartStreaming, signals, handshake
<1>2. CASE ~(state = "Ready" /\ subscription_sent)
  <2>1. UNCHANGED stack
    BY <1>2 DEF StartStreaming
  <2>2. Stacked' /\ Top' = Top /\ Place' = Place /\ Target' = Target /\ Place = "idle" /\ Target = "idle"
    BY <1>1, <2>1, StackSame DEF Stacked, Place, Target
  <2>3. Wired => Wired'
    BY <1>1, <2>2, SentSame DEF Wired
  <2>4. Requested => Requested'
    BY <1>1, <1>2, <2>2 DEF Requested
  <2>5. Spent => Spent'
    BY <1>1, <2>1 DEF Spent
  <2>6. Streamed => Streamed'
    BY <1>1, <2>2, <2>5, StreamSame
  <2> QED BY <2>2, <2>3, <2>4, <2>6 DEF Keeps
<1>3. CASE state = "Ready" /\ subscription_sent
  <2>1. Enter("StartStreaming", "send_start", <<>>, FALSE)
    BY <1>3 DEF StartStreaming
  <2>2. Fit("StartStreaming", "send_start", "none", 0, <<>>) /\ <<>> \in {0} \cup Chunk
    <3>1. Fit("StartStreaming", "send_start", "none", 0, <<>>)
      BY DEF Fit, Places, Callbacks
    <3>2. <<>> \in Chunk
      BY DEF Chunk
    <3> QED BY <3>1, <3>2
  <2>3. Stacked' /\ Now("StartStreaming", "send_start", "none", 0)
    BY <1>1, <2>1, <2>2, EnterMoves
  <2>4. /\ Place = "idle" /\ Target = "idle" /\ Place' = "send_start" /\ Target' = "send_start"
    BY <1>1, <2>3 DEF Place, Target, Now
  <2>5. Wired => Wired'
    BY <1>1, <1>3, <2>4, SentSame DEF Wired
  <2>6. Requested => Requested'
    BY <1>1, <1>3, <2>4 DEF Requested
  <2>7. Spent => Spent'
    BY <1>1, <2>3 DEF Spent, Now
  <2>8. Streamed => Streamed'
    BY <1>1, <2>4, <2>7, StreamSame
  <2> QED BY <2>3, <2>5, <2>6, <2>8 DEF Keeps
<1> QED BY <1>2, <1>3

-----------------------------------------------------------------------------
(***************************************************************************)
(* The handlers.                                                           *)
(***************************************************************************)
\* A handler moves on inside an OnData or a call of the owner: the binary
\* stream is not concerned.
LEMMA HandlerStream ==
    ASSUME Stacked, Streamed, stack # <<>>, Top.pc \notin {"exit", "fail", "failed"},
           UNCHANGED <<chains, closed>>,
           NEW pc, NEW pos, Now(Top.method, pc, "none", pos), pc # "flushed"
    PROVE  Streamed'
<1>1. Place' # "flushed"
  BY DEF Place, Now
<1>2. Spent => Spent'
  BY DEF Spent, Target, Now
<1> QED BY <1>1, <1>2, StreamSame

\* A line handled: state_ may move on, nothing is sent.
LEMMA OnTextDataKeeps == ASSUME Stacked, OnTextData PROVE Keeps
<1>1. /\ stack # <<>> /\ Top.cb = "none" /\ Top.pc = "text" /\ Top.method = "OnData"
      /\ Fit(Top.method, "text", "none", Top.pos, Top.left)
  BY AtKnown DEF OnTextData, Fit
<1>2. /\ UNCHANGED <<finalized, closed, sent, request, chains>> /\ closed' \in BOOLEAN
  BY DEF OnTextData, lifecycle, signals, handshake, Stacked
<1>3. Place = "text" /\ Target = "text"
  BY <1>1 DEF Place, Target
<1>4. ASSUME NEW pc \in {"exit", "next_unit", "line_end", "send_auth", "send_subscription"}, Goto(pc),
             Top.left = <<>> => pc = "exit"
      PROVE  Stacked' /\ Place' = pc /\ Target' = pc /\ (Streamed => Streamed')
             /\ Now(Top.method, pc, "none", Top.pos)
  <2>1. Fit(Top.method, pc, "none", Top.pos, Top.left)
    BY <1>1, <1>4 DEF Fit, Places
  <2>2. Stacked' /\ Now(Top.method, pc, "none", Top.pos)
    BY <1>1, <1>2, <1>4, <2>1, GotoMoves
  <2>3. Streamed => Streamed'
    BY <1>1, <1>2, <2>2, HandlerStream
  <2> QED BY <2>2, <2>3 DEF Place, Target, Now
<1>5. ASSUME NEW pc \in {"exit", "next_unit", "line_end"}, Goto(pc), UNCHANGED state,
             Top.left = <<>> => pc = "exit"
      PROVE  Keeps
  <2>1. Stacked' /\ Now(Top.method, pc, "none", Top.pos)
    BY <1>4, <1>5
  <2> QED BY <1>1, <1>2, <1>5, <2>1, MoveKeeps DEF Handlers
<1>6. ASSUME NEW pc \in {"exit", "line_end"}, FailThen(pc), UNCHANGED state, Top.left # <<>>
      PROVE  Keeps
  BY <1>1, <1>2, <1>6, FailKeeps DEF Handlers
<1>7. CASE Top.left # <<>> /\ state = "WaitingGreeting" /\ state' = "WaitingChallenge" /\ Goto("line_end")
  <2>1. Stacked' /\ Place' = "line_end" /\ Target' = "line_end" /\ (Streamed => Streamed')
    BY <1>4, <1>7
  <2>2. Wired => Wired'
    BY <1>2, <1>3, <1>7, <2>1, SentSame DEF Wired, request, States
  <2>3. Requested => Requested'
    BY <1>2, <1>3, <1>7, <2>1 DEF Requested, request
  <2> QED BY <2>1, <2>2, <2>3 DEF Keeps
<1>8. CASE Top.left # <<>> /\ state = "WaitingChallenge" /\ Goto("send_auth") /\ UNCHANGED state
  <2>1. Stacked' /\ Place' = "send_auth" /\ Target' = "send_auth" /\ (Streamed => Streamed')
    BY <1>4, <1>8
  <2>2. Wired => Wired'
    BY <1>2, <1>3, <1>8, <2>1, SentSame DEF Wired, request
  <2>3. Requested => Requested'
    BY <1>2, <1>3, <1>8, <2>1 DEF Requested, request
  <2> QED BY <2>1, <2>2, <2>3 DEF Keeps
<1>9. CASE Top.left # <<>> /\ state = "Authenticating" /\ state' = "Ready" /\ Goto("send_subscription")
  <2>1. Stacked' /\ Place' = "send_subscription" /\ Target' = "send_subscription" /\ (Streamed => Streamed')
    BY <1>4, <1>9
  <2>2. sent = <<"auth">> => Subscribing /\ Len(sent) = 1
    BY DEF Subscribing
  <2>3. Wired => Wired'
    BY <1>2, <1>3, <1>9, <2>1, <2>2, SentSame DEF Wired, request, States
  <2>4. Requested => Requested'
    BY <1>2, <1>3, <1>9, <2>1 DEF Requested, request
  <2> QED BY <2>1, <2>3, <2>4 DEF Keeps
<1>10. CASE Top.left # <<>> /\ \E line : ProcessLine(line)
  BY <1>5, <1>6, <1>7, <1>8, <1>9, <1>10 DEF ProcessLine, HandleGreeting, HandleChallenge,
     HandleAuthResponse
<1> QED BY <1>5, <1>6, <1>10 DEF OnTextData, handshake

LEMMA TailChunk == ASSUME NEW s \in Chunk, s # <<>> PROVE Tail(s) \in Chunk
  BY DEF Chunk

\* A unit is consumed.
LEMMA NextUnitKeeps == ASSUME Stacked, NextUnit PROVE Keeps
<1> DEFINE pc == IF Top.pc = "line_end" /\ state = "Streaming" THEN "binary" ELSE "text"
           f == [Top EXCEPT !.left = Tail(Top.left), !.pc = pc]
<1>1. /\ stack # <<>> /\ Top.cb = "none" /\ Top.pc \in {"next_unit", "line_end"} /\ Top \in Frames
      /\ Fit(Top.method, Top.pc, "none", Top.pos, Top.left) /\ Top.method = "OnData"
  BY AtKnown DEF NextUnit, Fit
<1>2. /\ UNCHANGED <<finalized, closed, state, sent, request, chains>>
      /\ closed' \in BOOLEAN /\ finalized' \in BOOLEAN
  BY DEF NextUnit, lifecycle, signals, authVars, handshake, Stacked
<1>3. /\ Top.left \in Chunk /\ Top.left # <<>> /\ Top = stack[1] /\ 1 \in 1..Len(stack)
  BY <1>1, TopKnown DEF Fit
<1>4. stack' = [stack EXCEPT ![1] = f]
  BY <1>1, <1>3 DEF NextUnit, Stacked, Frames
<1>5. /\ f.method = Top.method /\ f.pc = pc /\ f.cb = "none" /\ f.pos = Top.pos /\ f.left = Tail(Top.left)
  BY <1>1 DEF Frames
<1>6. Tail(Top.left) \in Chunk
  BY <1>3, TailChunk
<1>7. pc \in {"binary", "text"}
  OBVIOUS
<1>8. f \in Frames
  BY <1>1, <1>6 DEF Frames, Places
<1> HIDE DEF f, pc
<1>9. FrameOK(f)
  BY <1>1, <1>5, <1>6, <1>7 DEF FrameOK, Fit, Places
<1>10. Stacked' /\ stack' # <<>> /\ Top' = f
  BY <1>1, <1>2, <1>4, <1>5, <1>7, <1>8, <1>9, TopChanged
<1>11. Now(Top.method, pc, "none", Top.pos)
  BY <1>5, <1>10 DEF Now
<1> QED BY <1>1, <1>2, <1>7, <1>10, <1>11, MoveKeeps DEF Handlers

\* SendLine sends its line and goes on, or fails and goes on after the error.
LEMMA SendMoves ==
    ASSUME Stacked, stack # <<>>, Top.cb = "none", NEW line, NEW pc \in {"authenticating", "subscribed", "started"},
           SendLine(line, pc), UNCHANGED <<finalized, closed, chains>>, Top.pc \in Handlers,
           Fit(Top.method, Top.pc, "none", Top.pos, Top.left), pc = "authenticating" => Top.method = "OnData"
    PROVE  /\ Stacked' /\ (Streamed => Streamed')
           /\ \/ sent' = Append(sent, line) /\ Place' = pc
              \/ sent' = sent /\ Place' = "fail"
           /\ Target' = pc
<1>1. /\ closed' \in BOOLEAN /\ Top.pc \notin {"exit", "fail", "failed"}
      /\ Top.method \in {"OnData", "Subscribe", "StartStreaming"}
  BY DEF Stacked, Handlers, Fit
<1>2. CASE sent' = Append(sent, line) /\ Goto(pc)
  <2>1. Fit(Top.method, pc, "none", Top.pos, Top.left)
    BY <1>1 DEF Fit, Places, Handlers
  <2>2. Stacked' /\ Now(Top.method, pc, "none", Top.pos)
    BY <1>1, <1>2, <2>1, GotoMoves
  <2>3. Streamed => Streamed'
    BY <1>1, <2>2, HandlerStream
  <2> QED BY <1>2, <2>2, <2>3 DEF Place, Target, Now
<1>3. CASE sent' = sent /\ FailThen(pc)
  <2>1. Top.method = "OnData" /\ Top.left = <<>> => pc = "exit"
    BY DEF Fit, Handlers
  <2>2. Stacked' /\ Now(Top.method, "fail", "none", pc)
    BY <1>1, <1>3, <2>1, FailMoves DEF Continuations
  <2>3. Streamed => Streamed'
    BY <1>1, <2>2, HandlerStream
  <2> QED BY <1>1, <1>3, <2>2, <2>3 DEF Place, Target, Now
<1> QED BY <1>2, <1>3 DEF SendLine

LEMMA SentGrows ==
    ASSUME sent \in Seq(WireLines), NEW line \in WireLines, sent' = Append(sent, line)
    PROVE  /\ sent' \in Seq(WireLines)
           /\ sent = <<>> /\ line = "auth" => sent' = <<"auth">> /\ Subscribing'
           /\ Subscribing /\ line = "subscription" => Subscribing' /\ Len(sent') >= 2
           /\ Subscribing /\ Len(sent) >= 2 /\ line = "start_session" => Starting'
<1>1. /\ sent' \in Seq(WireLines) /\ Len(sent') = Len(sent) + 1 /\ Len(sent) \in Nat
      /\ sent'[Len(sent) + 1] = line /\ \A i \in 1..Len(sent) : sent'[i] = sent[i]
  OBVIOUS
<1>2. ASSUME sent = <<>>, line = "auth" PROVE sent' = <<"auth">> /\ Subscribing'
  <2>1. sent' = <<"auth">>
    BY <1>2
  <2> QED BY <2>1 DEF Subscribing
<1>3. ASSUME Subscribing, line = "subscription" PROVE Subscribing' /\ Len(sent') >= 2
  BY <1>1, <1>3 DEF Subscribing
<1>4. ASSUME Subscribing, Len(sent) >= 2, line = "start_session" PROVE Starting'
  BY <1>1, <1>4 DEF Subscribing, Starting
<1> QED BY <1>1, <1>2, <1>3, <1>4

\* The line is sent, or is not and there is an error.
LEMMA SendAuthKeeps == ASSUME Stacked, SendAuth PROVE Keeps
<1>1. /\ stack # <<>> /\ Top.cb = "none" /\ Top.pc = "send_auth" /\ Top.method = "OnData"
      /\ Fit(Top.method, "send_auth", "none", Top.pos, Top.left)
  BY AtKnown DEF SendAuth, Fit
<1>2. /\ UNCHANGED <<finalized, closed, state, request, chains>> /\ SendLine("auth", "authenticating")
  BY DEF SendAuth, lifecycle, signals
<1>3. Place = "send_auth" /\ Target = "send_auth"
  BY <1>1 DEF Place, Target
<1>4. /\ Stacked' /\ (Streamed => Streamed')
      /\ \/ sent' = Append(sent, "auth") /\ Place' = "authenticating"
         \/ sent' = sent /\ Place' = "fail"
      /\ Target' = "authenticating"
  BY <1>1, <1>2, SendMoves DEF Handlers
<1>5. Requested => Requested'
  BY <1>2, <1>3, <1>4 DEF Requested, request
<1>6. Wired => Wired'
  <2>1. CASE sent' = sent /\ Place' = "fail"
    BY <1>2, <1>3, <2>1, SentSame DEF Wired
  <2>2. ASSUME sent' = Append(sent, "auth"), Place' = "authenticating", Wired PROVE Wired'
    <3>1. sent' \in Seq(WireLines) /\ (sent = <<>> => sent' = <<"auth">> /\ Subscribing')
      BY <2>2, SentGrows DEF Wired, WireLines
    <3>2. ~finalized => state = "WaitingChallenge" /\ sent = <<>> /\ ~subscription_sent
      BY <1>3, <2>2 DEF Wired
    <3> QED BY <1>2, <2>2, <3>1, <3>2 DEF Wired, request
  <2> QED BY <1>4, <2>1, <2>2
<1> QED BY <1>4, <1>5, <1>6 DEF Keeps

LEMMA SendPendingSubscriptionKeeps == ASSUME Stacked, SendPendingSubscription PROVE Keeps
<1>1. /\ stack # <<>> /\ Top.cb = "none" /\ Top.pc = "send_subscription"
      /\ Fit(Top.method, "send_subscription", "none", Top.pos, Top.left)
  BY AtKnown DEF SendPendingSubscription
<1>2. /\ UNCHANGED <<finalized, closed, state, request, chains>> /\ closed' \in BOOLEAN
  BY DEF SendPendingSubscription, lifecycle, signals, Stacked
<1>3. Place = "send_subscription" /\ Target = "send_subscription"
  BY <1>1 DEF Place, Target
<1>4. CASE subscription_sent \/ ~pending_symbols
  <2>1. Goto(AfterSend) /\ UNCHANGED sent
    BY <1>4 DEF SendPendingSubscription
  <2>2. AfterSend \in {"line_end", "exit"} /\ (AfterSend = "line_end" => Top.method = "OnData")
    BY DEF AfterSend
  <2>3. Fit(Top.method, AfterSend, "none", Top.pos, Top.left)
    BY <1>1, <2>2 DEF Fit, Places
  <2>4. Stacked' /\ Now(Top.method, AfterSend, "none", Top.pos)
    BY <1>1, <1>2, <2>1, <2>2, <2>3, GotoMoves
  <2>5. Streamed => Streamed'
    BY <1>1, <1>2, <2>2, <2>4, HandlerStream
  <2>6. Place' \in {"line_end", "exit"} /\ Target' \in {"line_end", "exit"}
    BY <2>2, <2>4 DEF Place, Target, Now
  <2>7. Requested => Requested'
    BY <1>2, <1>3, <1>4, <2>6 DEF Requested, request
  <2>8. Wired => Wired'
    BY <1>2, <1>3, <2>1, <2>6, SentSame DEF Wired, request
  <2> QED BY <2>4, <2>5, <2>7, <2>8 DEF Keeps
<1>5. CASE ~subscription_sent /\ pending_symbols
  <2>1. SendLine("subscription", "subscribed")
    BY <1>5 DEF SendPendingSubscription
  <2>2. /\ Stacked' /\ (Streamed => Streamed')
        /\ \/ sent' = Append(sent, "subscription") /\ Place' = "subscribed"
           \/ sent' = sent /\ Place' = "fail"
        /\ Target' = "subscribed"
    BY <1>1, <1>2, <2>1, SendMoves DEF Handlers
  <2>3. Requested => Requested'
    BY <1>2, <1>3, <1>5, <2>2 DEF Requested, request
  <2>4. Wired => Wired'
    <3>1. CASE sent' = sent /\ Place' = "fail"
      BY <1>2, <1>3, <3>1, SentSame DEF Wired
    <3>2. ASSUME sent' = Append(sent, "subscription"), Place' = "subscribed", Wired PROVE Wired'
      <4>1. sent' \in Seq(WireLines) /\ (Subscribing => Subscribing' /\ Len(sent') >= 2)
        BY <3>2, SentGrows DEF Wired, WireLines
      <4>2. ~finalized => state = "Ready" /\ Subscribing
        BY <1>3, <3>2 DEF Wired
      <4> QED BY <1>2, <3>2, <4>1, <4>2 DEF Wired, request
    <3> QED BY <2>2, <3>1, <3>2
  <2> QED BY <2>2, <2>3, <2>4 DEF Keeps
<1> QED BY <1>4, <1>5

LEMMA SendStartKeeps == ASSUME Stacked, SendStart PROVE Keeps
<1>1. /\ stack # <<>> /\ Top.cb = "none" /\ Top.pc = "send_start"
      /\ Fit(Top.method, "send_start", "none", Top.pos, Top.left)
  BY AtKnown DEF SendStart
<1>2. /\ UNCHANGED <<finalized, closed, state, request, chains>> /\ SendLine("start_session", "started")
  BY DEF SendStart, lifecycle, signals
<1>3. Place = "send_start" /\ Target = "send_start"
  BY <1>1 DEF Place, Target
<1>4. /\ Stacked' /\ (Streamed => Streamed')
      /\ \/ sent' = Append(sent, "start_session") /\ Place' = "started"
         \/ sent' = sent /\ Place' = "fail"
      /\ Target' = "started"
  BY <1>1, <1>2, SendMoves DEF Handlers
<1>5. Requested => Requested'
  BY <1>2, <1>3, <1>4 DEF Requested, request
<1>6. Wired => Wired'
  <2>1. CASE sent' = sent /\ Place' = "fail"
    BY <1>2, <1>3, <2>1, SentSame DEF Wired
  <2>2. ASSUME sent' = Append(sent, "start_session"), Place' = "started", Wired PROVE Wired'
    <3>1. sent' \in Seq(WireLines) /\ (Subscribing /\ Len(sent) >= 2 => Starting')
      BY <2>2, SentGrows DEF Wired, WireLines
    <3>2. ~finalized => state = "Ready" /\ Subscribing /\ Len(sent) >= 2
      BY <1>3, <2>2 DEF Wired
    <3>3. Starting' => Len(sent') >= 2
      BY <3>1 DEF Starting
    <3> QED BY <1>2, <2>2, <3>1, <3>2, <3>3 DEF Wired, request
  <2> QED BY <1>4, <2>1, <2>2
<1> QED BY <1>4, <1>5, <1>6 DEF Keeps

\* A step of a handler that sends nothing: the flags or state_ move on.
LEMMA HandlerMoves ==
    ASSUME Stacked, stack # <<>>, Top.cb = "none", Top.pc \in Handlers,
           Fit(Top.method, Top.pc, "none", Top.pos, Top.left),
           NEW pc \in {"line_end", "exit", "send_start"}, pc = "line_end" => Top.method = "OnData",
           Goto(pc), UNCHANGED <<finalized, closed, chains>>
    PROVE  Stacked' /\ (Streamed => Streamed') /\ Place' = pc /\ Target' = pc
<1>1. /\ closed' \in BOOLEAN /\ Top.pc \notin {"exit", "fail", "failed"}
  BY DEF Stacked, Handlers
<1>2. Fit(Top.method, pc, "none", Top.pos, Top.left)
  BY DEF Fit, Places, Handlers
<1>3. Stacked' /\ Now(Top.method, pc, "none", Top.pos)
  BY <1>1, <1>2, GotoMoves
<1>4. Streamed => Streamed'
  BY <1>1, <1>3, HandlerStream
<1> QED BY <1>3, <1>4 DEF Place, Target, Now

LEMMA AfterSendIs == AfterSend \in {"line_end", "exit"} /\ (AfterSend = "line_end" => Top.method = "OnData")
  BY DEF AfterSend

LEMMA SubscribedKeeps == ASSUME Stacked, Subscribed PROVE Keeps
<1> DEFINE pc == IF start_requested THEN "send_start" ELSE AfterSend
<1>1. /\ stack # <<>> /\ Top.cb = "none" /\ Top.pc = "subscribed"
      /\ Fit(Top.method, Top.pc, "none", Top.pos, Top.left)
  BY AtKnown DEF Subscribed
<1>2. /\ UNCHANGED <<finalized, closed, state, sent, pending_symbols, start_requested, chains>>
      /\ Goto(pc) /\ subscription_sent' = TRUE
  BY DEF Subscribed, lifecycle, signals, handshake
<1>3. Place = "subscribed" /\ Target = "subscribed"
  BY <1>1 DEF Place, Target
<1>4. /\ pc \in {"line_end", "exit", "send_start"} /\ (pc = "send_start" <=> start_requested)
      /\ pc = "line_end" => Top.method = "OnData"
  BY AfterSendIs
<1> HIDE DEF pc
<1>5. Stacked' /\ (Streamed => Streamed') /\ Place' = pc /\ Target' = pc
  BY <1>1, <1>2, <1>4, HandlerMoves DEF Handlers
<1>6. Requested => Requested'
  BY <1>2, <1>3, <1>4, <1>5 DEF Requested
<1>7. Wired => Wired'
  BY <1>2, <1>3, <1>4, <1>5, SentSame DEF Wired
<1> QED BY <1>5, <1>6, <1>7 DEF Keeps

LEMMA AuthSentKeeps == ASSUME Stacked, AuthSent PROVE Keeps
<1>1. /\ stack # <<>> /\ Top.cb = "none" /\ Top.pc = "authenticating"
      /\ Fit(Top.method, Top.pc, "none", Top.pos, Top.left)
  BY AtKnown DEF AuthSent
<1>2. /\ UNCHANGED <<finalized, closed, sent, request, chains>> /\ state' = "Authenticating"
      /\ Goto("line_end")
  BY DEF AuthSent, lifecycle, signals
<1>3. Place = "authenticating" /\ Target = "authenticating"
  BY <1>1 DEF Place, Target
<1>4. Top.method = "OnData"
  BY <1>1 DEF Fit
<1>5. Stacked' /\ (Streamed => Streamed') /\ Place' = "line_end" /\ Target' = "line_end"
  BY <1>1, <1>2, <1>4, HandlerMoves DEF Handlers
<1>6. Requested => Requested'
  BY <1>2, <1>3, <1>5 DEF Requested, request
<1>7. Wired => Wired'
  BY <1>2, <1>3, <1>5, SentSame DEF Wired, request, States
<1> QED BY <1>5, <1>6, <1>7 DEF Keeps

LEMMA StartSentKeeps == ASSUME Stacked, StartSent PROVE Keeps
<1>1. /\ stack # <<>> /\ Top.cb = "none" /\ Top.pc = "started"
      /\ Fit(Top.method, Top.pc, "none", Top.pos, Top.left)
  BY AtKnown DEF StartSent
<1>2. /\ UNCHANGED <<finalized, closed, sent, request, chains>> /\ state' = "Streaming"
      /\ Goto(AfterSend)
  BY DEF StartSent, lifecycle, signals
<1>3. Place = "started" /\ Target = "started"
  BY <1>1 DEF Place, Target
<1>4. Stacked' /\ (Streamed => Streamed') /\ Place' = AfterSend /\ Target' = AfterSend
  BY <1>1, <1>2, AfterSendIs, HandlerMoves DEF Handlers
<1>5. Requested => Requested'
  BY <1>2, <1>3, <1>4, AfterSendIs DEF Requested, request
<1>6. Wired => Wired'
  BY <1>2, <1>3, <1>4, AfterSendIs, SentSame DEF Wired, request, States
<1> QED BY <1>4, <1>5, <1>6 DEF Keeps

-----------------------------------------------------------------------------
(***************************************************************************)
(* The binary stream.                                                      *)
(***************************************************************************)
LEMMA OutsideHandlers ==
    ASSUME UNCHANGED <<state, sent, request>>, finalized => finalized',
           ~finalized' /\ Place' # "fail" => Place # "fail",
           Place \notin Handlers, Place' \notin Handlers, Target \notin Handlers, Target' \notin Handlers
    PROVE  (Wired => Wired') /\ (Requested => Requested')
<1>1. UNCHANGED <<pending_symbols, subscription_sent, start_requested>>
  BY DEF request
<1>2. Requested => Requested'
  BY <1>1 DEF Requested, Handlers
<1>3. Wired => Wired'
  BY <1>1, SentSame DEF Wired, Handlers
<1> QED BY <1>2, <1>3

LEMMA RunConcat ==
    ASSUME NEW s, NEW t, NEW n \in Nat, Run(s, n), Run(t, n + Len(s))
    PROVE  Run(s \o t, n) /\ Len(s \o t) = Len(s) + Len(t)
<1>1. s \in Seq(Nat) /\ t \in Seq(Nat) /\ Len(s) \in Nat /\ Len(t) \in Nat
  BY DEF Run
<1>2. s \o t \in Seq(Nat) /\ Len(s \o t) = Len(s) + Len(t)
  BY <1>1
<1>3. ASSUME NEW i \in 1..(Len(s) + Len(t)) PROVE (s \o t)[i] = n + i
  <2>1. CASE i <= Len(s)
    BY <1>1, <2>1 DEF Run
  <2>2. CASE i > Len(s)
    <3>1. (s \o t)[i] = t[i - Len(s)] /\ i - Len(s) \in 1..Len(t)
      BY <1>1, <2>2
    <3> QED BY <1>1, <3>1 DEF Run
  <2> QED BY <1>1, <2>1, <2>2
<1> QED BY <1>2, <1>3 DEF Run

LEMMA RunSplit ==
    ASSUME NEW s, NEW n \in Nat, Run(s, n), NEW k \in 0..Len(s)
    PROVE  /\ Run(SubSeq(s, 1, k), n) /\ Len(SubSeq(s, 1, k)) = k
           /\ Run(SubSeq(s, k + 1, Len(s)), n + k) /\ Len(SubSeq(s, k + 1, Len(s))) = Len(s) - k
<1>1. s \in Seq(Nat) /\ Len(s) \in Nat /\ k \in Nat /\ k <= Len(s) /\ \A i \in 1..Len(s) : s[i] = n + i
  BY DEF Run
<1>2. /\ SubSeq(s, 1, k) \in Seq(Nat) /\ Len(SubSeq(s, 1, k)) = k
      /\ \A i \in 1..k : SubSeq(s, 1, k)[i] = s[i]
  BY <1>1
<1>3. /\ SubSeq(s, k + 1, Len(s)) \in Seq(Nat) /\ Len(SubSeq(s, k + 1, Len(s))) = Len(s) - k
      /\ \A i \in 1..(Len(s) - k) : SubSeq(s, k + 1, Len(s))[i] = s[k + i]
  BY <1>1
<1>4. Run(SubSeq(s, 1, k), n)
  BY <1>1, <1>2 DEF Run
<1>5. \A i \in 1..(Len(s) - k) : k + i \in 1..Len(s) /\ s[k + i] = n + k + i
  BY <1>1
<1>6. Run(SubSeq(s, k + 1, Len(s)), n + k)
  BY <1>1, <1>3, <1>5 DEF Run
<1> QED BY <1>2, <1>3, <1>4, <1>6

\* The three chains are one run of units.
LEMMA MergedRun ==
    ASSUME Streamed
    PROVE  /\ Len(delivered) \in Nat /\ Len(streaming_chain) \in Nat /\ Len(pending_chain) \in Nat
           /\ Run(Merged, Len(delivered)) /\ Len(Merged) = Len(streaming_chain) + Len(pending_chain)
<1>1. /\ Len(delivered) \in Nat /\ Len(streaming_chain) \in Nat /\ Len(pending_chain) \in Nat
      /\ Run(streaming_chain, Len(delivered)) /\ Run(pending_chain, Len(delivered) + Len(streaming_chain))
  BY DEF Streamed, Run
<1> QED BY <1>1, RunConcat DEF Merged

LEMMA Divided ==
    ASSUME NEW d \in Nat, NEW c \in Nat, NEW used \in Nat, used <= c, NEW x, x = d + used, NEW y, y = c - used
    PROVE  x + y = d + c /\ y <= c /\ x \in Nat /\ y \in Nat
  OBVIOUS

\* The downstream consumes a prefix of a chain.
LEMMA ForwardStreams ==
    ASSUME NEW chain, Run(delivered, 0), Run(chain, Len(delivered)), NEW used \in 0..Len(chain),
           streaming_chain' = SubSeq(chain, used + 1, Len(chain)),
           delivered' = delivered \o SubSeq(chain, 1, used)
    PROVE  /\ Run(delivered, 0)' /\ Run(streaming_chain, Len(delivered))'
           /\ Len(delivered') + Len(streaming_chain') = Len(delivered) + Len(chain)
           /\ Len(streaming_chain') <= Len(chain)
           /\ Len(delivered') \in Nat /\ Len(streaming_chain') \in Nat
<1>1. Len(delivered) \in Nat /\ Len(chain) \in Nat /\ used \in Nat /\ used <= Len(chain)
  BY DEF Run
<1>2. /\ Run(SubSeq(chain, 1, used), Len(delivered)) /\ Len(SubSeq(chain, 1, used)) = used
      /\ Run(SubSeq(chain, used + 1, Len(chain)), Len(delivered) + used)
      /\ Len(SubSeq(chain, used + 1, Len(chain))) = Len(chain) - used
  BY <1>1, RunSplit
<1>3. 0 + Len(delivered) = Len(delivered)
  BY <1>1
<1>4. /\ Run(delivered \o SubSeq(chain, 1, used), 0)
      /\ Len(delivered \o SubSeq(chain, 1, used)) = Len(delivered) + used
  BY <1>1, <1>2, <1>3, RunConcat
<1>5. Run(delivered, 0)'
  BY <1>4 DEF Run
<1>6. Len(delivered') = Len(delivered) + used /\ Len(streaming_chain') = Len(chain) - used
  BY <1>2, <1>4
<1>7. Run(streaming_chain, Len(delivered))'
  BY <1>2, <1>6 DEF Run
<1> DEFINE d == Len(delivered)  c == Len(chain)  x == Len(delivered')  y == Len(streaming_chain')
<1>8. x + y = d + c /\ y <= c /\ x \in Nat /\ y \in Nat
  <2>1. d \in Nat /\ c \in Nat /\ used \in Nat /\ used <= c /\ x = d + used /\ y = c - used
    BY <1>1, <1>6
  <2> HIDE DEF d, c, x, y
  <2> QED BY <2>1, Divided
<1> QED BY <1>5, <1>7, <1>8

\* Code that handles binary data moves on, fails or calls the downstream.
LEMMA BinaryMoves ==
    ASSUME Stacked, stack # <<>>, Top.cb = "none", Top.pc \in {"binary", "drain", "completing"},
           Fit(Top.method, Top.pc, "none", Top.pos, Top.left),
           NEW next \in {"exit", "drained", "flushed"},
           next = "drained" => Top.method = "Resume", next = "flushed" => Top.method = "OnDone",
           UNCHANGED <<finalized, closed, state, sent, request>>
    PROVE  /\ Goto(next) \/ CallDownstream("data", next) =>
                 /\ Stacked' /\ (Wired => Wired') /\ (Requested => Requested')
                 /\ stack' # <<>> /\ Top'.method = Top.method /\ Place' = next /\ Target' = next
           /\ FailThen(next) /\ next # "flushed" =>
                 /\ Stacked' /\ (Wired => Wired') /\ (Requested => Requested')
                 /\ stack' # <<>> /\ Top'.method = Top.method /\ Place' = "fail"
                 /\ Top.method = "OnData" => Target' = next
<1>1. closed' \in BOOLEAN /\ finalized' \in BOOLEAN
  BY DEF Stacked
<1>2. Place \notin Handlers /\ Target \notin Handlers /\ Place # "fail"
  BY DEF Place, Target, Handlers
<1>3. ASSUME Stacked', NEW cb, Now(Top.method, next, cb, Top.pos)
      PROVE  /\ Stacked' /\ (Wired => Wired') /\ (Requested => Requested')
             /\ stack' # <<>> /\ Top'.method = Top.method /\ Place' = next /\ Target' = next
  <2>1. stack' # <<>> /\ Top'.method = Top.method /\ Place' = next /\ Target' = next
    BY <1>3 DEF Place, Target, Now
  <2> QED BY <1>2, <1>3, <2>1, OutsideHandlers DEF Handlers
<1>4. ASSUME Goto(next) PROVE Stacked' /\ Now(Top.method, next, "none", Top.pos)
  <2>1. Fit(Top.method, next, "none", Top.pos, Top.left)
    BY DEF Fit, Places
  <2> QED BY <1>1, <1>4, <2>1, GotoMoves
<1>5. ASSUME CallDownstream("data", next) PROVE Stacked' /\ Now(Top.method, next, "data", Top.pos)
  <2>1. Fit(Top.method, next, "data", Top.pos, Top.left)
    BY DEF Fit, Places, Callbacks
  <2> QED BY <1>1, <1>5, <2>1, CallMoves DEF CallDownstream
<1>6. ASSUME FailThen(next), next # "flushed"
      PROVE  /\ Stacked' /\ (Wired => Wired') /\ (Requested => Requested')
             /\ stack' # <<>> /\ Top'.method = Top.method /\ Place' = "fail"
             /\ Top.method = "OnData" => Target' = next
  <2>1. Top.method = "OnData" => next = "exit"
    BY <1>6
  <2>2. Stacked' /\ Now(Top.method, "fail", "none", next)
    BY <1>6, <2>1, FailMoves DEF Continuations
  <2>3. /\ stack' # <<>> /\ Top'.method = Top.method /\ Place' = "fail" /\ Target' \in {next, "close"}
        /\ Top.method = "OnData" => Target' = next
    BY <2>2 DEF Place, Target, Now
  <2> QED BY <1>2, <2>2, <2>3, OutsideHandlers DEF Handlers
<1> QED BY <1>3, <1>4, <1>5, <1>6

\* What the downstream leaves of a chain that fits is kept whole.
LEMMA ForwardKept ==
    ASSUME Streamed, NEW chain, Run(chain, Len(delivered)), Len(chain) <= MaxPending, NEW next,
           Forward(chain, next), pending_chain' = <<>>, binaries' \in Nat,
           Len(delivered) + Len(chain) = binaries' \/ Spent'
    PROVE  Streamed'
<1>1. PICK used \in 0..Len(chain) :
         /\ streaming_chain' = SubSeq(chain, used + 1, Len(chain))
         /\ delivered' = delivered \o SubSeq(chain, 1, used)
  BY DEF Forward
<1>2. /\ Run(delivered, 0)' /\ Run(streaming_chain, Len(delivered))'
      /\ Len(delivered') + Len(streaming_chain') = Len(delivered) + Len(chain)
      /\ Len(streaming_chain') <= Len(chain)
      /\ Len(delivered') \in Nat /\ Len(streaming_chain') \in Nat
  BY <1>1, ForwardStreams DEF Streamed
<1>3. Len(chain) \in Nat /\ MaxPending \in Nat
  BY CramAssumption DEF Run
<1>4. Len(pending_chain') = 0 /\ Run(pending_chain, Len(delivered) + Len(streaming_chain))'
  BY DEF Run
<1> DEFINE x == Len(delivered')  y == Len(streaming_chain')  z == Len(pending_chain')
           d == Len(delivered)  c == Len(chain)
<1>5. (x + y + z = binaries' \/ Spent') /\ y <= MaxPending /\ z <= MaxPending
  <2>1. /\ d + c = binaries' \/ Spent'
        /\ x + y = d + c /\ y <= c /\ c <= MaxPending /\ z = 0
        /\ x \in Nat /\ y \in Nat /\ c \in Nat /\ MaxPending \in Nat
    BY <1>2, <1>3, <1>4
  <2> HIDE DEF x, y, z, d, c
  <2> QED BY <2>1
<1> QED BY <1>2, <1>4, <1>5 DEF Streamed

\* The merged chain is kept as a whole, with nothing delivered.
LEMMA MergedKept ==
    ASSUME Streamed, Fits(streaming_chain, pending_chain), streaming_chain' = Merged,
           pending_chain' = <<>>, delivered' = delivered, binaries' \in Nat,
           (binaries' = binaries /\ (Spent => Spent')) \/ Spent'
    PROVE  Streamed'
<1>1. /\ Len(delivered) \in Nat /\ Len(streaming_chain) \in Nat /\ Len(pending_chain) \in Nat
      /\ Run(Merged, Len(delivered)) /\ Len(Merged) = Len(streaming_chain) + Len(pending_chain)
  BY MergedRun
<1>2. Run(delivered, 0)' /\ Run(streaming_chain, Len(delivered))'
  BY <1>1 DEF Streamed, Run
<1>3. Len(pending_chain') = 0 /\ Run(pending_chain, Len(delivered) + Len(streaming_chain))'
  BY DEF Run
<1>4. Len(Merged) <= MaxPending /\ MaxPending \in Nat
  BY <1>1, CramAssumption DEF Fits
<1> DEFINE d == Len(delivered)  s == Len(streaming_chain)  p == Len(pending_chain)
           x == Len(delivered')  y == Len(streaming_chain')  z == Len(pending_chain')
<1>5. (x + y + z = binaries' \/ Spent') /\ y <= MaxPending /\ z <= MaxPending
  <2>1. /\ d \in Nat /\ s \in Nat /\ p \in Nat /\ x = d /\ y = s + p /\ y <= MaxPending /\ z = 0
        /\ MaxPending \in Nat /\ (d + s + p = binaries \/ Spent)
    BY <1>1, <1>3, <1>4 DEF Streamed
  <2> HIDE DEF d, s, p, x, y, z
  <2> QED BY <2>1
<1> QED BY <1>2, <1>3, <1>5 DEF Streamed

\* Chains that stay as they are.
LEMMA ChainsKept ==
    ASSUME Streamed, UNCHANGED <<streaming_chain, pending_chain, delivered>>, binaries' \in Nat,
           (binaries' = binaries /\ (Spent => Spent')) \/ Spent', Place' # "flushed"
    PROVE  Streamed'
<1>1. /\ Run(delivered, 0)' /\ Run(streaming_chain, Len(delivered))'
      /\ Run(pending_chain, Len(delivered) + Len(streaming_chain))'
  BY DEF Streamed, Run
<1> QED BY <1>1 DEF Streamed

LEMMA Taken ==
    ASSUME NEW d \in Nat, NEW s \in Nat, NEW p \in Nat, NEW u \in Nat, NEW b, d + s + p = b,
           NEW z, z = p + u, NEW c, c = b + u
    PROVE  d + s + z = c /\ c \in Nat
  OBVIOUS

\* Units held back while the stage is suspended.
LEMMA HeldKept ==
    ASSUME Streamed, NEW units, Run(units, binaries), Fits(pending_chain, units), ~Spent,
           pending_chain' = pending_chain \o units, UNCHANGED <<streaming_chain, delivered>>,
           binaries' = binaries + Len(units), Place' # "flushed"
    PROVE  Streamed'
<1>1. /\ Len(delivered) \in Nat /\ Len(streaming_chain) \in Nat /\ Len(pending_chain) \in Nat
      /\ Len(units) \in Nat /\ binaries \in Nat
      /\ Len(delivered) + Len(streaming_chain) + Len(pending_chain) = binaries
  BY DEF Streamed, Run
<1>2. Run(pending_chain, Len(delivered) + Len(streaming_chain))
      /\ Len(delivered) + Len(streaming_chain) \in Nat
  BY <1>1 DEF Streamed
<1>3. /\ Run(pending_chain \o units, Len(delivered) + Len(streaming_chain))
      /\ Len(pending_chain \o units) = Len(pending_chain) + Len(units)
  BY <1>1, <1>2, RunConcat
<1>4. /\ Run(delivered, 0)' /\ Run(streaming_chain, Len(delivered))'
      /\ Run(pending_chain, Len(delivered) + Len(streaming_chain))'
  BY <1>3 DEF Streamed, Run
<1> DEFINE d == Len(delivered)  s == Len(streaming_chain)  p == Len(pending_chain)  u == Len(units)
           z == Len(pending_chain')  b == binaries  c == binaries'
<1>5. d + s + z = c /\ z <= MaxPending /\ c \in Nat
  <2>1. /\ d \in Nat /\ s \in Nat /\ p \in Nat /\ u \in Nat /\ b \in Nat /\ z = p + u
        /\ p + u <= MaxPending /\ d + s + p = b /\ c = b + u
    BY <1>1, <1>3 DEF Fits
  <2> HIDE DEF d, s, p, u, z, b, c
  <2> QED BY <2>1, Taken
<1> QED BY <1>4, <1>5 DEF Streamed

LEMMA NewUnits ==
    ASSUME binaries \in Nat, NEW left \in Chunk, NEW units, units = [i \in 1..Len(left) |-> binaries + i]
    PROVE  Run(units, binaries) /\ Len(units) = Len(left) /\ Len(left) \in Nat /\ (units = <<>> <=> Len(left) = 0)
<1>1. Len(left) \in Nat
  BY DEF Chunk
<1>2. units \in Seq(Nat) /\ Len(units) = Len(left)
  BY <1>1
<1> QED BY <1>1, <1>2 DEF Run

LEMMA Regrouped == ASSUME NEW a \in Nat, NEW b \in Nat, NEW c \in Nat PROVE a + (b + c) = (a + b) + c
  OBVIOUS

LEMMA OnBinaryDataKeeps == ASSUME Stacked, OnBinaryData PROVE Keeps
<1> DEFINE units == [i \in 1..Len(Top.left) |-> binaries + i]
<1>1. /\ stack # <<>> /\ Top.cb = "none" /\ Top.pc = "binary" /\ Top.method = "OnData"
      /\ Fit(Top.method, Top.pc, "none", Top.pos, Top.left) /\ Top.left \in Chunk
  BY AtKnown DEF OnBinaryData, Fit
<1>2. /\ UNCHANGED <<finalized, closed, state, sent, request>> /\ binaries' = binaries + Len(units)
      /\ \/ units = <<>> /\ Goto("exit") /\ UNCHANGED <<streaming_chain, pending_chain, delivered>>
         \/ /\ Fits(pending_chain, units) /\ pending_chain' = pending_chain \o units /\ Goto("exit")
            /\ UNCHANGED <<streaming_chain, delivered>>
         \/ FailThen("exit") /\ UNCHANGED <<streaming_chain, pending_chain, delivered>>
         \/ /\ Fits(streaming_chain, pending_chain) /\ pending_chain' = <<>>
            /\ Fits(Merged, units) /\ Forward(Merged \o units, "exit")
         \/ /\ Fits(streaming_chain, pending_chain) /\ pending_chain' = <<>>
            /\ streaming_chain' = Merged /\ FailThen("exit") /\ UNCHANGED delivered
  BY DEF OnBinaryData, lifecycle, handshake
<1> HIDE DEF units
<1>3. /\ Goto("exit") \/ CallDownstream("data", "exit") =>
            /\ Stacked' /\ (Wired => Wired') /\ (Requested => Requested')
            /\ stack' # <<>> /\ Top'.method = Top.method /\ Place' = "exit" /\ Target' = "exit"
      /\ FailThen("exit") =>
            /\ Stacked' /\ (Wired => Wired') /\ (Requested => Requested')
            /\ stack' # <<>> /\ Top'.method = Top.method /\ Place' = "fail" /\ Target' = "exit"
  BY <1>1, <1>2, BinaryMoves
<1>4. ~Spent
  BY <1>1 DEF Spent, Target
<1>5. FailThen("exit") => Spent'
  BY <1>1, <1>3 DEF Spent, Place
<1>6. Place' # "flushed" /\ Stacked' /\ (Wired => Wired') /\ (Requested => Requested')
  BY <1>2, <1>3 DEF Forward
<1>7. ASSUME Streamed PROVE Streamed'
  <2>1. Run(units, binaries) /\ Len(units) = Len(Top.left) /\ Len(Top.left) \in Nat
        /\ (units = <<>> <=> Len(Top.left) = 0)
    <3> USE DEF units
    <3> QED BY <1>1, <1>7, NewUnits DEF Streamed
  <2>2. binaries' \in Nat /\ binaries \in Nat /\ (units = <<>> => binaries' = binaries)
    BY <1>2, <1>7, <2>1 DEF Streamed
  <2>3. CASE units = <<>> /\ UNCHANGED <<streaming_chain, pending_chain, delivered>>
    BY <1>4, <1>6, <1>7, <2>2, <2>3, ChainsKept
  <2>4. CASE /\ Fits(pending_chain, units) /\ pending_chain' = pending_chain \o units
             /\ UNCHANGED <<streaming_chain, delivered>>
    BY <1>2, <1>4, <1>6, <1>7, <2>1, <2>4, HeldKept
  <2>5. CASE FailThen("exit") /\ UNCHANGED <<streaming_chain, pending_chain, delivered>>
    BY <1>5, <1>6, <1>7, <2>2, <2>5, ChainsKept
  <2>6. CASE /\ Fits(streaming_chain, pending_chain) /\ pending_chain' = <<>>
             /\ streaming_chain' = Merged /\ FailThen("exit") /\ UNCHANGED delivered
    BY <1>5, <1>7, <2>2, <2>6, MergedKept
  <2>7. CASE /\ Fits(streaming_chain, pending_chain) /\ pending_chain' = <<>>
             /\ Fits(Merged, units) /\ Forward(Merged \o units, "exit")
    <3>1. /\ Len(delivered) \in Nat /\ Len(streaming_chain) \in Nat /\ Len(pending_chain) \in Nat
          /\ Run(Merged, Len(delivered)) /\ Len(Merged) = Len(streaming_chain) + Len(pending_chain)
      BY <1>7, MergedRun
    <3>2. Len(delivered) + Len(Merged) = binaries /\ Len(Merged) \in Nat
      BY <1>4, <1>7, <3>1 DEF Streamed
    <3>3. /\ Run(Merged \o units, Len(delivered)) /\ Len(Merged \o units) = Len(Merged) + Len(units)
      BY <2>1, <3>1, <3>2, RunConcat
    <3>4. Len(Merged \o units) <= MaxPending /\ Len(delivered) + Len(Merged \o units) = binaries'
      <4>1. Len(Merged \o units) <= MaxPending
        BY <2>7, <3>3 DEF Fits
      <4> DEFINE d == Len(delivered)  m == Len(Merged)  u == Len(units)
      <4>2. d + (m + u) = (d + m) + u
        <5>1. d \in Nat /\ m \in Nat /\ u \in Nat
          BY <2>1, <3>1, <3>2
        <5> HIDE DEF d, m, u
        <5> QED BY <5>1, Regrouped
      <4> QED BY <1>2, <3>2, <3>3, <4>1, <4>2
    <3> QED BY <1>7, <2>2, <2>7, <3>3, <3>4, ForwardKept
  <2> QED BY <1>2, <2>3, <2>4, <2>5, <2>6, <2>7
<1> QED BY <1>6, <1>7 DEF Keeps

\* ProcessPending and FlushAndComplete merge the chains and hand them on.
LEMMA MergeKeeps ==
    ASSUME Stacked, stack # <<>>, Top.cb = "none", Top.pc \in {"drain", "completing"},
           Fit(Top.method, Top.pc, "none", Top.pos, Top.left),
           NEW next \in {"drained", "flushed"}, NEW failed \in {"drained", "exit"},
           next = "drained" \/ failed = "drained" => Top.method = "Resume",
           next = "flushed" => Top.method = "OnDone",
           UNCHANGED <<finalized, closed, state, sent, request, binaries>>,
           \/ FailThen(failed) /\ UNCHANGED <<streaming_chain, pending_chain, delivered>>
           \/ /\ Fits(streaming_chain, pending_chain) /\ pending_chain' = <<>>
              /\ Merged = <<>> /\ Goto(next) /\ UNCHANGED <<streaming_chain, delivered>>
           \/ /\ Fits(streaming_chain, pending_chain) /\ pending_chain' = <<>> /\ Forward(Merged, next)
    PROVE  Keeps
<1>1. /\ Goto(next) \/ CallDownstream("data", next) =>
            /\ Stacked' /\ (Wired => Wired') /\ (Requested => Requested')
            /\ stack' # <<>> /\ Top'.method = Top.method /\ Place' = next
  BY BinaryMoves
<1>2. FailThen(failed) =>
            /\ Stacked' /\ (Wired => Wired') /\ (Requested => Requested')
            /\ stack' # <<>> /\ Top'.method = Top.method /\ Place' = "fail"
  BY BinaryMoves
<1>3. Stacked' /\ (Wired => Wired') /\ (Requested => Requested') /\ stack' # <<>> /\ Top'.method = Top.method
  BY <1>1, <1>2 DEF Forward
<1>4. Spent => Spent'
  BY <1>3 DEF Spent, Fit
<1>5. ASSUME Streamed PROVE Streamed'
  <2>1. /\ Len(delivered) \in Nat /\ Len(streaming_chain) \in Nat /\ Len(pending_chain) \in Nat
        /\ Run(Merged, Len(delivered)) /\ Len(Merged) = Len(streaming_chain) + Len(pending_chain)
    BY <1>5, MergedRun
  <2>2. binaries' \in Nat /\ MaxPending \in Nat
    BY <1>5, CramAssumption DEF Streamed
  <2>3. CASE FailThen(failed) /\ UNCHANGED <<streaming_chain, pending_chain, delivered>>
    BY <1>2, <1>4, <1>5, <2>2, <2>3, ChainsKept
  <2>4. CASE /\ Fits(streaming_chain, pending_chain) /\ pending_chain' = <<>>
             /\ Merged = <<>> /\ UNCHANGED <<streaming_chain, delivered>>
    <3>1. Len(Merged) = 0
      BY <2>4
    <3> DEFINE c == Len(streaming_chain)  p == Len(pending_chain)
    <3>2. c = 0
      <4>1. c \in Nat /\ p \in Nat /\ c + p = 0
        BY <2>1, <3>1
      <4> HIDE DEF c, p
      <4> QED BY <4>1
    <3>3. streaming_chain = Merged
      BY <1>5, <2>4, <3>2 DEF Streamed, Run
    <3> QED BY <1>4, <1>5, <2>2, <2>4, <3>3, MergedKept
  <2>5. CASE /\ Fits(streaming_chain, pending_chain) /\ pending_chain' = <<>> /\ Forward(Merged, next)
    <3>1. Len(Merged) <= MaxPending
      BY <2>1, <2>5 DEF Fits
    <3>2. Len(delivered) + Len(Merged) = Len(delivered) + Len(streaming_chain) + Len(pending_chain)
      <4> DEFINE d == Len(delivered)  c == Len(streaming_chain)  p == Len(pending_chain)  m == Len(Merged)
      <4>1. d \in Nat /\ c \in Nat /\ p \in Nat /\ m = c + p
        BY <2>1
      <4>2. d + m = d + c + p
        <5> HIDE DEF d, c, p, m
        <5> QED BY <4>1, Regrouped
      <4> QED BY <4>2
    <3>3. Len(delivered) + Len(Merged) = binaries' \/ Spent'
      BY <1>4, <1>5, <3>2 DEF Streamed
    <3> QED BY <1>5, <2>1, <2>2, <2>5, <3>1, <3>3, ForwardKept
  <2> QED BY <2>3, <2>4, <2>5
<1> QED BY <1>3, <1>5 DEF Keeps

LEMMA ProcessPendingKeeps == ASSUME Stacked, ProcessPending PROVE Keeps
<1>1. /\ stack # <<>> /\ Top.cb = "none" /\ Top.pc = "drain" /\ Top.method = "Resume"
      /\ Fit(Top.method, Top.pc, "none", Top.pos, Top.left)
  BY AtKnown DEF ProcessPending, Fit
<1>2. /\ UNCHANGED <<finalized, closed, state, sent, request, binaries>>
      /\ \/ FailThen("drained") /\ UNCHANGED <<streaming_chain, pending_chain, delivered>>
         \/ /\ Fits(streaming_chain, pending_chain) /\ pending_chain' = <<>>
            /\ Merged = <<>> /\ Goto("drained") /\ UNCHANGED <<streaming_chain, delivered>>
         \/ /\ Fits(streaming_chain, pending_chain) /\ pending_chain' = <<>> /\ Forward(Merged, "drained")
  BY DEF ProcessPending, lifecycle, handshake
<1> QED BY <1>1, <1>2, MergeKeeps

LEMMA CompleteWithFlushKeeps == ASSUME Stacked, CompleteWithFlush PROVE Keeps
<1>1. /\ stack # <<>> /\ Top.cb = "none" /\ Top.pc = "completing" /\ Top.method = "OnDone"
      /\ Fit(Top.method, Top.pc, "none", Top.pos, Top.left)
  BY AtKnown DEF CompleteWithFlush, Fit
<1>2. /\ UNCHANGED <<finalized, closed, state, sent, request, binaries>>
      /\ \/ FailThen("exit") /\ UNCHANGED <<streaming_chain, pending_chain, delivered>>
         \/ /\ Fits(streaming_chain, pending_chain) /\ pending_chain' = <<>>
            /\ Merged = <<>> /\ Goto("flushed") /\ UNCHANGED <<streaming_chain, delivered>>
         \/ /\ Fits(streaming_chain, pending_chain) /\ pending_chain' = <<>> /\ Forward(Merged, "flushed")
  BY DEF CompleteWithFlush, lifecycle, handshake
<1> QED BY <1>1, <1>2, MergeKeeps

\* The completion that Resume() held back goes on as OnDone.
LEMMA FlushAndCompleteKeeps == ASSUME Stacked, FlushAndComplete PROVE Keeps
<1> DEFINE f == [Top EXCEPT !.method = "OnDone", !.pc = "completing"]
<1>1. /\ stack # <<>> /\ Top.cb = "none" /\ Top.pc = "flush" /\ Top \in Frames
      /\ Fit(Top.method, "flush", "none", Top.pos, Top.left) /\ Top.method = "Resume"
  BY AtKnown DEF FlushAndComplete, Fit
<1>2. /\ UNCHANGED <<finalized, closed, state, sent, request, chains>>
      /\ closed' \in BOOLEAN /\ finalized' \in BOOLEAN
  BY DEF FlushAndComplete, lifecycle, signals, authVars, handshake, Stacked
<1>3. Top = stack[1] /\ 1 \in 1..Len(stack)
  BY <1>1, TopKnown
<1>4. stack' = [stack EXCEPT ![1] = f]
  BY <1>1, <1>3 DEF FlushAndComplete, Stacked, Frames
<1>5. f.method = "OnDone" /\ f.pc = "completing" /\ f.cb = "none" /\ f.pos = Top.pos /\ f.left = Top.left
  BY <1>1 DEF Frames
<1>6. f \in Frames
  BY <1>1 DEF Frames, Places
<1> HIDE DEF f
<1>7. FrameOK(f)
  BY <1>1, <1>5 DEF FrameOK, Fit, Places
<1>8. Stacked' /\ stack' # <<>> /\ Top' = f
  BY <1>1, <1>2, <1>4, <1>5, <1>6, <1>7, TopChanged
<1>9. Place = "flush" /\ Target = "flush" /\ Place' = "completing" /\ Target' = "completing"
  BY <1>1, <1>5, <1>8 DEF Place, Target
<1>10. Spent => Spent'
  BY <1>1, <1>2, <1>5, <1>8 DEF Spent
<1> QED BY <1>2, <1>8, <1>9, <1>10, CalmKeeps DEF Handlers

LEMMA FlushedKeeps == ASSUME Stacked, Flushed PROVE Keeps
<1>1. /\ stack # <<>> /\ Top.cb = "none" /\ Top.pc = "flushed" /\ Top.method = "OnDone"
      /\ Fit(Top.method, Top.pc, "none", Top.pos, Top.left)
  BY AtKnown DEF Flushed, Fit
<1>2. /\ UNCHANGED <<closed, state, sent, request, chains>> /\ closed' \in BOOLEAN
  BY DEF Flushed, authVars, handshake, Stacked
<1>3. CASE Goto("exit") /\ UNCHANGED signals
  <2>1. Fit(Top.method, "exit", "none", Top.pos, Top.left) /\ UNCHANGED finalized
    BY <1>1, <1>3 DEF Fit, Places, signals
  <2>2. Stacked' /\ Now(Top.method, "exit", "none", Top.pos)
    BY <1>1, <1>2, <1>3, <2>1, GotoMoves
  <2> QED BY <1>1, <1>2, <2>1, <2>2, MoveKeeps DEF Handlers
<1>4. CASE FailThen("exit") /\ UNCHANGED signals
  <2>1. UNCHANGED finalized
    BY <1>4 DEF signals
  <2> QED BY <1>1, <1>2, <1>4, <2>1, FailKeeps DEF Handlers
<1>5. CASE Emit("done", "close")
  <2>1. Fit(Top.method, "close", "none", Top.pos, Top.left) /\ Fit(Top.method, "close", "done", Top.pos, Top.left)
    BY <1>1 DEF Fit, Places, Callbacks
  <2>2. Stacked' /\ finalized' = TRUE /\ \E cb \in {"none", "done"} : Now(Top.method, "close", cb, Top.pos)
    BY <1>1, <1>2, <1>5, <2>1, EmitMoves
  <2> QED BY <1>1, <1>2, <2>2, MoveKeeps DEF Handlers
<1> QED BY <1>3, <1>4, <1>5 DEF Flushed

\* The error is signalled: where the activation goes on stays the same.
LEMMA EmitFailureKeeps == ASSUME Stacked, EmitFailure PROVE Keeps
<1> DEFINE pc == IF Top.method \in {"OnDone", "OnError"} THEN "close" ELSE "failed"
<1>1. /\ stack # <<>> /\ Top.cb = "none" /\ Top.pc = "fail"
      /\ Fit(Top.method, "fail", "none", Top.pos, Top.left)
  BY AtKnown DEF EmitFailure
<1>2. /\ UNCHANGED <<closed, state, sent, request, chains>> /\ closed' \in BOOLEAN /\ Emit("error", pc)
  BY DEF EmitFailure, authVars, handshake, Stacked
<1>3. \/ pc = "close" /\ Top.method \in {"OnDone", "OnError"}
      \/ pc = "failed" /\ Top.method \notin {"OnDone", "OnError"}
  OBVIOUS
<1> HIDE DEF pc
<1>4. Fit(Top.method, pc, "none", Top.pos, Top.left) /\ Fit(Top.method, pc, "error", Top.pos, Top.left)
  BY <1>1, <1>3 DEF Fit, Places, Callbacks
<1>5. Stacked' /\ finalized' = TRUE /\ \E cb \in {"none", "error"} : Now(Top.method, pc, cb, Top.pos)
  BY <1>1, <1>2, <1>4, EmitMoves
<1>6. Target' = Target /\ Place' = pc
  BY <1>1, <1>3, <1>5 DEF Target, Place, Now
<1>7. Spent => Spent'
  BY <1>1, <1>2, <1>3, <1>5, <1>6 DEF Spent, Now
<1> QED BY <1>2, <1>3, <1>5, <1>6, <1>7, CalmKeeps

\* RequestClose after the error.
LEMMA FailedKeeps == ASSUME Stacked, Failed PROVE Keeps
<1>1. /\ stack # <<>> /\ Top.cb = "none" /\ Top.pc = "failed"
      /\ Fit(Top.method, "failed", "none", Top.pos, Top.left) /\ finalized
  BY AtKnown, TopKnown DEF Failed
<1>2. /\ UNCHANGED <<finalized, state, sent, request, chains>> /\ closed' = TRUE /\ Goto(Top.pos)
  BY CloseRequested DEF Failed, authVars, handshake, signals
<1>3. Top.method \notin {"OnDone", "OnError"} /\ Top.pos \in Continuations
  BY <1>1 DEF Fit
<1>4. Fit(Top.method, Top.pos, "none", Top.pos, Top.left) /\ Top.pos \notin {"failed", "fail", "flushed"}
  BY <1>1, <1>3 DEF Fit, Continuations, Places
<1>5. Stacked' /\ Now(Top.method, Top.pos, "none", Top.pos)
  BY <1>1, <1>2, <1>4, GotoMoves
<1>6. Target' = Target /\ Place' = Top.pos
  BY <1>1, <1>3, <1>4, <1>5 DEF Target, Place, Now
<1>7. Spent => Spent'
  BY <1>1, <1>2, <1>5, <1>6 DEF Spent, Now
<1> QED BY <1>1, <1>2, <1>4, <1>5, <1>6, <1>7, CalmKeeps

-----------------------------------------------------------------------------
\* A close that is pending or deferred is the close of a closed stage.
Closing == close_pending \/ close_deferred => closed

LEMMA ClosingKept == ASSUME Closing, Stacked, [Next]_vars PROVE Closing'
<1>1. CASE Base
  BY <1>1 DEF Base, CommonNext, Suspend, Resume, Close, Return, Exit, CloseStep, ResumeUpstream,
              CompleteDeferred, RequestClose, ReleaseGuard, ScheduleClose, lifecycle, Closing, Stacked
<1>2. CASE UNCHANGED <<closed, close_pending, close_deferred>>
  BY <1>2 DEF Closing
<1>3. CASE OnData \/ OnDone \/ OnError \/ Subscribe \/ StartStreaming
  BY <1>2, <1>3 DEF OnData, OnDone, OnError, Subscribe, StartStreaming
<1>4. CASE DoClose
  BY <1>4 DEF DoClose, Closing
<1>5. CASE Failed
  BY <1>5 DEF Failed, RequestClose, ScheduleClose, Closing, Stacked
<1>6. CASE OnTextData \/ NextUnit \/ SendAuth \/ SendPendingSubscription \/ Subscribed \/ SendStart
  BY <1>2, <1>6 DEF OnTextData, NextUnit, SendAuth, SendPendingSubscription, Subscribed, SendStart, lifecycle
<1>7. CASE AuthSent \/ StartSent \/ OnBinaryData \/ ProcessPending \/ FlushAndComplete
  BY <1>2, <1>7 DEF AuthSent, StartSent, OnBinaryData, ProcessPending, FlushAndComplete, lifecycle
<1>8. CASE CompleteWithFlush \/ Flushed \/ EmitFailure
  BY <1>2, <1>8 DEF CompleteWithFlush, Flushed, EmitFailure, lifecycle
<1>9. CASE UNCHANGED vars
  BY <1>2, <1>9 DEF vars, componentVars, lifecycle
<1> QED BY <1>1, <1>3, <1>4, <1>5, <1>6, <1>7, <1>8, <1>9 DEF Next, Code

\* DoClose drops the chains of a closed stage.
LEMMA DoCloseKeeps == ASSUME Stacked, Closing, DoClose PROVE Keeps
<1>1. /\ stack = <<>> /\ closed /\ streaming_chain' = <<>> /\ pending_chain' = <<>>
      /\ UNCHANGED <<stack, finalized, closed, state, sent, request, binaries, delivered>>
  BY DEF DoClose, Closing, signals
<1>2. Stacked' /\ Place = "idle" /\ Target = "idle" /\ Place' = "idle" /\ Target' = "idle"
  BY <1>1, StackSame DEF Stacked, Place, Target
<1>3. (Wired => Wired') /\ (Requested => Requested')
  BY <1>1, <1>2, OutsideHandlers DEF Handlers
<1>4. Spent'
  BY <1>1 DEF Spent
<1>5. Streamed => Streamed'
  <2>1. Len(streaming_chain') = 0 /\ Len(pending_chain') = 0 /\ MaxPending \in Nat
    BY <1>1, CramAssumption
  <2>2. Streamed => Run(delivered, 0)'
    BY <1>1 DEF Streamed, Run
  <2>3. Run(streaming_chain, Len(delivered))' /\ Run(pending_chain, Len(delivered) + Len(streaming_chain))'
    BY <1>1, <2>1 DEF Run
  <2> QED BY <1>1, <1>4, <2>1, <2>2, <2>3 DEF Streamed
<1> QED BY <1>2, <1>3, <1>5 DEF Keeps

LEMMA NextKeeps == ASSUME Stacked, Closing, [Next]_vars PROVE Keeps
<1>1. CASE Base
  BY <1>1, BaseKeeps
<1>2. CASE OnData \/ OnDone \/ OnError \/ Subscribe \/ StartStreaming
  BY <1>2, UpstreamKeeps, SubscribeKeeps, StartStreamingKeeps
<1>3. CASE Code
  BY <1>3, OnTextDataKeeps, NextUnitKeeps, SendAuthKeeps, SendPendingSubscriptionKeeps, SubscribedKeeps,
     SendStartKeeps, AuthSentKeeps, StartSentKeeps, OnBinaryDataKeeps, ProcessPendingKeeps,
     FlushAndCompleteKeeps, CompleteWithFlushKeeps, FlushedKeeps, EmitFailureKeeps, FailedKeeps,
     DoCloseKeeps DEF Code
<1>4. CASE UNCHANGED vars
  <2>1. UNCHANGED <<stack, finalized, state, sent, request, chains, closed>>
    BY <1>4 DEF vars, componentVars, signals, lifecycle, authVars, handshake
  <2> QED BY <2>1, StillKeeps DEF Stacked
<1> QED BY <1>1, <1>2, <1>3, <1>4 DEF Next

LEMMA InitKeeps == ASSUME Init PROVE Stacked /\ Closing /\ Wired /\ Requested /\ Streamed
<1>1. /\ stack = <<>> /\ finalized = FALSE /\ closed = FALSE /\ sent = <<>> /\ state = "WaitingGreeting"
      /\ ~pending_symbols /\ ~subscription_sent /\ streaming_chain = <<>> /\ pending_chain = <<>>
      /\ delivered = <<>> /\ binaries = 0 /\ ~close_pending /\ ~close_deferred
  BY DEF Init, ComponentInit
<1>2. Place = "idle" /\ Target = "idle"
  BY <1>1 DEF Place, Target
<1>3. Stacked /\ Closing
  <2>1. stack \in Seq(Frames) /\ 1..Len(stack) = {} /\ 2..Len(stack) = {}
    BY <1>1
  <2> QED BY <1>1, <2>1 DEF Stacked, Closing
<1>4. Wired /\ Requested
  BY <1>1, <1>2 DEF Wired, Requested, States
<1>5. Streamed
  <2>1. Run(delivered, 0) /\ Run(streaming_chain, Len(delivered)) /\ Run(pending_chain, Len(delivered) + Len(streaming_chain))
    BY <1>1 DEF Run
  <2>2. Len(delivered) = 0 /\ Len(streaming_chain) = 0 /\ Len(pending_chain) = 0 /\ MaxPending \in Nat
    BY <1>1, CramAssumption
  <2> QED BY <1>1, <1>2, <2>1, <2>2 DEF Streamed
<1> QED BY <1>3, <1>4, <1>5

-----------------------------------------------------------------------------
LEMMA SentInOrder == ASSUME Wired PROVE WireOrder
<1>1. SUFFICES ASSUME ~finalized PROVE WireOrder
  BY DEF WireOrder
<1>2. /\ sent \in Seq(WireLines)
      /\ sent = <<>> \/ Subscribing \/ Starting
  BY <1>1 DEF Wired
<1>3. Len(sent) \in Nat /\ DOMAIN sent = 1..Len(sent)
  BY <1>2
<1>4. /\ Phase("auth") = 1 /\ Phase("subscription") = 2 /\ Phase("start_session") = 3
  BY DEF Phase
<1>5. CASE sent = <<>>
  <2>1. DOMAIN sent = {}
    BY <1>5
  <2> QED BY <2>1 DEF WireOrder
<1>6. CASE Subscribing
  <2>1. \A i \in DOMAIN sent : sent[i] = IF i = 1 THEN "auth" ELSE "subscription"
    BY <1>3, <1>6 DEF Subscribing
  <2>2. \A i, j \in DOMAIN sent : i < j => i \in 1..Len(sent) /\ j \in 1..Len(sent) /\ j # 1
    BY <1>3
  <2>3. \A i, j \in DOMAIN sent :
           i < j => Phase(sent[i]) <= Phase(sent[j]) /\ (sent[i] = sent[j] => sent[i] = "subscription")
    BY <1>4, <2>1, <2>2
  <2>4. \A i \in DOMAIN sent : Phase(sent[i]) = i \/ (i > 2 /\ sent[2] = "subscription")
    BY <1>3, <1>4, <2>1
  <2> QED BY <2>3, <2>4 DEF WireOrder
<1>7. CASE Starting
  <2>1. \A i \in DOMAIN sent :
           sent[i] = IF i = 1 THEN "auth" ELSE IF i = Len(sent) THEN "start_session" ELSE "subscription"
    BY <1>3, <1>7 DEF Starting
  <2>2. /\ Len(sent) >= 3
        /\ \A i, j \in DOMAIN sent : i < j => i \in 1..Len(sent) /\ j \in 1..Len(sent) /\ j # 1 /\ i # Len(sent)
    BY <1>3, <1>7 DEF Starting
  <2>3. \A i, j \in DOMAIN sent :
           i < j => Phase(sent[i]) <= Phase(sent[j]) /\ (sent[i] = sent[j] => sent[i] = "subscription")
    BY <1>4, <2>1, <2>2
  <2>4. \A i \in DOMAIN sent : Phase(sent[i]) = i \/ (i > 2 /\ sent[2] = "subscription")
    BY <1>3, <1>4, <2>1, <2>2
  <2> QED BY <2>3, <2>4 DEF WireOrder
<1> QED BY <1>2, <1>5, <1>6, <1>7

\* The lines go out in the order of the protocol, however often the owner
\* subscribes, whatever the gateway sends and wherever its lines are cut.
THEOREM SendsInOrder == Spec => []WireOrder
<1>1. Init => Stacked /\ Closing /\ Wired
  BY InitKeeps
<1>2. Stacked /\ Closing /\ Wired /\ [Next]_vars => (Stacked /\ Closing /\ Wired)'
  BY NextKeeps, ClosingKept DEF Keeps
<1>3. Wired => WireOrder
  BY SentInOrder
<1> QED BY <1>1, <1>2, <1>3, PTL DEF Spec

\* An idle stage owes its owner nothing, in whichever order the requests and
\* the auth response came.  One subscription and no Resume() inside a
\* callback are what the facade does.
THEOREM NothingLeftBehind ==
    ASSUME NestedResume = FALSE, LateSubscribe = FALSE PROVE Spec => []RequestsHonoured
<1>1. Init => Stacked /\ Closing /\ Requested
  BY InitKeeps
<1>2. Stacked /\ Closing /\ Requested /\ [Next]_vars => (Stacked /\ Closing /\ Requested)'
  BY NextKeeps, ClosingKept DEF Keeps
<1>3. Requested => RequestsHonoured
  BY DEF Requested, RequestsHonoured, Target
<1> QED BY <1>1, <1>2, <1>3, PTL DEF Spec

LEMMA StreamInOrder == ASSUME Streamed PROVE BinaryInOrder
<1> DEFINE all == delivered \o streaming_chain \o pending_chain
<1>1. /\ Run(delivered, 0) /\ Len(delivered) \in Nat /\ Len(streaming_chain) \in Nat
      /\ 0 + Len(delivered) = Len(delivered)
  BY DEF Streamed, Run
<1>2. Run(delivered \o streaming_chain, 0) /\ Len(delivered \o streaming_chain) = Len(delivered) + Len(streaming_chain)
  BY <1>1, RunConcat DEF Streamed
<1>3. 0 + Len(delivered \o streaming_chain) = Len(delivered) + Len(streaming_chain)
  BY <1>1, <1>2
<1>4. Run(all, 0)
  BY <1>2, <1>3, RunConcat DEF Streamed
<1> HIDE DEF all
<1>5. \A i \in DOMAIN all : all[i] = i
  BY <1>4 DEF Run
<1> USE DEF all
<1> QED BY <1>5 DEF BinaryInOrder, Streamed

\* Completion is signalled to the downstream from Flushed only, with nothing
\* left in either chain.
LEMMA CompletesWhole == ASSUME Stacked, Streamed, [Next]_vars PROVE CompleteMeansAll
<1>1. SUFFICES ASSUME ~closed, ~finalized, finalized', Top.pc = "flushed" PROVE Len(delivered) = binaries
  BY DEF CompleteMeansAll
<1>2. ~(UNCHANGED finalized)
  BY <1>1
<1>3. Flushed
  <2>1. ~Base
    BY <1>2 DEF Base, CommonNext, Suspend, Resume, Close, Return, Exit, CloseStep, ResumeUpstream,
                CompleteDeferred, signals
  <2>2. ~(OnData \/ OnDone \/ OnError \/ Subscribe \/ StartStreaming \/ DoClose \/ Failed \/ UNCHANGED vars)
    BY <1>2 DEF OnData, OnDone, OnError, Subscribe, StartStreaming, DoClose, Failed, signals, vars, componentVars
  <2>3. ~(OnTextData \/ NextUnit \/ SendAuth \/ SendPendingSubscription \/ Subscribed \/ SendStart)
    BY <1>2 DEF OnTextData, NextUnit, SendAuth, SendPendingSubscription, Subscribed, SendStart, signals
  <2>4. ~(AuthSent \/ StartSent \/ OnBinaryData \/ ProcessPending \/ FlushAndComplete \/ CompleteWithFlush)
    BY <1>2 DEF AuthSent, StartSent, OnBinaryData, ProcessPending, FlushAndComplete, CompleteWithFlush, signals
  <2>5. ~EmitFailure
    BY <1>1 DEF EmitFailure, At
  <2> QED BY <2>1, <2>2, <2>3, <2>4, <2>5 DEF Next, Code
<1>4. /\ stack # <<>> /\ Top.method = "OnDone"
  BY <1>3, AtKnown DEF Flushed, Fit
<1>5. streaming_chain = <<>>
  BY <1>2, <1>3 DEF Flushed, signals
<1>6. ~Spent /\ Place = "flushed"
  BY <1>1, <1>4 DEF Spent, Place
<1>7. /\ Len(delivered) + Len(streaming_chain) + Len(pending_chain) = binaries /\ Len(delivered) \in Nat
      /\ pending_chain = <<>>
  BY <1>6 DEF Streamed, Run
<1>8. Len(streaming_chain) = 0 /\ Len(pending_chain) = 0
  BY <1>5, <1>7
<1> DEFINE d == Len(delivered)  c == Len(streaming_chain)  p == Len(pending_chain)
<1>9. d = binaries
  <2>1. d \in Nat /\ c = 0 /\ p = 0 /\ d + c + p = binaries
    BY <1>7, <1>8
  <2> HIDE DEF d, c, p
  <2> QED BY <2>1
<1> QED BY <1>9

\* Backpressure, splicing and completion keep the binary stream whole and in
\* order, for every limit and every cut into chunks, when the downstream does
\* not resume the stage from inside a callback.
THEOREM StreamIntact == ASSUME NestedResume = FALSE PROVE Spec => BinaryIntact
<1>1. Init => Stacked /\ Closing /\ Streamed
  BY InitKeeps
<1>2. Stacked /\ Closing /\ Streamed /\ [Next]_vars => (Stacked /\ Closing /\ Streamed)'
  BY NextKeeps, ClosingKept DEF Keeps
<1>3. Stacked /\ Streamed /\ Streamed' /\ [Next]_vars => [BinaryInOrder' /\ CompleteMeansAll]_vars
  <2>1. Streamed' => BinaryInOrder'
    BY StreamInOrder, PTL
  <2> QED BY <2>1, CompletesWhole
<1> QED BY <1>1, <1>2, <1>3, PTL DEF Spec, BinaryIntact
=============================================================================
