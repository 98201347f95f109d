-------------------------- MODULE PipelineComponent --------------------------
(***************************************************************************)
(* PipelineComponent<Derived, D>: the base class of every stage of a chain *)
(* (backpressure, reentrancy-safe close, one terminal signal).             *)
(*                                                                         *)
(* A stage calls its downstream, and the downstream may call back (Suspend,*)
(* Resume, Close) before it returns.  `stack' holds the activations of the *)
(* stage's own methods, innermost first.  An activation is either inside a *)
(* call of the downstream (cb # "none") or about to run the code at pc.    *)
(* The derived class says what the code at each pc does.                   *)
(***************************************************************************)
EXTENDS Integers, Sequences

CONSTANT MaxSuspend,   \* bound on nested Suspend() calls, here and upstream
         MaxStack,     \* bound on nested activations
         NestedResume  \* TRUE if the downstream may call Resume() from inside
                       \* a callback of the stage

ASSUME ComponentAssumption ==
    /\ MaxSuspend \in Nat \ {0} /\ MaxStack \in Nat \ {0}
    /\ NestedResume \in BOOLEAN

VARIABLES
    suspend_count,      \* suspend_count_
    done_pending,       \* done_pending_
    processing_count,   \* processing_count_
    close_pending,      \* close_pending_
    close_scheduled,    \* close_scheduled_
    closed,             \* closed_
    finalized,          \* finalized_
    downstream,         \* the downstream pointer is still set
    close_deferred,     \* DoClose is in the event loop's deferred queue
    upstream_suspends,  \* suspensions this stage holds on its upstream
    unreturned,         \* drains of Resume() that ended with the stage suspended
                        \* again, so that they did not resume the upstream
    terminals,          \* terminal signals delivered downstream
    crashed,            \* a call went through the reset downstream pointer
    stack               \* activations, innermost first

lifecycle == <<processing_count, close_pending, close_scheduled, closed,
               close_deferred>>
backpressure == <<suspend_count, upstream_suspends, unreturned>>
signals == <<finalized, terminals, crashed>>
componentVars == <<lifecycle, backpressure, signals, done_pending, downstream,
                   stack>>

ComponentInit ==
    /\ suspend_count = 0 /\ upstream_suspends = 0 /\ unreturned = 0
    /\ done_pending = FALSE
    /\ processing_count = 0
    /\ close_pending = FALSE /\ close_scheduled = FALSE /\ closed = FALSE
    /\ close_deferred = FALSE
    /\ finalized = FALSE /\ terminals = 0 /\ crashed = FALSE
    /\ downstream = TRUE
    /\ stack = <<>>

IsSuspended == suspend_count > 0

-----------------------------------------------------------------------------
(***************************************************************************)
(* The stack of activations.                                               *)
(***************************************************************************)
Top == Head(stack)

\* The code at pc of the innermost activation is the next to run.
At(pc) == stack # <<>> /\ Top.cb = "none" /\ Top.pc = pc

\* The downstream, or anyone when no method of the stage is active, may call
\* the stage.
Inside == IF stack = <<>> THEN "idle" ELSE Top.cb
CallerRuns == Inside # "none"

Goto(pc) == stack' = [stack EXCEPT ![1].pc = pc]

\* Enter a method, with `left' units of input of its own and, unless the
\* stage is closed, a ProcessingGuard.
Enter(method, pc, left, guard) ==
    /\ Len(stack) < MaxStack
    /\ stack' = <<[method |-> method, pc |-> pc, cb |-> "none", left |-> left,
                   pos |-> 0, guard |-> guard]>> \o stack
    /\ processing_count' = processing_count + (IF guard THEN 1 ELSE 0)

\* Call the downstream; the activation continues at pc when it returns.
CallDownstream(cb, pc) ==
    /\ stack' = [stack EXCEPT ![1].cb = cb, ![1].pc = pc]
    /\ crashed' = (crashed \/ ~downstream)

-----------------------------------------------------------------------------
(***************************************************************************)
(* Closing.                                                                *)
(***************************************************************************)
ScheduleClose ==
    /\ close_scheduled' = TRUE
    /\ close_pending' = FALSE
    /\ close_deferred' = (close_deferred \/ ~close_scheduled)

RequestClose ==
    IF closed
    THEN UNCHANGED <<closed, close_pending, close_scheduled, close_deferred>>
    ELSE /\ closed' = TRUE
         /\ IF processing_count > 0
            THEN close_pending' = TRUE /\ UNCHANGED <<close_scheduled, close_deferred>>
            ELSE ScheduleClose

\* ~ProcessingGuard.
ReleaseGuard ==
    /\ processing_count' = processing_count - 1
    /\ IF processing_count = 1 /\ close_pending
       THEN ScheduleClose
       ELSE UNCHANGED <<close_pending, close_scheduled, close_deferred>>

\* Mutant: not one-shot.
EmitAgain(signal, pc) ==
    /\ finalized' = TRUE
    /\ terminals' = terminals + 1
    /\ processing_count' = processing_count + 1
    /\ CallDownstream(signal, pc)

\* EmitError and EmitDone: one-shot, under a guard of their own.  Both go on
\* at pc.
Emit(signal, pc) ==
    IF finalized
    THEN Goto(pc) /\ UNCHANGED <<signals, processing_count>>
    ELSE /\ finalized' = TRUE
         /\ terminals' = terminals + 1
         /\ processing_count' = processing_count + 1
         /\ CallDownstream(signal, pc)

-----------------------------------------------------------------------------
(***************************************************************************)
(* Actions common to every stage.                                          *)
(***************************************************************************)

\* Suspend() of the downstream or of the owner, also while a Resume() drains.
Suspend ==
    /\ CallerRuns
    /\ suspend_count < MaxSuspend /\ upstream_suspends < MaxSuspend
    /\ suspend_count' = suspend_count + 1
    /\ upstream_suspends' = upstream_suspends + (IF suspend_count = 0 THEN 1 ELSE 0)
    /\ UNCHANGED <<lifecycle, unreturned, signals, done_pending, downstream, stack>>

\* Close() of the downstream or of the owner.
Close ==
    /\ CallerRuns
    /\ ~closed
    /\ RequestClose
    /\ UNCHANGED <<processing_count, backpressure, signals, done_pending,
                   downstream, stack>>

\* A call of the downstream returns; EmitError and EmitDone drop their guard.
Return ==
    /\ stack # <<>> /\ Top.cb # "none"
    /\ stack' = [stack EXCEPT ![1].cb = "none"]
    /\ IF Top.cb \in {"done", "error"}
       THEN ReleaseGuard /\ UNCHANGED closed
       ELSE UNCHANGED lifecycle
    /\ UNCHANGED <<backpressure, signals, done_pending, downstream>>

\* The innermost method returns and drops the guard it took.
Exit ==
    /\ At("exit")
    /\ stack' = Tail(stack)
    /\ IF Top.guard
       THEN ReleaseGuard /\ UNCHANGED closed
       ELSE UNCHANGED lifecycle
    /\ UNCHANGED <<backpressure, signals, done_pending, downstream>>

\* A method closes the stage on its way out; ProcessPending returns to Resume().
CloseStep ==
    /\ At("close")
    /\ RequestClose
    /\ Goto(IF Top.method = "Resume" THEN "drained" ELSE "exit")
    /\ UNCHANGED <<processing_count, backpressure, signals, done_pending,
                   downstream>>

\* The head of Resume(): the last one takes a guard, unless the stage is
\* closed, and drains what is buffered (ProcessPending, at "drain").
Resume ==
    /\ CallerRuns
    /\ NestedResume \/ stack = <<>>
    /\ suspend_count > 0
    /\ suspend_count' = suspend_count - 1
    /\ IF suspend_count = 1
       THEN Enter("Resume", IF closed THEN "drained" ELSE "drain", 0, ~closed)
       ELSE UNCHANGED <<stack, processing_count>>
    /\ UNCHANGED <<upstream_suspends, unreturned, close_pending, close_scheduled, closed,
                   close_deferred, signals, done_pending, downstream>>

\* Mutant: the upstream is not resumed.
ResumeUpstreamForgotten ==
    /\ At("drained")
    /\ Goto("resumed")
    /\ UNCHANGED <<lifecycle, backpressure, signals, done_pending, downstream>>

\* After ProcessPending: the upstream is resumed unless the stage was
\* suspended again; the upstream may deliver before its Resume() returns.
ResumeUpstream ==
    /\ At("drained")
    /\ IF Top.guard /\ ~IsSuspended
       THEN /\ upstream_suspends' = upstream_suspends - 1
            /\ stack' = [stack EXCEPT ![1].cb = "resume", ![1].pc = "resumed"]
       ELSE Goto("resumed") /\ UNCHANGED upstream_suspends
    /\ unreturned' = unreturned + (IF Top.guard /\ IsSuspended THEN 1 ELSE 0)
    /\ UNCHANGED <<lifecycle, suspend_count, signals, done_pending, downstream>>

\* Mutant: the completion that was held back is dropped.
CompletionDropped ==
    /\ At("resumed")
    /\ done_pending' = (done_pending /\ IsSuspended)
    /\ Goto("exit")
    /\ UNCHANGED <<lifecycle, backpressure, signals, downstream>>

\* The tail of Resume(): a completion that was held back runs now
\* (FlushAndComplete, at "flush"), closed stage or not.
CompleteDeferred ==
    /\ At("resumed")
    /\ IF done_pending /\ ~IsSuspended
       THEN done_pending' = FALSE /\ Goto("flush")
       ELSE Goto("exit") /\ UNCHANGED done_pending
    /\ UNCHANGED <<lifecycle, backpressure, signals, downstream>>

\* Upstream may call the stage: from the event loop, or from its Resume().
UpstreamRuns == Inside \in {"idle", "resume"}

CommonNext ==
    \/ Suspend \/ Resume \/ Close
    \/ Return \/ Exit \/ CloseStep
    \/ ResumeUpstream \/ CompleteDeferred
=============================================================================
