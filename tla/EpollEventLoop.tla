---------------------------- MODULE EpollEventLoop ----------------------------
(***************************************************************************)
(* EpollEventLoop: the loop thread, other threads that Defer() and Stop(), *)
(* the eventfd that wakes the loop, and the timerfds behind Schedule().    *)
(* (File descriptors of sockets are the subject of TcpSocket.)             *)
(***************************************************************************)
EXTENDS Naturals, Sequences, SequencesExt, FiniteSets

CONSTANTS
    Callbacks,   \* callbacks that are deferred, each once
    Nested,      \* those a callback running on the loop may defer
    Timers,      \* callbacks that are scheduled, each once
    Delays,      \* the delays, in milliseconds, they are scheduled with
    MaxEvents,   \* kMaxEvents
    Drivers,     \* how the loop is driven: "Run", 100 ms a wait, or "Poll",
                 \* Poll(-1) in a loop, where only an event ends a wait
    None         \* no callback

ASSUME LoopAssumption ==
    /\ Nested \subseteq Callbacks /\ IsFiniteSet(Callbacks \cup Timers)
    /\ Callbacks \cap Timers = {} /\ None \notin Callbacks \cup Timers
    /\ Delays \subseteq Nat /\ MaxEvents \in Nat \ {0}
    /\ Drivers \subseteq {"Run", "Poll"}

VARIABLES
    driver,              \* which of Drivers it is
    state,               \* state_
    deferred_callbacks,  \* deferred_callbacks_
    callbacks,           \* what ProcessDeferredCallbacks has still to run
    running,             \* the callback the loop thread is in
    wake,                \* wake_fd_ is readable
    waking,              \* calls of other threads that have yet to Wake()
    pc,                  \* where the loop thread is in Poll()
    events,              \* ready descriptors still to dispatch
    timers,              \* the timerfd behind each scheduled callback
    pushed, ran          \* history: deferred and run, in order

poll == <<pc, callbacks, events, running>>
vars == <<driver, state, deferred_callbacks, callbacks, running, wake, waking, pc,
          events, timers, pushed, ran>>

Init ==
    /\ driver \in Drivers
    /\ state = "Idle"
    /\ deferred_callbacks = <<>> /\ callbacks = <<>>
    /\ running = None
    /\ wake = FALSE /\ waking = {}
    /\ pc = "out" /\ events = <<>>
    /\ timers = [t \in Timers |-> "none"]
    /\ pushed = <<>> /\ ran = <<>>

-----------------------------------------------------------------------------
(***************************************************************************)
(* Other threads.  Defer() pushes under the mutex and wakes the loop after *)
(* it has unlocked it; Stop() stores the state and then wakes.             *)
(***************************************************************************)
Push(c) ==
    /\ c \notin Range(pushed)
    /\ deferred_callbacks' = Append(deferred_callbacks, c)
    /\ pushed' = Append(pushed, c)

\* Mutant: the loop is not woken.
DeferWithoutWake(c) ==
    /\ Push(c)
    /\ UNCHANGED <<driver, state, poll, wake, waking, timers, ran>>

Defer(c) ==
    /\ Push(c)
    /\ waking' = waking \cup {c}
    /\ UNCHANGED <<driver, state, poll, wake, timers, ran>>

Stop ==
    /\ state # "Stopped"
    /\ state' = "Stopped"
    /\ waking' = waking \cup {"Stop"}
    /\ UNCHANGED <<driver, poll, deferred_callbacks, wake, timers, pushed, ran>>

Wake ==
    /\ waking # {}
    /\ \E w \in waking : waking' = waking \ {w}
    /\ wake' = TRUE
    /\ UNCHANGED <<driver, state, poll, deferred_callbacks, timers, pushed, ran>>

-----------------------------------------------------------------------------
(***************************************************************************)
(* What a callback may do on the loop thread.                              *)
(***************************************************************************)

\* Defer() from the loop thread does not wake.
DeferFromCallback(c) ==
    /\ running # None
    /\ Push(c)
    /\ UNCHANGED <<driver, state, poll, wake, waking, timers, ran>>

\* Schedule(): timerfd_settime with a zero value disarms the timer.
Schedule(t, delay) ==
    /\ running # None \/ pc = "out"
    /\ timers[t] = "none"
    /\ timers' = [timers EXCEPT ![t] = IF delay = 0 THEN "disarmed" ELSE "armed"]
    /\ UNCHANGED <<driver, state, poll, deferred_callbacks, wake, waking, pushed, ran>>

CallbackReturns ==
    /\ running # None
    /\ running' = None
    /\ UNCHANGED <<driver, state, deferred_callbacks, callbacks, wake, waking, pc,
                   events, timers, pushed, ran>>

\* The kernel: a timer that is armed expires.
Expire(t) ==
    /\ timers[t] = "armed"
    /\ timers' = [timers EXCEPT ![t] = "expired"]
    /\ UNCHANGED <<driver, state, poll, deferred_callbacks, wake, waking, pushed, ran>>

-----------------------------------------------------------------------------
(***************************************************************************)
(* The loop thread.                                                        *)
(***************************************************************************)

\* Mutant: Run() starts a loop that was stopped before it.
RunAfterStop ==
    /\ driver = "Run" /\ state # "Running"
    /\ state' = "Running"
    /\ UNCHANGED <<driver, poll, deferred_callbacks, wake, waking, timers, pushed, ran>>

\* Run() only starts a loop that nobody has run or stopped.
Run ==
    /\ driver = "Run" /\ state = "Idle"
    /\ state' = "Running"
    /\ UNCHANGED <<driver, poll, deferred_callbacks, wake, waking, timers, pushed, ran>>

\* Mutant: the queue is copied, not swapped.
CopyDeferred ==
    /\ callbacks' = deferred_callbacks
    /\ UNCHANGED deferred_callbacks

\* The first step of ProcessDeferredCallbacks.
SwapDeferred ==
    /\ callbacks' = deferred_callbacks
    /\ deferred_callbacks' = <<>>

Poll ==
    /\ pc = "out"
    /\ driver = "Run" => state = "Running"
    /\ pc' = "first"
    /\ SwapDeferred
    /\ UNCHANGED <<driver, state, running, wake, waking, events, timers, pushed, ran>>

\* The loop of ProcessDeferredCallbacks.
RunDeferred ==
    /\ pc \in {"first", "second"} /\ running = None
    /\ callbacks # <<>>
    /\ running' = Head(callbacks)
    /\ callbacks' = Tail(callbacks)
    /\ ran' = Append(ran, Head(callbacks))
    /\ UNCHANGED <<driver, state, deferred_callbacks, wake, waking, pc, events, timers,
                   pushed>>

DeferredDone ==
    /\ pc \in {"first", "second"} /\ running = None
    /\ callbacks = <<>>
    /\ pc' = IF pc = "first" THEN "wait" ELSE "out"
    /\ UNCHANGED <<driver, state, deferred_callbacks, callbacks, running, wake, waking,
                   events, timers, pushed, ran>>

\* epoll_wait returns up to kMaxEvents ready descriptors in any order; with
\* none it returns only if the wait has a timeout.
Ready == {t \in Timers : timers[t] = "expired"} \cup (IF wake THEN {"wake"} ELSE {})

EpollWait ==
    /\ pc = "wait"
    /\ \/ \E batch \in SUBSET Ready :
             /\ batch # {} /\ Cardinality(batch) <= MaxEvents
             /\ \E order \in SetToSeqs(batch) : events' = order
       \/ Ready = {} /\ driver = "Run" /\ events' = <<>>
    /\ pc' = "dispatch"
    /\ UNCHANGED <<driver, state, deferred_callbacks, callbacks, running, wake, waking,
                   timers, pushed, ran>>

\* A signal ends a wait that has nothing to return (EINTR): Poll() returns
\* without its second round of deferred callbacks.
Interrupt ==
    /\ pc = "wait" /\ Ready = {}
    /\ pc' = "out"
    /\ UNCHANGED <<driver, state, deferred_callbacks, callbacks, running, wake, waking,
                   events, timers, pushed, ran>>

DispatchWake ==
    /\ pc = "dispatch" /\ running = None
    /\ events # <<>> /\ Head(events) = "wake"
    /\ wake' = FALSE
    /\ events' = Tail(events)
    /\ UNCHANGED <<driver, state, deferred_callbacks, callbacks, running, waking, pc,
                   timers, pushed, ran>>

HandleTimerExpired ==
    /\ pc = "dispatch" /\ running = None
    /\ events # <<>> /\ Head(events) \in Timers
    /\ timers' = [timers EXCEPT ![Head(events)] = "fired"]
    /\ running' = Head(events)
    /\ events' = Tail(events)
    /\ UNCHANGED <<driver, state, deferred_callbacks, callbacks, wake, waking, pc,
                   pushed, ran>>

DispatchDone ==
    /\ pc = "dispatch" /\ running = None
    /\ events = <<>>
    /\ pc' = "second"
    /\ SwapDeferred
    /\ UNCHANGED <<driver, state, running, wake, waking, events, timers, pushed, ran>>

-----------------------------------------------------------------------------
LoopThread ==
    \/ Run \/ Poll \/ RunDeferred \/ DeferredDone
    \/ EpollWait \/ DispatchWake \/ HandleTimerExpired \/ DispatchDone
    \/ CallbackReturns

Next ==
    \/ LoopThread \/ Interrupt \/ Wake \/ Stop
    \/ \E c \in Callbacks \ Nested : Defer(c)
    \/ \E c \in Nested : DeferFromCallback(c)
    \/ \E t \in Timers : Expire(t) \/ \E d \in Delays : Schedule(t, d)

Spec == Init /\ [][Next]_vars

\* Threads that have started a call finish it, callbacks return, armed timers
\* expire, and somebody runs the loop.
Fairness ==
    /\ WF_vars(LoopThread) /\ WF_vars(Wake)
    /\ \A t \in Timers : WF_vars(Expire(t))

FairSpec == Spec /\ Fairness

-----------------------------------------------------------------------------
(***************************************************************************)
(* Properties.                                                             *)
(***************************************************************************)
\* Deferred callbacks run in the order they were deferred, each once and none
\* lost: across the two rounds of ProcessDeferredCallbacks in a Poll() and
\* whatever other threads or callbacks defer meanwhile.
RunsInOrder == pushed = ran \o callbacks \o deferred_callbacks

\* A deferred callback runs, unless the loop is stopped first ("Schedule a
\* callback for the next event loop iteration"): one deferred by another
\* thread even if nothing but its wake-up ends a wait, one deferred by a
\* callback of the loop itself as long as waits are bounded, as Run()'s are.
\* And a scheduled callback fires, unless the loop is stopped first.
CallbacksRun ==
    /\ \A c \in Callbacks :
          (c \in Range(pushed) /\ (driver = "Run" \/ c \notin Nested))
              ~> (c \in Range(ran) \/ state = "Stopped")
    /\ \A t \in Timers : timers[t] # "none" ~> (timers[t] = "fired" \/ state = "Stopped")

\* Once Stop() has been called, before Run() or during it, the thread in
\* Run() leaves the loop for good.
StopExits == (driver = "Run" /\ state = "Stopped") ~> [](pc = "out")
=============================================================================
