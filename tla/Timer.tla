--------------------------------- MODULE Timer ---------------------------------
(***************************************************************************)
(* Timer: a one-shot or periodic timer on top of IEventLoop::Schedule().   *)
(* A scheduled tick cannot be taken back; it finds out when it runs whether*)
(* the timer is alive and armed, not which Start() it was scheduled for.   *)
(* Delays are arbitrary: any outstanding tick may be the next to run.      *)
(***************************************************************************)
EXTENDS Naturals

CONSTANT
    MaxStarts      \* bound on calls of Start()

VARIABLES
    alive,         \* *alive_
    armed,         \* armed_
    interval,      \* interval_ms_ > 0
    ticks,         \* outstanding ticks that descend from each Start()
    in_callback,   \* callback_ is running
    starts,        \* calls of Start() so far
    stops,         \* starts when Stop() was last called
    firing,        \* the Start() the running or last callback descends from
    fired          \* callbacks begun since the last Start(), counted to 2

vars == <<alive, armed, interval, ticks, in_callback, starts, stops, firing, fired>>

Init ==
    /\ alive = TRUE /\ armed = FALSE /\ interval = FALSE
    /\ ticks = [n \in 1..MaxStarts |-> 0] /\ in_callback = FALSE
    /\ starts = 0 /\ stops = 0 /\ firing = 0 /\ fired = 0

-----------------------------------------------------------------------------
ScheduleNext(start) == ticks' = [ticks EXCEPT ![start] = @ + 1]

Start(periodic) ==
    /\ alive /\ starts < MaxStarts
    /\ starts' = starts + 1
    /\ interval' = periodic
    /\ armed' = TRUE
    /\ ScheduleNext(starts')
    /\ fired' = 0
    /\ UNCHANGED <<alive, in_callback, stops, firing>>

Stop ==
    /\ alive /\ armed
    /\ armed' = FALSE /\ interval' = FALSE
    /\ stops' = starts
    /\ UNCHANGED <<alive, ticks, in_callback, starts, firing, fired>>

\* The destructor; ticks outlive the timer.
Destroy ==
    /\ alive /\ ~in_callback
    /\ alive' = FALSE /\ armed' = FALSE
    /\ UNCHANGED <<interval, ticks, in_callback, starts, stops, firing, fired>>

\* The callback begins, on a tick that descends from Start() number n.
Callback(n) ==
    /\ in_callback' = TRUE
    /\ firing' = n
    /\ fired' = IF fired < 2 THEN fired + 1 ELSE 2

\* Mutant: a tick does not look at armed_.
FireUnarmed ==
    /\ ~in_callback
    /\ \E n \in 1..MaxStarts :
          /\ ticks[n] > 0
          /\ ticks' = [ticks EXCEPT ![n] = @ - 1]
          /\ IF alive THEN Callback(n) ELSE UNCHANGED <<in_callback, firing, fired>>
    /\ UNCHANGED <<alive, armed, interval, starts, stops>>

\* The event loop runs a tick: the lambda of ScheduleNext and the head of
\* Fire.
Fire ==
    /\ ~in_callback
    /\ \E n \in 1..MaxStarts :
          /\ ticks[n] > 0
          /\ ticks' = [ticks EXCEPT ![n] = @ - 1]
          /\ IF alive /\ armed THEN Callback(n)
                              ELSE UNCHANGED <<in_callback, firing, fired>>
    /\ UNCHANGED <<alive, armed, interval, starts, stops>>

\* The tail of Fire, once the callback has returned.
FireReturns ==
    /\ in_callback
    /\ in_callback' = FALSE
    /\ IF armed /\ interval
       THEN ScheduleNext(firing) /\ UNCHANGED armed
       ELSE armed' = FALSE /\ UNCHANGED ticks
    /\ UNCHANGED <<alive, interval, starts, stops, firing, fired>>

-----------------------------------------------------------------------------
Next ==
    \/ \E periodic \in BOOLEAN : Start(periodic)
    \/ Stop \/ Destroy \/ Fire \/ FireReturns

Spec == Init /\ [][Next]_vars

\* Ticks run and callbacks return.
Fairness == WF_vars(Fire) /\ WF_vars(FireReturns)

FairSpec == Spec /\ Fairness

-----------------------------------------------------------------------------
(***************************************************************************)
(* Properties.                                                             *)
(***************************************************************************)
\* The callback never runs between Stop() and the next Start(), nor once the
\* timer is destroyed, whatever ticks are outstanding.  (A tick left over from
\* before the Stop() may run the callback after a later Start(), and early.)
StopSilences == [][~in_callback /\ in_callback' => alive /\ starts > stops]_vars

\* A one-shot Start() runs the callback at most once, also when the tick that
\* runs it is left over from an earlier Start(): its own tick is then ignored.
OneShotOnce == armed /\ ~interval => fired <= IF in_callback THEN 1 ELSE 0

\* However often the timer is stopped and started, from outside or from the
\* callback, every Start() has one tick outstanding at most, so k calls of a
\* periodic Start() run the callback at most k times an interval.
OneTickPerStart ==
    /\ \A n \in 1..MaxStarts : ticks[n] <= 1
    /\ in_callback => ticks[firing] = 0

TimerSafe == StopSilences /\ []OneShotOnce /\ []OneTickPerStart

\* A timer that says it is armed runs its callback ("Return true if the timer
\* is armed"), unless it is disarmed or destroyed first.
ArmedFires == alive /\ armed ~> in_callback \/ ~armed \/ ~alive

\* A Timer keeps its word, as far as ticks that cannot be cancelled allow:
\* silent while stopped, once for a one-shot, and never armed in vain.
TimerKeepsWord == TimerSafe /\ ArmedFires
=============================================================================
