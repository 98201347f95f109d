----------------------------- MODULE MCEventLoop -----------------------------
(***************************************************************************)
(* The event loop and the two components that live on it, a socket and a   *)
(* Timer.  Each meets the loop through a narrow interface (the events of   *)
(* its own handle, ticks of Schedule()), so a behaviour is one of a single *)
(* part, and the parts that are not chosen stay in their initial states.   *)
(***************************************************************************)
EXTENDS EpollEventLoop

CONSTANTS
    MaxStarts, MaxRx, MaxRoom, MaxWrites, MaxSuspend

ASSUME TimerAssumption == MaxStarts \in Nat

ASSUME SocketAssumption ==
    /\ MaxRx \in Nat \ {0} /\ MaxRoom \in Nat \ {0}
    /\ MaxWrites \in Nat /\ MaxSuspend \in Nat

VARIABLES
    part,
    alive, timer_armed, interval, ticks, in_callback, starts, stops, firing, fired,
    handle, connected, read_paused, watching_write, suspend_count,
    write_buffer, submitted, sent, interest, armed, pending, excused, rx, room, peer, stack

tmvars == <<alive, timer_armed, interval, ticks, in_callback, starts, stops, firing, fired>>
tcpvars == <<handle, connected, read_paused, watching_write, suspend_count,
             write_buffer, submitted, sent, interest, armed, pending, excused, rx,
             room, peer, stack>>

TM == INSTANCE Timer WITH armed <- timer_armed
TCP == INSTANCE TcpSocket

MCInit == part \in {"loop", "timer", "socket"} /\ Init /\ TM!Init /\ TCP!Init

MCNext ==
    \/ part = "loop" /\ Next /\ UNCHANGED <<part, tmvars, tcpvars>>
    \/ part = "timer" /\ TM!Next /\ UNCHANGED <<part, vars, tcpvars>>
    \/ part = "socket" /\ TCP!Next /\ UNCHANGED <<part, vars, tmvars>>

\* The fairness of the parts.  The loop thread could run in the initial state,
\* so it is fair only when it is chosen; the other actions wait for a first
\* step of their part.
MCSpec ==
    /\ MCInit /\ [][MCNext]_<<part, vars, tmvars, tcpvars>>
    /\ WF_vars(part = "loop" /\ LoopThread) /\ WF_vars(Wake)
    /\ \A t \in Timers : WF_vars(Expire(t))
    /\ TM!Fairness
    /\ TCP!Fairness

TimerKeepsWord == TM!TimerKeepsWord
WritesInOrder == TCP!WritesInOrder
NoDataWhileSuspended == TCP!NoDataWhileSuspended
SocketProgress == TCP!SocketProgress
=============================================================================
