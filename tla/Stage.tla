-------------------------------- MODULE Stage --------------------------------
(***************************************************************************)
(* What a stage of a chain promises the stage below it.                    *)
(*                                                                         *)
(* The input of the stage is worth `owed' units of output so far.  They    *)
(* are handed down in order and once each, an open stage hands nothing     *)
(* down after its terminal signal, and it gives OnDone for a stream that   *)
(* has ended, after all of it was handed down.  A closed stage may cut its *)
(* stream short, and may still hand down what it had buffered.             *)
(***************************************************************************)
EXTENDS Naturals

VARIABLES
    owed,    \* units of output the input received so far is worth
    handed,  \* units of output the downstream has consumed
    ended,   \* the input is a complete stream
    closed,  \* somebody closed the stage
    signal   \* the terminal signal: "none", "done" or "error"

vars == <<owed, handed, ended, closed, signal>>

Init ==
    /\ owed = 0 /\ handed = 0
    /\ ended = FALSE /\ closed = FALSE
    /\ signal = "none"

\* Input arrives, possibly the last of it.
Receive ==
    /\ owed' >= owed
    /\ ended => ended' /\ owed' = owed
    /\ UNCHANGED <<handed, closed, signal>>

Deliver ==
    /\ signal = "none" \/ closed
    /\ handed < handed' /\ handed' <= owed
    /\ UNCHANGED <<owed, ended, closed, signal>>

Done ==
    /\ signal = "none"
    /\ closed \/ (ended /\ handed = owed)
    /\ signal' = "done"
    /\ UNCHANGED <<owed, handed, ended, closed>>

Fail ==
    /\ signal = "none"
    /\ signal' = "error"
    /\ UNCHANGED <<owed, handed, ended, closed>>

Close ==
    /\ closed' = TRUE
    /\ UNCHANGED <<owed, handed, ended, signal>>

Next == Receive \/ Deliver \/ Done \/ Fail \/ Close

Spec == Init /\ [][Next]_vars
=============================================================================
