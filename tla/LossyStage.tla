------------------------------ MODULE LossyStage ------------------------------
(***************************************************************************)
(* What a stage promises that may drop input while it refuses to take any. *)
(*                                                                         *)
(* As Stage, but for `dropped': units of output that will never be handed  *)
(* down.  They are dropped only while the stage is refusing, and a stream  *)
(* may be reported complete without them.                                  *)
(***************************************************************************)
EXTENDS Naturals

VARIABLES
    owed,     \* units of output the input received so far is worth
    handed,   \* units of output the downstream has consumed
    dropped,  \* units of output that were dropped
    refusing, \* the stage takes no input for the moment
    ended,    \* the input is a complete stream
    closed,   \* somebody closed the stage
    signal    \* the terminal signal: "none", "done" or "error"

promised == <<owed, handed, dropped, ended, closed, signal>>
vars == <<promised, refusing>>

Init ==
    /\ owed = 0 /\ handed = 0 /\ dropped = 0
    /\ refusing = FALSE /\ ended = FALSE /\ closed = FALSE
    /\ signal = "none"

Receive ==
    /\ owed' >= owed
    /\ ended => ended' /\ owed' = owed
    /\ UNCHANGED <<handed, dropped, closed, signal>>

Deliver ==
    /\ signal = "none" \/ closed
    /\ handed < handed' /\ handed' + dropped <= owed
    /\ UNCHANGED <<owed, dropped, ended, closed, signal>>

Drop ==
    /\ refusing
    /\ dropped < dropped' /\ handed + dropped' <= owed
    /\ UNCHANGED <<owed, handed, ended, closed, signal>>

Done ==
    /\ signal = "none"
    /\ closed \/ (ended /\ handed + dropped = owed)
    /\ signal' = "done"
    /\ UNCHANGED <<owed, handed, dropped, ended, closed>>

Fail ==
    /\ signal = "none"
    /\ signal' = "error"
    /\ UNCHANGED <<owed, handed, dropped, ended, closed>>

Close ==
    /\ closed' = TRUE
    /\ UNCHANGED <<owed, handed, dropped, ended, signal>>

\* Whether the stage refuses may change with any step, and on its own.
Next == Receive \/ Deliver \/ Drop \/ Done \/ Fail \/ Close \/ UNCHANGED promised

Spec == Init /\ [][Next]_vars
=============================================================================
