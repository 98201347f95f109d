------------------------------ MODULE BatchWriter ------------------------------
(***************************************************************************)
(* BatchWriter of the dbwriter example: batches are queued by the pipeline *)
(* and written by a coroutine, process_queue; everything runs on the thread*)
(* of the io_context, and another call can run wherever a coroutine awaits.*)
(* The database is external.  Batches are numbered in the order enqueue()  *)
(* is called with them.                                                    *)
(***************************************************************************)
EXTENDS Naturals, Sequences, SequencesExt

CONSTANTS
    MaxBatches,      \* bound on calls of enqueue()
    HighWater,       \* high_water_mark
    LowWaters        \* the values of low_water_mark to be looked at

ASSUME WriterAssumption ==
    MaxBatches \in Nat \ {0} /\ HighWater \in Nat /\ LowWaters \subseteq Nat

VARIABLES
    pending_batches,  \* pending_batches_
    writing,          \* writing_
    suspended,        \* suspended_
    draining,         \* draining_
    stopping,         \* stopping_
    queue_pc,         \* process_queue: "none", "spawned", or the statement of
                      \* write_batch it awaits
    batches,          \* what process_queue has taken from the queue
    drain_pc,         \* drain(): "none", "waiting", "returned"
    destroyed,        \* the writer has been destroyed
    low_water,        \* config_.low_water_mark
    suspends,         \* suspensions the upstream is under
    overruns,         \* history: Suspend() calls made with suspended_ set
    enqueued,         \* calls of enqueue()
    accepted, written, failed,  \* batches taken on, in the target, reported
    rows_inserted     \* rows_inserted_, one row a batch

coroutine == <<writing, queue_pc, batches, written, failed, rows_inserted>>
flow == <<suspended, suspends, overruns>>
control == <<draining, stopping, drain_pc, destroyed, low_water>>
vars == <<pending_batches, coroutine, flow, control, enqueued, accepted>>

Init ==
    /\ pending_batches = <<>> /\ batches = <<>>
    /\ writing = FALSE /\ queue_pc = "none"
    /\ suspended = FALSE /\ suspends = 0 /\ overruns = 0
    /\ low_water \in LowWaters
    /\ draining = FALSE /\ stopping = FALSE
    /\ drain_pc = "none" /\ destroyed = FALSE
    /\ enqueued = 0
    /\ accepted = {} /\ written = {} /\ failed = {}
    /\ rows_inserted = 0

-----------------------------------------------------------------------------
\* check_backpressure, with n batches pending: it does not look at suspended_.
CheckBackpressure(n) ==
    IF n > HighWater
    THEN /\ suspended' = TRUE
         /\ suspends' = suspends + 1
         /\ overruns' = IF suspended THEN overruns + 1 ELSE overruns
    ELSE UNCHANGED flow

\* Mutant: suspended_ is not cleared.
ResumeForgets(when) ==
    /\ suspends' = IF suspended /\ when /\ suspends > 0 THEN suspends - 1 ELSE suspends
    /\ UNCHANGED <<suspended, overruns>>

\* Resume the upstream if this writer has suspended it, and `when' holds.
ResumeUpstream(when) ==
    IF suspended /\ when
    THEN suspended' = FALSE /\ suspends' = suspends - 1 /\ UNCHANGED overruns
    ELSE UNCHANGED flow

\* Mutant: writing_ is left for the coroutine to set.
SpawnUnmarked == queue_pc' = "spawned" /\ UNCHANGED writing

\* writing_ is set before co_spawn.
Spawn == writing' = TRUE /\ queue_pc' = "spawned"

\* Batches may still come after Suspend(): the stages of a suspended pipeline
\* deliver what they hold.
Enqueue ==
    /\ ~destroyed /\ enqueued < MaxBatches
    /\ enqueued' = enqueued + 1
    /\ IF stopping \/ draining
       THEN UNCHANGED <<pending_batches, accepted, flow, writing, queue_pc>>
       ELSE /\ pending_batches' = Append(pending_batches, enqueued')
            /\ accepted' = accepted \cup {enqueued'}
            /\ CheckBackpressure(Len(pending_batches'))
            /\ IF writing THEN UNCHANGED <<writing, queue_pc>> ELSE Spawn
    /\ UNCHANGED <<batches, written, failed, rows_inserted, control>>

RequestStop ==
    /\ ~destroyed /\ ~stopping
    /\ stopping' = TRUE
    /\ pending_batches' = <<>>
    /\ ResumeUpstream(TRUE)
    /\ UNCHANGED <<coroutine, draining, drain_pc, destroyed, low_water,
                   enqueued, accepted>>

-----------------------------------------------------------------------------
(***************************************************************************)
(* process_queue.                                                          *)
(***************************************************************************)

\* Mutant: writing_ is not cleared.
TakeOrEndKeepsFlag(pending) ==
    /\ batches' = IF stopping THEN <<>> ELSE pending
    /\ queue_pc' = IF pending # <<>> /\ ~stopping THEN "copy" ELSE "none"
    /\ pending_batches' = IF stopping THEN pending ELSE <<>>
    /\ UNCHANGED writing

\* The head of the loop: take all batches that are pending, or end
\* (~WritingGuard, which also cancels the timer drain() sleeps on).
TakeOrEnd(pending) ==
    IF pending # <<>> /\ ~stopping
    THEN /\ batches' = pending
         /\ pending_batches' = <<>>
         /\ queue_pc' = "copy"
         /\ UNCHANGED writing
    ELSE /\ writing' = FALSE
         /\ queue_pc' = "none"
         /\ batches' = <<>>
         /\ UNCHANGED pending_batches

StartQueue ==
    /\ queue_pc = "spawned"
    /\ TakeOrEnd(pending_batches)
    /\ UNCHANGED <<written, failed, rows_inserted, flow, draining, stopping,
                   drain_pc, destroyed, low_water, enqueued, accepted>>

\* write_batch: COPY to the staging table, INSERT into the target, DROP the
\* staging table; only then are the statistics updated.
WriteStep ==
    /\ queue_pc \in {"copy", "insert"}
    /\ queue_pc' = IF queue_pc = "copy" THEN "insert" ELSE "drop"
    /\ written' = IF queue_pc = "insert" THEN written \cup Range(batches) ELSE written
    /\ UNCHANGED <<pending_batches, writing, batches, failed, rows_inserted,
                   flow, control, enqueued, accepted>>

\* A statement is reported as failed.  An INSERT may have taken effect all the
\* same, if only its reply was lost, and before a DROP one has.
Fail ==
    /\ queue_pc \in {"copy", "insert", "drop"}
    /\ failed' = failed \cup Range(batches)
    /\ \/ UNCHANGED written
       \/ queue_pc = "insert" /\ written' = written \cup Range(batches)

\* check_resume and the next round of the loop.
GoOn ==
    /\ ResumeUpstream(Len(pending_batches) < low_water)
    /\ TakeOrEnd(pending_batches)
    /\ UNCHANGED <<draining, stopping, drain_pc, destroyed, low_water, enqueued,
                   accepted>>

\* Mutant: the statistics count a batch that failed.
EndWriteCountsAll ==
    /\ \/ queue_pc = "drop" /\ UNCHANGED <<written, failed>>
       \/ Fail
    /\ rows_inserted' = rows_inserted + Len(batches)
    /\ GoOn

\* The last statement is done, or one has failed and is reported.
EndWrite ==
    /\ \/ /\ queue_pc = "drop"
          /\ rows_inserted' = rows_inserted + Len(batches)
          /\ UNCHANGED <<written, failed>>
       \/ Fail /\ UNCHANGED rows_inserted
    /\ GoOn

-----------------------------------------------------------------------------
(***************************************************************************)
(* drain() and the destructor.                                             *)
(***************************************************************************)
\* Mutant: drain() does not wait for the coroutine.
DrainWithoutWait ==
    /\ ~destroyed /\ drain_pc = "none"
    /\ draining' = TRUE
    /\ ResumeUpstream(TRUE)
    /\ drain_pc' = "returned"
    /\ UNCHANGED <<pending_batches, coroutine, stopping, destroyed, low_water,
                   enqueued, accepted>>

Drain ==
    /\ ~destroyed /\ drain_pc = "none"
    /\ draining' = TRUE
    /\ ResumeUpstream(TRUE)
    /\ drain_pc' = IF writing THEN "waiting" ELSE "returned"
    /\ UNCHANGED <<pending_batches, coroutine, stopping, destroyed, low_water,
                   enqueued, accepted>>

\* The timer is cancelled by ~WritingGuard or runs out; past its deadline drain() stops the
\* queue and keeps waiting for it.
DrainWakes ==
    /\ drain_pc = "waiting"
    /\ stopping' \in {stopping, TRUE}
    /\ drain_pc' = IF writing THEN "waiting" ELSE "returned"
    /\ UNCHANGED <<pending_batches, coroutine, flow, draining, destroyed, low_water,
                   enqueued, accepted>>

\* "co_await drain() before destruction", or request_stop() "until is_idle()".
Destroy ==
    /\ ~destroyed
    /\ drain_pc = "returned" \/ (stopping /\ ~writing /\ drain_pc = "none")
    /\ destroyed' = TRUE
    /\ UNCHANGED <<pending_batches, coroutine, flow, draining, stopping,
                   drain_pc, low_water, enqueued, accepted>>

-----------------------------------------------------------------------------
Queue == StartQueue \/ WriteStep \/ EndWrite

Next == Enqueue \/ RequestStop \/ Queue \/ Drain \/ DrainWakes \/ Destroy

Spec == Init /\ [][Next]_vars

\* The io_context runs: statements end, timers run out.
Fairness == WF_vars(Queue) /\ WF_vars(DrainWakes)

FairSpec == Spec /\ Fairness

-----------------------------------------------------------------------------
(***************************************************************************)
(* Properties.                                                             *)
(***************************************************************************)
\* "Destroying while a coroutine is in flight results in undefined
\* behavior": a caller that keeps to one of the two shutdown protocols never
\* does, even when it shuts down before the coroutine has started.
NoUseAfterFree == destroyed => queue_pc = "none"

\* "All enqueued batches will be written before drain() completes": unless it
\* was cut short, every batch taken on is in the target or was reported.
DrainWritesAll == drain_pc = "returned" /\ ~stopping => accepted \subseteq written \cup failed

\* The upstream is under the one suspension that suspended_ remembers and
\* those enqueue() made on top of it, which nothing takes back: no more, and
\* never fewer.  suspended_ is set only while there is a coroutine to clear it,
\* unless the low-water mark is 0 and no length of the queue is below it; and
\* never once drain() or request_stop() was called.
BackpressureBalanced ==
    /\ suspends = overruns + (IF suspended THEN 1 ELSE 0)
    /\ suspended => writing \/ low_water = 0
    /\ suspended => ~draining /\ ~stopping

\* rows_inserted counts the rows that are in the target whose batch is neither
\* still being written nor was reported as failed: a batch that failed after
\* its INSERT took effect is in the target, reported, and not counted.
StatsMatchTarget ==
    rows_inserted = Cardinality((written \ failed) \ Range(batches))

\* drain() completes; and the suspension that suspended_ remembers ends, if the
\* low-water mark is positive: with 0 only drain() or request_stop() ends it.
NobodyWaitsForever ==
    /\ draining ~> drain_pc = "returned"
    /\ suspended /\ low_water > 0 ~> ~suspended
=============================================================================
