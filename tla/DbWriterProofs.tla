---------------------------- MODULE DbWriterProofs ----------------------------
(***************************************************************************)
(* The dbwriter example.  BatchWriter shuts down safely, writes what it    *)
(* accepted and balances its backpressure, for any number of batches and   *)
(* any water marks; the connection of PostgresDatabase stays usable and a  *)
(* COPY is atomic, for any number of copy writers, rows and queries.       *)
(***************************************************************************)
EXTENDS MCDbWriter, FiniteSets, FiniteSetTheorems, SequenceTheorems, TLAPS

\* writing_ is TRUE exactly while the coroutine exists, spawned or running.
FlagMatchesCoroutine ==
    /\ writing \in BOOLEAN
    /\ writing <=> queue_pc # "none"

\* drain() has returned, or the writer is destroyed, only with the queue
\* stopped for good.
ShutDown ==
    /\ drain_pc \in {"waiting", "returned"} => draining
    /\ drain_pc = "returned" => ~writing
    /\ destroyed => ~writing /\ (draining \/ stopping)

Control == {draining, stopping, destroyed} \subseteq BOOLEAN

IInv == FlagMatchesCoroutine /\ ShutDown /\ Control

\* Nothing runs in a writer that has just been built.
LEMMA InitEstablishes == Init => IInv
  BY DEF Init, IInv, FlagMatchesCoroutine, ShutDown, Control

\* Every call and every step of the coroutine keeps the invariant.
LEMMA NextKeeps == IInv /\ [Next]_vars => IInv'
<1> SUFFICES ASSUME IInv, [Next]_vars PROVE IInv'
  OBVIOUS
<1> USE DEF IInv, FlagMatchesCoroutine, ShutDown, Control
<1>1. CASE Enqueue
  BY <1>1 DEF Enqueue, Spawn, control
<1>2. CASE RequestStop
  BY <1>2 DEF RequestStop, coroutine
<1>3. CASE StartQueue
  BY <1>3 DEF StartQueue, TakeOrEnd
<1>4. CASE WriteStep
  BY <1>4 DEF WriteStep, control
<1>5. CASE EndWrite
  <2>1. queue_pc # "none"
    BY <1>5 DEF EndWrite, Fail
  <2>2. /\ TakeOrEnd(pending_batches)
        /\ UNCHANGED <<draining, stopping, drain_pc, destroyed>>
    BY <1>5 DEF EndWrite, GoOn
  <2> QED BY <2>1, <2>2 DEF TakeOrEnd
<1>6. CASE Drain
  BY <1>6 DEF Drain, coroutine
<1>7. CASE DrainWakes
  BY <1>7 DEF DrainWakes, coroutine
<1>8. CASE Destroy
  BY <1>8 DEF Destroy, coroutine
<1>9. CASE UNCHANGED vars
  BY <1>9 DEF vars, coroutine, control
<1> QED BY <1>1, <1>2, <1>3, <1>4, <1>5, <1>6, <1>7, <1>8, <1>9 DEF Next, Queue

\* A caller that awaits drain(), or calls request_stop() and waits for
\* is_idle(), never destroys the writer under its coroutine.
THEOREM ShutdownSafe == Spec => []NoUseAfterFree
<1>1. IInv => NoUseAfterFree
  BY DEF IInv, FlagMatchesCoroutine, ShutDown, NoUseAfterFree
<1> QED BY InitEstablishes, NextKeeps, <1>1, PTL DEF Spec

-----------------------------------------------------------------------------
\* Over and above the overruns the upstream is suspended only while there is a
\* coroutine to resume it, or no queue is short enough for that, and nothing
\* has told the writer to let go.
Released == suspended = FALSE /\ suspends = overruns
Held == suspended = TRUE /\ suspends = overruns + 1
Balance ==
    /\ overruns \in Nat /\ low_water \in LowWaters
    /\ Released \/ Held
    /\ Held => (writing = TRUE \/ low_water = 0) /\ stopping = FALSE /\ draining = FALSE

\* A coroutine that has not started finds work, unless it is told to stop.
QueueTyped == enqueued \in Nat /\ pending_batches \in Seq(Nat)
SpawnedHasWork == queue_pc = "spawned" => stopping = TRUE \/ pending_batches # <<>>

\* enqueue() leaves a queue that is not empty.
LEMMA AppendedNotEmpty ==
    ASSUME NEW s \in Seq(Nat), NEW n \in Nat
    PROVE  Append(s, n) \in Seq(Nat) /\ Append(s, n) # <<>>
  BY AppendProperties

\* No step takes the queue away from a coroutine that has not started, except
\* request_stop().
LEMMA WorkKept == QueueTyped /\ SpawnedHasWork /\ [Next]_vars => QueueTyped' /\ SpawnedHasWork'
<1> SUFFICES ASSUME QueueTyped, SpawnedHasWork, [Next]_vars
             PROVE  QueueTyped' /\ SpawnedHasWork'
  OBVIOUS
<1>1. CASE Enqueue
  <2>1. enqueued' \in Nat
    BY <1>1 DEF Enqueue, QueueTyped
  <2>2. CASE pending_batches' = Append(pending_batches, enqueued')
    <3>1. pending_batches' \in Seq(Nat) /\ pending_batches' # <<>>
      BY <2>1, <2>2, AppendedNotEmpty DEF QueueTyped
    <3> QED BY <2>1, <3>1 DEF QueueTyped, SpawnedHasWork
  <2>3. CASE UNCHANGED <<pending_batches, queue_pc>> /\ (stopping \/ draining)
    BY <1>1, <2>1, <2>3 DEF Enqueue, QueueTyped, SpawnedHasWork, control
  <2> QED BY <1>1, <2>2, <2>3 DEF Enqueue
<1>2. CASE RequestStop
  <2>1. stopping' = TRUE /\ pending_batches' = <<>> /\ UNCHANGED enqueued
    BY <1>2 DEF RequestStop
  <2> QED BY <2>1 DEF QueueTyped, SpawnedHasWork
<1>3. ASSUME TakeOrEnd(pending_batches), UNCHANGED enqueued
      PROVE  QueueTyped' /\ SpawnedHasWork'
  <2>1. queue_pc' # "spawned"
    BY <1>3 DEF TakeOrEnd
  <2>2. pending_batches' = <<>> \/ pending_batches' = pending_batches
    BY <1>3 DEF TakeOrEnd
  <2>3. pending_batches' \in Seq(Nat)
    <3>1. <<>> \in Seq(Nat)
      OBVIOUS
    <3> QED BY <2>2, <3>1, Zenon DEF QueueTyped
  <2> QED BY <1>3, <2>1, <2>3 DEF QueueTyped, SpawnedHasWork
<1>4. CASE StartQueue \/ EndWrite
  BY <1>3, <1>4 DEF StartQueue, EndWrite, GoOn
<1>5. CASE WriteStep
  <2>1. queue_pc' # "spawned" /\ UNCHANGED <<pending_batches, enqueued>>
    BY <1>5 DEF WriteStep
  <2> QED BY <2>1 DEF QueueTyped, SpawnedHasWork
<1>6. ASSUME UNCHANGED <<pending_batches, enqueued, queue_pc>>, stopping' \in {stopping, TRUE}
      PROVE  QueueTyped' /\ SpawnedHasWork'
  BY <1>6 DEF QueueTyped, SpawnedHasWork
<1>7. CASE Drain \/ DrainWakes \/ Destroy
  <2>1. UNCHANGED <<pending_batches, enqueued, queue_pc>> /\ stopping' \in {stopping, TRUE}
    <3>1. CASE Drain
      BY <3>1 DEF Drain, coroutine
    <3>2. CASE DrainWakes
      BY <3>2 DEF DrainWakes, coroutine
    <3>3. CASE Destroy
      BY <3>3 DEF Destroy, coroutine
    <3> QED BY <1>7, <3>1, <3>2, <3>3, Zenon
  <2> QED BY <1>6, <2>1
<1>8. CASE UNCHANGED vars
  BY <1>6, <1>8 DEF vars, coroutine, control
<1> QED BY <1>1, <1>2, <1>4, <1>5, <1>7, <1>8 DEF Next, Queue

\* An unconditional resume gives back the suspension the flag remembers.
LEMMA ResumeReleases ==
    ASSUME Balance, ResumeUpstream(TRUE)
    PROVE  Released' /\ UNCHANGED overruns
  BY DEF ResumeUpstream, Balance, Released, Held, flow

\* check_resume keeps the flag and the upstream's count in step.
LEMMA ResumeKeeps ==
    ASSUME Balance, NEW w, ResumeUpstream(w)
    PROVE  (Released' \/ (Held /\ Held')) /\ UNCHANGED overruns
  BY DEF ResumeUpstream, Balance, Released, Held, flow

\* A step that leaves the upstream alone keeps the balance if it leaves the
\* flags alone too, or found the upstream released.
LEMMA FlowUnchanged ==
    ASSUME Balance, UNCHANGED <<flow, low_water>>,
           Released \/ UNCHANGED <<writing, stopping, draining>>
    PROVE  Balance'
  BY DEF Balance, Released, Held, flow

\* check_backpressure adds a suspension to the flag's or to the overruns.
LEMMA CheckKeeps ==
    ASSUME Balance, NEW n, CheckBackpressure(n)
    PROVE  overruns' \in Nat /\ (Released' \/ Held')
<1>1. CASE n > HighWater
  BY <1>1 DEF CheckBackpressure, Balance, Released, Held
<1>2. CASE ~(n > HighWater)
  BY <1>2 DEF CheckBackpressure, Balance, Released, Held, flow
<1> QED BY <1>1, <1>2

\* Every step keeps the flag and the upstream's count in step.
LEMMA BalanceKept ==
    IInv /\ SpawnedHasWork /\ Balance /\ [Next]_vars => Balance'
<1> SUFFICES ASSUME IInv, SpawnedHasWork, Balance, [Next]_vars PROVE Balance'
  OBVIOUS
<1>0. ASSUME Released', UNCHANGED <<overruns, low_water>> PROVE Balance'
  BY <1>0 DEF Balance, Released, Held
<1>1. CASE Enqueue
  <2>1. UNCHANGED low_water /\ UNCHANGED <<stopping, draining>>
    BY <1>1 DEF Enqueue, control
  <2>2. CASE stopping \/ draining
    BY <1>1, <2>1, <2>2, FlowUnchanged DEF Enqueue
  <2>3. CASE ~(stopping \/ draining)
    <3>1. /\ CheckBackpressure(Len(pending_batches'))
          /\ IF writing THEN UNCHANGED <<writing, queue_pc>> ELSE Spawn
          /\ UNCHANGED control
      BY <1>1, <2>3 DEF Enqueue
    <3>2. writing' = TRUE /\ stopping' = FALSE /\ draining' = FALSE
      BY <3>1, <2>3 DEF Spawn, control, IInv, Control, FlagMatchesCoroutine
    <3>3. overruns' \in Nat /\ (Released' \/ Held')
      BY <3>1, CheckKeeps
    <3> QED BY <2>1, <3>2, <3>3 DEF Balance
  <2> QED BY <2>2, <2>3
<1>2. CASE RequestStop
  BY <1>0, <1>2, ResumeReleases DEF RequestStop
<1>3. CASE StartQueue
  <2>1. /\ UNCHANGED flow /\ TakeOrEnd(pending_batches)
        /\ UNCHANGED <<stopping, draining>> /\ UNCHANGED low_water
    BY <1>3 DEF StartQueue
  <2>2. queue_pc = "spawned"
    BY <1>3 DEF StartQueue
  <2>3. CASE pending_batches # <<>> /\ ~stopping
    BY <2>1, <2>3, FlowUnchanged DEF TakeOrEnd
  <2>4. CASE stopping
    <3>1. Released
      BY <2>4 DEF Balance, Released, Held
    <3> QED BY <2>1, <3>1, FlowUnchanged
  <2>5. stopping \/ pending_batches # <<>>
    BY <2>2 DEF SpawnedHasWork
  <2> QED BY <2>3, <2>4, <2>5
<1>4. CASE WriteStep
  BY <1>4, FlowUnchanged DEF WriteStep, control
<1>5. CASE EndWrite
  <2>1. /\ TakeOrEnd(pending_batches)
        /\ ResumeUpstream(Len(pending_batches) < low_water)
        /\ UNCHANGED <<draining, stopping>> /\ UNCHANGED low_water
    BY <1>5 DEF EndWrite, GoOn
  <2>2. (Released' \/ (Held /\ Held')) /\ UNCHANGED overruns
    BY <2>1, ResumeKeeps
  <2>3. ASSUME Held, Held' PROVE Balance'
    <3>1. stopping = FALSE /\ draining = FALSE /\ (writing = TRUE \/ low_water = 0)
      BY <2>3 DEF Balance
    <3>2. CASE pending_batches # <<>>
      <4>1. UNCHANGED writing
        BY <2>1, <3>1, <3>2 DEF TakeOrEnd
      <4> QED BY <2>1, <2>2, <2>3, <3>1, <4>1 DEF Balance
    <3>3. CASE low_water = 0
      BY <2>1, <2>2, <2>3, <3>1, <3>3 DEF Balance
    <3>4. CASE pending_batches = <<>> /\ low_water # 0
      <4>1. low_water \in Nat
        BY WriterAssumption DEF Balance
      <4>2. Len(<<>>) < low_water
        BY <3>4, <4>1
      <4>3. Released'
        BY <2>1, <3>4, <4>2, ResumeReleases DEF ResumeUpstream
      <4> QED BY <2>3, <4>3 DEF Released, Held
    <3> QED BY <3>2, <3>3, <3>4
  <2> QED BY <1>0, <2>1, <2>2, <2>3
<1>6. CASE Drain
  BY <1>0, <1>6, ResumeReleases DEF Drain
<1>7. CASE DrainWakes
  <2>1. Released
    BY <1>7 DEF DrainWakes, IInv, ShutDown, Balance, Released, Held
  <2> QED BY <1>7, <2>1, FlowUnchanged DEF DrainWakes
<1>8. CASE Destroy
  BY <1>8, FlowUnchanged DEF Destroy, coroutine
<1>9. CASE UNCHANGED vars
  BY <1>9, FlowUnchanged DEF vars, coroutine, control
<1> QED BY <1>1, <1>2, <1>3, <1>4, <1>5, <1>6, <1>7, <1>8, <1>9 DEF Next, Queue

\* The upstream is under the suspensions enqueue() made on top of one another
\* and the one that suspended_ remembers, for any water marks, any number of
\* batches and batches at any time; and suspended_ is cleared in time.
THEOREM Balanced == Spec => []BackpressureBalanced
<1>1. Init => Balance
  BY DEF Init, Balance, Released, Held
<1>2. Init => QueueTyped /\ SpawnedHasWork
  BY DEF Init, QueueTyped, SpawnedHasWork
<1>3. IInv /\ Balance => BackpressureBalanced
  BY DEF Balance, Released, Held, BackpressureBalanced
<1> QED BY InitEstablishes, NextKeeps, WorkKept, BalanceKept, <1>1, <1>2, <1>3, PTL DEF Spec

-----------------------------------------------------------------------------
\* A queue that is not stopped and has batches pending has its coroutine; a
\* coroutine holds batches only while it writes them, and before the staging
\* table is dropped they are in the target.
Attended ==
    /\ stopping = FALSE /\ pending_batches # <<>> => writing = TRUE
    /\ queue_pc \in {"none", "spawned"} => batches = <<>>
    /\ queue_pc = "drop" => Range(batches) \subseteq written

\* A batch taken on is in the target, reported, in the coroutine's hands or
\* pending, until the queue is told to stop.
Accounted ==
    stopping = FALSE =>
        accepted \subseteq written \cup failed \cup Range(batches) \cup Range(pending_batches)

\* The elements of an empty queue, and of one with a batch more.
LEMMA RangeEmpty == Range(<<>>) = {}
  BY DEF Range

LEMMA RangeAppend ==
    ASSUME NEW s \in Seq(Nat), NEW n \in Nat
    PROVE  Range(Append(s, n)) = Range(s) \cup {n}
<1> DEFINE t == Append(s, n)
<1>1. DOMAIN s = 1..Len(s) /\ DOMAIN t = 1..(Len(s) + 1) /\ Len(s) \in Nat
  OBVIOUS
<1>2. (\A i \in 1..Len(s) : t[i] = s[i]) /\ t[Len(s) + 1] = n
  OBVIOUS
<1> HIDE DEF t
<1> QED BY <1>1, <1>2 DEF Range

\* Every step keeps the batches accounted for.
LEMMA AccountsKept ==
    IInv /\ QueueTyped /\ Attended /\ Accounted /\ [Next]_vars => Attended' /\ Accounted'
<1> SUFFICES ASSUME IInv, QueueTyped, Attended, Accounted, [Next]_vars
             PROVE  Attended' /\ Accounted'
  OBVIOUS
<1>1. CASE Enqueue
  <2>1. UNCHANGED <<batches, written, failed, stopping>> /\ enqueued' \in Nat
    BY <1>1 DEF Enqueue, QueueTyped, control
  <2>2. CASE stopping \/ draining
    <3>1. UNCHANGED <<pending_batches, accepted, writing, queue_pc>>
      BY <1>1, <2>2 DEF Enqueue
    <3> QED BY <2>1, <3>1 DEF Attended, Accounted
  <2>3. CASE ~(stopping \/ draining)
    <3>1. /\ pending_batches' = Append(pending_batches, enqueued')
          /\ accepted' = accepted \cup {enqueued'}
          /\ IF writing THEN UNCHANGED <<writing, queue_pc>> ELSE Spawn
      BY <1>1, <2>3 DEF Enqueue
    <3>2. Range(pending_batches') = Range(pending_batches) \cup {enqueued'}
      BY <2>1, <3>1, RangeAppend DEF QueueTyped
    <3>3. Accounted'
      BY <2>1, <3>1, <3>2 DEF Accounted
    <3>4. writing' = TRUE /\ (queue_pc' = queue_pc \/ (queue_pc = "none" /\ queue_pc' = "spawned"))
      BY <3>1 DEF Spawn, IInv, FlagMatchesCoroutine
    <3> QED BY <2>1, <3>3, <3>4 DEF Attended
  <2> QED BY <2>2, <2>3
<1>2. CASE RequestStop
  <2>1. stopping' = TRUE /\ UNCHANGED <<queue_pc, batches, written, writing>>
    BY <1>2 DEF RequestStop, coroutine
  <2> QED BY <2>1 DEF Attended, Accounted
<1>3. ASSUME TakeOrEnd(pending_batches), UNCHANGED <<stopping, accepted>>,
             written \subseteq written', failed \subseteq failed',
             stopping = FALSE => accepted \subseteq written' \cup failed' \cup Range(pending_batches)
      PROVE  Attended' /\ Accounted'
  <2>1. CASE pending_batches # <<>> /\ ~stopping
    <3>1. batches' = pending_batches /\ pending_batches' = <<>> /\ queue_pc' = "copy"
      BY <1>3, <2>1 DEF TakeOrEnd
    <3> QED BY <1>3, <3>1, RangeEmpty DEF Attended, Accounted
  <2>2. CASE ~(pending_batches # <<>> /\ ~stopping)
    <3>1. batches' = <<>> /\ UNCHANGED pending_batches /\ queue_pc' = "none"
      BY <1>3, <2>2 DEF TakeOrEnd
    <3> QED BY <1>3, <2>2, <3>1, RangeEmpty DEF Attended, Accounted
  <2> QED BY <2>1, <2>2
<1>4. CASE StartQueue
  <2>1. batches = <<>> /\ TakeOrEnd(pending_batches)
    BY <1>4 DEF StartQueue, Attended
  <2>2. UNCHANGED <<stopping, accepted, written, failed>>
    BY <1>4 DEF StartQueue
  <2> QED BY <1>3, <2>1, <2>2, RangeEmpty DEF Accounted
<1>5. CASE WriteStep
  <2>1. /\ UNCHANGED <<pending_batches, writing, batches, failed, accepted, stopping>>
        /\ queue_pc \in {"copy", "insert"}
        /\ queue_pc' = IF queue_pc = "copy" THEN "insert" ELSE "drop"
        /\ written' = IF queue_pc = "insert" THEN written \cup Range(batches) ELSE written
    BY <1>5 DEF WriteStep, control
  <2> QED BY <2>1 DEF Attended, Accounted
<1>6. CASE EndWrite
  <2>1. TakeOrEnd(pending_batches) /\ UNCHANGED <<stopping, accepted>>
    BY <1>6 DEF EndWrite, GoOn
  <2>2. /\ written \subseteq written'
        /\ \/ queue_pc = "drop" /\ UNCHANGED failed
           \/ failed' = failed \cup Range(batches)
    BY <1>6 DEF EndWrite, Fail
  <2>3. Range(batches) \subseteq written' \cup failed'
    BY <2>2 DEF Attended
  <2> QED BY <1>3, <2>1, <2>2, <2>3 DEF Accounted
<1>7. ASSUME UNCHANGED <<pending_batches, accepted, writing, queue_pc, batches, written, failed>>,
             stopping' \in {stopping, TRUE}
      PROVE  Attended' /\ Accounted'
  BY <1>7 DEF Attended, Accounted
<1>8. CASE Drain \/ DrainWakes \/ Destroy
  <2>1. /\ UNCHANGED <<pending_batches, accepted, writing, queue_pc, batches, written, failed>>
        /\ stopping' \in {stopping, TRUE}
    <3>1. CASE Drain
      BY <3>1 DEF Drain, coroutine
    <3>2. CASE DrainWakes
      BY <3>2 DEF DrainWakes, coroutine
    <3>3. CASE Destroy
      BY <3>3 DEF Destroy, coroutine
    <3> QED BY <1>8, <3>1, <3>2, <3>3, Zenon
  <2> QED BY <1>7, <2>1
<1>9. CASE UNCHANGED vars
  BY <1>7, <1>9 DEF vars, coroutine, control
<1> QED BY <1>1, <1>2, <1>4, <1>5, <1>6, <1>8, <1>9 DEF Next, Queue

\* A drain() that was not cut short returns only when every batch taken on is
\* in the target or was reported, for any number of batches.
THEOREM DrainComplete == Spec => []DrainWritesAll
<1>1. Init => Attended /\ Accounted
  BY RangeEmpty DEF Init, Attended, Accounted
<1>2. Init => QueueTyped /\ SpawnedHasWork
  BY DEF Init, QueueTyped, SpawnedHasWork
<1>3. IInv /\ Attended /\ Accounted => DrainWritesAll
  <2> SUFFICES ASSUME IInv, Attended, Accounted, drain_pc = "returned", ~stopping
               PROVE  accepted \subseteq written \cup failed
    BY DEF DrainWritesAll
  <2>1. queue_pc = "none" /\ writing = FALSE /\ stopping = FALSE
    BY DEF IInv, FlagMatchesCoroutine, ShutDown, Control
  <2>2. batches = <<>> /\ pending_batches = <<>>
    BY <2>1 DEF Attended
  <2> QED BY <2>1, <2>2, RangeEmpty DEF Accounted
<1> QED BY InitEstablishes, NextKeeps, WorkKept, AccountsKept, <1>1, <1>2, <1>3, PTL DEF Spec
-----------------------------------------------------------------------------
\* A set of a queue's batches is as large as the queue is long when no batch
\* is in it twice.
LEMMA RangeCounts ==
    ASSUME NEW s \in Seq(Nat), IsInjective(s)
    PROVE  IsFiniteSet(Range(s)) /\ Cardinality(Range(s)) = Len(s)
<1>1. s \in [1..Len(s) -> Range(s)] /\ Len(s) \in Nat
  BY DEF Range
<1>2. s \in Bijection(1..Len(s), Range(s))
  BY <1>1 DEF Bijection, Injection, Surjection, IsInjective, Range
<1>3. ExistsBijection(1..Len(s), Range(s))
  BY <1>2 DEF ExistsBijection
<1> QED BY <1>1, <1>3, FS_CountingElements, FS_NatBijection

\* What the statistics count: the batches in the target, but for those in the
\* coroutine's hands and those reported as failed.
CountedBatches == (written \ failed) \ Range(batches)
Counted ==
    /\ rows_inserted \in Nat
    /\ IsFiniteSet(CountedBatches) /\ Cardinality(CountedBatches) = rows_inserted

\* No batch is in two places, and none that is pending or in the coroutine's
\* hands was reported.
NoDuplicates ==
    /\ IsInjective(pending_batches) /\ IsInjective(batches)
    /\ Range(batches) \cap Range(pending_batches) = {}
    /\ (written \cup failed) \cap Range(pending_batches) = {}
    /\ failed \cap Range(batches) = {}
    /\ written \cup failed \cup Range(batches) \cup Range(pending_batches) \subseteq 1..enqueued

WriterTyped == QueueTyped /\ batches \in Seq(Nat)

\* A batch that is not yet queued can be appended without being there twice.
LEMMA AppendKeepsDistinct ==
    ASSUME NEW s \in Seq(Nat), IsInjective(s), NEW n \in Nat, n \notin Range(s),
           NEW t, t = Append(s, n)
    PROVE  IsInjective(t)
<1>1. DOMAIN s = 1..Len(s) /\ DOMAIN t = 1..(Len(s) + 1) /\ Len(s) \in Nat
  OBVIOUS
<1>2. (\A i \in 1..Len(s) : t[i] = s[i]) /\ t[Len(s) + 1] = n
  OBVIOUS
<1>3. \A i \in 1..Len(s) : s[i] # n
  BY <1>1 DEF Range
<1>4. ASSUME NEW i \in DOMAIN t, NEW j \in DOMAIN t, t[i] = t[j] PROVE i = j
  <2>1. CASE i = Len(s) + 1 \/ j = Len(s) + 1
    BY <1>1, <1>2, <1>3, <1>4, <2>1
  <2>2. CASE i \in 1..Len(s) /\ j \in 1..Len(s)
    <3>1. s[i] = s[j] /\ i \in DOMAIN s /\ j \in DOMAIN s
      BY <1>1, <1>2, <1>4, <2>2
    <3> QED BY <3>1, Zenon DEF IsInjective
  <2> QED BY <1>1, <2>1, <2>2
<1> QED BY ONLY <1>4, Zenon DEF IsInjective

LEMMA EmptyDistinct == IsInjective(<<>>)
  BY DEF IsInjective

\* A step that counts the same batches.
LEMMA CountSame ==
    ASSUME Counted, CountedBatches' = CountedBatches, UNCHANGED rows_inserted
    PROVE  Counted'
<1>1. rows_inserted' \in Nat
  BY DEF Counted
<1>2. IsFiniteSet(CountedBatches)
  BY DEF Counted
<1>3. Cardinality(CountedBatches) = rows_inserted
  BY DEF Counted
<1>4. IsFiniteSet(CountedBatches') /\ Cardinality(CountedBatches') = rows_inserted'
  BY <1>2, <1>3, Zenon
<1> HIDE DEF CountedBatches
<1> QED BY <1>1, <1>4, Zenon DEF Counted

\* Every step keeps the count.
LEMMA CountKept ==
    IInv /\ Attended /\ WriterTyped /\ NoDuplicates /\ Counted /\ [Next]_vars
           => WriterTyped' /\ NoDuplicates' /\ Counted'
<1> SUFFICES ASSUME IInv, Attended, WriterTyped, NoDuplicates, Counted, [Next]_vars
             PROVE  WriterTyped' /\ NoDuplicates' /\ Counted'
  OBVIOUS
<1>0. /\ enqueued \in Nat /\ pending_batches \in Seq(Nat) /\ batches \in Seq(Nat)
      /\ <<>> \in Seq(Nat)
  BY DEF WriterTyped, QueueTyped
<1>1. CASE Enqueue
  <2>1. UNCHANGED <<batches, written, failed, rows_inserted>> /\ enqueued' = enqueued + 1
    BY <1>1 DEF Enqueue
  <2>2. 1..enqueued \subseteq 1..enqueued' /\ enqueued' \in Nat
        /\ enqueued' \notin 1..enqueued /\ enqueued' \in 1..enqueued'
    BY <1>0, <2>1
  <2>3. queue_pc' = queue_pc \/ (queue_pc = "none" /\ queue_pc' = "spawned")
    BY <1>1 DEF Enqueue, Spawn, IInv, FlagMatchesCoroutine
  <2>4. Counted'
    BY <2>1, CountSame DEF CountedBatches
  <2>5. CASE pending_batches' = Append(pending_batches, enqueued')
    <3>1. enqueued' \notin Range(pending_batches)
      BY <2>2 DEF NoDuplicates
    <3>2. /\ Range(pending_batches') = Range(pending_batches) \cup {enqueued'}
          /\ IsInjective(pending_batches') /\ pending_batches' \in Seq(Nat)
      <4>1. IsInjective(pending_batches)
        BY DEF NoDuplicates
      <4>2. Range(pending_batches') = Range(pending_batches) \cup {enqueued'}
        BY <1>0, <2>2, <2>5, RangeAppend
      <4>3. IsInjective(pending_batches')
        BY <1>0, <2>2, <2>5, <3>1, <4>1, AppendKeepsDistinct
      <4>4. pending_batches' \in Seq(Nat)
        BY <1>0, <2>2, <2>5, AppendedNotEmpty
      <4> QED BY <2>5, <4>2, <4>3, <4>4, Zenon
    <3>3. NoDuplicates'
      BY <2>1, <2>2, <2>3, <3>2 DEF NoDuplicates
    <3> QED BY <1>0, <2>1, <2>2, <2>4, <3>2, <3>3 DEF WriterTyped, QueueTyped
  <2>6. CASE UNCHANGED pending_batches
    <3>1. NoDuplicates'
      BY <2>1, <2>2, <2>3, <2>6 DEF NoDuplicates
    <3> QED BY <1>0, <2>1, <2>2, <2>4, <2>6, <3>1 DEF WriterTyped, QueueTyped
  <2> QED BY <1>1, <2>5, <2>6 DEF Enqueue
<1>2. CASE RequestStop
  <2>1. pending_batches' = <<>> /\ UNCHANGED <<coroutine, enqueued>>
    BY <1>2 DEF RequestStop
  <2>2. NoDuplicates'
    BY <2>1, RangeEmpty, EmptyDistinct DEF NoDuplicates, coroutine
  <2>3. Counted'
    BY <2>1, CountSame DEF CountedBatches, coroutine
  <2> QED BY <1>0, <2>1, <2>2, <2>3 DEF WriterTyped, QueueTyped, coroutine
<1>3. ASSUME TakeOrEnd(pending_batches), UNCHANGED enqueued,
             written \subseteq written', failed \subseteq failed',
             written' \cup failed' \subseteq written \cup failed \cup Range(batches)
      PROVE  WriterTyped' /\ NoDuplicates' /\ CountedBatches' = written' \ failed'
  <2>1. \/ batches' = pending_batches /\ pending_batches' = <<>>
        \/ batches' = <<>> /\ pending_batches' = pending_batches
    BY <1>3 DEF TakeOrEnd
  <2>2. WriterTyped'
    BY <1>0, <1>3, <2>1 DEF WriterTyped, QueueTyped
  <2>3. NoDuplicates'
    BY <1>3, <2>1, RangeEmpty, EmptyDistinct DEF NoDuplicates
  <2>4. written' \cap Range(batches') = {}
    BY <1>3, <2>1, RangeEmpty DEF NoDuplicates
  <2>5. CountedBatches' = written' \ failed'
    BY <2>4 DEF CountedBatches
  <2> QED BY <2>2, <2>3, <2>5
<1>4. CASE StartQueue
  <2>1. /\ TakeOrEnd(pending_batches) /\ queue_pc = "spawned"
        /\ UNCHANGED <<written, failed, enqueued, rows_inserted>>
    BY <1>4 DEF StartQueue
  <2>2. batches = <<>>
    BY <2>1 DEF Attended
  <2>3. WriterTyped' /\ NoDuplicates' /\ CountedBatches' = written' \ failed'
    BY <1>3, <2>1
  <2>4. CountedBatches' = CountedBatches
    BY <2>1, <2>2, <2>3, RangeEmpty DEF CountedBatches
  <2> QED BY <2>1, <2>3, <2>4, CountSame
<1>5. CASE WriteStep
  <2>1. /\ UNCHANGED <<pending_batches, batches, failed, rows_inserted, enqueued>>
        /\ written' \in {written, written \cup Range(batches)}
    BY <1>5 DEF WriteStep
  <2>2. NoDuplicates'
    BY <2>1 DEF NoDuplicates
  <2>3. Counted'
    BY <2>1, CountSame DEF CountedBatches
  <2> QED BY <2>1, <2>2, <2>3 DEF WriterTyped, QueueTyped
<1>6. CASE EndWrite
  <2>1. TakeOrEnd(pending_batches) /\ UNCHANGED enqueued
    BY <1>6 DEF EndWrite, GoOn
  <2>2. ASSUME queue_pc = "drop", rows_inserted' = rows_inserted + Len(batches),
               UNCHANGED <<written, failed>>
        PROVE  WriterTyped' /\ NoDuplicates' /\ Counted'
    <3>1. WriterTyped' /\ NoDuplicates' /\ CountedBatches' = written \ failed
      BY <1>3, <2>1, <2>2
    <3>2. Range(batches) \subseteq written \ failed
      BY <2>2 DEF Attended, NoDuplicates
    <3> DEFINE R == Range(batches)
               C == CountedBatches
    <3>3. CountedBatches' = C \cup R /\ C \cap R = {}
      BY <3>1, <3>2 DEF CountedBatches
    <3>4. IsFiniteSet(R) /\ Cardinality(R) = Len(batches) /\ Len(batches) \in Nat
      BY <1>0, RangeCounts DEF NoDuplicates
    <3>5. IsFiniteSet(C) /\ Cardinality(C) = rows_inserted /\ rows_inserted \in Nat
      BY DEF Counted
    <3> HIDE DEF R, C
    <3>6. /\ IsFiniteSet(C \cup R)
          /\ Cardinality(C \cup R) = Cardinality(C) + Cardinality(R) - Cardinality({})
      BY <3>3, <3>4, <3>5, FS_Union
    <3>7. Cardinality(C \cup R) = rows_inserted' /\ rows_inserted' \in Nat
      BY <2>2, <3>4, <3>5, <3>6, FS_EmptySet
    <3>8. IsFiniteSet(CountedBatches')
      BY <3>3, <3>6, Zenon
    <3>9. Cardinality(CountedBatches') = rows_inserted'
      BY <3>3, <3>7, Zenon
    <3>10. Counted'
      BY <3>7, <3>8, <3>9, Zenon DEF Counted
    <3> QED BY <3>1, <3>10
  <2>3. ASSUME Fail, UNCHANGED rows_inserted
        PROVE  WriterTyped' /\ NoDuplicates' /\ Counted'
    <3>1. /\ failed' = failed \cup Range(batches)
          /\ written' \in {written, written \cup Range(batches)}
      BY <2>3 DEF Fail
    <3>2. WriterTyped' /\ NoDuplicates' /\ CountedBatches' = written' \ failed'
      BY <1>3, <2>1, <3>1
    <3>3. CountedBatches' = CountedBatches
      BY <3>1, <3>2 DEF CountedBatches
    <3> QED BY <2>3, <3>2, <3>3, CountSame
  <2> QED BY <1>6, <2>2, <2>3 DEF EndWrite
<1>7. ASSUME UNCHANGED <<pending_batches, batches, written, failed, rows_inserted, enqueued>>
      PROVE  WriterTyped' /\ NoDuplicates' /\ Counted'
  <2>1. Counted'
    BY <1>7, CountSame DEF CountedBatches
  <2> QED BY <1>7, <2>1 DEF WriterTyped, QueueTyped, NoDuplicates
<1>8. CASE Drain \/ DrainWakes \/ Destroy
  <2>1. UNCHANGED <<pending_batches, batches, written, failed, rows_inserted, enqueued>>
    <3>1. CASE Drain
      BY <3>1 DEF Drain, coroutine
    <3>2. CASE DrainWakes
      BY <3>2 DEF DrainWakes, coroutine
    <3>3. CASE Destroy
      BY <3>3 DEF Destroy, coroutine
    <3> QED BY <1>8, <3>1, <3>2, <3>3, Zenon
  <2> QED BY <1>7, <2>1
<1>9. CASE UNCHANGED vars
  BY <1>7, <1>9 DEF vars, coroutine, control
<1> QED BY <1>1, <1>2, <1>4, <1>5, <1>6, <1>8, <1>9 DEF Next, Queue

\* rows_inserted is the number of rows in the target whose batch is neither in
\* the coroutine's hands nor was reported as failed, whichever statements
\* fail and whether or not a failed INSERT has taken effect.
THEOREM StatsExact == Spec => []StatsMatchTarget
<1>1. Init => QueueTyped /\ SpawnedHasWork /\ Attended /\ Accounted
  BY RangeEmpty DEF Init, QueueTyped, SpawnedHasWork, Attended, Accounted
<1>2. Init => WriterTyped /\ NoDuplicates /\ Counted
  <2> SUFFICES ASSUME Init PROVE WriterTyped /\ NoDuplicates /\ Counted
    OBVIOUS
  <2>1. WriterTyped /\ NoDuplicates
    BY RangeEmpty, EmptyDistinct DEF Init, WriterTyped, QueueTyped, NoDuplicates
  <2>2. CountedBatches = {} /\ rows_inserted = 0
    BY DEF Init, CountedBatches
  <2>3. IsFiniteSet({}) /\ Cardinality({}) = 0
    BY FS_EmptySet
  <2> QED BY <2>1, <2>2, <2>3 DEF Counted
<1>3. Counted => StatsMatchTarget
  BY DEF Counted, CountedBatches, StatsMatchTarget
<1>4. IInv /\ Attended /\ WriterTyped /\ NoDuplicates /\ Counted /\ [Next]_vars
      => WriterTyped' /\ NoDuplicates' /\ Counted'
  BY CountKept
<1> QED BY InitEstablishes, NextKeeps, WorkKept, AccountsKept, <1>1, <1>2, <1>3, <1>4, PTL DEF Spec

-----------------------------------------------------------------------------
(***************************************************************************)
(* The connection of PostgresDatabase stays usable and a COPY is atomic,   *)
(* for any number of copy writers, rows and queries, whatever is lost or   *)
(* destroyed in the middle.                                                *)
(***************************************************************************)
\* The caller of query/execute and "nobody" are no copy writers.
PgConstants == PG!Db \notin Writers /\ "none" \notin Writers

Callers == Writers \cup {PG!Db}

Places == {"none", "send", "flush", "read", "consume", "result", "put", "put_flush",
           "end", "end_flush"}
PlacesOf(call) ==
    CASE call = "query" -> {"send", "flush", "read", "consume", "result"}
      [] call = "start" -> {"send", "flush", "read", "consume", "result", "put", "put_flush"}
      [] call = "row" -> {"put", "put_flush"}
      [] call = "finish" -> {"put", "put_flush", "end", "end_flush", "read", "consume", "result"}
      [] call = "abort" -> {"end", "end_flush", "read", "consume", "result"}
      [] OTHER -> {"none"}

Types ==
    /\ task \in [Callers -> [call : {"none", "query", "start", "row", "finish", "abort"},
                             at : Places]]
    /\ writer \in [Writers -> [made : BOOLEAN, in_copy : BOOLEAN, rows : Nat,
                               end : {"none", "failed", "aborted", "abandoned", "ok"}]]
    /\ valid \in BOOLEAN /\ copy_in_flight \in BOOLEAN /\ operation_in_flight \in BOOLEAN
    /\ conn \in {"none", "ok", "bad", "freed"}
    /\ stored \in [Writers -> Nat]
    /\ wire \in [cmd : {"none", "query", "copy", "fail", "end"}, by : Callers]
    /\ async \in {"idle", "busy", "copy_in", "ok", "error"}
    /\ reply \in {"none", "copy_in", "ok", "error"}

\* Where a coroutine can be, and what its copy writer is in then.  One that
\* is not running waits for the socket.
TaskOK(r) ==
    /\ task[r].at \in PlacesOf(task[r].call)
    /\ task[r].call = "query" <=> r = PG!Db /\ task[r] # PG!Idle
    /\ task[r].at \in {"send", "read", "result"} => running = r
    /\ r # PG!Db => /\ task[r].call \in {"row", "finish", "abort"} => writer[r].in_copy
                    /\ task[r].call = "start" =>
                          (writer[r].in_copy <=> task[r].at \in {"put", "put_flush"})

TypeInv ==
    /\ Types
    /\ valid <=> conn \in {"ok", "bad"}
    /\ \A r \in Callers : TaskOK(r)

-----------------------------------------------------------------------------
\* copy_in_flight belongs to one writer, in its copy or starting it, and
\* operation_in_flight to the call of query or execute that is under way.
Owns(w) == writer[w].in_copy \/ task[w].call = "start"

Ownership ==
    /\ \A w \in Writers : Owns(w) => copy_in_flight
    /\ \A v, w \in Writers : Owns(v) /\ Owns(w) => v = w
    /\ copy_in_flight /\ valid => \E w \in Writers : Owns(w)
    /\ operation_in_flight <=> task[PG!Db] # PG!Idle

-----------------------------------------------------------------------------
\* A command of r is with libpq or the server.
Commanding(r) == task[r].at \in {"flush", "end_flush", "read", "consume", "result"}
Active(r) == Commanding(r) \/ (r # PG!Db /\ writer[r].in_copy)

Silent == wire = PG!NoCommand /\ reply = "none"
Replies == {"copy_in", "ok", "error"}

\* The server has the command or has answered it.
Pending(r) ==
    \/ wire = [cmd |-> PG!Command(r), by |-> r] /\ reply = "none"
    \/ /\ wire = PG!NoCommand /\ reply \in Replies
       /\ task[r].call = "finish" /\ reply = "ok" => stored[r] = writer[r].rows

\* The state of libpq and of the wire, as far as r decides it.
Stage(r) ==
    CASE task[r].at \in {"flush", "end_flush"} -> async = "busy" /\ Silent
      [] task[r].at = "consume" -> async = "busy" /\ Pending(r)
      [] task[r].at = "read" -> \/ async = "busy" /\ Pending(r)
                                \/ async \in Replies /\ Silent
      [] task[r].at = "result" -> async \in Replies /\ Silent
      [] OTHER -> async = "copy_in" /\ Silent

\* Nobody has anything under way: libpq is idle, or still in the copy that a
\* destroyed writer could not end.
Abandoned == \E w \in Writers : writer[w].end = "abandoned"
Quiet == (async = "idle" \/ (async = "copy_in" /\ Abandoned)) /\ Silent

Protocol ==
    conn = "ok" =>
        /\ \A r, s \in Callers : Active(r) /\ Active(s) => r = s
        /\ \A r \in Callers : Active(r) => Stage(r)
        /\ (\A r \in Callers : ~Active(r)) => Quiet

-----------------------------------------------------------------------------
\* finish() is the only call that ends a copy well, and it is tried once on
\* a connection that is not lost.
WriterOK(w) ==
    /\ writer[w].end = "ok" => stored[w] = writer[w].rows
    /\ writer[w].end \in {"none", "aborted", "abandoned"} => stored[w] = 0
    /\ stored[w] \in {0, writer[w].rows}
    /\ task[w].call = "start" => writer[w].end = "none"
    /\ writer[w].end = "abandoned" => ~writer[w].in_copy
    /\ conn = "ok" /\ writer[w].in_copy /\ task[w].call \notin {"finish", "abort"}
          => writer[w].end = "none"
    /\ task[w].call = "finish" => writer[w].end = "failed"
    /\ task[w].call = "finish" /\ task[w].at \in {"read", "result"} /\ async = "ok"
          => stored[w] = writer[w].rows

Tried(w) == writer[w].end \in {"failed", "ok"}

Atomicity ==
    /\ \A w \in Writers : WriterOK(w)
    /\ wire.cmd = "end" => wire.by # PG!Db /\ Tried(wire.by)

\* Nothing has been called before connect().
Unconnected ==
    conn = "none" => /\ \A r \in Callers : task[r] = PG!Idle
                     /\ \A w \in Writers : ~writer[w].made /\ ~writer[w].in_copy
                     /\ ~copy_in_flight /\ async = "idle" /\ Silent

DbIInv == TypeInv /\ Ownership /\ Protocol /\ Atomicity /\ Unconnected

-----------------------------------------------------------------------------
(***************************************************************************)
(* What the ways in which a coroutine goes on do to the state.             *)
(***************************************************************************)
Tasks == [call : {"none", "query", "start", "row", "finish", "abort"}, at : Places]
WriterStates == [made : BOOLEAN, in_copy : BOOLEAN, rows : Nat,
                 end : {"none", "failed", "aborted", "abandoned", "ok"}]

\* Nothing changes for another coroutine or its writer.
Alone(r) ==
    /\ \A s \in Callers : s # r => task'[s] = task[s]
    /\ \A w \in Writers : w # r => writer'[w] = writer[w]

\* A coroutine goes to another place of its call.
LEMMA Moved ==
    ASSUME Types, NEW r \in Callers, NEW at \in Places, task' = [task EXCEPT ![r].at = at]
    PROVE  /\ task' \in [Callers -> Tasks]
           /\ task'[r].call = task[r].call /\ task'[r].at = at
           /\ \A s \in Callers : s # r => task'[s] = task[s]
  BY DEF Types, Tasks

\* A coroutine ends.
LEMMA Left ==
    ASSUME Types, NEW r \in Callers, PG!Leave(r)
    PROVE  /\ task' \in [Callers -> Tasks]
           /\ task'[r] = PG!Idle /\ running' = "none"
           /\ \A s \in Callers : s # r => task'[s] = task[s]
  BY DEF Types, Tasks, PG!Leave, PG!Idle, Places

\* It returns or throws, and its guard runs.
LEMMA Exited ==
    ASSUME TypeInv, NEW r \in Callers, PG!Exit(r)
    PROVE  /\ task' \in [Callers -> Tasks] /\ writer' \in [Writers -> WriterStates]
           /\ task'[r] = PG!Idle /\ running' = "none" /\ Alone(r)
           /\ r = PG!Db => operation_in_flight' = FALSE /\ UNCHANGED <<writer, copy_in_flight>>
           /\ r # PG!Db =>
                /\ UNCHANGED operation_in_flight
                /\ writer'[r].rows = writer[r].rows /\ writer'[r].end = writer[r].end
                /\ IF task[r].call = "abort" THEN writer'[r].in_copy = FALSE
                                             ELSE writer'[r].in_copy = writer[r].in_copy
                /\ copy_in_flight' =
                      IF task[r].call = "abort" \/ (task[r].call = "start" /\ ~writer[r].in_copy)
                      THEN FALSE ELSE copy_in_flight
<1>1. Types /\ TaskOK(r)
  BY DEF TypeInv
<1>2. PG!Leave(r)
  BY DEF PG!Exit
<1>3. r = PG!Db => task[r].call \in {"query", "none"}
  BY <1>1 DEF TaskOK, Types, Callers, PG!Idle
<1>4. r # PG!Db => r \in Writers
  BY DEF Callers
<1>5. writer' = IF task[r].call = "abort" THEN [writer EXCEPT ![r].in_copy = FALSE] ELSE writer
  BY DEF PG!Exit
<1>6. /\ writer' \in [Writers -> WriterStates]
      /\ \A w \in Writers : w # r => writer'[w] = writer[w]
      /\ r # PG!Db =>
           /\ writer'[r].rows = writer[r].rows /\ writer'[r].end = writer[r].end
           /\ IF task[r].call = "abort" THEN writer'[r].in_copy = FALSE
                                        ELSE writer'[r].in_copy = writer[r].in_copy
  BY <1>1, <1>3, <1>4, <1>5 DEF Types, WriterStates
<1>7. r = PG!Db => operation_in_flight' = FALSE /\ UNCHANGED <<writer, copy_in_flight>>
  BY <1>3 DEF PG!Exit
<1>8. r # PG!Db =>
        /\ UNCHANGED operation_in_flight
        /\ copy_in_flight' =
              IF task[r].call = "abort" \/ (task[r].call = "start" /\ ~writer[r].in_copy)
              THEN FALSE ELSE copy_in_flight
  BY DEF PG!Exit
<1> QED BY <1>1, <1>2, <1>6, <1>7, <1>8, Left DEF Alone

\* finish() is through with its copy.
LEMMA CopyEnded ==
    ASSUME TypeInv, NEW r \in Writers, NEW end \in {"failed", "ok"}, PG!EndCopy(r, end)
    PROVE  /\ task' \in [Callers -> Tasks] /\ writer' \in [Writers -> WriterStates]
           /\ task'[r] = PG!Idle /\ running' = "none" /\ Alone(r)
           /\ copy_in_flight' = FALSE /\ UNCHANGED operation_in_flight
           /\ writer'[r].in_copy = FALSE /\ writer'[r].rows = writer[r].rows
           /\ writer'[r].end = end
<1>1. Types /\ PG!Leave(r) /\ r \in Callers
  BY DEF TypeInv, PG!EndCopy, Callers
<1>2. writer' = [writer EXCEPT ![r].in_copy = FALSE, ![r].end = end]
  BY DEF PG!EndCopy
<1>3. /\ writer' \in [Writers -> WriterStates]
      /\ \A w \in Writers : w # r => writer'[w] = writer[w]
      /\ writer'[r].in_copy = FALSE /\ writer'[r].rows = writer[r].rows
      /\ writer'[r].end = end
  BY <1>1, <1>2 DEF Types, WriterStates
<1> QED BY <1>1, <1>3, Left DEF Alone, PG!EndCopy

-----------------------------------------------------------------------------
(***************************************************************************)
(* A step of one caller keeps the invariant if it does what the invariant  *)
(* asks of that caller: nobody else is affected.                           *)
(***************************************************************************)
FlagsLocal(r) ==
    IF r = PG!Db THEN UNCHANGED copy_in_flight /\ (operation_in_flight' <=> task'[PG!Db] # PG!Idle)
    ELSE /\ UNCHANGED operation_in_flight
         /\ \/ (Owns(r)' <=> Owns(r)) /\ UNCHANGED copy_in_flight
            \/ Owns(r)' /\ ~copy_in_flight /\ copy_in_flight'
            \/ ~Owns(r)' /\ Owns(r) /\ ~copy_in_flight'
            \/ ~Owns(r)' /\ ~valid /\ UNCHANGED copy_in_flight

WireLocal(r) ==
    /\ wire'.cmd = "end" => wire' = wire \/ (r # PG!Db /\ wire'.by = r /\ Tried(r)')
    /\ r # PG!Db /\ Tried(r) => Tried(r)'

ProtocolLocal(r) ==
    conn = "ok" =>
        \/ ~Active(r) /\ ~Active(r)' /\ UNCHANGED <<async, wire, reply>>
        \/ /\ \A s \in Callers : s # r => ~Active(s)
           /\ Active(r)' => Stage(r)'
           /\ ~Active(r)' => Quiet'

StepOf(r) ==
    /\ Alone(r)
    /\ running \in {r, "none"} /\ running' \in {r, "none"}
    /\ conn # "none" /\ UNCHANGED <<conn, valid, stored>>
    /\ r # PG!Db /\ writer[r].end = "abandoned" => writer'[r].end = "abandoned"

LEMMA TypeKept ==
    ASSUME PgConstants, TypeInv, NEW r \in Callers, StepOf(r), Types', TaskOK(r)'
    PROVE  TypeInv'
<1>1. ASSUME NEW s \in Callers, s # r PROVE TaskOK(s)'
  <2>1. task'[s] = task[s] /\ (s # PG!Db => writer'[s] = writer[s])
    BY <1>1 DEF StepOf, Alone, Callers
  <2>2. TaskOK(s) /\ running # s
    BY <1>1 DEF TypeInv, StepOf, PgConstants, Callers, PG!Db
  <2> QED BY <2>1, <2>2 DEF TaskOK
<1> QED BY <1>1 DEF TypeInv, StepOf

LEMMA OwnershipKept ==
    ASSUME PgConstants, TypeInv, Ownership, NEW r \in Callers, StepOf(r), Types', FlagsLocal(r)
    PROVE  Ownership'
<1>0. PG!Db \in Callers /\ PG!Db \notin Writers
  BY DEF PgConstants, Callers
<1>1. ASSUME NEW w \in Writers, w # r PROVE Owns(w)' <=> Owns(w)
  BY <1>1 DEF Owns, StepOf, Alone, Callers
<1>2. CASE r = PG!Db
  <2>1. \A w \in Writers : Owns(w)' <=> Owns(w)
    BY <1>0, <1>1, <1>2
  <2> QED BY <1>2, <2>1 DEF Ownership, FlagsLocal, StepOf
<1>3. CASE r # PG!Db
  <2>1. task'[PG!Db] = task[PG!Db] /\ r \in Writers /\ UNCHANGED <<operation_in_flight, valid>>
    BY <1>0, <1>3 DEF StepOf, Alone, Callers, FlagsLocal
  <2>2. CASE (Owns(r)' <=> Owns(r)) /\ UNCHANGED copy_in_flight
    BY <1>1, <2>1, <2>2 DEF Ownership
  <2>3. CASE Owns(r)' /\ ~copy_in_flight /\ copy_in_flight'
    BY <1>1, <2>1, <2>3 DEF Ownership
  <2>4. CASE ~Owns(r)' /\ Owns(r) /\ ~copy_in_flight'
    BY <1>1, <2>1, <2>4 DEF Ownership
  <2>5. CASE ~Owns(r)' /\ ~valid /\ UNCHANGED copy_in_flight
    BY <1>1, <2>1, <2>5 DEF Ownership
  <2> QED BY <1>3, <2>2, <2>3, <2>4, <2>5 DEF FlagsLocal
<1> QED BY <1>2, <1>3

LEMMA ProtocolKept ==
    ASSUME PgConstants, TypeInv, Protocol, NEW r \in Callers, StepOf(r), ProtocolLocal(r)
    PROVE  Protocol'
<1> SUFFICES ASSUME conn = "ok" PROVE Protocol'
  BY DEF Protocol, StepOf
<1>1. ASSUME NEW s \in Callers, s # r
      PROVE  /\ task'[s] = task[s] /\ (s # PG!Db => writer'[s] = writer[s])
             /\ Active(s)' <=> Active(s)
  BY <1>1 DEF StepOf, Alone, Active, Commanding, Callers
<1>0. Abandoned => Abandoned'
  <2> SUFFICES ASSUME NEW w \in Writers, writer[w].end = "abandoned"
               PROVE  writer'[w].end = "abandoned"
    BY DEF Abandoned
  <2>1. CASE w = r /\ r # PG!Db
    BY <2>1 DEF StepOf
  <2>2. CASE w # r
    BY <2>2 DEF StepOf, Alone
  <2> QED BY <2>1, <2>2 DEF PgConstants
<1>2. CASE ~Active(r) /\ ~Active(r)' /\ UNCHANGED <<async, wire, reply>>
  <2>1. \A s \in Callers : Active(s)' <=> Active(s)
    BY <1>1, <1>2
  <2>2. ASSUME NEW s \in Callers, Active(s)' PROVE Stage(s)'
    <3>1. s # r /\ Active(s) /\ Stage(s)
      BY <1>2, <2>1, <2>2 DEF Protocol
    <3>2. task'[s] = task[s] /\ (s # PG!Db => writer'[s] = writer[s]) /\ UNCHANGED stored
      BY <1>1, <3>1 DEF StepOf
    <3>3. task[s].call = "finish" => s # PG!Db
      BY DEF TypeInv, TaskOK, PG!Idle
    <3> QED BY <1>2, <3>1, <3>2, <3>3 DEF Stage, Silent, Pending, PG!Command
  <2>3. Quiet => Quiet'
    BY <1>0, <1>2 DEF Quiet, Silent
  <2> QED BY <1>2, <2>1, <2>2, <2>3 DEF Protocol
<1>3. CASE /\ \A s \in Callers : s # r => ~Active(s)
           /\ Active(r)' => Stage(r)'
           /\ ~Active(r)' => Quiet'
  <2>1. \A s \in Callers : Active(s)' => s = r
    BY <1>1, <1>3
  <2> QED BY <1>3, <2>1 DEF Protocol
<1> QED BY <1>2, <1>3 DEF ProtocolLocal

LEMMA AtomicityKept ==
    ASSUME PgConstants, TypeInv, Atomicity, NEW r \in Callers, StepOf(r), Types', WireLocal(r),
           r # PG!Db => WriterOK(r)'
    PROVE  Atomicity'
<1>1. ASSUME NEW w \in Writers, w # r PROVE WriterOK(w)'
  <2>1. /\ task'[w] = task[w] /\ writer'[w] = writer[w] /\ UNCHANGED <<conn, stored>>
        /\ w \in Callers
    BY <1>1 DEF StepOf, Alone, Callers
  <2>2. task[w].at \notin {"read", "result"}
    BY <1>1, <2>1 DEF TypeInv, TaskOK, StepOf, PgConstants
  <2>3. WriterOK(w)
    BY DEF Atomicity
  <2> QED BY <2>1, <2>2, <2>3 DEF WriterOK
<1>2. \A w \in Writers : WriterOK(w)'
  BY <1>1 DEF PgConstants
<1>3. ASSUME wire'.cmd = "end" PROVE wire'.by # PG!Db /\ Tried(wire.by)'
  <2>1. CASE wire' = wire
    <3>1. wire.by # PG!Db /\ Tried(wire.by) /\ wire.by \in Writers
      BY <1>3, <2>1 DEF Atomicity, TypeInv, Types, Callers
    <3>2. CASE wire.by = r
      BY <2>1, <3>1, <3>2 DEF WireLocal, Tried
    <3>3. CASE wire.by # r
      BY <2>1, <3>1, <3>3 DEF StepOf, Alone, Tried
    <3> QED BY <3>2, <3>3
  <2>2. CASE r # PG!Db /\ wire'.by = r /\ Tried(r)'
    BY <2>2 DEF Tried
  <2> QED BY <1>3, <2>1, <2>2 DEF WireLocal
<1> QED BY <1>2, <1>3 DEF Atomicity, Tried

\* Together: what a step of r has to show.
LEMMA CallerStep ==
    ASSUME PgConstants, DbIInv, NEW r \in Callers, StepOf(r), Types', TaskOK(r)',
           FlagsLocal(r), ProtocolLocal(r), WireLocal(r), r # PG!Db => WriterOK(r)'
    PROVE  DbIInv'
<1>1. Unconnected'
  BY DEF StepOf, Unconnected
<1> QED BY <1>1, TypeKept, OwnershipKept, ProtocolKept, AtomicityKept DEF DbIInv

-----------------------------------------------------------------------------
(***************************************************************************)
(* The ways in which the running coroutine goes on, each with what the     *)
(* step that takes it has to show.                                         *)
(***************************************************************************)
\* What libpq and the wire can hold after a step of r.
LibpqLocal(r) ==
    /\ async' \in {"idle", "busy", "copy_in", "ok", "error"}
    /\ reply' \in {"none", "copy_in", "ok", "error"}
    /\ wire' = wire \/ (task[r].call # "row" /\ wire' = [cmd |-> PG!Command(r), by |-> r])
    /\ UNCHANGED <<conn, valid, stored>>

\* A caller that is under way has connected.
LEMMA Connected ==
    ASSUME DbIInv, NEW r \in Callers, task[r] # PG!Idle \/ (r # PG!Db /\ writer[r].made)
    PROVE  conn # "none"
  BY DEF DbIInv, Unconnected, Callers

\* Typing of the state that a step of r leaves.
LEMMA TypesAfter ==
    ASSUME TypeInv, NEW r \in Callers, task[r].call # "none", LibpqLocal(r),
           task' \in [Callers -> Tasks], writer' \in [Writers -> WriterStates],
           copy_in_flight' \in BOOLEAN, operation_in_flight' \in BOOLEAN
    PROVE  Types'
<1>1. wire' \in [cmd : {"none", "query", "copy", "fail", "end"}, by : Callers]
  BY DEF LibpqLocal, PG!Command, TypeInv, Types
<1> QED BY <1>1 DEF TypeInv, Types, LibpqLocal, Tasks, WriterStates

LEMMA ExitKeeps ==
    ASSUME PgConstants, DbIInv, NEW r \in Callers, running = r, task[r] # PG!Idle, PG!Exit(r),
           LibpqLocal(r), wire' = wire, ProtocolLocal(r),
           task[r].call = "finish" => conn # "ok"
    PROVE  DbIInv'
<1>1. TypeInv /\ TaskOK(r) /\ (r # PG!Db => WriterOK(r) /\ r \in Writers)
  BY DEF DbIInv, TypeInv, Atomicity, Callers
<1>2. /\ task' \in [Callers -> Tasks] /\ writer' \in [Writers -> WriterStates]
      /\ task'[r] = PG!Idle /\ running' = "none" /\ Alone(r)
      /\ r = PG!Db => operation_in_flight' = FALSE /\ UNCHANGED <<writer, copy_in_flight>>
      /\ r # PG!Db =>
           /\ UNCHANGED operation_in_flight
           /\ writer'[r].rows = writer[r].rows /\ writer'[r].end = writer[r].end
           /\ IF task[r].call = "abort" THEN writer'[r].in_copy = FALSE
                                        ELSE writer'[r].in_copy = writer[r].in_copy
           /\ copy_in_flight' =
                 IF task[r].call = "abort" \/ (task[r].call = "start" /\ ~writer[r].in_copy)
                 THEN FALSE ELSE copy_in_flight
  BY <1>1, Exited
<1>3. task[r].call # "none"
  BY <1>1 DEF TaskOK, PlacesOf, PG!Idle, TypeInv, Types
<1>4. Types'
  <2>1. copy_in_flight' \in BOOLEAN /\ operation_in_flight' \in BOOLEAN
    BY <1>1, <1>2 DEF TypeInv, Types
  <2> QED BY <1>1, <1>2, <1>3, <2>1, TypesAfter
<1>5. StepOf(r)
  BY <1>2, Connected DEF StepOf, LibpqLocal
<1>6. TaskOK(r)'
  BY <1>2 DEF TaskOK, PG!Idle, PlacesOf
<1>7. FlagsLocal(r)
  <2>1. CASE r = PG!Db
    BY <1>2, <2>1 DEF FlagsLocal
  <2>2. CASE r # PG!Db /\ (task[r].call = "abort" \/ (task[r].call = "start" /\ ~writer[r].in_copy))
    <3>1. Owns(r) /\ copy_in_flight' = FALSE
      BY <1>1, <1>2, <2>2 DEF Owns, TaskOK
    <3>2. ~Owns(r)'
      BY <1>2, <2>2, <1>4 DEF Owns, PG!Idle, Types
    <3> QED BY <1>2, <2>2, <3>1, <3>2 DEF FlagsLocal
  <2>3. CASE r # PG!Db /\ ~(task[r].call = "abort" \/ (task[r].call = "start" /\ ~writer[r].in_copy))
    <3>1. writer[r].in_copy /\ writer'[r].in_copy
      BY <1>1, <1>2, <1>3, <2>3 DEF TaskOK, TypeInv, Types
    <3> QED BY <1>2, <2>3, <3>1 DEF FlagsLocal, Owns
  <2> QED BY <2>1, <2>2, <2>3
<1>8. WireLocal(r)
  BY <1>2 DEF WireLocal, Tried
<1>9. r # PG!Db => WriterOK(r)'
  <2> SUFFICES ASSUME r # PG!Db PROVE WriterOK(r)'
    OBVIOUS
  <2>1. stored' = stored /\ conn' = conn
    BY DEF LibpqLocal
  <2>2. conn = "ok" /\ writer'[r].in_copy => writer'[r].end = "none"
    BY <1>1, <1>2, <1>3 DEF WriterOK, TaskOK, TypeInv, Types
  <2> QED BY <1>1, <1>2, <2>1, <2>2 DEF WriterOK, PG!Idle
<1> QED BY <1>4, <1>5, <1>6, <1>7, <1>8, <1>9, CallerStep

LEMMA MoveKeeps ==
    ASSUME PgConstants, DbIInv, NEW r \in Callers, running = r, task[r] # PG!Idle,
           NEW at \in Places, at \in PlacesOf(task[r].call),
           task' = [task EXCEPT ![r].at = at],
           running' \in {r, "none"}, at \in {"send", "read", "result"} => running' = r,
           task[r].call = "start" =>
              (at \in {"put", "put_flush"} <=> task[r].at \in {"put", "put_flush"}),
           UNCHANGED <<PG!flags, writer>>, LibpqLocal(r), ProtocolLocal(r),
           task[r].call = "finish" /\ at \in {"read", "result"} /\ async' = "ok"
              => stored[r] = writer[r].rows
    PROVE  DbIInv'
<1>1. TypeInv /\ TaskOK(r) /\ (r # PG!Db => WriterOK(r) /\ r \in Writers) /\ r \in Callers
  BY DEF DbIInv, TypeInv, Atomicity, Callers
<1>2. /\ task' \in [Callers -> Tasks] /\ task'[r].call = task[r].call /\ task'[r].at = at
      /\ \A s \in Callers : s # r => task'[s] = task[s]
  BY <1>1, Moved DEF TypeInv
<1>3. task[r].call # "none"
  BY <1>1 DEF TaskOK, PlacesOf, PG!Idle, TypeInv, Types
<1>4. UNCHANGED <<copy_in_flight, operation_in_flight>>
  BY DEF PG!flags
<1>5. Types'
  <2>1. writer' \in [Writers -> WriterStates]
    BY <1>1 DEF TypeInv, Types, WriterStates
  <2> QED BY <1>1, <1>2, <1>3, <1>4, <2>1, TypesAfter DEF TypeInv, Types
<1>6. StepOf(r)
  BY <1>2, Connected DEF StepOf, LibpqLocal, Alone
<1>7. at # "none" /\ task'[r] # PG!Idle
  BY <1>1, <1>2, <1>3 DEF PlacesOf, PG!Idle, TypeInv, Types
<1>8. TaskOK(r)'
  BY <1>1, <1>2, <1>3, <1>7 DEF TaskOK
<1>9. FlagsLocal(r)
  BY <1>2, <1>4, <1>7 DEF FlagsLocal, Owns, DbIInv, Ownership
<1>10. WireLocal(r)
  <2>1. ASSUME wire'.cmd = "end", wire' # wire PROVE r # PG!Db /\ wire'.by = r /\ Tried(r)'
    <3>1. task[r].call = "finish" /\ wire'.by = r
      BY <1>1, <1>3, <2>1 DEF LibpqLocal, PG!Command, TypeInv, Types
    <3> QED BY <1>1, <3>1 DEF TaskOK, WriterOK, Tried
  <2> QED BY <2>1 DEF WireLocal, Tried
<1>11. r # PG!Db => WriterOK(r)'
  <2>1. UNCHANGED <<stored, conn>>
    BY DEF LibpqLocal
  <2> QED BY <1>1, <1>2, <2>1 DEF WriterOK
<1> QED BY <1>5, <1>6, <1>8, <1>9, <1>10, <1>11, CallerStep

LEMMA EndKeeps ==
    ASSUME PgConstants, DbIInv, NEW r \in Writers, running = r, task[r].call = "finish",
           NEW end \in {"failed", "ok"}, PG!EndCopy(r, end), LibpqLocal(r), wire' = wire,
           ProtocolLocal(r), end = "ok" => stored[r] = writer[r].rows
    PROVE  DbIInv'
<1>1. TypeInv /\ TaskOK(r) /\ WriterOK(r) /\ r \in Callers /\ r # PG!Db
  BY DEF DbIInv, TypeInv, Atomicity, Callers, PgConstants
<1>2. /\ task' \in [Callers -> Tasks] /\ writer' \in [Writers -> WriterStates]
      /\ task'[r] = PG!Idle /\ running' = "none" /\ Alone(r)
      /\ copy_in_flight' = FALSE /\ UNCHANGED operation_in_flight
      /\ writer'[r].in_copy = FALSE /\ writer'[r].rows = writer[r].rows
      /\ writer'[r].end = end
  BY <1>1, CopyEnded
<1>3. Types'
  <2>1. copy_in_flight' \in BOOLEAN /\ operation_in_flight' \in BOOLEAN
    BY <1>1, <1>2 DEF TypeInv, Types
  <2> QED BY <1>1, <1>2, <2>1, TypesAfter
<1>4. StepOf(r)
  BY <1>1, <1>2, Connected DEF StepOf, LibpqLocal, PG!Idle, WriterOK
<1>5. TaskOK(r)'
  BY <1>2 DEF TaskOK, PG!Idle, PlacesOf
<1>6. FlagsLocal(r)
  <2>1. Owns(r)
    BY <1>1 DEF TaskOK, Owns
  <2>2. ~Owns(r)'
    BY <1>2 DEF Owns, PG!Idle
  <2> QED BY <1>1, <1>2, <2>1, <2>2 DEF FlagsLocal
<1>7. WireLocal(r)
  BY <1>2 DEF WireLocal, Tried
<1>8. WriterOK(r)'
  <2>1. UNCHANGED <<stored, conn>>
    BY DEF LibpqLocal
  <2> QED BY <1>1, <1>2, <2>1 DEF WriterOK, PG!Idle
<1> QED BY <1>1, <1>3, <1>4, <1>5, <1>6, <1>7, <1>8, CallerStep

-----------------------------------------------------------------------------
(***************************************************************************)
(* The steps of the running coroutine.                                     *)
(***************************************************************************)
\* An active caller has libpq to itself, and libpq is at its stage.
LEMMA ActiveAlone ==
    ASSUME DbIInv, NEW r \in Callers, conn = "ok", Active(r)
    PROVE  Stage(r) /\ \A s \in Callers : s # r => ~Active(s)
  BY DEF DbIInv, Protocol

\* libpq is idle only if nobody is active, seen from a caller that is not.
LEMMA IdleMeansNobody ==
    ASSUME DbIInv, NEW r \in Callers, conn = "ok", running = r, ~Active(r), async = "idle"
    PROVE  Silent /\ \A s \in Callers : ~Active(s)
<1>1. ASSUME NEW s \in Callers, Active(s) PROVE FALSE
  <2>1. s # r /\ Stage(s) /\ TaskOK(s)
    BY <1>1 DEF DbIInv, Protocol, TypeInv
  <2> QED BY <2>1 DEF Stage, TaskOK, Replies
<1> QED BY <1>1 DEF DbIInv, Protocol, Quiet

\* What is known of a caller that runs.
LEMMA RunningCaller ==
    ASSUME PgConstants, DbIInv, NEW r \in Callers, task[r].at # "none"
    PROVE  /\ TaskOK(r) /\ TypeInv /\ Types
           /\ task[r] # PG!Idle /\ task[r].call # "none"
           /\ r = PG!Db => task[r].call = "query"
           /\ r # PG!Db => r \in Writers /\ task[r].call # "query" /\ WriterOK(r)
<1>1. TaskOK(r) /\ TypeInv /\ Types /\ (r # PG!Db => r \in Writers /\ WriterOK(r))
  BY DEF DbIInv, TypeInv, Callers, Atomicity
<1>2. task[r] # PG!Idle
  BY DEF PG!Idle
<1>3. task[r].call # "none"
  BY <1>1 DEF TaskOK, PlacesOf
<1> QED BY <1>1, <1>2, <1>3 DEF TaskOK

\* A step that changes nothing of libpq and the wire.
LEMMA LibpqUnchanged ==
    ASSUME TypeInv, NEW r \in Callers, UNCHANGED <<async, PG!server, conn, valid>>
    PROVE  LibpqLocal(r)
  BY DEF TypeInv, Types, LibpqLocal, PG!server

\* A coroutine that is gone is active only if it leaves its writer in a copy.
LEMMA ExitActive ==
    ASSUME TypeInv, NEW r \in Callers, PG!Exit(r)
    PROVE  /\ Active(r)' <=> r # PG!Db /\ task[r].call # "abort" /\ writer[r].in_copy
           /\ task'[r].at = "none"
<1>1. task'[r] = PG!Idle
  BY Exited
<1>2. ~Commanding(r)' /\ task'[r].at = "none"
  BY <1>1 DEF Commanding, PG!Idle
<1>3. CASE r = PG!Db
  BY <1>2, <1>3 DEF Active
<1>4. CASE r # PG!Db
  <2>1. IF task[r].call = "abort" THEN writer'[r].in_copy = FALSE
                                  ELSE writer'[r].in_copy = writer[r].in_copy
    BY <1>4, Exited
  <2> QED BY <1>2, <1>4, <2>1 DEF Active
<1> QED BY <1>2, <1>3, <1>4

LEMMA SendQueryKeeps ==
    ASSUME PgConstants, DbIInv, NEW r \in Callers, running = r, PG!SendQuery(r),
           UNCHANGED <<conn, valid>>
    PROVE  DbIInv'
<1>1. task[r].at = "send" /\ UNCHANGED <<wire, reply, stored>>
  BY DEF PG!SendQuery, PG!server
<1>2. /\ TaskOK(r) /\ TypeInv /\ Types /\ task[r] # PG!Idle
      /\ r = PG!Db => task[r].call = "query"
      /\ r # PG!Db => r \in Writers /\ task[r].call # "query"
  BY <1>1, RunningCaller
<1>3. task[r].call \in {"query", "start"}
  BY <1>1, <1>2 DEF TaskOK, PlacesOf, Types
<1>4. ~Active(r)
  BY <1>1, <1>2, <1>3 DEF Active, Commanding, TaskOK
<1>5. CASE conn = "ok" /\ async = "idle"
  <2>1. PG!Continue(r, "flush") /\ async' = "busy"
    BY <1>5 DEF PG!SendQuery
  <2>2. LibpqLocal(r)
    BY <1>1, <1>2, <2>1 DEF LibpqLocal, Types
  <2>3. Silent /\ \A s \in Callers : ~Active(s)
    BY <1>4, <1>5, IdleMeansNobody
  <2>4. task'[r].at = "flush"
    BY <1>2, <2>1, Moved DEF PG!Continue, Places
  <2>5. ProtocolLocal(r)
    BY <1>1, <2>1, <2>3, <2>4 DEF ProtocolLocal, Active, Commanding, Stage, Silent
  <2> QED BY <1>1, <1>2, <1>3, <2>1, <2>2, <2>5, MoveKeeps DEF PG!Continue, Places, PlacesOf
<1>6. CASE ~(conn = "ok" /\ async = "idle")
  <2>1. PG!Exit(r) /\ UNCHANGED <<async, PG!server>>
    BY <1>6 DEF PG!SendQuery
  <2>2. LibpqLocal(r)
    BY <1>2, <2>1, LibpqUnchanged
  <2>3. ~Active(r)'
    BY <1>2, <1>3, <1>4, <2>1, ExitActive DEF Active
  <2>4. ProtocolLocal(r)
    BY <1>4, <2>1, <2>3 DEF ProtocolLocal, PG!server
  <2> QED BY <1>1, <1>2, <1>3, <2>1, <2>2, <2>4, ExitKeeps
<1> QED BY <1>5, <1>6

\* A step on a connection that is lost or gone has no stage to keep.
LEMMA LostStage ==
    ASSUME NEW r \in Callers, conn # "ok"
    PROVE  ProtocolLocal(r)
  BY DEF ProtocolLocal

LEMMA FlushKeeps ==
    ASSUME PgConstants, DbIInv, NEW r \in Callers, running = r, PG!Flush(r), UNCHANGED <<conn, valid>>
    PROVE  DbIInv'
<1> DEFINE at == task[r].at
<1>1. at \in {"flush", "put_flush", "end_flush"} /\ UNCHANGED <<async, reply, stored>>
  BY DEF PG!Flush
<1>2. /\ TaskOK(r) /\ TypeInv /\ Types /\ task[r] # PG!Idle
      /\ at \in Places /\ at \in PlacesOf(task[r].call)
      /\ r = PG!Db => task[r].call = "query"
      /\ r # PG!Db => r \in Writers /\ task[r].call # "query"
  BY <1>1, RunningCaller DEF TaskOK, Places
<1>3. /\ at = "flush" => task[r].call \in {"query", "start"}
      /\ at = "put_flush" => task[r].call \in {"start", "row", "finish"}
      /\ at = "end_flush" => task[r].call \in {"finish", "abort"}
  BY <1>1, <1>2 DEF PlacesOf, Types
<1>4. Active(r) /\ (at \in {"put_flush", "end_flush"} => r # PG!Db /\ writer[r].in_copy)
  BY <1>1, <1>2, <1>3 DEF Active, Commanding, TaskOK
<1>5. conn = "ok" => Stage(r)
  BY <1>4, ActiveAlone
<1>6. UNCHANGED wire => LibpqLocal(r)
  BY <1>1, <1>2 DEF LibpqLocal, Types
<1>7. CASE PG!Invalid(r)
  <2>1. PG!Exit(r) /\ UNCHANGED wire /\ conn # "ok"
    BY <1>2, <1>7 DEF PG!Flush, PG!Invalid, TypeInv
  <2> QED BY <1>2, <1>6, <2>1, LostStage, ExitKeeps
<1>8. CASE conn = "ok" /\ PG!Await(r, at) /\ UNCHANGED wire
  <2>1. task' = [task EXCEPT ![r].at = at] /\ running' = "none" /\ UNCHANGED <<PG!flags, writer>>
    BY <1>8 DEF PG!Await
  <2>2. task'[r].at = at /\ task'[r].call = task[r].call
    BY <1>2, <2>1, Moved
  <2>3. Active(r)' /\ Stage(r)'
    BY <1>1, <1>4, <1>5, <1>8, <2>1, <2>2 DEF Active, Commanding, Stage, Silent
  <2>4. ProtocolLocal(r)
    BY <1>4, <2>3, ActiveAlone DEF ProtocolLocal
  <2> QED BY <1>1, <1>2, <1>6, <1>8, <2>1, <2>4, MoveKeeps
<1>9. CASE /\ conn = "ok" /\ at # "put_flush" /\ PG!Continue(r, "read")
           /\ wire' = [cmd |-> PG!Command(r), by |-> r]
  <2>1. task' = [task EXCEPT ![r].at = "read"] /\ running' = r /\ UNCHANGED <<PG!flags, writer>>
    BY <1>9 DEF PG!Continue
  <2>2. task'[r].at = "read" /\ task'[r].call = task[r].call
    BY <1>2, <2>1, Moved DEF Places
  <2>3. LibpqLocal(r)
    BY <1>1, <1>2, <1>3, <1>9 DEF LibpqLocal, Types
  <2>4. async = "busy" /\ Silent
    BY <1>1, <1>5, <1>9 DEF Stage
  <2>5. Pending(r)'
    BY <1>1, <1>9, <2>2, <2>4 DEF Pending, PG!Command, Silent
  <2>6. Active(r)' /\ Stage(r)'
    BY <1>1, <2>2, <2>4, <2>5 DEF Active, Commanding, Stage
  <2>7. ProtocolLocal(r)
    BY <1>4, <2>6, ActiveAlone DEF ProtocolLocal
  <2>8. "read" \in PlacesOf(task[r].call) /\ "read" \in Places
    BY <1>1, <1>3, <1>9 DEF PlacesOf, Places
  <2> QED BY <1>1, <1>2, <1>3, <1>9, <2>1, <2>3, <2>4, <2>7, <2>8, MoveKeeps
<1>10. CASE /\ conn = "ok" /\ at = "put_flush" /\ task[r].call = "finish"
            /\ PG!Continue(r, "end") /\ UNCHANGED wire
  <2>1. task' = [task EXCEPT ![r].at = "end"] /\ running' = r /\ UNCHANGED <<PG!flags, writer>>
    BY <1>10 DEF PG!Continue
  <2>2. task'[r].at = "end"
    BY <1>2, <2>1, Moved DEF Places
  <2>3. Active(r)' /\ Stage(r)'
    BY <1>1, <1>4, <1>5, <1>10, <2>1, <2>2 DEF Active, Commanding, Stage, Silent
  <2>4. ProtocolLocal(r)
    BY <1>4, <2>3, ActiveAlone DEF ProtocolLocal
  <2>5. "end" \in PlacesOf(task[r].call) /\ "end" \in Places
    BY <1>10 DEF PlacesOf, Places
  <2> QED BY <1>1, <1>2, <1>6, <1>10, <2>1, <2>4, <2>5, MoveKeeps
<1>11. CASE conn = "ok" /\ at = "put_flush" /\ task[r].call # "finish" /\ PG!Exit(r) /\ UNCHANGED wire
  <2>1. async = "copy_in" /\ Silent
    BY <1>5, <1>11 DEF Stage
  <2>2. Active(r)' /\ task'[r].at = "none"
    BY <1>2, <1>3, <1>4, <1>11, ExitActive
  <2>3. Stage(r)'
    BY <1>1, <1>11, <2>1, <2>2 DEF Stage, Silent
  <2>4. ProtocolLocal(r)
    BY <1>4, <2>2, <2>3, ActiveAlone DEF ProtocolLocal
  <2> QED BY <1>2, <1>6, <1>11, <2>4, ExitKeeps
<1>12. CASE conn # "ok" /\ task[r].call = "abort" /\ PG!Continue(r, "read") /\ UNCHANGED wire
  <2>1. task' = [task EXCEPT ![r].at = "read"] /\ running' = r /\ UNCHANGED <<PG!flags, writer>>
    BY <1>12 DEF PG!Continue
  <2>2. "read" \in PlacesOf(task[r].call) /\ "read" \in Places
    BY <1>12 DEF PlacesOf, Places
  <2> QED BY <1>2, <1>6, <1>12, <2>1, <2>2, LostStage, MoveKeeps
<1>13. CASE conn # "ok" /\ task[r].call = "finish" /\ PG!EndCopy(r, "failed") /\ UNCHANGED wire
  BY <1>2, <1>6, <1>13, LostStage, EndKeeps
<1>14. CASE conn # "ok" /\ PG!Exit(r) /\ UNCHANGED wire
  BY <1>2, <1>6, <1>14, LostStage, ExitKeeps
<1> QED BY <1>1, <1>3, <1>7, <1>8, <1>9, <1>10, <1>11, <1>12, <1>13, <1>14 DEF PG!Flush

LEMMA PutKeeps ==
    ASSUME PgConstants, DbIInv, NEW r \in Callers, running = r, PG!Put(r), UNCHANGED <<conn, valid>>
    PROVE  DbIInv'
<1>1. task[r].at = "put" /\ UNCHANGED <<async, PG!server>> /\ UNCHANGED <<wire, reply, stored>>
  BY DEF PG!Put, PG!server
<1>2. /\ TaskOK(r) /\ TypeInv /\ Types /\ task[r] # PG!Idle
      /\ r = PG!Db => task[r].call = "query"
      /\ r # PG!Db => r \in Writers /\ task[r].call # "query" /\ WriterOK(r)
  BY <1>1, RunningCaller
<1>3. task[r].call \in {"start", "row", "finish"} /\ r # PG!Db /\ r \in Writers
  BY <1>1, <1>2 DEF TaskOK, PlacesOf, Types
<1>4. writer[r].in_copy /\ Active(r)
  BY <1>1, <1>2, <1>3 DEF Active, TaskOK
<1>5. conn = "ok" => async = "copy_in" /\ Silent
  BY <1>1, <1>4, ActiveAlone DEF Stage
<1>6. LibpqLocal(r)
  BY <1>1, <1>2, LibpqUnchanged
<1>7. CASE conn # "ok" /\ PG!Exit(r)
  BY <1>1, <1>2, <1>6, <1>7, LostStage, ExitKeeps
<1>8. ASSUME conn = "ok", NEW at \in {"put", "put_flush"}, task' = [task EXCEPT ![r].at = at],
             running' \in {r, "none"}, UNCHANGED <<PG!flags, writer>>
      PROVE  DbIInv'
  <2>1. at \in Places /\ at \in PlacesOf(task[r].call)
    BY <1>3 DEF Places, PlacesOf
  <2>2. task'[r].at = at
    BY <1>2, <1>8, <2>1, Moved
  <2>3. Active(r)' /\ Stage(r)'
    BY <1>1, <1>3, <1>4, <1>5, <1>8, <2>2 DEF Active, Stage, Silent
  <2>4. ProtocolLocal(r)
    BY <1>4, <2>3, ActiveAlone DEF ProtocolLocal
  <2> QED BY <1>1, <1>2, <1>6, <1>8, <2>1, <2>4, MoveKeeps
<1>9. CASE /\ conn = "ok" /\ task[r].call = "row" /\ task' = [task EXCEPT ![r].at = "put_flush"]
           /\ writer' = [writer EXCEPT ![r].rows = @ + 1] /\ UNCHANGED <<running, PG!flags>>
  <2>1. /\ task' \in [Callers -> Tasks] /\ task'[r].call = "row" /\ task'[r].at = "put_flush"
        /\ \A s \in Callers : s # r => task'[s] = task[s]
    BY <1>2, <1>9, Moved DEF Places
  <2>2. /\ writer' \in [Writers -> WriterStates]
        /\ writer'[r].in_copy = writer[r].in_copy /\ writer'[r].end = writer[r].end
        /\ \A w \in Writers : w # r => writer'[w] = writer[w]
    <3>1. writer \in [Writers -> WriterStates] /\ r \in Writers
      BY <1>2, <1>3 DEF Types, WriterStates
    <3>2. writer' = [writer EXCEPT ![r].rows = writer[r].rows + 1]
      BY <1>9
    <3> QED BY <3>1, <3>2 DEF WriterStates
  <2>3. UNCHANGED <<copy_in_flight, operation_in_flight>>
    BY <1>9 DEF PG!flags
  <2>4. Types'
    BY <1>2, <1>3, <1>6, <2>1, <2>2, <2>3, TypesAfter DEF Types
  <2>5. StepOf(r)
    BY <1>1, <1>2, <1>9, <2>1, <2>2 DEF StepOf, Alone
  <2>6. TaskOK(r)'
    BY <1>3, <1>4, <2>1, <2>2 DEF TaskOK, PlacesOf
  <2>7. FlagsLocal(r)
    BY <1>3, <1>4, <2>2, <2>3 DEF FlagsLocal, Owns
  <2>8. WireLocal(r)
    BY <1>1, <2>2 DEF WireLocal, Tried
  <2>9. Active(r)' /\ Stage(r)'
    BY <1>1, <1>3, <1>4, <1>5, <1>9, <2>1, <2>2 DEF Active, Stage, Silent
  <2>10. ProtocolLocal(r)
    BY <1>4, <2>9, ActiveAlone DEF ProtocolLocal
  <2>11. WriterOK(r)'
    <3>1. writer[r].end = "none" /\ stored[r] = 0
      BY <1>2, <1>3, <1>4, <1>9 DEF WriterOK
    <3> QED BY <1>1, <2>1, <2>2, <3>1 DEF WriterOK
  <2> QED BY <1>3, <2>4, <2>5, <2>6, <2>7, <2>8, <2>10, <2>11, CallerStep
<1>10. PG!Invalid(r) => conn # "ok"
  BY <1>2 DEF PG!Invalid, TypeInv
<1> QED BY <1>1, <1>3, <1>5, <1>7, <1>8, <1>9, <1>10 DEF PG!Put, PG!Await

LEMMA PutEndKeeps ==
    ASSUME PgConstants, DbIInv, NEW r \in Callers, running = r, PG!PutEnd(r), UNCHANGED <<conn, valid>>
    PROVE  DbIInv'
<1>1. task[r].at = "end" /\ UNCHANGED <<wire, reply, stored>>
  BY DEF PG!PutEnd, PG!server
<1>2. /\ TaskOK(r) /\ TypeInv /\ Types /\ task[r] # PG!Idle
      /\ r = PG!Db => task[r].call = "query"
      /\ r # PG!Db => r \in Writers /\ task[r].call # "query" /\ WriterOK(r)
  BY <1>1, RunningCaller
<1>3. task[r].call \in {"finish", "abort"} /\ r # PG!Db /\ r \in Writers
  BY <1>1, <1>2 DEF TaskOK, PlacesOf, Types
<1>4. writer[r].in_copy /\ Active(r)
  BY <1>1, <1>2, <1>3 DEF Active, TaskOK
<1>5. conn = "ok" => async = "copy_in" /\ Silent
  BY <1>1, <1>4, ActiveAlone DEF Stage
<1>6. async' \in {async, "busy", "idle"} => LibpqLocal(r)
  BY <1>1, <1>2 DEF LibpqLocal, Types
<1>7. CASE conn # "ok" /\ PG!Exit(r) /\ UNCHANGED async
  BY <1>1, <1>2, <1>6, <1>7, LostStage, ExitKeeps
<1>8. ASSUME NEW at \in {"end", "end_flush"}, task' = [task EXCEPT ![r].at = at],
             running' \in {r, "none"}, UNCHANGED <<PG!flags, writer>>,
             async' = IF conn = "ok" /\ at = "end_flush" THEN "busy" ELSE async
      PROVE  DbIInv'
  <2>1. at \in Places /\ at \in PlacesOf(task[r].call)
    BY <1>3 DEF Places, PlacesOf
  <2>2. task'[r].at = at
    BY <1>2, <1>8, <2>1, Moved
  <2>3. conn = "ok" => Active(r)' /\ Stage(r)'
    BY <1>1, <1>3, <1>4, <1>5, <1>8, <2>2 DEF Active, Stage, Silent
  <2>4. ProtocolLocal(r)
    BY <1>4, <2>3, ActiveAlone DEF ProtocolLocal
  <2>5. LibpqLocal(r)
    BY <1>6, <1>8
  <2> QED BY <1>1, <1>2, <1>3, <1>8, <2>1, <2>4, <2>5, MoveKeeps
<1>9. CASE conn # "ok" /\ task[r].call = "finish" /\ PG!EndCopy(r, "failed") /\ async' = "idle"
  BY <1>1, <1>3, <1>6, <1>9, LostStage, EndKeeps
<1>10. PG!Invalid(r) => conn # "ok"
  BY <1>2 DEF PG!Invalid, TypeInv
<1> QED BY <1>1, <1>3, <1>5, <1>7, <1>8, <1>9, <1>10 DEF PG!PutEnd, PG!Await, PG!Continue

LEMMA ReadKeeps ==
    ASSUME PgConstants, DbIInv, NEW r \in Callers, running = r, PG!Read(r), UNCHANGED <<conn, valid>>
    PROVE  DbIInv'
<1>1. task[r].at = "read" /\ UNCHANGED <<async, PG!server>> /\ UNCHANGED <<wire, reply, stored>>
  BY DEF PG!Read, PG!server
<1>2. /\ TaskOK(r) /\ TypeInv /\ Types /\ task[r] # PG!Idle
      /\ r = PG!Db => task[r].call = "query"
      /\ r # PG!Db => r \in Writers /\ task[r].call # "query" /\ WriterOK(r)
  BY <1>1, RunningCaller
<1>3. task[r].call \in {"query", "start", "finish", "abort"}
  BY <1>1, <1>2 DEF TaskOK, PlacesOf, Types
<1>4. Active(r)
  BY <1>1 DEF Active, Commanding
<1>5. LibpqLocal(r)
  BY <1>1, <1>2, LibpqUnchanged
<1>6. CASE task[r].call = "abort" /\ ~valid /\ PG!Exit(r)
  <2>1. conn # "ok"
    BY <1>2, <1>6 DEF TypeInv
  <2> QED BY <1>1, <1>2, <1>5, <1>6, <2>1, LostStage, ExitKeeps
<1>7. ASSUME NEW at \in {"consume", "result"}, task' = [task EXCEPT ![r].at = at],
             running' \in {r, "none"}, at = "result" => running' = r, UNCHANGED <<PG!flags, writer>>,
             conn = "ok" => (at = "consume" <=> async = "busy")
      PROVE  DbIInv'
  <2>1. at \in Places /\ at \in PlacesOf(task[r].call)
    BY <1>3, <1>7 DEF Places, PlacesOf
  <2>2. task'[r].at = at /\ task'[r].call = task[r].call
    BY <1>2, <1>7, <2>1, Moved
  <2>3. conn = "ok" => Active(r)' /\ Stage(r)'
    <3> SUFFICES ASSUME conn = "ok" PROVE Active(r)' /\ Stage(r)'
      OBVIOUS
    <3>1. IF at = "consume" THEN async = "busy" /\ Pending(r) ELSE async \in Replies /\ Silent
      BY <1>1, <1>4, <1>7, ActiveAlone DEF Stage, Replies
    <3>2. Pending(r) => Pending(r)'
      BY <1>1, <1>7, <2>2 DEF Pending, PG!Command
    <3> QED BY <1>1, <1>7, <2>2, <3>1, <3>2 DEF Active, Commanding, Stage, Silent
  <2>4. ProtocolLocal(r)
    BY <1>4, <2>3, ActiveAlone DEF ProtocolLocal
  <2>5. task[r].call = "finish" /\ async' = "ok" => stored[r] = writer[r].rows
    BY <1>1, <1>2 DEF WriterOK
  <2>6. at \in {"send", "read", "result"} => running' = r
    BY <1>7
  <2>7. task[r].call = "start" =>
           (at \in {"put", "put_flush"} <=> task[r].at \in {"put", "put_flush"})
    BY <1>1, <1>7
  <2> QED BY <1>2, <1>5, <1>7, <2>1, <2>4, <2>5, <2>6, <2>7, MoveKeeps
<1> QED BY <1>1, <1>6, <1>7 DEF PG!Read, PG!Await, PG!Continue

LEMMA ConsumeKeeps ==
    ASSUME PgConstants, DbIInv, NEW r \in Callers, running = r, PG!Consume(r), UNCHANGED <<conn, valid>>
    PROVE  DbIInv'
<1>1. task[r].at = "consume" /\ UNCHANGED <<wire, stored>>
  BY DEF PG!Consume
<1>2. /\ TaskOK(r) /\ TypeInv /\ Types /\ task[r] # PG!Idle
      /\ r = PG!Db => task[r].call = "query"
      /\ r # PG!Db => r \in Writers /\ task[r].call # "query" /\ WriterOK(r)
  BY <1>1, RunningCaller
<1>3. task[r].call \in {"query", "start", "finish", "abort"}
  BY <1>1, <1>2 DEF TaskOK, PlacesOf, Types
<1>4. Active(r)
  BY <1>1 DEF Active, Commanding
<1>5. conn = "ok" => async = "busy" /\ Pending(r)
  BY <1>1, <1>4, ActiveAlone DEF Stage
<1>6. ASSUME conn # "ok", UNCHANGED <<async, reply>>, PG!Exit(r) PROVE DbIInv'
  <2>1. LibpqLocal(r)
    BY <1>1, <1>2, <1>6 DEF LibpqLocal, Types
  <2> QED BY <1>1, <1>2, <1>6, <2>1, LostStage, ExitKeeps
<1>7. ASSUME conn # "ok", UNCHANGED <<async, reply>>, task[r].call # "finish",
             NEW at \in {"read", "result"}, PG!Continue(r, at)
      PROVE  DbIInv'
  <2>1. LibpqLocal(r)
    BY <1>1, <1>2, <1>7 DEF LibpqLocal, Types
  <2>2. at \in Places /\ at \in PlacesOf(task[r].call)
    BY <1>3, <1>7 DEF Places, PlacesOf
  <2> QED BY <1>1, <1>2, <1>7, <2>1, <2>2, LostStage, MoveKeeps DEF PG!Continue
<1>8. ASSUME conn = "ok", PG!Continue(r, "read"),
             IF reply = "none" THEN UNCHANGED <<async, reply>> ELSE async' = reply /\ reply' = "none"
      PROVE  DbIInv'
  <2>1. LibpqLocal(r)
    BY <1>1, <1>2, <1>8 DEF LibpqLocal, Types
  <2>2. "read" \in Places /\ "read" \in PlacesOf(task[r].call)
    BY <1>3 DEF Places, PlacesOf
  <2>3. task'[r].at = "read" /\ task'[r].call = task[r].call /\ UNCHANGED writer
    BY <1>2, <1>8, <2>2, Moved DEF PG!Continue
  <2>4. Stage(r)'
    <3>1. CASE reply = "none"
      <4>1. Pending(r)'
        BY <1>1, <1>5, <1>8, <2>3, <3>1 DEF Pending, PG!Command
      <4> QED BY <1>5, <1>8, <2>3, <3>1, <4>1 DEF Stage
    <3>2. CASE reply # "none"
      <4>1. wire = PG!NoCommand /\ reply \in Replies
        BY <1>5, <1>8, <3>2 DEF Pending
      <4> QED BY <1>1, <1>8, <2>3, <3>2, <4>1 DEF Stage, Silent, Replies
    <3> QED BY <3>1, <3>2
  <2>5. ProtocolLocal(r)
    BY <1>4, <1>8, <2>3, <2>4, ActiveAlone DEF ProtocolLocal, Active, Commanding
  <2>6. task[r].call = "finish" /\ async' = "ok" => stored[r] = writer[r].rows
    BY <1>5, <1>8 DEF Pending
  <2> QED BY <1>1, <1>2, <1>8, <2>1, <2>2, <2>5, <2>6, MoveKeeps DEF PG!Continue
<1>9. ~valid => conn # "ok"
  BY <1>2 DEF TypeInv
<1> QED BY <1>1, <1>3, <1>6, <1>7, <1>8, <1>9 DEF PG!Consume

\* The drain ends the command of a caller that is through: libpq is idle.
LEMMA DrainedStage ==
    ASSUME DbIInv, NEW r \in Callers, task[r].at = "result",
           UNCHANGED <<wire, reply>>, async' = "idle", ~Active(r)'
    PROVE  ProtocolLocal(r)
<1> SUFFICES ASSUME conn = "ok" PROVE ProtocolLocal(r)
  BY DEF ProtocolLocal
<1>1. Active(r)
  BY DEF Active, Commanding
<1>2. Silent /\ \A s \in Callers : s # r => ~Active(s)
  BY <1>1, ActiveAlone DEF Stage
<1> QED BY <1>2 DEF ProtocolLocal, Silent, Quiet

LEMMA ResultKeeps ==
    ASSUME PgConstants, DbIInv, NEW r \in Callers, running = r, PG!Result(r), UNCHANGED <<conn, valid>>
    PROVE  DbIInv'
<1>1. task[r].at = "result" /\ UNCHANGED <<wire, reply, stored>>
  BY DEF PG!Result, PG!server
<1>2. /\ TaskOK(r) /\ TypeInv /\ Types /\ task[r] # PG!Idle
      /\ r = PG!Db => task[r].call = "query"
      /\ r # PG!Db => r \in Writers /\ task[r].call # "query" /\ WriterOK(r)
  BY <1>1, RunningCaller
<1>3. task[r].call \in {"query", "start", "finish", "abort"}
  BY <1>1, <1>2 DEF TaskOK, PlacesOf, Types
<1>4. Active(r)
  BY <1>1 DEF Active, Commanding
<1>5. async' \in {async, "idle"} => LibpqLocal(r)
  BY <1>1, <1>2 DEF LibpqLocal, Types
<1>6. CASE /\ task[r].call = "start" /\ async = "copy_in" /\ conn = "ok"
           /\ task' = [task EXCEPT ![r].at = "put"]
           /\ writer' = [writer EXCEPT ![r].in_copy = TRUE]
           /\ UNCHANGED <<running, PG!flags, async>>
  <2>0. r # PG!Db /\ r \in Writers /\ WriterOK(r)
    BY <1>2, <1>6
  <2>1. /\ task' \in [Callers -> Tasks] /\ task'[r].call = "start" /\ task'[r].at = "put"
        /\ \A s \in Callers : s # r => task'[s] = task[s]
    BY <1>2, <1>6, Moved DEF Places
  <2>2. /\ writer' \in [Writers -> WriterStates] /\ writer'[r].in_copy = TRUE
        /\ writer'[r].rows = writer[r].rows /\ writer'[r].end = writer[r].end
        /\ \A w \in Writers : w # r => writer'[w] = writer[w]
    BY <1>2, <1>6, <2>0 DEF Types, WriterStates
  <2>3. UNCHANGED <<copy_in_flight, operation_in_flight>>
    BY <1>6 DEF PG!flags
  <2>4. Types' /\ LibpqLocal(r)
    BY <1>2, <1>5, <1>6, <2>1, <2>2, <2>3, TypesAfter DEF Types
  <2>5. StepOf(r)
    BY <1>1, <1>2, <1>6, <2>1, <2>2 DEF StepOf, Alone
  <2>6. TaskOK(r)'
    BY <2>0, <2>1, <2>2 DEF TaskOK, PlacesOf
  <2>7. FlagsLocal(r)
    BY <1>6, <2>0, <2>1, <2>3 DEF FlagsLocal, Owns
  <2>8. WireLocal(r)
    BY <1>1, <2>2 DEF WireLocal, Tried
  <2>9. Silent /\ \A s \in Callers : s # r => ~Active(s)
    BY <1>1, <1>4, <1>6, ActiveAlone DEF Stage
  <2>10. ProtocolLocal(r)
    BY <1>1, <1>6, <2>0, <2>1, <2>2, <2>9 DEF ProtocolLocal, Active, Commanding, Stage, Silent
  <2>11. WriterOK(r)'
    BY <1>1, <1>6, <2>0, <2>1, <2>2 DEF WriterOK
  <2> QED BY <2>0, <2>4, <2>5, <2>6, <2>7, <2>8, <2>10, <2>11, CallerStep
<1>7. CASE /\ async' = "idle" /\ task[r].call = "finish"
           /\ PG!EndCopy(r, IF async = "ok" THEN "ok" ELSE "failed")
  <2> DEFINE end == IF async = "ok" THEN "ok" ELSE "failed"
  <2>1. r \in Writers /\ WriterOK(r) /\ end \in {"failed", "ok"} /\ PG!EndCopy(r, end)
    BY <1>2, <1>7
  <2>2. end = "ok" => stored[r] = writer[r].rows
    BY <1>1, <1>7, <2>1 DEF WriterOK
  <2> HIDE DEF end
  <2>3. ~Active(r)'
    <3>1. task'[r] = PG!Idle /\ writer'[r].in_copy = FALSE
      BY <1>2, <2>1, CopyEnded
    <3> QED BY <3>1 DEF Active, Commanding, PG!Idle
  <2>4. ProtocolLocal(r)
    BY <1>1, <1>7, <2>3, DrainedStage
  <2> QED BY <1>1, <1>5, <1>7, <2>1, <2>2, <2>4, EndKeeps
<1>8. CASE async' = "idle" /\ task[r].call # "finish" /\ PG!Exit(r)
  <2>1. ~Active(r)'
    BY <1>1, <1>2, <1>3, <1>8, ExitActive DEF TaskOK
  <2>2. ProtocolLocal(r)
    BY <1>1, <1>8, <2>1, DrainedStage
  <2> QED BY <1>1, <1>2, <1>5, <1>8, <2>2, ExitKeeps
<1> QED BY <1>6, <1>7, <1>8 DEF PG!Result

LEMMA StepKeeps ==
    ASSUME PgConstants, DbIInv, NEW r \in Callers, PG!Step(r)
    PROVE  DbIInv'
  BY SendQueryKeeps, FlushKeeps, PutKeeps, PutEndKeeps, ReadKeeps, ConsumeKeeps, ResultKeeps
     DEF PG!Step

-----------------------------------------------------------------------------
(***************************************************************************)
(* The calls.                                                              *)
(***************************************************************************)
\* A caller of which libpq sees nothing.
LEMMA SameStage ==
    ASSUME TypeInv, DbIInv, NEW r \in Callers, task'[r] = task[r],
           r # PG!Db => /\ writer'[r].in_copy = writer[r].in_copy
                        /\ writer'[r].rows = writer[r].rows,
           UNCHANGED <<async, wire, reply, stored>>
    PROVE  ProtocolLocal(r)
<1> SUFFICES ASSUME conn = "ok" PROVE ProtocolLocal(r)
  BY DEF ProtocolLocal
<1>1. Active(r)' <=> Active(r)
  BY DEF Active, Commanding
<1>2. CASE ~Active(r)
  BY <1>1, <1>2 DEF ProtocolLocal
<1>3. CASE Active(r)
  <2>1. Stage(r) /\ \A s \in Callers : s # r => ~Active(s)
    BY <1>3, ActiveAlone
  <2>2. task[r].call = "finish" => r # PG!Db
    BY DEF TypeInv, TaskOK, PG!Idle
  <2>3. Pending(r) => Pending(r)'
    BY <2>2 DEF Pending, PG!Command
  <2>4. Stage(r)'
    BY <2>1, <2>3 DEF Stage, Silent
  <2> QED BY <1>1, <1>3, <2>1, <2>4 DEF ProtocolLocal
<1> QED BY <1>2, <1>3

LEMMA QueryKeeps ==
    ASSUME PgConstants, DbIInv, PG!Query
    PROVE  DbIInv'
<1>1. PG!Db \in Callers /\ TypeInv /\ Types /\ task[PG!Db] = PG!Idle /\ conn = "ok"
  BY DEF Callers, DbIInv, TypeInv, PG!Query, PG!IsConnected
<1>2. /\ task' = [task EXCEPT ![PG!Db] = PG!Run("query", "send")] /\ running = "none" /\ running' = PG!Db
      /\ UNCHANGED <<conn, valid, copy_in_flight, writer, async, wire, reply, stored>>
      /\ operation_in_flight' = TRUE
  BY DEF PG!Query, PG!server
<1>3. /\ task' \in [Callers -> Tasks] /\ task'[PG!Db].call = "query" /\ task'[PG!Db].at = "send"
      /\ \A s \in Callers : s # PG!Db => task'[s] = task[s]
  BY <1>1, <1>2 DEF Types, Tasks, Places, PG!Run
<1>4. task'[PG!Db] # PG!Idle
  BY <1>3 DEF PG!Idle
<1>5. Types'
  BY <1>1, <1>2, <1>3 DEF Types, Tasks
<1>6. StepOf(PG!Db)
  BY <1>1, <1>2, <1>3 DEF StepOf, Alone
<1>7. TaskOK(PG!Db)'
  BY <1>2, <1>3, <1>4 DEF TaskOK, PlacesOf
<1>8. FlagsLocal(PG!Db)
  BY <1>2, <1>4 DEF FlagsLocal
<1>9. ProtocolLocal(PG!Db)
  BY <1>1, <1>2, <1>3 DEF ProtocolLocal, Active, Commanding, PG!Idle
<1>10. WireLocal(PG!Db)
  BY <1>2 DEF WireLocal
<1> QED BY <1>1, <1>5, <1>6, <1>7, <1>8, <1>9, <1>10, CallerStep

LEMMA BeginCopyKeeps ==
    ASSUME PgConstants, DbIInv, NEW w \in Writers, PG!BeginCopy(w)
    PROVE  DbIInv'
<1>1. /\ w \in Callers /\ w # PG!Db /\ TypeInv /\ Types /\ TaskOK(w) /\ WriterOK(w) /\ conn = "ok"
  BY DEF Callers, DbIInv, TypeInv, Atomicity, PG!BeginCopy, PG!IsConnected, PgConstants
<1>2. /\ writer' = [writer EXCEPT ![w].made = TRUE] /\ running = "none"
      /\ UNCHANGED <<conn, valid, copy_in_flight, operation_in_flight, task, running, async,
                     wire, reply, stored>>
  BY DEF PG!BeginCopy, PG!server, PG!flags
<1>3. /\ writer' \in [Writers -> WriterStates]
      /\ writer'[w].in_copy = writer[w].in_copy /\ writer'[w].rows = writer[w].rows
      /\ writer'[w].end = writer[w].end
      /\ \A v \in Writers : v # w => writer'[v] = writer[v]
  BY <1>1, <1>2 DEF Types, WriterStates
<1>4. Types'
  BY <1>1, <1>2, <1>3 DEF Types, WriterStates
<1>5. StepOf(w)
  BY <1>1, <1>2, <1>3 DEF StepOf, Alone
<1>6. TaskOK(w)'
  BY <1>1, <1>2, <1>3 DEF TaskOK
<1>7. FlagsLocal(w)
  BY <1>1, <1>2, <1>3 DEF FlagsLocal, Owns
<1>8. ProtocolLocal(w)
  BY <1>1, <1>2, <1>3, SameStage
<1>9. WireLocal(w) /\ WriterOK(w)'
  BY <1>1, <1>2, <1>3 DEF WireLocal, Tried, WriterOK
<1> QED BY <1>1, <1>4, <1>5, <1>6, <1>7, <1>8, <1>9, CallerStep

\* A call of a copy writer begins.
FirstPlace(call) ==
    CASE call = "start" -> "send" [] call \in {"row", "finish"} -> "put" [] OTHER -> "end"

LEMMA BeginKeeps ==
    ASSUME PgConstants, DbIInv, NEW w \in Writers, NEW call \in {"start", "row", "finish", "abort"},
           PG!Begin(w, call, FirstPlace(call)), valid, writer[w].in_copy <=> call # "start",
           IF call = "start" THEN ~copy_in_flight /\ copy_in_flight' = TRUE /\ writer[w].end = "none"
           ELSE UNCHANGED copy_in_flight,
           NEW end, writer' = [writer EXCEPT ![w].end = end],
           end = CASE call = "finish" -> "failed"
                   [] call = "abort" /\ writer[w].end = "none" -> "aborted"
                   [] OTHER -> writer[w].end
    PROVE  DbIInv'
<1>1. /\ w \in Callers /\ w # PG!Db /\ TypeInv /\ Types /\ WriterOK(w)
  BY DEF Callers, DbIInv, TypeInv, Atomicity, PgConstants
<1>2. /\ task[w] = PG!Idle /\ task' = [task EXCEPT ![w] = PG!Run(call, FirstPlace(call))]
      /\ running = "none" /\ running' = w
      /\ UNCHANGED <<conn, valid, operation_in_flight, async, wire, reply, stored>>
  BY DEF PG!Begin, PG!server
<1>3. /\ task' \in [Callers -> Tasks] /\ task'[w].call = call /\ task'[w].at = FirstPlace(call)
      /\ \A s \in Callers : s # w => task'[s] = task[s]
  BY <1>1, <1>2 DEF Types, Tasks, Places, PG!Run, FirstPlace
<1>4. /\ writer' \in [Writers -> WriterStates]
      /\ writer'[w].in_copy = writer[w].in_copy /\ writer'[w].rows = writer[w].rows
      /\ \A v \in Writers : v # w => writer'[v] = writer[v]
      /\ writer'[w].end = end
  BY <1>1 DEF Types, WriterStates
<1>5. Types'
  <2>1. copy_in_flight' \in BOOLEAN
    BY <1>1 DEF Types
  <2> QED BY <1>1, <1>2, <1>3, <1>4, <2>1 DEF Types, Tasks, WriterStates
<1>6. StepOf(w)
  BY <1>1, <1>2, <1>3, <1>4 DEF StepOf, Alone, TypeInv, WriterOK
<1>7. TaskOK(w)'
  BY <1>1, <1>2, <1>3, <1>4 DEF TaskOK, PlacesOf, FirstPlace
<1>8. ProtocolLocal(w)
  <2>1. CASE call = "start"
    BY <1>1, <1>2, <1>3, <1>4, <2>1 DEF ProtocolLocal, Active, Commanding, PG!Idle, FirstPlace
  <2>2. CASE call # "start"
    <3>1. Active(w) /\ Active(w)' /\ FirstPlace(call) \in {"put", "end"}
      BY <1>1, <1>4, <2>2 DEF Active, FirstPlace
    <3>2. conn = "ok" => async = "copy_in" /\ Silent
      BY <1>1, <1>2, <3>1, ActiveAlone DEF Stage, PG!Idle
    <3>3. conn = "ok" => Stage(w)'
      BY <1>2, <1>3, <3>1, <3>2 DEF Stage, Silent
    <3> QED BY <1>1, <3>1, <3>3, ActiveAlone DEF ProtocolLocal
  <2> QED BY <2>1, <2>2
<1>9. FlagsLocal(w)
  BY <1>1, <1>2, <1>3, <1>4 DEF FlagsLocal, Owns, PG!Idle
<1>10. WireLocal(w)
  BY <1>1, <1>2, <1>4 DEF WireLocal, Tried
<1>11. WriterOK(w)'
  BY <1>1, <1>2, <1>3, <1>4 DEF WriterOK, PG!Idle, FirstPlace
<1> QED BY <1>1, <1>5, <1>6, <1>7, <1>8, <1>9, <1>10, <1>11, CallerStep

LEMMA CallKeeps ==
    ASSUME PgConstants, DbIInv, NEW w \in Writers,
           PG!Start(w) \/ PG!WriteRow(w) \/ PG!Finish(w) \/ PG!Abort(w)
    PROVE  DbIInv'
<1>1. writer = [writer EXCEPT ![w].end = writer[w].end]
  BY DEF DbIInv, TypeInv, Types
<1>2. /\ FirstPlace("start") = "send" /\ FirstPlace("row") = "put"
      /\ FirstPlace("finish") = "put" /\ FirstPlace("abort") = "end"
  BY DEF FirstPlace
<1>3. CASE PG!Start(w)
  <2>1. /\ PG!Begin(w, "start", FirstPlace("start")) /\ valid /\ ~writer[w].in_copy
        /\ ~copy_in_flight /\ copy_in_flight' = TRUE /\ writer[w].end = "none"
        /\ writer' = [writer EXCEPT ![w].end = writer[w].end]
    BY <1>1, <1>2, <1>3 DEF PG!Start
  <2> QED BY <2>1, BeginKeeps
<1>4. CASE PG!WriteRow(w)
  <2>1. /\ PG!Begin(w, "row", FirstPlace("row")) /\ valid /\ writer[w].in_copy
        /\ UNCHANGED copy_in_flight
        /\ writer' = [writer EXCEPT ![w].end = writer[w].end]
    BY <1>1, <1>2, <1>4 DEF PG!WriteRow
  <2> QED BY <2>1, BeginKeeps
<1>5. CASE PG!Finish(w)
  <2>1. /\ PG!Begin(w, "finish", FirstPlace("finish")) /\ valid /\ writer[w].in_copy
        /\ UNCHANGED copy_in_flight
        /\ writer' = [writer EXCEPT ![w].end = "failed"]
    BY <1>2, <1>5 DEF PG!Finish
  <2> QED BY <2>1, BeginKeeps
<1>6. CASE PG!Abort(w)
  <2> DEFINE end == IF writer[w].end = "none" THEN "aborted" ELSE writer[w].end
  <2>1. /\ PG!Begin(w, "abort", FirstPlace("abort")) /\ valid /\ writer[w].in_copy
        /\ UNCHANGED copy_in_flight
        /\ writer' = [writer EXCEPT ![w].end = end]
    BY <1>2, <1>6 DEF PG!Abort
  <2>2. end = CASE "abort" = "finish" -> "failed"
                [] "abort" = "abort" /\ writer[w].end = "none" -> "aborted"
                [] OTHER -> writer[w].end
    OBVIOUS
  <2> HIDE DEF end
  <2> QED BY <2>1, <2>2, BeginKeeps
<1> QED BY <1>3, <1>4, <1>5, <1>6

LEMMA DestroyWriterKeeps ==
    ASSUME PgConstants, DbIInv, NEW w \in Writers, PG!DestroyWriter(w)
    PROVE  DbIInv'
<1>1. /\ w \in Callers /\ w # PG!Db /\ TypeInv /\ Types /\ WriterOK(w) /\ task[w] = PG!Idle
      /\ running = "none" /\ conn # "none"
  BY Connected DEF Callers, DbIInv, TypeInv, Atomicity, PG!DestroyWriter, PgConstants
<1>2. UNCHANGED <<conn, valid, operation_in_flight, task, running, wire, reply, stored>>
  BY DEF PG!DestroyWriter, PG!server
<1> DEFINE Discarded(end) ==
        writer' = [writer EXCEPT ![w].made = FALSE, ![w].in_copy = FALSE, ![w].end = end]
<1>3. \/ /\ ~(writer[w].in_copy /\ valid)
         /\ UNCHANGED <<copy_in_flight, async>> /\ Discarded(PG!GivenUp(w))
      \/ /\ writer[w].in_copy /\ copy_in_flight' = FALSE /\ async' = "idle"
         /\ Discarded(PG!GivenUp(w))
      \/ /\ writer[w].in_copy /\ copy_in_flight' = FALSE /\ UNCHANGED async
         /\ conn = "ok" /\ async = "copy_in" /\ Discarded("abandoned")
  BY DEF PG!DestroyWriter, PG!EndCopyBlocking, PG!Discard
<1>d. ASSUME NEW end \in {"none", "failed", "aborted", "abandoned", "ok"}, Discarded(end)
      PROVE  /\ writer' \in [Writers -> WriterStates]
             /\ writer'[w].in_copy = FALSE /\ writer'[w].rows = writer[w].rows
             /\ writer'[w].end = end
             /\ \A v \in Writers : v # w => writer'[v] = writer[v]
  BY <1>1, <1>d DEF Types, WriterStates
<1>e. PG!GivenUp(w) \in {"none", "failed", "aborted", "abandoned", "ok"}
  BY <1>1 DEF Types, PG!GivenUp
<1> HIDE DEF Discarded
<1>a. /\ writer' \in [Writers -> WriterStates]
      /\ writer'[w].in_copy = FALSE /\ writer'[w].rows = writer[w].rows
      /\ \A v \in Writers : v # w => writer'[v] = writer[v]
  BY <1>3, <1>d, <1>e
<1>b. \/ writer'[w].end = IF writer[w].end = "none" THEN "aborted" ELSE writer[w].end
      \/ writer'[w].end = "abandoned" /\ writer[w].in_copy /\ conn = "ok"
  BY <1>3, <1>d, <1>e DEF PG!GivenUp
<1>c. writer'[w].end = "abandoned" /\ writer[w].in_copy /\ conn = "ok" => stored[w] = 0
  BY <1>1 DEF WriterOK, PG!Idle
<1>5. Types'
  <2>1. copy_in_flight' \in BOOLEAN /\ async' \in {"idle", "busy", "copy_in", "ok", "error"}
    BY <1>1, <1>3 DEF Types
  <2> QED BY <1>1, <1>2, <1>a, <2>1 DEF Types, WriterStates
<1>6. StepOf(w)
  BY <1>1, <1>2, <1>a, <1>b DEF StepOf, Alone
<1>7. TaskOK(w)'
  BY <1>1, <1>2, <1>a DEF TaskOK, PG!Idle, PlacesOf
<1>8. FlagsLocal(w)
  <2>1. ~Owns(w)'
    BY <1>1, <1>2, <1>a DEF Owns, PG!Idle
  <2>2. writer[w].in_copy => Owns(w)
    BY DEF Owns
  <2>3. ~writer[w].in_copy => ~Owns(w)
    BY <1>1 DEF Owns, PG!Idle
  <2> QED BY <1>1, <1>2, <1>3, <2>1, <2>2, <2>3 DEF FlagsLocal
<1>9. ProtocolLocal(w)
  <2> SUFFICES ASSUME conn = "ok" PROVE ProtocolLocal(w)
    BY DEF ProtocolLocal
  <2>1. ~Active(w)' /\ valid
    BY <1>1, <1>2, <1>a DEF Active, Commanding, PG!Idle, TypeInv
  <2>2. CASE writer[w].in_copy
    <3>1. Active(w)
      BY <1>1, <2>2 DEF Active
    <3>2. Silent /\ Silent' /\ \A s \in Callers : s # w => ~Active(s)
      BY <1>1, <1>2, <3>1, ActiveAlone DEF Stage, PG!Idle, Silent
    <3>3. async' = "idle" \/ (async' = "copy_in" /\ writer'[w].end = "abandoned")
      BY <1>3, <1>d, <2>1, <2>2
    <3> QED BY <2>1, <3>2, <3>3 DEF ProtocolLocal, Quiet, Abandoned
  <2>3. CASE ~writer[w].in_copy
    <3>1. ~Active(w)
      BY <1>1, <2>3 DEF Active, Commanding, PG!Idle
    <3> QED BY <1>2, <1>3, <2>1, <2>3, <3>1 DEF ProtocolLocal
  <2> QED BY <2>2, <2>3
<1>10. WireLocal(w)
  <2>1. Tried(w) => Tried(w)'
    BY <1>1, <1>b DEF Tried, WriterOK, PG!Idle
  <2> QED BY <1>2, <2>1 DEF WireLocal
<1>11. WriterOK(w)'
  BY <1>1, <1>2, <1>a, <1>b, <1>c DEF WriterOK, PG!Idle
<1> QED BY <1>1, <1>5, <1>6, <1>7, <1>8, <1>9, <1>10, <1>11, CallerStep

LEMMA WakeKeeps ==
    ASSUME PgConstants, DbIInv, NEW r \in Callers, PG!Resume(r)
    PROVE  DbIInv'
<1>1. /\ TypeInv /\ Types /\ TaskOK(r) /\ (r # PG!Db => WriterOK(r))
      /\ running = "none" /\ running' = r /\ conn # "none"
  BY Connected DEF Callers, DbIInv, TypeInv, Atomicity, PG!Resume
<1>2. UNCHANGED <<conn, valid, copy_in_flight, operation_in_flight, writer, task, async, wire,
                  reply, stored>>
  BY DEF PG!Resume, PG!server, PG!flags
<1>3. Types' /\ StepOf(r) /\ TaskOK(r)'
  BY <1>1, <1>2 DEF Types, StepOf, Alone, TaskOK
<1>4. FlagsLocal(r)
  BY <1>2 DEF FlagsLocal, Owns, DbIInv, Ownership
<1>5. ProtocolLocal(r)
  BY <1>1, <1>2, SameStage
<1>6. WireLocal(r) /\ (r # PG!Db => WriterOK(r)')
  BY <1>1, <1>2 DEF WireLocal, Tried, WriterOK
<1> QED BY <1>3, <1>4, <1>5, <1>6, CallerStep

-----------------------------------------------------------------------------
(***************************************************************************)
(* The connection and the server.                                          *)
(***************************************************************************)
LEMMA ConnectKeeps ==
    ASSUME PgConstants, DbIInv, PG!Connect
    PROVE  DbIInv'
<1>1. /\ conn = "none" /\ conn' = "ok" /\ valid' = TRUE
      /\ UNCHANGED <<copy_in_flight, operation_in_flight, writer, task, running, async, wire,
                     reply, stored>>
  BY DEF PG!Connect, PG!flags, PG!server
<1>2. /\ \A r \in Callers : task[r] = PG!Idle
      /\ \A w \in Writers : ~writer[w].in_copy
      /\ ~copy_in_flight /\ async = "idle" /\ Silent
  BY <1>1 DEF DbIInv, Unconnected
<1>3. TypeInv'
  BY <1>1 DEF DbIInv, TypeInv, Types, TaskOK
<1>4. Ownership'
  BY <1>1, <1>2 DEF DbIInv, Ownership, Owns
<1>5. \A r \in Callers : ~Active(r)'
  BY <1>1, <1>2 DEF Active, Commanding, PG!Idle, Callers
<1>6. Protocol'
  BY <1>1, <1>2, <1>5 DEF Protocol, Silent, Quiet
<1>7. Atomicity'
  BY <1>1, <1>2 DEF DbIInv, Atomicity, WriterOK, Tried, Callers
<1> QED BY <1>1, <1>3, <1>4, <1>6, <1>7 DEF DbIInv, Unconnected

\* Losing or freeing the connection leaves less to keep.
LEMMA LossKeeps ==
    ASSUME PgConstants, DbIInv, PG!Lose \/ PG!DestroyDatabase
    PROVE  DbIInv'
<1>1. /\ conn \in {"ok", "bad"} /\ conn' \in {"bad", "freed"}
      /\ IF conn' = "bad" THEN UNCHANGED valid ELSE valid' = FALSE
      /\ UNCHANGED <<copy_in_flight, operation_in_flight, writer, task, running, async, wire,
                     reply, stored>>
  BY DEF PG!Lose, PG!DestroyDatabase, PG!flags, PG!server
<1>2. TypeInv'
  BY <1>1 DEF DbIInv, TypeInv, Types, TaskOK
<1>3. Ownership'
  BY <1>1 DEF DbIInv, TypeInv, Ownership, Owns
<1>4. Protocol'
  BY <1>1 DEF Protocol
<1>5. Atomicity'
  BY <1>1 DEF DbIInv, Atomicity, WriterOK, Tried
<1> QED BY <1>1, <1>2, <1>3, <1>4, <1>5 DEF DbIInv, Unconnected

LEMMA ServeKeeps ==
    ASSUME PgConstants, DbIInv, PG!Serve
    PROVE  DbIInv'
<1>1. /\ wire.cmd # "none" /\ reply = "none" /\ reply' \in Replies /\ wire' = PG!NoCommand
      /\ UNCHANGED <<conn, valid, copy_in_flight, operation_in_flight, writer, task, running,
                     async>>
      /\ stored' = IF wire.cmd = "end" /\ reply' = "ok"
                   THEN [stored EXCEPT ![wire.by] = writer[wire.by].rows] ELSE stored
  BY DEF PG!Serve, PG!flags, Replies
<1>2. TypeInv /\ Types
  BY DEF DbIInv, TypeInv
<1>3. wire.cmd = "end" => wire.by \in Writers /\ Tried(wire.by)
  BY <1>2 DEF DbIInv, Atomicity, Types, Callers
<1>4. conn # "none"
  BY <1>1 DEF DbIInv, Unconnected, Silent, PG!NoCommand
<1>5. TypeInv'
  <2>1. stored' \in [Writers -> Nat]
    BY <1>1, <1>2, <1>3 DEF Types
  <2>2. wire' \in [cmd : {"none", "query", "copy", "fail", "end"}, by : Callers]
    BY <1>1 DEF PG!NoCommand, Callers
  <2>3. Types'
    BY <1>1, <1>2, <2>1, <2>2 DEF Types, Replies
  <2> QED BY <1>1, <1>2, <2>3 DEF TypeInv, TaskOK
<1>6. Ownership'
  BY <1>1 DEF DbIInv, Ownership, Owns
<1>7. Protocol'
  <2> SUFFICES ASSUME conn = "ok" PROVE Protocol'
    BY <1>1 DEF Protocol
  <2>1. ~Silent
    BY <1>1 DEF Silent, PG!NoCommand
  <2>2. \A r \in Callers : Active(r)' <=> Active(r)
    BY <1>1 DEF Active, Commanding
  <2>3. ASSUME NEW r \in Callers, Active(r) PROVE Stage(r)'
    <3>1. Stage(r) /\ TaskOK(r)
      BY <1>2, <2>3, ActiveAlone DEF TypeInv
    <3>2. task[r].at \in {"read", "consume"} /\ async = "busy" /\ Pending(r)
      BY <2>1, <3>1 DEF Stage
    <3>3. wire = [cmd |-> PG!Command(r), by |-> r]
      BY <1>1, <3>2 DEF Pending, PG!NoCommand
    <3>4. task[r].call = "finish" /\ reply' = "ok" => stored'[r] = writer'[r].rows
      <4> SUFFICES ASSUME task[r].call = "finish", reply' = "ok"
                   PROVE  stored'[r] = writer'[r].rows
        OBVIOUS
      <4>1. wire.cmd = "end" /\ wire.by = r /\ r \in Writers
        BY <1>3, <3>3 DEF PG!Command
      <4> QED BY <1>1, <1>2, <4>1 DEF Types
    <3>5. Pending(r)'
      BY <1>1, <3>4 DEF Pending
    <3> QED BY <1>1, <3>2, <3>5 DEF Stage
  <2>4. \E r \in Callers : Active(r)
    BY <2>1 DEF DbIInv, Protocol, Quiet
  <2> QED BY <2>2, <2>3, <2>4 DEF DbIInv, Protocol
<1>8. Atomicity'
  <2>1. ASSUME NEW w \in Writers PROVE WriterOK(w)'
    <3>1. WriterOK(w)
      BY DEF DbIInv, Atomicity
    <3>2. CASE stored'[w] = stored[w]
      BY <1>1, <3>1, <3>2 DEF WriterOK
    <3>3. CASE stored'[w] # stored[w]
      <4>1. wire.by = w /\ wire.cmd = "end" /\ stored'[w] = writer[w].rows
        BY <1>1, <1>2, <3>3 DEF Types
      <4>2. writer[w].end \in {"failed", "ok"}
        BY <1>3, <4>1 DEF Tried
      <4> QED BY <1>1, <3>1, <4>1, <4>2 DEF WriterOK
    <3> QED BY <3>2, <3>3
  <2> QED BY <1>1, <2>1 DEF Atomicity, PG!NoCommand
<1> QED BY <1>1, <1>4, <1>5, <1>6, <1>7, <1>8 DEF DbIInv, Unconnected

-----------------------------------------------------------------------------
LEMMA DbInitEstablishes ==
    ASSUME PgConstants, PG!Init
    PROVE  DbIInv
<1>1. /\ \A r \in Callers : task[r] = PG!Idle
      /\ \A w \in Writers : /\ ~writer[w].made /\ ~writer[w].in_copy
                            /\ writer[w].end = "none" /\ writer[w].rows = 0 /\ stored[w] = 0
      /\ async = "idle" /\ Silent
  BY DEF PG!Init, Callers, Silent
<1>2. TypeInv
  <2>1. Types
    BY DEF PG!Init, Types, Callers, PG!Idle, PG!NoCommand, Places
  <2> QED BY <1>1, <2>1 DEF PG!Init, TypeInv, TaskOK, PlacesOf, PG!Idle
<1>3. Ownership
  BY <1>1 DEF PG!Init, Ownership, Owns, PG!Idle, Callers
<1>4. Protocol /\ Unconnected
  BY <1>1 DEF PG!Init, Protocol, Quiet, Unconnected
<1>5. Atomicity
  BY <1>1 DEF Atomicity, WriterOK, PG!Idle, Callers, Silent, PG!NoCommand
<1> QED BY <1>2, <1>3, <1>4, <1>5 DEF DbIInv

LEMMA DbNextKeeps ==
    ASSUME PgConstants, DbIInv, [PG!Next]_(PG!vars)
    PROVE  DbIInv'
<1>1. CASE UNCHANGED PG!vars
  BY <1>1 DEF PG!vars, PG!flags, PG!server, DbIInv, TypeInv, Types, TaskOK, Ownership, Owns, Protocol,
         Active, Commanding, Stage, Pending, PG!Command, Silent, Quiet, Abandoned, Atomicity, WriterOK, Tried, Unconnected
<1>2. ASSUME NEW w \in Writers,
             \/ PG!BeginCopy(w) \/ PG!Start(w) \/ PG!WriteRow(w)
             \/ PG!Finish(w) \/ PG!Abort(w) \/ PG!DestroyWriter(w)
      PROVE  DbIInv'
  BY <1>2, BeginCopyKeeps, CallKeeps, DestroyWriterKeeps
<1>3. ASSUME NEW r \in Callers, PG!Step(r) \/ PG!Resume(r) PROVE DbIInv'
  BY <1>3, StepKeeps, WakeKeeps
<1> QED BY <1>1, <1>2, <1>3, ConnectKeeps, QueryKeeps, LossKeeps, ServeKeeps DEF PG!Next, Callers

LEMMA Invariance ==
    ASSUME PgConstants
    PROVE  PG!Spec => []DbIInv
<1>1. PG!Init => DbIInv
  BY DbInitEstablishes
<1>2. DbIInv /\ [PG!Next]_(PG!vars) => DbIInv'
  BY DbNextKeeps
<1> QED BY <1>1, <1>2, PTL DEF PG!Spec

\* The connection never stays taken: one that no flag marks as in use is idle
\* and has nothing outstanding, unless a writer was destroyed in the middle of
\* a copy that it could not end; and a flag that is set has an owner that
\* clears it.
THEOREM ConnectionStaysUsable ==
    ASSUME PgConstants
    PROVE  PG!Spec => []PG!ConnectionUsable
<1>1. DbIInv => PG!ConnectionUsable
  <2> SUFFICES ASSUME DbIInv PROVE PG!ConnectionUsable
    OBVIOUS
  <2>1. ASSUME PG!IsConnected, PG!NoOperationInFlight PROVE Quiet
    <3>1. task[PG!Db] = PG!Idle /\ \A w \in Writers : ~Owns(w)
      BY <2>1 DEF DbIInv, Ownership, PG!NoOperationInFlight
    <3>2. ASSUME NEW r \in Callers PROVE ~Active(r)
      <4>1. CASE r = PG!Db
        BY <3>1, <4>1 DEF Active, Commanding, PG!Idle
      <4>2. CASE r # PG!Db
        <5>1. TaskOK(r) /\ task[r].call \notin {"start", "query"} /\ ~writer[r].in_copy /\ Types
          BY <3>1, <4>2 DEF Callers, Owns, DbIInv, TypeInv, TaskOK
        <5>2. task[r].call = "none" /\ task[r].at = "none"
          BY <4>2, <5>1 DEF TaskOK, Types, PlacesOf
        <5> QED BY <5>1, <5>2 DEF Active, Commanding
      <4> QED BY <4>1, <4>2
    <3> QED BY <2>1, <3>2 DEF DbIInv, Protocol, PG!IsConnected
  <2> QED BY <2>1 DEF PG!ConnectionUsable, DbIInv, Ownership, Owns, Silent, Quiet, Abandoned
<1> QED BY <1>1, Invariance, PTL

\* A copy is committed with all its rows or not at all, and one that finish()
\* reports as written is committed.
THEOREM CopiesAtomic ==
    ASSUME PgConstants
    PROVE  PG!Spec => []PG!CopyAtomic
<1>1. DbIInv => PG!CopyAtomic
  BY DEF DbIInv, Atomicity, WriterOK, PG!CopyAtomic
<1> QED BY <1>1, Invariance, PTL

-----------------------------------------------------------------------------
\* After the database is gone nobody stands before a call of libpq that does
\* not look at state_->valid first, but for the consumeInput() of a start() or
\* finish().
Settled ==
    /\ PG!FreedUseConfined
    /\ conn = "freed" => /\ task[PG!Db] = PG!Idle
                         /\ \A r \in Writers : task[r].at \notin {"send", "read", "result"}

LEMMA SettledKept ==
    ASSUME PgConstants, TypeInv, Settled, [PG!Next]_(PG!vars)
    PROVE  Settled'
<1>0. (valid <=> conn \in {"ok", "bad"}) /\ \A r \in Callers : TaskOK(r)
  BY DEF TypeInv
<1>1. CASE UNCHANGED PG!vars
  BY <1>1 DEF PG!vars, Settled, PG!FreedUseConfined
<1>2. CASE PG!Connect
  BY <1>2 DEF PG!Connect, Settled, PG!FreedUseConfined
<1>3. CASE PG!Query
  BY <1>3 DEF PG!Query, PG!IsConnected, Settled, PG!FreedUseConfined
<1>4. CASE PG!DestroyDatabase
  <2>1. task[PG!Db] = PG!Idle /\ UNCHANGED <<task, freed_use>>
    BY <1>4 DEF PG!DestroyDatabase
  <2>2. \A r \in Writers : running # r
    BY <1>4 DEF PG!DestroyDatabase, PgConstants
  <2>3. \A r \in Writers : task[r].at \notin {"send", "read", "result"}
    BY <1>0, <2>2 DEF TaskOK, Callers
  <2> QED BY <2>1, <2>3 DEF Settled, PG!FreedUseConfined
<1>5. CASE PG!Serve \/ PG!Lose
  BY <1>5 DEF PG!Serve, PG!Lose, Settled, PG!FreedUseConfined
<1>6. ASSUME NEW w \in Writers, PG!BeginCopy(w) PROVE Settled'
  BY <1>6 DEF PG!BeginCopy, Settled, PG!FreedUseConfined
<1>7. ASSUME NEW w \in Writers, PG!Start(w) \/ PG!WriteRow(w) \/ PG!Finish(w) \/ PG!Abort(w)
      PROVE  Settled'
  BY <1>0, <1>7 DEF PG!Start, PG!WriteRow, PG!Finish, PG!Abort, PG!Begin, Settled, PG!FreedUseConfined
<1>8. ASSUME NEW w \in Writers, PG!DestroyWriter(w) PROVE Settled'
  <2>1. UNCHANGED <<conn, task>>
    BY <1>8 DEF PG!DestroyWriter
  <2>2. UNCHANGED freed_use
    BY <1>0, <1>8 DEF PG!DestroyWriter, PG!EndCopyBlocking, PG!Touch
  <2> QED BY <2>1, <2>2 DEF Settled, PG!FreedUseConfined
<1>9. ASSUME NEW r \in Callers, PG!Step(r) PROVE Settled'
  <2>1. CASE conn # "freed"
    <3>1. UNCHANGED conn
      BY <1>9 DEF PG!Step
    <3>2. UNCHANGED freed_use
      BY <1>9, <2>1 DEF PG!Step, PG!SendQuery, PG!Flush, PG!Put, PG!PutEnd, PG!Read, PG!Consume,
            PG!Result, PG!Touch
    <3> QED BY <2>1, <3>1, <3>2 DEF Settled, PG!FreedUseConfined
  <2>2. CASE conn = "freed"
    <3>1. /\ task[r].at \notin {"none", "send", "read", "result"} /\ r # PG!Db /\ PG!Invalid(r)
          /\ ~valid
      BY <1>0, <1>9, <2>2 DEF Settled, PG!Step, PG!SendQuery, PG!Flush, PG!Put, PG!PutEnd, PG!Read,
            PG!Consume, PG!Result, PG!Idle, PG!Invalid, Callers
    <3>2. \/ PG!Exit(r) /\ UNCHANGED freed_use
          \/ /\ task[r].at = "consume" /\ task[r].call # "abort"
             /\ PG!Touch(task[r])
             /\ \/ PG!Continue(r, "read") /\ task[r].call = "query"
                \/ PG!Exit(r)
      BY <1>9, <2>2, <3>1 DEF PG!Step, PG!SendQuery, PG!Flush, PG!Put, PG!PutEnd, PG!Read,
            PG!Consume, PG!Result
    <3>3. task[r].call # "query"
      BY <1>0, <3>1 DEF TaskOK
    <3>4. task' = [task EXCEPT ![r] = PG!Idle] /\ UNCHANGED conn
      BY <1>9, <3>2, <3>3 DEF PG!Exit, PG!Leave, PG!Step
    <3>5. /\ task'[PG!Db] = PG!Idle
          /\ \A s \in Writers : task'[s].at \notin {"send", "read", "result"}
      BY <2>2, <3>1, <3>4 DEF Settled, TypeInv, Types, PG!Idle, Callers
    <3>6. task[r].at = "consume" /\ task[r].call # "abort"
             => task[r] \in {PG!Run("start", "consume"), PG!Run("finish", "consume")}
      BY <1>0, <3>3 DEF TaskOK, PlacesOf, TypeInv, Types, PG!Run
    <3>7. PG!FreedUseConfined'
      BY <3>2, <3>6 DEF Settled, PG!Touch, PG!FreedUseConfined
    <3> QED BY <2>2, <3>4, <3>5, <3>7 DEF Settled
  <2> QED BY <2>1, <2>2
<1>10. ASSUME NEW r \in Callers, PG!Resume(r) PROVE Settled'
  BY <1>10 DEF PG!Resume, Settled, PG!FreedUseConfined
<1> QED BY <1>1, <1>2, <1>3, <1>4, <1>5, <1>6, <1>7, <1>8, <1>9, <1>10 DEF PG!Next, Callers

\* The destructor of a writer that outlives the database, and its calls, look
\* at state_->valid before they call libpq, but for the consumeInput() with
\* which start() and finish() go on after their wait: no other place calls
\* libpq on a connection that was freed.
THEOREM FreedConnectionUse ==
    ASSUME PgConstants
    PROVE  PG!Spec => []PG!FreedUseConfined
<1>1. PG!Init => Settled
  BY DEF PG!Init, Settled, PG!FreedUseConfined
<1>2. DbIInv /\ Settled /\ [PG!Next]_(PG!vars) => Settled'
  BY SettledKept DEF DbIInv
<1>3. Settled => PG!FreedUseConfined
  BY DEF Settled
<1> QED BY <1>1, <1>2, <1>3, Invariance, PTL DEF PG!Spec

-----------------------------------------------------------------------------
(***************************************************************************)
(* The database in the system that the run checks.                         *)
(***************************************************************************)
LEMMA DbConstants == PgConstants
  BY DbAssumption DEF PgConstants, PG!Db

\* A behaviour of the run is one of the database, or one in which it rests.
LEMMA DatabaseRuns == MCSpec => PG!Spec
<1>1. MCInit => PG!Init
  BY DEF MCInit
<1>2. [MCNext]_<<half, vars, pgvars>> => [PG!Next]_(PG!vars)
  <2>1. UNCHANGED pgvars => UNCHANGED PG!vars
    BY DEF pgvars, PG!vars, PG!flags, PG!server
  <2> QED BY <2>1 DEF MCNext
<1> QED BY <1>1, <1>2, PTL DEF MCSpec, PG!Spec

\* A connection that nobody has taken has nothing outstanding, whatever was
\* lost or aborted before, unless a writer was destroyed in the middle of a
\* copy that it could not end.
THEOREM ConnectionReusable == MCSpec => []ConnectionUsable
<1>1. PG!Spec => []PG!ConnectionUsable
  BY DbConstants, ConnectionStaysUsable
<1> QED BY <1>1, DatabaseRuns, PTL DEF ConnectionUsable

\* A copy is committed whole or not at all.
THEOREM CopyAllOrNothing == MCSpec => []CopyAtomic
<1>1. PG!Spec => []PG!CopyAtomic
  BY DbConstants, CopiesAtomic
<1> QED BY <1>1, DatabaseRuns, PTL DEF CopyAtomic

\* libpq is called on a freed connection at one place only, the consumeInput()
\* after the wait of start() and finish(); at every other one the writer finds
\* out first.
THEOREM FreedUseOnlyAfterWait == MCSpec => []FreedUseConfined
<1>1. PG!Spec => []PG!FreedUseConfined
  BY DbConstants, FreedConnectionUse
<1> QED BY <1>1, DatabaseRuns, PTL DEF FreedUseConfined
=============================================================================
