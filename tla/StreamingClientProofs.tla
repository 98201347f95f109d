------------------------ MODULE StreamingClientProofs ------------------------
(***************************************************************************)
(* Proofs about StreamingClient, for every bound and every choice of what  *)
(* SendRequest may do.                                                     *)
(***************************************************************************)
EXTENDS StreamingClient, TLAPS

\* How the flags of a living client, the state of its pipeline, its sink and
\* its chain go together.  Start() tests `ready' and `started', never the
\* pipeline's own state: that its call of Pipeline::Start is legal is a
\* consequence of this relation.
InStep ==
    /\ pipeline = "None" <=> ~connected
    /\ connected => request_set
    /\ pipeline = "None" => sink = "None" /\ chain = "None" /\ ~ready /\ ~started
    /\ pipeline = "Connecting" => ~ready /\ ~started /\ sink = "Valid"
                                  /\ chain = "Connecting"
    /\ pipeline = "Ready" => ready /\ ~started /\ sink = "Valid" /\ chain = "Open"
    /\ pipeline = "Started" => ready /\ started /\ sink = "Valid" /\ chain = "Open"
    /\ pipeline = "TornDown" => sink = "Invalid" /\ chain = "Closed"
    /\ pipeline = "TornDown" /\ ~IsTerminal => started
    /\ started => ready
    /\ pipeline # "Created"
    /\ \A i \in 1..Len(deferred) : deferred[i] # "teardown"

\* After the last reference is gone, nothing but a deferred teardown is left.
Gone ==
    /\ pipeline \in {"None", "TornDown"}
    /\ frame = "idle"
    /\ sink \in {"None", "Freed"}
    /\ sink = "None" => chain \in {"None", "Closed"}

IInv ==
    /\ TypeOK
    /\ PipelineNeverAborts
    /\ TerminalReleases
    /\ SuspendForwarded
    /\ alive => InStep
    /\ ~alive => Gone

-----------------------------------------------------------------------------
\* A client that has just been created satisfies the invariant.
LEMMA InitIInv == Init => IInv
<1> SUFFICES ASSUME Init PROVE IInv
  OBVIOUS
<1>1. CountTypeOK
  BY BoundsAssumption DEF Init, CountTypeOK
<1>2. QueueTypeOK
  BY DEF Init, QueueTypeOK
<1>3. ControlTypeOK
  BY DEF Init, ControlTypeOK, ClientState, PipelineState, SinkState, ChainState
<1>4. PipelineNeverAborts /\ TerminalReleases /\ SuspendForwarded
  BY DEF Init, PipelineNeverAborts, TerminalReleases, SuspendForwarded,
         IsTerminal, Terminal
<1>5. InStep /\ alive
  BY DEF Init, InStep, IsTerminal, Terminal
<1> QED
  BY <1>1, <1>2, <1>3, <1>4, <1>5 DEF IInv, TypeOK

-----------------------------------------------------------------------------
(***************************************************************************)
(* What Append and Tail do to a queue of closures, and what the teardown   *)
(* effects do to the queues.                                               *)
(***************************************************************************)
LEMMA AppendQueue ==
  ASSUME NEW q \in Seq(Closures), NEW k \in Closures
  PROVE  /\ Append(q, k) \in Seq(Closures)
         /\ Len(Append(q, k)) = Len(q) + 1
         /\ \A i \in 1..Len(q) : Append(q, k)[i] = q[i]
         /\ Append(q, k)[Len(q) + 1] = k
  OBVIOUS

\* What the loop leaves of the deferred closures when it runs one.
LEMMA TailQueue ==
  ASSUME NEW q \in Seq(Closures), q # <<>>
  PROVE  /\ Tail(q) \in Seq(Closures)
         /\ Len(q) \in Nat \ {0} /\ Len(Tail(q)) = Len(q) - 1
         /\ \A i \in 1..Len(Tail(q)) : Tail(q)[i] = q[i + 1]
         /\ Head(q) = q[1] /\ Head(q) \in Closures
  OBVIOUS

\* What a step that leaves the queues alone, or defers one report, does to them.
DefersReport ==
    /\ UNCHANGED told
    /\ \/ UNCHANGED deferred
       \/ \E k \in {"error", "complete"} : deferred' = Append(deferred, k)

\* A deferred report keeps the queue's type and adds no teardown.
LEMMA DefersReportQueues ==
  ASSUME QueueTypeOK, DefersReport
  PROVE  /\ QueueTypeOK'
         /\ (\A i \in 1..Len(deferred) : deferred[i] # "teardown") =>
               (\A i \in 1..Len(deferred') : deferred'[i] # "teardown")
<1>1. CASE UNCHANGED deferred
  BY <1>1 DEF DefersReport, QueueTypeOK
<1>2. CASE \E k \in {"error", "complete"} : deferred' = Append(deferred, k)
  <2>1. PICK k \in {"error", "complete"} : deferred' = Append(deferred, k)
    BY <1>2
  <2>2. k \in Closures /\ deferred \in Seq(Closures) /\ Len(deferred) \in Nat
    BY DEF Closures, QueueTypeOK
  <2>3. deferred' \in Seq(Closures) /\ Len(deferred') = Len(deferred) + 1
    BY <2>1, <2>2, AppendQueue
  <2>4. ASSUME NEW i \in 1..Len(deferred'),
               \A j \in 1..Len(deferred) : deferred[j] # "teardown"
        PROVE  deferred'[i] # "teardown"
    <3>1. CASE i \in 1..Len(deferred)
      BY <3>1, <2>1, <2>2, <2>4, AppendQueue
    <3>2. CASE i = Len(deferred) + 1
      BY <3>2, <2>1, <2>2, AppendQueue
    <3> QED
      BY <3>1, <3>2, <2>2, <2>3
  <2> QED
    BY <2>3, <2>4 DEF DefersReport, QueueTypeOK
<1> QED
  BY <1>1, <1>2 DEF DefersReport

-----------------------------------------------------------------------------
\* SetRequest keeps the invariant.
LEMMA SetRequestStep ==
  ASSUME IInv, SetRequest
  PROVE  IInv'
<1> USE DEF IInv, TypeOK
<1>1. ControlTypeOK'
  BY DEF ControlTypeOK, ClientState, PipelineState, SinkState, ChainState,
     Handlers, InStep, flags, SetRequest
<1>2. CountTypeOK'
  BY BoundsAssumption DEF ControlTypeOK, CountTypeOK, SuspendForwarded,
     InStep, flags, SetRequest
<1>3. DefersReport
  BY DEF DefersReport, flags, SetRequest
<1>4. /\ QueueTypeOK'
      /\ (\A i \in 1..Len(deferred) : deferred[i] # "teardown") =>
            (\A i \in 1..Len(deferred') : deferred'[i] # "teardown")
  BY <1>3, DefersReportQueues
<1>5. PipelineNeverAborts' /\ TerminalReleases' /\ SuspendForwarded'
  BY <1>4 DEF ControlTypeOK, CountTypeOK, ClientState, PipelineState,
     SinkState, ChainState, PipelineNeverAborts, TerminalReleases,
     SuspendForwarded, InStep, Gone, IsTerminal, Terminal, flags,
     SetRequest
<1>6. (alive => InStep)' /\ (~alive => Gone)'
  BY <1>4 DEF ControlTypeOK, CountTypeOK, ClientState, PipelineState,
     SinkState, ChainState, PipelineNeverAborts, TerminalReleases,
     SuspendForwarded, InStep, Gone, IsTerminal, Terminal, flags,
     SetRequest
<1> QED
  BY <1>1, <1>2, <1>4, <1>5, <1>6

\* SetHandler keeps the invariant.
LEMMA SetHandlerStep ==
  ASSUME IInv, NEW h \in Handlers, SetHandler(h)
  PROVE  IInv'
<1> USE DEF IInv, TypeOK
<1>1. ControlTypeOK'
  BY DEF ControlTypeOK, ClientState, PipelineState, SinkState, ChainState,
     Handlers, InStep, flags, SetHandler
<1>2. CountTypeOK'
  BY BoundsAssumption DEF ControlTypeOK, CountTypeOK, SuspendForwarded,
     InStep, flags, SetHandler
<1>3. DefersReport
  BY DEF DefersReport, flags, SetHandler
<1>4. /\ QueueTypeOK'
      /\ (\A i \in 1..Len(deferred) : deferred[i] # "teardown") =>
            (\A i \in 1..Len(deferred') : deferred'[i] # "teardown")
  BY <1>3, DefersReportQueues
<1>5. PipelineNeverAborts' /\ TerminalReleases' /\ SuspendForwarded'
  BY <1>4 DEF ControlTypeOK, CountTypeOK, ClientState, PipelineState,
     SinkState, ChainState, PipelineNeverAborts, TerminalReleases,
     SuspendForwarded, InStep, Gone, IsTerminal, Terminal, flags,
     SetHandler
<1>6. (alive => InStep)' /\ (~alive => Gone)'
  BY <1>4 DEF ControlTypeOK, CountTypeOK, ClientState, PipelineState,
     SinkState, ChainState, PipelineNeverAborts, TerminalReleases,
     SuspendForwarded, InStep, Gone, IsTerminal, Terminal, flags,
     SetHandler
<1> QED
  BY <1>1, <1>2, <1>4, <1>5, <1>6

\* Connect keeps the invariant.
LEMMA ConnectStep ==
  ASSUME IInv, NEW o \in Outcomes, Connect(o)
  PROVE  IInv'
<1> USE DEF IInv, TypeOK
<1>1. ControlTypeOK'
  BY DEF ControlTypeOK, ClientState, PipelineState, SinkState, ChainState,
     Handlers, InStep, flags, Connect, ConnectTo, BuildAndConnect,
     HandleError, ReportTerminal, Invalidate, DoTeardown, Outcomes
<1>2. CountTypeOK'
  BY BoundsAssumption DEF ControlTypeOK, CountTypeOK, SuspendForwarded,
     InStep, flags, Connect, ConnectTo, BuildAndConnect, HandleError,
     ReportTerminal, Invalidate, DoTeardown, Outcomes
<1>3. DefersReport
  BY DEF DefersReport, flags, Connect, ConnectTo, BuildAndConnect,
     HandleError, ReportTerminal, Invalidate, DoTeardown, Outcomes
<1>4. /\ QueueTypeOK'
      /\ (\A i \in 1..Len(deferred) : deferred[i] # "teardown") =>
            (\A i \in 1..Len(deferred') : deferred'[i] # "teardown")
  BY <1>3, DefersReportQueues
<1>5. PipelineNeverAborts' /\ TerminalReleases' /\ SuspendForwarded'
  BY <1>4 DEF ControlTypeOK, CountTypeOK, ClientState, PipelineState,
     SinkState, ChainState, PipelineNeverAborts, TerminalReleases,
     SuspendForwarded, InStep, Gone, IsTerminal, Terminal, flags, Connect,
     ConnectTo, BuildAndConnect, HandleError, ReportTerminal, Invalidate,
     DoTeardown, Outcomes
<1>6. (alive => InStep)' /\ (~alive => Gone)'
  BY <1>4 DEF ControlTypeOK, CountTypeOK, ClientState, PipelineState,
     SinkState, ChainState, PipelineNeverAborts, TerminalReleases,
     SuspendForwarded, InStep, Gone, IsTerminal, Terminal, flags, Connect,
     ConnectTo, BuildAndConnect, HandleError, ReportTerminal, Invalidate,
     DoTeardown, Outcomes
<1> QED
  BY <1>1, <1>2, <1>4, <1>5, <1>6

\* ConnectByName keeps the invariant.
LEMMA ConnectByNameStep ==
  ASSUME IInv, NEW r \in BOOLEAN, NEW o \in Outcomes, ConnectByName(r, o)
  PROVE  IInv'
<1> USE DEF IInv, TypeOK
<1>1. ControlTypeOK'
  BY DEF ControlTypeOK, ClientState, PipelineState, SinkState, ChainState,
     Handlers, InStep, flags, ConnectByName, ConnectTo, BuildAndConnect,
     HandleError, ReportTerminal, Invalidate, DoTeardown, Outcomes
<1>2. CountTypeOK'
  BY BoundsAssumption DEF ControlTypeOK, CountTypeOK, SuspendForwarded,
     InStep, flags, ConnectByName, ConnectTo, BuildAndConnect,
     HandleError, ReportTerminal, Invalidate, DoTeardown, Outcomes
<1>3. DefersReport
  BY DEF DefersReport, flags, ConnectByName, ConnectTo, BuildAndConnect,
     HandleError, ReportTerminal, Invalidate, DoTeardown, Outcomes
<1>4. /\ QueueTypeOK'
      /\ (\A i \in 1..Len(deferred) : deferred[i] # "teardown") =>
            (\A i \in 1..Len(deferred') : deferred'[i] # "teardown")
  BY <1>3, DefersReportQueues
<1>5. PipelineNeverAborts' /\ TerminalReleases' /\ SuspendForwarded'
  BY <1>4 DEF ControlTypeOK, CountTypeOK, ClientState, PipelineState,
     SinkState, ChainState, PipelineNeverAborts, TerminalReleases,
     SuspendForwarded, InStep, Gone, IsTerminal, Terminal, flags,
     ConnectByName, ConnectTo, BuildAndConnect, HandleError,
     ReportTerminal, Invalidate, DoTeardown, Outcomes
<1>6. (alive => InStep)' /\ (~alive => Gone)'
  BY <1>4 DEF ControlTypeOK, CountTypeOK, ClientState, PipelineState,
     SinkState, ChainState, PipelineNeverAborts, TerminalReleases,
     SuspendForwarded, InStep, Gone, IsTerminal, Terminal, flags,
     ConnectByName, ConnectTo, BuildAndConnect, HandleError,
     ReportTerminal, Invalidate, DoTeardown, Outcomes
<1> QED
  BY <1>1, <1>2, <1>4, <1>5, <1>6

\* Start keeps the invariant.
LEMMA StartStep ==
  ASSUME IInv, Start
  PROVE  IInv'
<1> USE DEF IInv, TypeOK
<1>1. ControlTypeOK'
  BY DEF ControlTypeOK, ClientState, PipelineState, SinkState, ChainState,
     Handlers, InStep, flags, Start, HandleError, StartPipeline,
     PipelineStart, ReportTerminal, Invalidate, DoTeardown
<1>2. CountTypeOK'
  BY BoundsAssumption DEF ControlTypeOK, CountTypeOK, SuspendForwarded,
     InStep, flags, Start, HandleError, StartPipeline, PipelineStart,
     ReportTerminal, Invalidate, DoTeardown
<1>3. DefersReport
  BY DEF DefersReport, flags, Start, HandleError, StartPipeline,
     PipelineStart, ReportTerminal, Invalidate, DoTeardown
<1>4. /\ QueueTypeOK'
      /\ (\A i \in 1..Len(deferred) : deferred[i] # "teardown") =>
            (\A i \in 1..Len(deferred') : deferred'[i] # "teardown")
  BY <1>3, DefersReportQueues
<1>5. PipelineNeverAborts' /\ TerminalReleases' /\ SuspendForwarded'
  BY <1>4 DEF ControlTypeOK, CountTypeOK, ClientState, PipelineState,
     SinkState, ChainState, PipelineNeverAborts, TerminalReleases,
     SuspendForwarded, InStep, Gone, IsTerminal, Terminal, flags, Start,
     HandleError, StartPipeline, PipelineStart, ReportTerminal,
     Invalidate, DoTeardown
<1>6. (alive => InStep)' /\ (~alive => Gone)'
  BY <1>4 DEF ControlTypeOK, CountTypeOK, ClientState, PipelineState,
     SinkState, ChainState, PipelineNeverAborts, TerminalReleases,
     SuspendForwarded, InStep, Gone, IsTerminal, Terminal, flags, Start,
     HandleError, StartPipeline, PipelineStart, ReportTerminal,
     Invalidate, DoTeardown
<1> QED
  BY <1>1, <1>2, <1>4, <1>5, <1>6

\* Stop keeps the invariant.
LEMMA StopStep ==
  ASSUME IInv, Stop
  PROVE  IInv'
<1> USE DEF IInv, TypeOK
<1>1. ControlTypeOK'
  BY DEF ControlTypeOK, ClientState, PipelineState, SinkState, ChainState,
     Handlers, InStep, flags, Stop, Invalidate, DoTeardown
<1>2. CountTypeOK'
  BY BoundsAssumption DEF ControlTypeOK, CountTypeOK, SuspendForwarded,
     InStep, flags, Stop, Invalidate, DoTeardown
<1>3. DefersReport
  BY DEF DefersReport, flags, Stop, Invalidate, DoTeardown
<1>4. /\ QueueTypeOK'
      /\ (\A i \in 1..Len(deferred) : deferred[i] # "teardown") =>
            (\A i \in 1..Len(deferred') : deferred'[i] # "teardown")
  BY <1>3, DefersReportQueues
<1>5. PipelineNeverAborts' /\ TerminalReleases' /\ SuspendForwarded'
  BY <1>4 DEF ControlTypeOK, CountTypeOK, ClientState, PipelineState,
     SinkState, ChainState, PipelineNeverAborts, TerminalReleases,
     SuspendForwarded, InStep, Gone, IsTerminal, Terminal, flags, Stop,
     Invalidate, DoTeardown
<1>6. (alive => InStep)' /\ (~alive => Gone)'
  BY <1>4 DEF ControlTypeOK, CountTypeOK, ClientState, PipelineState,
     SinkState, ChainState, PipelineNeverAborts, TerminalReleases,
     SuspendForwarded, InStep, Gone, IsTerminal, Terminal, flags, Stop,
     Invalidate, DoTeardown
<1> QED
  BY <1>1, <1>2, <1>4, <1>5, <1>6

\* Suspend keeps the invariant.
LEMMA SuspendStep ==
  ASSUME IInv, Suspend
  PROVE  IInv'
<1> USE DEF IInv, TypeOK
<1>1. ControlTypeOK'
  BY DEF ControlTypeOK, ClientState, PipelineState, SinkState, ChainState,
     Handlers, InStep, flags, Suspend, ForwardToHead
<1>2. CountTypeOK'
  BY BoundsAssumption DEF ControlTypeOK, CountTypeOK, SuspendForwarded,
     InStep, flags, Suspend, ForwardToHead
<1>3. DefersReport
  BY DEF DefersReport, flags, Suspend, ForwardToHead
<1>4. /\ QueueTypeOK'
      /\ (\A i \in 1..Len(deferred) : deferred[i] # "teardown") =>
            (\A i \in 1..Len(deferred') : deferred'[i] # "teardown")
  BY <1>3, DefersReportQueues
<1>5. PipelineNeverAborts' /\ TerminalReleases' /\ SuspendForwarded'
  BY <1>4 DEF ControlTypeOK, CountTypeOK, ClientState, PipelineState,
     SinkState, ChainState, PipelineNeverAborts, TerminalReleases,
     SuspendForwarded, InStep, Gone, IsTerminal, Terminal, flags, Suspend,
     ForwardToHead
<1>6. (alive => InStep)' /\ (~alive => Gone)'
  BY <1>4 DEF ControlTypeOK, CountTypeOK, ClientState, PipelineState,
     SinkState, ChainState, PipelineNeverAborts, TerminalReleases,
     SuspendForwarded, InStep, Gone, IsTerminal, Terminal, flags, Suspend,
     ForwardToHead
<1> QED
  BY <1>1, <1>2, <1>4, <1>5, <1>6

\* Resume keeps the invariant.
LEMMA ResumeStep ==
  ASSUME IInv, Resume
  PROVE  IInv'
<1> USE DEF IInv, TypeOK
<1>1. ControlTypeOK'
  BY DEF ControlTypeOK, ClientState, PipelineState, SinkState, ChainState,
     Handlers, InStep, flags, Resume, ForwardToHead
<1>2. CountTypeOK'
  BY BoundsAssumption DEF ControlTypeOK, CountTypeOK, SuspendForwarded,
     InStep, flags, Resume, ForwardToHead
<1>3. DefersReport
  BY DEF DefersReport, flags, Resume, ForwardToHead
<1>4. /\ QueueTypeOK'
      /\ (\A i \in 1..Len(deferred) : deferred[i] # "teardown") =>
            (\A i \in 1..Len(deferred') : deferred'[i] # "teardown")
  BY <1>3, DefersReportQueues
<1>5. PipelineNeverAborts' /\ TerminalReleases' /\ SuspendForwarded'
  BY <1>4 DEF ControlTypeOK, CountTypeOK, ClientState, PipelineState,
     SinkState, ChainState, PipelineNeverAborts, TerminalReleases,
     SuspendForwarded, InStep, Gone, IsTerminal, Terminal, flags, Resume,
     ForwardToHead
<1>6. (alive => InStep)' /\ (~alive => Gone)'
  BY <1>4 DEF ControlTypeOK, CountTypeOK, ClientState, PipelineState,
     SinkState, ChainState, PipelineNeverAborts, TerminalReleases,
     SuspendForwarded, InStep, Gone, IsTerminal, Terminal, flags, Resume,
     ForwardToHead
<1> QED
  BY <1>1, <1>2, <1>4, <1>5, <1>6

\* Destroy keeps the invariant.
LEMMA DestroyStep ==
  ASSUME IInv, NEW t \in Threads, Destroy(t)
  PROVE  IInv'
<1> USE DEF IInv, TypeOK
<1>1. ControlTypeOK'
  BY DEF ControlTypeOK, ClientState, PipelineState, SinkState, ChainState,
     Handlers, InStep, flags, Destroy, Release, DoTeardown, Threads
<1>2. CountTypeOK'
  BY BoundsAssumption DEF ControlTypeOK, CountTypeOK, SuspendForwarded,
     InStep, flags, Destroy, Release, DoTeardown, Threads
<1>4. QueueTypeOK'
  BY AppendQueue DEF QueueTypeOK, Closures, Destroy, Release
<1>5. PipelineNeverAborts' /\ TerminalReleases' /\ SuspendForwarded'
  BY <1>4 DEF ControlTypeOK, CountTypeOK, ClientState, PipelineState,
     SinkState, ChainState, PipelineNeverAborts, TerminalReleases,
     SuspendForwarded, InStep, Gone, IsTerminal, Terminal, flags, Destroy,
     Release, DoTeardown, Threads
<1>6. (alive => InStep)' /\ (~alive => Gone)'
  BY <1>4 DEF ControlTypeOK, CountTypeOK, ClientState, PipelineState,
     SinkState, ChainState, PipelineNeverAborts, TerminalReleases,
     SuspendForwarded, InStep, Gone, IsTerminal, Terminal, flags, Destroy,
     Release, DoTeardown, Threads
<1> QED
  BY <1>1, <1>2, <1>4, <1>5, <1>6

\* HandleReady keeps the invariant.
LEMMA HandleReadyStep ==
  ASSUME IInv, HandleReady
  PROVE  IInv'
<1> USE DEF IInv, TypeOK
<1>1. ControlTypeOK'
  BY DEF ControlTypeOK, ClientState, PipelineState, SinkState, ChainState,
     Handlers, InStep, flags, HandleReady, ChainCanEmit, MarkReady,
     StartPipeline, PipelineStart, ReportTerminal, Invalidate, DoTeardown
<1>2. CountTypeOK'
  BY BoundsAssumption DEF ControlTypeOK, CountTypeOK, SuspendForwarded,
     InStep, flags, HandleReady, ChainCanEmit, MarkReady, StartPipeline,
     PipelineStart, ReportTerminal, Invalidate, DoTeardown
<1>3. DefersReport
  BY DEF DefersReport, flags, HandleReady, ChainCanEmit, MarkReady,
     StartPipeline, PipelineStart, ReportTerminal, Invalidate, DoTeardown
<1>4. /\ QueueTypeOK'
      /\ (\A i \in 1..Len(deferred) : deferred[i] # "teardown") =>
            (\A i \in 1..Len(deferred') : deferred'[i] # "teardown")
  BY <1>3, DefersReportQueues
<1>5. PipelineNeverAborts' /\ TerminalReleases' /\ SuspendForwarded'
  BY <1>4 DEF ControlTypeOK, CountTypeOK, ClientState, PipelineState,
     SinkState, ChainState, PipelineNeverAborts, TerminalReleases,
     SuspendForwarded, InStep, Gone, IsTerminal, Terminal, flags,
     HandleReady, ChainCanEmit, MarkReady, StartPipeline, PipelineStart,
     ReportTerminal, Invalidate, DoTeardown
<1>6. (alive => InStep)' /\ (~alive => Gone)'
  BY <1>4 DEF ControlTypeOK, CountTypeOK, ClientState, PipelineState,
     SinkState, ChainState, PipelineNeverAborts, TerminalReleases,
     SuspendForwarded, InStep, Gone, IsTerminal, Terminal, flags,
     HandleReady, ChainCanEmit, MarkReady, StartPipeline, PipelineStart,
     ReportTerminal, Invalidate, DoTeardown
<1> QED
  BY <1>1, <1>2, <1>4, <1>5, <1>6

\* SinkOnData keeps the invariant.
LEMMA SinkOnDataStep ==
  ASSUME IInv, NEW n \in 1..MaxBatch, SinkOnData(n)
  PROVE  IInv'
<1> USE DEF IInv, TypeOK
<1>1. ControlTypeOK'
  BY DEF ControlTypeOK, ClientState, PipelineState, SinkState, ChainState,
     Handlers, InStep, flags, SinkOnData, ChainCanEmit
<1>2. CountTypeOK'
  BY BoundsAssumption DEF ControlTypeOK, CountTypeOK, SuspendForwarded,
     InStep, flags, SinkOnData, ChainCanEmit
<1>3. DefersReport
  BY DEF DefersReport, flags, SinkOnData, ChainCanEmit
<1>4. /\ QueueTypeOK'
      /\ (\A i \in 1..Len(deferred) : deferred[i] # "teardown") =>
            (\A i \in 1..Len(deferred') : deferred'[i] # "teardown")
  BY <1>3, DefersReportQueues
<1>5. PipelineNeverAborts' /\ TerminalReleases' /\ SuspendForwarded'
  BY <1>4 DEF ControlTypeOK, CountTypeOK, ClientState, PipelineState,
     SinkState, ChainState, PipelineNeverAborts, TerminalReleases,
     SuspendForwarded, InStep, Gone, IsTerminal, Terminal, flags,
     SinkOnData, ChainCanEmit
<1>6. (alive => InStep)' /\ (~alive => Gone)'
  BY <1>4 DEF ControlTypeOK, CountTypeOK, ClientState, PipelineState,
     SinkState, ChainState, PipelineNeverAborts, TerminalReleases,
     SuspendForwarded, InStep, Gone, IsTerminal, Terminal, flags,
     SinkOnData, ChainCanEmit
<1> QED
  BY <1>1, <1>2, <1>4, <1>5, <1>6

\* NextRecord keeps the invariant.
LEMMA NextRecordStep ==
  ASSUME IInv, NextRecord
  PROVE  IInv'
<1> USE DEF IInv, TypeOK
<1>0. /\ ControlTypeOK /\ frame' \in {"idle", "dropped", "record"}
      /\ UNCHANGED <<state, flags, handlers>>
      /\ UNCHANGED alive \/ alive' = FALSE
  BY DEF ControlTypeOK, NextRecord, Release
<1>1. ControlTypeOK'
  <2>1. UNCHANGED <<state, request_set, connected, ready, start_requested,
                    started, handlers>>
    BY <1>0 DEF flags
  <2>2. alive' \in BOOLEAN
    BY <1>0 DEF ControlTypeOK
  <2>3. pipeline' \in PipelineState /\ sink' \in SinkState /\ chain' \in ChainState
    BY <1>0 DEF ControlTypeOK, PipelineState, SinkState, ChainState, NextRecord,
                Release, DoTeardown
  <2>4. frame' \in {"idle", "record", "dropped"}
    BY <1>0
  <2> QED
    BY <1>0, <2>1, <2>2, <2>3, <2>4, Zenon DEF ControlTypeOK
<1>2. CountTypeOK'
  BY BoundsAssumption DEF ControlTypeOK, CountTypeOK, SuspendForwarded,
     InStep, flags, NextRecord, Release, DoTeardown
<1>3. DefersReport
  BY DEF DefersReport, NextRecord, Release, DoTeardown
<1>4. /\ QueueTypeOK'
      /\ (\A i \in 1..Len(deferred) : deferred[i] # "teardown") =>
            (\A i \in 1..Len(deferred') : deferred'[i] # "teardown")
  BY <1>3, DefersReportQueues
<1>5. PipelineNeverAborts' /\ TerminalReleases' /\ SuspendForwarded'
  BY <1>4 DEF ControlTypeOK, CountTypeOK, ClientState, PipelineState,
     SinkState, ChainState, PipelineNeverAborts, TerminalReleases,
     SuspendForwarded, InStep, Gone, IsTerminal, Terminal, flags,
     NextRecord, Release, DoTeardown
<1>6. (alive => InStep)' /\ (~alive => Gone)'
  BY <1>4 DEF ControlTypeOK, CountTypeOK, ClientState, PipelineState,
     SinkState, ChainState, PipelineNeverAborts, TerminalReleases,
     SuspendForwarded, InStep, Gone, IsTerminal, Terminal, flags,
     NextRecord, Release, DoTeardown
<1> QED
  BY <1>1, <1>2, <1>4, <1>5, <1>6

\* SinkOnError keeps the invariant.
LEMMA SinkOnErrorStep ==
  ASSUME IInv, SinkOnError
  PROVE  IInv'
<1> USE DEF IInv, TypeOK
<1>1. ControlTypeOK'
  BY DEF ControlTypeOK, ClientState, PipelineState, SinkState, ChainState,
     Handlers, InStep, flags, SinkOnError, ChainCanEmit, HandleError,
     ReportTerminal, Invalidate, DoTeardown
<1>2. CountTypeOK'
  BY BoundsAssumption DEF ControlTypeOK, CountTypeOK, SuspendForwarded,
     InStep, flags, SinkOnError, ChainCanEmit, HandleError,
     ReportTerminal, Invalidate, DoTeardown
<1>3. DefersReport
  BY DEF DefersReport, flags, SinkOnError, ChainCanEmit, HandleError,
     ReportTerminal, Invalidate, DoTeardown
<1>4. /\ QueueTypeOK'
      /\ (\A i \in 1..Len(deferred) : deferred[i] # "teardown") =>
            (\A i \in 1..Len(deferred') : deferred'[i] # "teardown")
  BY <1>3, DefersReportQueues
<1>5. PipelineNeverAborts' /\ TerminalReleases' /\ SuspendForwarded'
  BY <1>4 DEF ControlTypeOK, CountTypeOK, ClientState, PipelineState,
     SinkState, ChainState, PipelineNeverAborts, TerminalReleases,
     SuspendForwarded, InStep, Gone, IsTerminal, Terminal, flags,
     SinkOnError, ChainCanEmit, HandleError, ReportTerminal, Invalidate,
     DoTeardown
<1>6. (alive => InStep)' /\ (~alive => Gone)'
  BY <1>4 DEF ControlTypeOK, CountTypeOK, ClientState, PipelineState,
     SinkState, ChainState, PipelineNeverAborts, TerminalReleases,
     SuspendForwarded, InStep, Gone, IsTerminal, Terminal, flags,
     SinkOnError, ChainCanEmit, HandleError, ReportTerminal, Invalidate,
     DoTeardown
<1> QED
  BY <1>1, <1>2, <1>4, <1>5, <1>6

\* SinkOnComplete keeps the invariant.
LEMMA SinkOnCompleteStep ==
  ASSUME IInv, SinkOnComplete
  PROVE  IInv'
<1> USE DEF IInv, TypeOK
<1>1. ControlTypeOK'
  BY DEF ControlTypeOK, ClientState, PipelineState, SinkState, ChainState,
     Handlers, InStep, flags, SinkOnComplete, ChainCanEmit,
     HandleComplete, ReportTerminal, Invalidate, DoTeardown
<1>2. CountTypeOK'
  BY BoundsAssumption DEF ControlTypeOK, CountTypeOK, SuspendForwarded,
     InStep, flags, SinkOnComplete, ChainCanEmit, HandleComplete,
     ReportTerminal, Invalidate, DoTeardown
<1>3. DefersReport
  BY DEF DefersReport, flags, SinkOnComplete, ChainCanEmit,
     HandleComplete, ReportTerminal, Invalidate, DoTeardown
<1>4. /\ QueueTypeOK'
      /\ (\A i \in 1..Len(deferred) : deferred[i] # "teardown") =>
            (\A i \in 1..Len(deferred') : deferred'[i] # "teardown")
  BY <1>3, DefersReportQueues
<1>5. PipelineNeverAborts' /\ TerminalReleases' /\ SuspendForwarded'
  BY <1>4 DEF ControlTypeOK, CountTypeOK, ClientState, PipelineState,
     SinkState, ChainState, PipelineNeverAborts, TerminalReleases,
     SuspendForwarded, InStep, Gone, IsTerminal, Terminal, flags,
     SinkOnComplete, ChainCanEmit, HandleComplete, ReportTerminal,
     Invalidate, DoTeardown
<1>6. (alive => InStep)' /\ (~alive => Gone)'
  BY <1>4 DEF ControlTypeOK, CountTypeOK, ClientState, PipelineState,
     SinkState, ChainState, PipelineNeverAborts, TerminalReleases,
     SuspendForwarded, InStep, Gone, IsTerminal, Terminal, flags,
     SinkOnComplete, ChainCanEmit, HandleComplete, ReportTerminal,
     Invalidate, DoTeardown
<1> QED
  BY <1>1, <1>2, <1>4, <1>5, <1>6

\* RunDeferred keeps the invariant.
LEMMA RunDeferredStep ==
  ASSUME IInv, RunDeferred
  PROVE  IInv'
<1> USE DEF IInv, TypeOK
<1>1. ControlTypeOK'
  BY DEF ControlTypeOK, ClientState, PipelineState, SinkState, ChainState,
     Handlers, InStep, flags, RunDeferred
<1>2. CountTypeOK'
  BY BoundsAssumption DEF ControlTypeOK, CountTypeOK, SuspendForwarded,
     InStep, flags, RunDeferred
<1>3. deferred \in Seq(Closures) /\ deferred # <<>>
  BY DEF QueueTypeOK, RunDeferred
<1>4. /\ QueueTypeOK'
      /\ (\A i \in 1..Len(deferred) : deferred[i] # "teardown") =>
            /\ Head(deferred) # "teardown"
            /\ \A i \in 1..Len(deferred') : deferred'[i] # "teardown"
  <2>1. deferred' = Tail(deferred)
    BY DEF RunDeferred
  <2>2. /\ deferred' \in Seq(Closures)
        /\ Len(deferred) \in Nat \ {0} /\ Len(deferred') = Len(deferred) - 1
        /\ Head(deferred) = deferred[1] /\ Head(deferred) \in Closures
    BY <1>3, <2>1, TailQueue
  <2>3. \A i \in 1..Len(deferred') : deferred'[i] = deferred[i + 1]
    BY <1>3, <2>1, TailQueue
  <2>4. told' \in Seq({"error", "complete"})
    <3>1. CASE Head(deferred) = "teardown"
      BY <3>1 DEF RunDeferred, QueueTypeOK
    <3>2. CASE Head(deferred) # "teardown"
      <4>1. Head(deferred) \in {"error", "complete"}
        BY <2>2, <3>2 DEF Closures
      <4>2. told' \in {told, Append(told, Head(deferred))}
        BY <3>2 DEF RunDeferred
      <4> QED
        BY <4>1, <4>2 DEF QueueTypeOK
    <3> QED
      BY <3>1, <3>2
  <2>5. ASSUME \A i \in 1..Len(deferred) : deferred[i] # "teardown"
        PROVE  /\ Head(deferred) # "teardown"
               /\ \A i \in 1..Len(deferred') : deferred'[i] # "teardown"
    <3>1. ASSUME NEW i \in 1..Len(deferred')
          PROVE  i + 1 \in 1..Len(deferred)
      BY <2>2
    <3> QED
      BY <2>2, <2>3, <2>5, <3>1
  <2> QED
    BY <2>2, <2>4, <2>5 DEF QueueTypeOK
<1>5. PipelineNeverAborts' /\ TerminalReleases' /\ SuspendForwarded'
  BY <1>4 DEF ControlTypeOK, CountTypeOK, ClientState, PipelineState,
     SinkState, ChainState, PipelineNeverAborts, TerminalReleases,
     SuspendForwarded, InStep, Gone, IsTerminal, Terminal, flags,
     RunDeferred
<1>6. ASSUME alive
      PROVE  InStep'
  <2>1. Head(deferred) # "teardown"
    BY <1>4, <1>6 DEF InStep
  <2>2. UNCHANGED <<state, request_set, connected, ready, started, pipeline,
                    sink, chain>>
    BY <2>1 DEF RunDeferred, flags
  <2>3. \A i \in 1..Len(deferred') : deferred'[i] # "teardown"
    BY <1>4, <1>6 DEF InStep
  <2> QED
    BY <1>6, <2>2, <2>3 DEF InStep, IsTerminal, Terminal
<1>7. (alive' = alive) /\ (~alive => Gone')
  BY DEF Gone, RunDeferred, flags, ControlTypeOK
<1> QED
  BY <1>1, <1>2, <1>4, <1>5, <1>6, <1>7

-----------------------------------------------------------------------------
\* Every step keeps the invariant.
LEMMA NextIInv == IInv /\ [Next]_vars => IInv'
<1> SUFFICES ASSUME IInv, [Next]_vars PROVE IInv'
  OBVIOUS
<1>1. CASE UNCHANGED vars
  BY <1>1 DEF vars, flags, IInv, TypeOK, ControlTypeOK, CountTypeOK,
              QueueTypeOK, PipelineNeverAborts, TerminalReleases,
              SuspendForwarded, InStep, Gone, IsTerminal
<1>2. CASE Next
  BY <1>2, SetRequestStep, SetHandlerStep, ConnectStep, ConnectByNameStep,
     StartStep, StopStep, SuspendStep, ResumeStep, DestroyStep,
     HandleReadyStep, SinkOnDataStep, NextRecordStep, SinkOnErrorStep,
     SinkOnCompleteStep, RunDeferredStep
  DEF Next
<1> QED
  BY <1>1, <1>2

\* The strengthened invariant holds of every run of the client, for all bounds
\* and all outcomes of SendRequest: it is what the theorems below rest on.
THEOREM IInvInvariant == Spec => []IInv
  BY InitIInv, NextIInv, PTL DEF Spec

\* Every variable keeps its type, for every bound.
THEOREM TypeCorrect == Spec => []TypeOK
<1>1. IInv => TypeOK
  BY DEF IInv
<1> QED
  BY <1>1, IInvInvariant, PTL

\* The std::terminate() calls of Pipeline are unreachable from the client.
THEOREM NeverAborts == Spec => []PipelineNeverAborts
<1>1. IInv => PipelineNeverAborts
  BY DEF IInv
<1> QED
  BY <1>1, IInvInvariant, PTL

\* A client in a terminal state holds no live connection.
THEOREM TerminalReleasesAlways == Spec => []TerminalReleases
<1>1. IInv => TerminalReleases
  BY DEF IInv
<1> QED
  BY <1>1, IInvInvariant, PTL

\* The head socket is suspended exactly while the client is, and never
\* resumed more often than it was suspended.
THEOREM SuspendForwardedAlways == Spec => []SuspendForwarded
<1>1. IInv => SuspendForwarded
  BY DEF IInv
<1> QED
  BY <1>1, IInvInvariant, PTL

-----------------------------------------------------------------------------
(***************************************************************************)
(* When SendRequest never fails synchronously, every step is one of four   *)
(* kinds as far as the reports to the user are concerned.                  *)
(***************************************************************************)
QuietStep == UNCHANGED <<deferred, told>> /\ (IsTerminal => UNCHANGED state)

ReportStep ==
    /\ ~IsTerminal
    /\ UNCHANGED told
    /\ \E k \in {"error", "complete"} :
          state' = StateOf(k) /\ deferred' = Append(deferred, k)

TeardownStep ==
    UNCHANGED <<state, told>> /\ deferred' = Append(deferred, "teardown")

\* When SendRequest cannot fail synchronously, a step is one of four kinds.
LEMMA StepKinds ==
  ASSUME SendOutcomes = {"ok"}, Next
  PROVE  QuietStep \/ ReportStep \/ TeardownStep \/ RunDeferred
<1> USE DEF QuietStep, ReportStep, TeardownStep, StateOf
<1>1. CASE SetRequest \/ (\E h \in Handlers : SetHandler(h))
  BY <1>1 DEF SetRequest, SetHandler
<1>2. CASE \E o \in Outcomes : Connect(o)
  BY <1>2 DEF Connect, ConnectTo, BuildAndConnect, HandleError, ReportTerminal
<1>3. CASE \E r \in BOOLEAN, o \in Outcomes : ConnectByName(r, o)
  BY <1>3 DEF ConnectByName, ConnectTo, BuildAndConnect, HandleError,
              ReportTerminal
<1>4. CASE Start
  BY <1>4 DEF Start, HandleError, ReportTerminal, StartPipeline
<1>5. CASE Stop
  BY <1>5 DEF Stop
<1>6. CASE Suspend \/ Resume \/ NextRecord \/ (\E n \in 1..MaxBatch : SinkOnData(n))
  BY <1>6 DEF Suspend, Resume, NextRecord, Release, SinkOnData
<1>7. CASE \E t \in Threads : Destroy(t)
  BY <1>7 DEF Destroy, Release
<1>8. CASE HandleReady
  BY <1>8 DEF HandleReady, StartPipeline
<1>9. CASE SinkOnError \/ SinkOnComplete
  BY <1>9 DEF SinkOnError, SinkOnComplete, HandleError, HandleComplete,
              ReportTerminal
<1> QED
  BY <1>1, <1>2, <1>3, <1>4, <1>5, <1>6, <1>7, <1>8, <1>9 DEF Next

\* No step leaves a terminal state, whatever becomes of the request: every
\* action that assigns state_ checks IsTerminal() first.  (The assignment after
\* a request that fails inside Pipeline::Start is part of one step, and is what
\* ReportsMatch has to assume away.)
THEOREM TerminalFinal == Spec => TerminalIsFinal
<1>1. ASSUME Next, IsTerminal PROVE UNCHANGED state
  <2>1. CASE SetRequest \/ (\E h \in Handlers : SetHandler(h))
    BY <2>1 DEF SetRequest, SetHandler
  <2>2. CASE \E o \in Outcomes : Connect(o)
    BY <1>1, <2>2 DEF Connect, ConnectTo
  <2>3. CASE \E r \in BOOLEAN, o \in Outcomes : ConnectByName(r, o)
    BY <1>1, <2>3 DEF ConnectByName, ConnectTo, HandleError
  <2>4. CASE Start \/ Stop
    BY <1>1, <2>4 DEF Start, Stop
  <2>5. CASE Suspend \/ Resume \/ NextRecord \/ (\E n \in 1..MaxBatch : SinkOnData(n))
    BY <2>5 DEF Suspend, Resume, NextRecord, Release, SinkOnData
  <2>6. CASE \E t \in Threads : Destroy(t)
    BY <2>6 DEF Destroy
  <2>7. CASE HandleReady
    BY <1>1, <2>7 DEF HandleReady
  <2>8. CASE SinkOnError \/ SinkOnComplete
    BY <1>1, <2>8 DEF SinkOnError, SinkOnComplete, HandleError, HandleComplete
  <2>9. CASE RunDeferred
    BY <2>9 DEF RunDeferred
  <2> QED
    BY <1>1, <2>1, <2>2, <2>3, <2>4, <2>5, <2>6, <2>7, <2>8, <2>9 DEF Next
<1>2. ASSUME [Next]_vars PROVE [IsTerminal => UNCHANGED state]_vars
  BY <1>1, <1>2
<1> QED
  BY <1>2, PTL DEF Spec, TerminalIsFinal

\* Deferring a terminal report from a state without one leaves exactly one.
LEMMA ReportPreserves ==
  ASSUME QueueTypeOK, ReportMatchesState, ReportStep
  PROVE  ReportMatchesState'
<1>1. PICK k \in {"error", "complete"} :
        state' = StateOf(k) /\ deferred' = Append(deferred, k)
  BY DEF ReportStep
<1>2. k \in Closures /\ k # "teardown" /\ deferred \in Seq(Closures)
  BY DEF Closures, QueueTypeOK
<1>3. Len(deferred) \in Nat /\ Len(told) \in Nat
  BY DEF QueueTypeOK
<1>4. \A j : StateOf(j) \in Terminal
  BY DEF StateOf, Terminal
<1>5. \A i \in 1..Len(deferred) : deferred[i] = "teardown"
  BY <1>4 DEF ReportMatchesState, ReportStep, IsTerminal
<1>6. told = <<>> /\ told' = <<>>
  <2>1. \A i \in 1..Len(told) : FALSE
    BY <1>4 DEF ReportMatchesState, ReportStep, IsTerminal
  <2>2. Len(told) = 0
    BY <1>3, <2>1
  <2> QED
    BY <2>2 DEF QueueTypeOK, ReportStep
<1>7. /\ Len(deferred') = Len(deferred) + 1
      /\ \A i \in 1..Len(deferred) : deferred'[i] = deferred[i]
      /\ deferred'[Len(deferred) + 1] = k
  BY <1>1, <1>2, AppendQueue
<1>8. \A i \in 1..Len(deferred') :
        deferred'[i] # "teardown" => i = Len(deferred) + 1
  BY <1>3, <1>5, <1>7
<1>9. \A i \in 1..Len(deferred') :
        deferred'[i] # "teardown" => deferred'[i] = k
  BY <1>7, <1>8
<1> QED
  BY <1>1, <1>6, <1>8, <1>9 DEF ReportMatchesState

\* A teardown deferred by ~Pipeline reports nothing.
LEMMA TeardownPreserves ==
  ASSUME QueueTypeOK, ReportMatchesState, TeardownStep
  PROVE  ReportMatchesState'
<1>1. "teardown" \in Closures /\ deferred \in Seq(Closures) /\ Len(deferred) \in Nat
  BY DEF Closures, QueueTypeOK
<1>2. /\ Len(deferred') = Len(deferred) + 1
      /\ \A i \in 1..Len(deferred) : deferred'[i] = deferred[i]
      /\ deferred'[Len(deferred) + 1] = "teardown"
  BY <1>1, AppendQueue DEF TeardownStep
<1>3. \A i \in 1..Len(deferred') : deferred'[i] # "teardown" =>
        i \in 1..Len(deferred) /\ deferred'[i] = deferred[i]
  BY <1>1, <1>2
<1> QED
  BY <1>3 DEF ReportMatchesState, TeardownStep

\* Running a deferred closure hands over the report it carries, once.
LEMMA RunPreserves ==
  ASSUME QueueTypeOK, ReportMatchesState, RunDeferred
  PROVE  ReportMatchesState'
<1>1. deferred \in Seq(Closures) /\ deferred # <<>> /\ deferred' = Tail(deferred)
  BY DEF QueueTypeOK, RunDeferred
<1>2. /\ Len(deferred) \in Nat \ {0} /\ Len(deferred') = Len(deferred) - 1
      /\ Head(deferred) = deferred[1] /\ Head(deferred) \in Closures
  BY <1>1, TailQueue
<1>3. \A i \in 1..Len(deferred') :
        i + 1 \in 1..Len(deferred) /\ deferred'[i] = deferred[i + 1]
  BY <1>1, <1>2, TailQueue
<1>4. state' = state
  BY DEF RunDeferred
<1>5. CASE Head(deferred) = "teardown" \/ ~alive
  <2>1. told' = told
    BY <1>5 DEF RunDeferred
  <2>2. ASSUME NEW i \in 1..Len(deferred'), deferred'[i] # "teardown"
        PROVE  /\ state' = StateOf(deferred'[i]) /\ told' = <<>>
               /\ \A j \in 1..Len(deferred') : deferred'[j] # "teardown" => i = j
    <3>1. i + 1 \in 1..Len(deferred) /\ deferred[i + 1] # "teardown"
      BY <1>3, <2>2
    <3>2. /\ state = StateOf(deferred[i + 1]) /\ told = <<>>
          /\ \A j \in 1..Len(deferred) : deferred[j] # "teardown" => i + 1 = j
      BY <3>1 DEF ReportMatchesState
    <3>3. \A j \in 1..Len(deferred') : deferred'[j] # "teardown" => i + 1 = j + 1
      BY <1>3, <3>2
    <3> QED
      BY <1>2, <1>3, <1>4, <2>1, <3>2, <3>3
  <2> QED
    BY <1>4, <2>1, <2>2 DEF ReportMatchesState
<1>6. CASE Head(deferred) # "teardown" /\ alive
  <2>1. 1 \in 1..Len(deferred) /\ deferred[1] # "teardown"
    BY <1>2, <1>6
  <2>2. /\ state = StateOf(deferred[1]) /\ told = <<>>
        /\ \A j \in 1..Len(deferred) : deferred[j] # "teardown" => 1 = j
    BY <2>1 DEF ReportMatchesState
  <2>3. told' = <<Head(deferred)>>
    BY <1>6, <2>2 DEF RunDeferred
  <2>4. Len(told') = 1 /\ told'[1] = Head(deferred)
    BY <2>3
  <2>5. \A i \in 1..Len(deferred') : deferred'[i] = "teardown"
    BY <1>2, <1>3, <2>2
  <2> QED
    BY <1>2, <1>4, <2>2, <2>4, <2>5 DEF ReportMatchesState
<1> QED
  BY <1>5, <1>6

\* The user gets at most one terminal callback, the one the client's state
\* names, and none after Stop(), if SendRequest never fails synchronously.
THEOREM ReportsMatch ==
  ASSUME SendOutcomes = {"ok"} PROVE Spec => []ReportMatchesState
<1>1. Init => ReportMatchesState
  BY DEF Init, ReportMatchesState
<1>2. IInv /\ ReportMatchesState /\ [Next]_vars => ReportMatchesState'
  <2> SUFFICES ASSUME IInv, ReportMatchesState, [Next]_vars
               PROVE  ReportMatchesState'
    OBVIOUS
  <2>1. QueueTypeOK
    BY DEF IInv, TypeOK
  <2>2. CASE UNCHANGED vars
    BY <2>2 DEF vars, ReportMatchesState
  <2>3. CASE QuietStep
    <3>1. CASE IsTerminal
      BY <2>3, <3>1 DEF QuietStep, ReportMatchesState
    <3>2. CASE ~IsTerminal
      <4>1. \A j : StateOf(j) \in Terminal
        BY DEF StateOf, Terminal
      <4>2. \A i \in 1..Len(deferred) : deferred[i] = "teardown"
        BY <3>2, <4>1 DEF ReportMatchesState, IsTerminal
      <4>3. \A i \in 1..Len(told) : FALSE
        BY <3>2, <4>1 DEF ReportMatchesState, IsTerminal
      <4> QED
        BY <2>3, <4>2, <4>3 DEF QuietStep, ReportMatchesState
    <3> QED
      BY <3>1, <3>2
  <2> QED
    BY <2>1, <2>2, <2>3, StepKinds, ReportPreserves, TeardownPreserves,
       RunPreserves
<1> QED
  BY <1>1, <1>2, IInvInvariant, PTL DEF Spec

-----------------------------------------------------------------------------
\* What is left to happen once the client is gone and the sink with it.
LEMMA OnlyClosures ==
  ASSUME IInv, ~alive, [Next]_vars
  PROVE  RunDeferred \/ UNCHANGED vars
<1>1. ~ChainCanEmit
  BY DEF IInv, Gone, ChainCanEmit
<1>2. frame = "idle"
  BY DEF IInv, Gone
<1> QED
  BY <1>1, <1>2 DEF Next, SetRequest, SetHandler, Connect, ConnectByName,
     Start, Stop, Suspend, Resume, Destroy, HandleReady, SinkOnData, NextRecord,
     SinkOnError, SinkOnComplete

\* What Append and Tail do to the teardowns owed.
LEMMA AppendOwes ==
  ASSUME deferred \in Seq(Closures), NEW k \in Closures,
         deferred' = Append(deferred, k)
  PROVE  /\ k # "teardown" => TeardownsOwed' = TeardownsOwed
         /\ k = "teardown" => TeardownsOwed' = TeardownsOwed \union {Len(deferred')}
         /\ Len(deferred') \in 1..Len(deferred')
<1>1. /\ Len(deferred) \in Nat /\ Len(deferred') = Len(deferred) + 1
      /\ \A i \in 1..Len(deferred) : deferred'[i] = deferred[i]
      /\ deferred'[Len(deferred) + 1] = k
  BY AppendQueue
<1>2. 1..Len(deferred') = (1..Len(deferred)) \union {Len(deferred')}
  BY <1>1
<1> QED
  BY <1>1, <1>2 DEF TeardownsOwed

\* Every chain that outlives its client is owed one teardown, whichever thread
\* drops the last reference and whatever callback it drops it from.
THEOREM OrphanTornDown == Spec => []OrphanIsTornDown
<1>1. Init => OrphanIsTornDown
  BY DEF Init, OrphanIsTornDown, TeardownsOwed
<1>2. IInv /\ IInv' /\ OrphanIsTornDown /\ [Next]_vars => OrphanIsTornDown'
  <2> SUFFICES ASSUME IInv, IInv', OrphanIsTornDown, [Next]_vars
               PROVE  OrphanIsTornDown'
    OBVIOUS
  <2>1. CASE alive'
    BY <2>1 DEF IInv, InStep, OrphanIsTornDown, TeardownsOwed
  <2>2. CASE ~alive
    <3>1. CASE UNCHANGED vars
      BY <3>1 DEF vars, OrphanIsTornDown, TeardownsOwed
    <3>2. CASE RunDeferred
      <4>1. deferred \in Seq(Closures) /\ deferred # <<>> /\ deferred' = Tail(deferred)
        BY <3>2 DEF RunDeferred, IInv, TypeOK, QueueTypeOK
      <4>2. /\ Len(deferred) \in Nat \ {0} /\ Len(deferred') = Len(deferred) - 1
            /\ Head(deferred) = deferred[1]
            /\ \A i \in 1..Len(deferred') : deferred'[i] = deferred[i + 1]
        BY <4>1, TailQueue
      <4>3. \A i \in 1..Len(deferred') :
              i \in TeardownsOwed' <=> i + 1 \in TeardownsOwed
        BY <4>2 DEF TeardownsOwed
      <4>4. ~alive'
        BY <2>2, <3>2 DEF RunDeferred
      <4>5. CASE Head(deferred) = "teardown"
        <5>1. 1 \in TeardownsOwed
          BY <4>2, <4>5 DEF TeardownsOwed
        <5>2. \A i \in TeardownsOwed : i = 1
          BY <5>1 DEF OrphanIsTornDown
        <5>3. \A i \in 1..Len(deferred') : i \notin TeardownsOwed'
          BY <4>2, <4>3, <5>2
        <5>4. TeardownsOwed' = {}
          BY <5>3 DEF TeardownsOwed
        <5>5. chain' = "Closed"
          BY <3>2, <4>5 DEF RunDeferred
        <5> QED
          BY <5>4, <5>5 DEF OrphanIsTornDown
      <4>6. CASE Head(deferred) # "teardown"
        <5>1. 1 \notin TeardownsOwed /\ chain' = chain
          BY <3>2, <4>2, <4>6 DEF TeardownsOwed, RunDeferred
        <5>2. CASE chain \in {"Connecting", "Open"}
          <6>1. PICK i \in 1..Len(deferred) : TeardownsOwed = {i}
            BY <2>2, <5>2 DEF OrphanIsTornDown
          <6>2. i - 1 \in 1..Len(deferred')
            BY <4>2, <5>1, <6>1
          <6>3. \A j \in 1..Len(deferred') : j \in TeardownsOwed' <=> j = i - 1
            BY <4>2, <4>3, <6>1
          <6>4. TeardownsOwed' = {i - 1}
            BY <6>2, <6>3 DEF TeardownsOwed
          <6> QED
            BY <4>4, <5>1, <5>2, <6>2, <6>4 DEF OrphanIsTornDown
        <5>3. CASE chain \notin {"Connecting", "Open"}
          <6>1. TeardownsOwed = {}
            BY <5>3 DEF OrphanIsTornDown
          <6>2. TeardownsOwed' = {}
            BY <4>3, <6>1 DEF TeardownsOwed
          <6> QED
            BY <5>1, <5>3, <6>2 DEF OrphanIsTornDown
        <5> QED
          BY <5>2, <5>3
      <4> QED
        BY <4>5, <4>6
    <3> QED
      BY <2>2, <3>1, <3>2, OnlyClosures
  <2>3. CASE alive /\ ~alive'
    <3>1. \E t \in Threads : Release(t)
      BY <2>3 DEF Next, vars, SetRequest, SetHandler, Connect, ConnectByName,
         Start, Stop, Suspend, Resume, HandleReady, SinkOnData, NextRecord,
         SinkOnError, SinkOnComplete, RunDeferred, Destroy, Threads
    <3>2. TeardownsOwed = {}
      BY <2>3 DEF OrphanIsTornDown
    <3>3. CASE DoTeardown /\ UNCHANGED deferred
      BY <3>2, <3>3 DEF DoTeardown, OrphanIsTornDown, TeardownsOwed
    <3>4. CASE /\ deferred' = Append(deferred, "teardown") /\ UNCHANGED chain
               /\ pipeline \notin {"None", "TornDown"}
      <4>1. chain' \in {"Connecting", "Open"}
        BY <2>3, <3>4 DEF IInv, InStep, TypeOK, ControlTypeOK, PipelineState,
                          PipelineNeverAborts
      <4>2. deferred \in Seq(Closures) /\ "teardown" \in Closures
        BY DEF IInv, TypeOK, QueueTypeOK, Closures
      <4>3. TeardownsOwed' = {Len(deferred')} /\ Len(deferred') \in 1..Len(deferred')
        BY <3>2, <3>4, <4>2, AppendOwes
      <4> QED
        BY <2>3, <4>1, <4>3 DEF OrphanIsTornDown
    <3> QED
      BY <3>1, <3>3, <3>4 DEF Release
  <2> QED
    BY <2>1, <2>2, <2>3
<1> QED
  BY <1>1, <1>2, IInvInvariant, PTL DEF Spec
=============================================================================
