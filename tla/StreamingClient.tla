--------------------------- MODULE StreamingClient ---------------------------
(***************************************************************************)
(* The user-facing StreamingClient<P>, the Pipeline<P> it owns and the     *)
(* StreamRecordSink between the protocol chain and the client.             *)
(*                                                                         *)
(* Everything runs on the event loop's thread, but for the drop of the     *)
(* user's last reference, which any thread may do.  A step is one call the *)
(* user makes, one callback the chain makes into the sink, or one deferred *)
(* callback the loop runs.  The user may call the client, or drop it, from *)
(* inside a record callback, so the delivery of a batch is not one step:   *)
(* `frame' is "record" while a record callback is on the stack, "dropped"  *)
(* once only the reference of that callback is left, and `batch' is what   *)
(* HandleBatch has still to deliver.                                       *)
(*                                                                         *)
(* The chain (TcpSocket, CramAuth or TLS/HTTP/zstd, parser) is seen only   *)
(* through its effects on the sink: it may emit anything while it is       *)
(* connected, and a request may fail synchronously, inside SendRequest.    *)
(***************************************************************************)
EXTENDS Naturals, Integers, Sequences

CONSTANTS
    MaxSuspend,       \* bound on nested Suspend() calls
    MaxBatch,         \* most records in one batch
    SendOutcomes      \* what SendRequest may do before it returns: {"ok", "error"}

ASSUME BoundsAssumption == MaxSuspend \in Nat /\ MaxBatch \in Nat \ {0}
ASSUME SendAssumption == SendOutcomes \subseteq {"ok", "error"}

VARIABLES
    state,            \* StreamingClient::state_
    request_set,      \* request_set_
    connected,        \* connected_: the pipeline was built
    ready,            \* ready_
    start_requested,  \* start_requested_
    started,          \* started_
    suspend_count,    \* suspend_count_ of the client
    handlers,         \* the callbacks the user has registered
    pipeline,         \* Pipeline::state_; "None" before BuildPipeline
    sink,             \* valid_ of the StreamRecordSink, and whether it exists
    chain,            \* what the chain can still do
    head_suspends,    \* suspend_count_ of the chain's head socket
    deferred,         \* closures handed to loop_.Defer and not yet run
    told,             \* terminal callbacks the user has received
    frame,            \* "record" or "dropped" while a record callback runs
    batch,            \* records HandleBatch has still to hand over
    alive             \* FALSE once the client has been destroyed

flags == <<request_set, connected, ready, start_requested, started>>
vars == <<state, flags, suspend_count, handlers, pipeline, sink, chain,
          head_suspends, deferred, told, frame, batch, alive>>

ClientState == {"Disconnected", "Connecting", "Connected", "Streaming",
                "Stopping", "Done", "Error"}
PipelineState == {"None", "Created", "Connecting", "Ready", "Started",
                  "TornDown", "Aborted"}
SinkState == {"None", "Valid", "Invalid", "Freed"}
ChainState == {"None", "Connecting", "Open", "Closed"}
Handlers == {"batch", "record", "error", "complete"}
Closures == {"error", "complete", "teardown"}
Threads == {"loop", "other"}

Terminal == {"Done", "Error", "Stopping"}
IsTerminal == state \in Terminal

-----------------------------------------------------------------------------
(***************************************************************************)
(* Effects shared by several operations.                                   *)
(***************************************************************************)

\* Mutant: the sink is left valid.
InvalidateForgotten == UNCHANGED sink

\* Invalidate of a sink that may not exist yet.
Invalidate == sink' = IF sink = "None" THEN "None" ELSE "Invalid"

\* Pipeline::DoTeardown and P::Teardown: the head socket's Close also forgets
\* how often it was suspended.
DoTeardown ==
    /\ pipeline' = IF pipeline = "None" THEN "None" ELSE "TornDown"
    /\ chain' = IF chain = "None" THEN "None" ELSE "Closed"
    /\ head_suspends' = 0

\* The teardown and the deferred user callback of HandleError and
\* HandleComplete; the caller decides what becomes of state_.
ReportTerminal(kind) ==
    /\ Invalidate
    /\ DoTeardown
    /\ deferred' = IF kind \in handlers THEN Append(deferred, kind) ELSE deferred

\* Mutant: an error after a terminal state is reported too.
HandleErrorUnguarded ==
    /\ state' = "Error"
    /\ ReportTerminal("error")

HandleError ==
    /\ ~IsTerminal
    /\ state' = "Error"
    /\ ReportTerminal("error")

HandleComplete ==
    /\ ~IsTerminal
    /\ state' = "Done"
    /\ ReportTerminal("complete")

\* Mutant: the pipeline does not move on to Ready.
MarkReadyForgotten(p) == p

\* The states Pipeline::MarkReady and Pipeline::Start leave the pipeline in:
\* called in any other state they terminate the process.
MarkReady(p) ==
    CASE p = "TornDown" -> "TornDown"
      [] p = "Connecting" -> "Ready"
      [] OTHER -> "Aborted"

PipelineStart(p) ==
    CASE p = "TornDown" -> "TornDown"
      [] p = "Ready" -> "Started"
      [] OTHER -> "Aborted"

\* Pipeline::Start from pipeline state p, and the two assignments that follow
\* it in Start() and in HandleReady().  A request that fails synchronously
\* reaches HandleError before those assignments run.  The chain is in state c
\* when the request goes through.
StartPipeline(p, c) ==
    /\ started' = TRUE
    /\ state' = "Streaming"
    /\ \/ /\ p = "Ready" => "ok" \in SendOutcomes
          /\ pipeline' = PipelineStart(p)
          /\ chain' = c
          /\ UNCHANGED <<sink, head_suspends, deferred>>
       \/ /\ p = "Ready"
          /\ "error" \in SendOutcomes
          /\ ReportTerminal("error")

-----------------------------------------------------------------------------
Init ==
    /\ state = "Disconnected"
    /\ request_set = FALSE /\ connected = FALSE /\ ready = FALSE
    /\ start_requested = FALSE /\ started = FALSE
    /\ suspend_count = 0
    /\ handlers = {}
    /\ pipeline = "None" /\ sink = "None" /\ chain = "None"
    /\ head_suspends = 0
    /\ deferred = <<>> /\ told = <<>>
    /\ frame = "idle" /\ batch = 0
    /\ alive = TRUE

(***************************************************************************)
(* Calls of the user, from a clean stack or from a record callback.        *)
(***************************************************************************)
SetRequest ==
    /\ alive
    /\ request_set' = TRUE
    /\ UNCHANGED <<state, connected, ready, start_requested, started,
                   suspend_count, handlers, pipeline, sink, chain,
                   head_suspends, deferred, told, frame, batch, alive>>

\* OnRecord (two overloads), OnError and OnComplete.
SetHandler(h) ==
    /\ alive
    /\ handlers' = handlers \union {h}
    /\ UNCHANGED <<state, flags, suspend_count, pipeline, sink, chain,
                   head_suspends, deferred, told, frame, batch, alive>>

\* BuildPipeline, then Pipeline::Connect; the head's Connect fails
\* synchronously when socket() or connect() does.  An earlier Suspend() is
\* forwarded to the new head.
BuildAndConnect(outcome) ==
    /\ connected' = TRUE
    /\ \/ /\ outcome = "ok"
          /\ state' = "Connecting"
          /\ pipeline' = "Connecting"
          /\ sink' = "Valid"
          /\ chain' = "Connecting"
          /\ head_suspends' = IF suspend_count > 0 THEN 1 ELSE 0
          /\ UNCHANGED deferred
       \/ /\ outcome = "error"
          /\ state' = "Error"
          /\ pipeline' = "TornDown"
          /\ sink' = "Invalid"
          /\ chain' = "Closed"
          /\ head_suspends' = 0
          /\ deferred' = IF "error" \in handlers THEN Append(deferred, "error")
                                                 ELSE deferred

\* Connect(addr), and the tail of Connect().
ConnectTo(outcome) ==
    /\ ~IsTerminal /\ ~connected
    /\ \/ /\ ~request_set
          /\ HandleError
          /\ UNCHANGED connected
       \/ /\ request_set
          /\ BuildAndConnect(outcome)

Connect(outcome) ==
    /\ alive
    /\ ConnectTo(outcome)
    /\ UNCHANGED <<request_set, ready, start_requested, started, suspend_count,
                   handlers, told, frame, batch, alive>>

\* Connect() resolves the host name first, and does so even when the client
\* is already connected.
ConnectByName(resolved, outcome) ==
    /\ alive
    /\ \/ /\ ~request_set \/ ~resolved
          /\ HandleError
          /\ UNCHANGED connected
       \/ /\ request_set /\ resolved
          /\ ConnectTo(outcome)
    /\ UNCHANGED <<request_set, ready, start_requested, started, suspend_count,
                   handlers, told, frame, batch, alive>>

Start ==
    /\ alive
    /\ ~IsTerminal
    /\ \/ /\ ~connected
          /\ HandleError
          /\ UNCHANGED <<start_requested, started>>
       \/ /\ connected
          /\ start_requested' = TRUE
          /\ IF ready /\ ~started
             THEN StartPipeline(pipeline, chain)
             ELSE UNCHANGED <<state, started, pipeline, sink, chain,
                              head_suspends, deferred>>
    /\ UNCHANGED <<request_set, connected, ready, suspend_count, handlers,
                   told, frame, batch, alive>>

Stop ==
    /\ alive
    /\ ~IsTerminal
    /\ state' = "Stopping"
    /\ Invalidate
    /\ DoTeardown
    /\ UNCHANGED <<flags, suspend_count, handlers, deferred, told, frame,
                   batch, alive>>

\* Mutant: a suspension is forwarded whatever state the pipeline is in.
ForwardUnguarded(delta) == head_suspends' = head_suspends + delta

\* Pipeline::Suspend and Pipeline::Resume reach the head unless torn down.
ForwardToHead(delta) ==
    head_suspends' = IF pipeline \in {"None", "TornDown"} THEN head_suspends
                                                          ELSE head_suspends + delta

Suspend ==
    /\ alive
    /\ suspend_count < MaxSuspend
    /\ suspend_count' = suspend_count + 1
    /\ IF suspend_count = 0 THEN ForwardToHead(1) ELSE UNCHANGED head_suspends
    /\ UNCHANGED <<state, flags, handlers, pipeline, sink, chain, deferred,
                   told, frame, batch, alive>>

Resume ==
    /\ alive
    /\ suspend_count > 0
    /\ suspend_count' = suspend_count - 1
    /\ IF suspend_count = 1 THEN ForwardToHead(-1) ELSE UNCHANGED head_suspends
    /\ UNCHANGED <<state, flags, handlers, pipeline, sink, chain, deferred,
                   told, frame, batch, alive>>

\* Mutant: off the loop's thread nothing is deferred.
ReleaseForgetsDefer(thread) ==
    /\ alive' = FALSE
    /\ sink' = IF sink = "None" THEN "None" ELSE "Freed"
    /\ IF thread = "other" /\ pipeline \notin {"None", "TornDown"}
       THEN pipeline' = "TornDown" /\ UNCHANGED <<chain, head_suspends>>
       ELSE DoTeardown
    /\ UNCHANGED deferred

\* ~StreamingClient and ~Pipeline.  Off the loop's thread the chain outlives
\* the sink: its teardown is deferred, while the sink goes with its owners.
Release(thread) ==
    /\ alive' = FALSE
    /\ sink' = IF sink = "None" THEN "None" ELSE "Freed"
    /\ IF thread = "other" /\ pipeline \notin {"None", "TornDown"}
       THEN /\ pipeline' = "TornDown"
            /\ deferred' = Append(deferred, "teardown")
            /\ UNCHANGED <<chain, head_suspends>>
       ELSE /\ DoTeardown
            /\ UNCHANGED deferred

\* The user drops the last reference.  A record callback on the stack holds
\* one of its own (weak_self.lock()), which is then the last.
Destroy(thread) ==
    /\ alive
    /\ \/ /\ frame = "idle"
          /\ Release(thread)
          /\ UNCHANGED frame
       \/ /\ frame = "record"
          /\ frame' = "dropped"
          /\ UNCHANGED <<alive, pipeline, sink, chain, head_suspends, deferred>>
    /\ UNCHANGED <<state, flags, suspend_count, handlers, told, batch>>

-----------------------------------------------------------------------------
(***************************************************************************)
(* Callbacks of the chain.  None happens while a record callback is on the *)
(* stack, nor once the head is closed.                                     *)
(***************************************************************************)
ChainCanEmit == frame = "idle" /\ sink # "Freed" /\ chain \in {"Connecting", "Open"}

\* The chain's ready callback fires once, when the head connects (live) or
\* the TLS handshake completes (historical).
HandleReady ==
    /\ ChainCanEmit /\ chain = "Connecting"
    /\ ~IsTerminal
    /\ ready' = TRUE
    /\ IF start_requested /\ ~started
       THEN StartPipeline(MarkReady(pipeline), "Open")
       ELSE /\ state' = "Connected"
            /\ pipeline' = MarkReady(pipeline)
            /\ chain' = "Open"
            /\ UNCHANGED <<started, sink, head_suspends, deferred>>
    /\ UNCHANGED <<request_set, connected, start_requested, suspend_count,
                   handlers, told, frame, batch, alive>>

\* sink_.OnData with n records: HandleBatch hands the whole batch to a batch
\* handler, or enters the record handler with the first record.
SinkOnData(n) ==
    /\ ChainCanEmit /\ chain = "Open"
    /\ sink = "Valid"
    /\ handlers \cap {"batch", "record"} # {}
    /\ frame' = "record"
    /\ batch' = IF "batch" \in handlers THEN 0 ELSE n - 1
    /\ UNCHANGED <<state, flags, suspend_count, handlers, pipeline, sink,
                   chain, head_suspends, deferred, told, alive>>

\* The record handler returns: the loop of HandleBatch goes on, or ends and
\* the callback gives up its reference, on the loop's thread.
NextRecord ==
    /\ frame \in {"record", "dropped"}
    /\ \/ /\ batch > 0
          /\ batch' = batch - 1
          /\ UNCHANGED <<frame, alive, pipeline, sink, chain, head_suspends,
                         deferred>>
       \/ /\ batch = 0
          /\ frame' = "idle"
          /\ IF frame = "dropped"
             THEN Release("loop")
             ELSE UNCHANGED <<alive, pipeline, sink, chain, head_suspends, deferred>>
          /\ UNCHANGED batch
    /\ UNCHANGED <<state, flags, suspend_count, handlers, told>>

SinkOnError ==
    /\ ChainCanEmit
    /\ sink = "Valid"
    /\ HandleError
    /\ UNCHANGED <<flags, suspend_count, handlers, told, frame, batch, alive>>

SinkOnComplete ==
    /\ ChainCanEmit
    /\ sink = "Valid"
    /\ HandleComplete
    /\ UNCHANGED <<flags, suspend_count, handlers, told, frame, batch, alive>>

(***************************************************************************)
(* The loop runs the oldest deferred closure.                              *)
(***************************************************************************)
\* Mutant: the deferred closure checks IsTerminal() before it reports.
RunDeferredChecksState ==
    /\ frame = "idle"
    /\ deferred # <<>>
    /\ deferred' = Tail(deferred)
    /\ IF Head(deferred) = "teardown"
       THEN chain' = "Closed" /\ head_suspends' = 0 /\ UNCHANGED told
       ELSE /\ told' = IF alive /\ ~IsTerminal THEN Append(told, Head(deferred))
                                               ELSE told
            /\ UNCHANGED <<chain, head_suspends>>
    /\ UNCHANGED <<state, flags, suspend_count, handlers, pipeline, sink,
                   frame, batch, alive>>

RunDeferred ==
    /\ frame = "idle"
    /\ deferred # <<>>
    /\ deferred' = Tail(deferred)
    /\ IF Head(deferred) = "teardown"
       THEN chain' = "Closed" /\ head_suspends' = 0 /\ UNCHANGED told
       ELSE /\ told' = IF alive THEN Append(told, Head(deferred)) ELSE told
            /\ UNCHANGED <<chain, head_suspends>>
    /\ UNCHANGED <<state, flags, suspend_count, handlers, pipeline, sink,
                   frame, batch, alive>>

-----------------------------------------------------------------------------
Outcomes == {"ok", "error"}

Next ==
    \/ SetRequest
    \/ \E h \in Handlers : SetHandler(h)
    \/ \E o \in Outcomes : Connect(o)
    \/ \E r \in BOOLEAN, o \in Outcomes : ConnectByName(r, o)
    \/ Start
    \/ Stop
    \/ Suspend
    \/ Resume
    \/ \E t \in Threads : Destroy(t)
    \/ HandleReady
    \/ \E n \in 1..MaxBatch : SinkOnData(n)
    \/ NextRecord
    \/ SinkOnError
    \/ SinkOnComplete
    \/ RunDeferred

Spec == Init /\ [][Next]_vars

\* The loop keeps running its deferred callbacks, and a record callback of the
\* user returns.
Fairness == WF_vars(RunDeferred) /\ WF_vars(NextRecord)

FairSpec == Spec /\ Fairness

-----------------------------------------------------------------------------
(***************************************************************************)
(* Properties.                                                             *)
(***************************************************************************)
ControlTypeOK ==
    /\ state \in ClientState
    /\ request_set \in BOOLEAN /\ connected \in BOOLEAN /\ ready \in BOOLEAN
    /\ start_requested \in BOOLEAN /\ started \in BOOLEAN
    /\ handlers \in SUBSET Handlers
    /\ pipeline \in PipelineState
    /\ sink \in SinkState
    /\ chain \in ChainState
    /\ frame \in {"idle", "record", "dropped"}
    /\ alive \in BOOLEAN

CountTypeOK ==
    /\ suspend_count \in 0..MaxSuspend
    /\ head_suspends \in {0, 1}
    /\ batch \in 0..MaxBatch - 1

QueueTypeOK ==
    /\ deferred \in Seq(Closures)
    /\ told \in Seq({"error", "complete"})

\* Every variable keeps its type; in particular the head socket is suspended
\* at most once, and never resumed below zero.
TypeOK == ControlTypeOK /\ CountTypeOK /\ QueueTypeOK

\* The std::terminate() calls of Pipeline::Connect, MarkReady and Start are
\* unreachable from the client, whatever order the user, the chain's ready
\* callback and a synchronous failure take.
PipelineNeverAborts == pipeline # "Aborted"

\* A client that reports a terminal state holds no live connection: the
\* pipeline is torn down, the sink delivers nothing more and the head socket
\* is closed.
TerminalReleases ==
    IsTerminal => /\ pipeline \in {"None", "TornDown"}
                  /\ sink # "Valid"
                  /\ alive => chain \in {"None", "Closed"}

\* Nested Suspend() calls of the client, made before or after Connect(), keep
\* exactly one suspension on the head socket while the pipeline lives, so the
\* head's Resume() never underflows its count.
SuspendForwarded ==
    /\ alive /\ pipeline \notin {"None", "TornDown"} =>
          head_suspends = IF suspend_count > 0 THEN 1 ELSE 0
    /\ pipeline \in {"None", "TornDown"} /\ alive => head_suspends = 0

\* The last reference may go on any thread, between callbacks of the chain or
\* under one of them ("Destructor: Safe to call from any thread", Pipeline).
\* Whichever it is, a chain that has outlived its client is owed exactly one
\* teardown on the loop's thread, and no other chain is owed any: until that
\* teardown runs the chain refers to a sink that is gone.
TeardownsOwed == {i \in 1..Len(deferred) : deferred[i] = "teardown"}

OrphanIsTornDown ==
    IF ~alive /\ chain \in {"Connecting", "Open"}
    THEN \E i \in 1..Len(deferred) : TeardownsOwed = {i}
    ELSE TeardownsOwed = {}

\* The client state a terminal callback announces.
StateOf(kind) == IF kind = "error" THEN "Error" ELSE "Done"

\* Every terminal callback the user gets, or is about to get, is the one the
\* client's state names, and there is at most one: none after Stop().
ReportMatchesState ==
    /\ Len(told) <= 1
    /\ \A i \in 1..Len(told) : state = StateOf(told[i])
    /\ \A i \in 1..Len(deferred) : deferred[i] # "teardown" =>
          /\ state = StateOf(deferred[i])
          /\ told = <<>>
          /\ \A j \in 1..Len(deferred) : deferred[j] # "teardown" => i = j

\* "Once in a terminal state, no further state transitions should occur"
\* (IsTerminal).  This is about steps: what Start() does to a state that
\* HandleError sets inside it is the subject of ReportMatchesState.
TerminalIsFinal == [][IsTerminal => UNCHANGED state]_vars

\* A terminal callback that has been deferred reaches the user, unless the
\* client is destroyed first.
TerminalReported == (alive /\ deferred # <<>>) ~> (told # <<>> \/ ~alive)
=============================================================================
