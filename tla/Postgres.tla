------------------------------ MODULE Postgres ------------------------------
(***************************************************************************)
(* PostgresDatabase and PostgresCopyWriter of the dbwriter example: one    *)
(* libpq connection, one caller of query/execute, and copy writers made by *)
(* begin_copy.  All coroutines run on one thread: the one in `running'     *)
(* keeps it until it awaits the socket, returns or throws.  libpq and the  *)
(* server are external.                                                    *)
(***************************************************************************)
EXTENDS Integers, FiniteSets

CONSTANTS
    Writers,          \* copy writers
    MaxRows,          \* bound on the rows of a copy
    MaxQueries        \* bound on calls of query, execute, execute_count

VARIABLES
    conn,             \* state_->conn: "none", "ok", "bad" (lost), "freed"
    valid,            \* state_->valid
    copy_in_flight,   \* state_->copy_in_flight
    operation_in_flight,
    writer,           \* per writer: made, in_copy, rows put, and how the copy ended:
                      \* "abandoned" if the destructor could not end it
    task,             \* per caller: the coroutine and the place it has reached
    running,          \* the coroutine that has the thread, or "none"
    queries,          \* calls of query, execute, execute_count so far
    async,            \* libpq's asyncStatus: "idle", "busy", "copy_in", or the result
                      \* that is ready, "ok" or "error"
    wire,             \* the command the server has, and its sender
    reply,            \* the result the server has sent
    stored,           \* per writer: the rows the server has committed
    freed_use         \* history: the call that first used a freed connection

flags == <<copy_in_flight, operation_in_flight>>
server == <<wire, reply, stored>>
vars == <<conn, valid, flags, writer, task, running, queries, async, server, freed_use>>

Db == "db"
Idle == [call |-> "none", at |-> "none"]
NoCommand == [cmd |-> "none", by |-> Db]
Run(call, at) == [call |-> call, at |-> at]

Init ==
    /\ conn = "none" /\ valid = FALSE
    /\ copy_in_flight = FALSE /\ operation_in_flight = FALSE
    /\ writer = [w \in Writers |-> [made |-> FALSE, in_copy |-> FALSE, rows |-> 0, end |-> "none"]]
    /\ task = [r \in Writers \cup {Db} |-> Idle]
    /\ running = "none" /\ queries = 0
    /\ async = "idle" /\ wire = NoCommand /\ reply = "none"
    /\ stored = [w \in Writers |-> 0]
    /\ freed_use = Idle

-----------------------------------------------------------------------------
(***************************************************************************)
(* How a coroutine r goes on.                                              *)
(***************************************************************************)
\* A call of libpq at that place; the first one on a freed connection is noted.
Touch(place) ==
    freed_use' = IF conn = "freed" /\ freed_use = Idle THEN place ELSE freed_use

Continue(r, at) ==
    task' = [task EXCEPT ![r].at = at] /\ UNCHANGED <<running, flags, writer>>

Await(r, at) ==
    /\ task' = [task EXCEPT ![r].at = at]
    /\ running' = "none"
    /\ UNCHANGED <<flags, writer>>

Leave(r) == task' = [task EXCEPT ![r] = Idle] /\ running' = "none"

\* Mutant: a start() that fails leaves copy_in_flight set.
ExitForgetsGuard(r) ==
    LET aborts == task[r].call = "abort"
    IN  /\ Leave(r)
        /\ operation_in_flight' = IF r = Db THEN FALSE ELSE operation_in_flight
        /\ copy_in_flight' = IF aborts THEN FALSE ELSE copy_in_flight
        /\ writer' = IF aborts THEN [writer EXCEPT ![r].in_copy = FALSE] ELSE writer

\* r returns or throws, and its scope guard runs: OperationGuard, the CopyGuard
\* of a start() that has not got into COPY, AbortGuard.
Exit(r) ==
    LET aborts == task[r].call = "abort"
        unstarted == task[r].call = "start" /\ ~writer[r].in_copy
    IN  /\ Leave(r)
        /\ operation_in_flight' = IF r = Db THEN FALSE ELSE operation_in_flight
        /\ copy_in_flight' = IF aborts \/ unstarted THEN FALSE ELSE copy_in_flight
        /\ writer' = IF aborts THEN [writer EXCEPT ![r].in_copy = FALSE] ELSE writer

\* finish() is through with the copy, well or badly: both flags are cleared.
EndCopy(r, end) ==
    /\ Leave(r)
    /\ copy_in_flight' = FALSE
    /\ writer' = [writer EXCEPT ![r].in_copy = FALSE, ![r].end = end]
    /\ UNCHANGED operation_in_flight

-----------------------------------------------------------------------------
(***************************************************************************)
(* The calls.  A call that fails its checks throws or returns at once and  *)
(* changes nothing.  A writer is used for one copy.                        *)
(***************************************************************************)
IsConnected == valid /\ conn = "ok"
NoOperationInFlight == ~operation_in_flight /\ ~copy_in_flight

Connect ==
    /\ conn = "none"
    /\ conn' = "ok" /\ valid' = TRUE
    /\ UNCHANGED <<flags, writer, task, running, queries, async, server, freed_use>>

\* query, execute, execute_count.
Query ==
    /\ running = "none" /\ task[Db] = Idle /\ queries < MaxQueries
    /\ IsConnected /\ NoOperationInFlight
    /\ operation_in_flight' = TRUE
    /\ queries' = queries + 1
    /\ task' = [task EXCEPT ![Db] = Run("query", "send")] /\ running' = Db
    /\ UNCHANGED <<conn, valid, copy_in_flight, writer, async, server, freed_use>>

BeginCopy(w) ==
    /\ running = "none" /\ ~writer[w].made /\ writer[w].end = "none"
    /\ IsConnected /\ NoOperationInFlight
    /\ writer' = [writer EXCEPT ![w].made = TRUE]
    /\ UNCHANGED <<conn, valid, flags, task, running, queries, async, server, freed_use>>

Begin(w, call, at) ==
    /\ running = "none" /\ writer[w].made /\ task[w] = Idle
    /\ task' = [task EXCEPT ![w] = Run(call, at)] /\ running' = w
    /\ UNCHANGED <<conn, valid, operation_in_flight, queries, async, server, freed_use>>

\* start() does not look at operation_in_flight_: libpq refuses its command
\* while a query is under way.
Start(w) ==
    /\ valid /\ ~writer[w].in_copy /\ ~copy_in_flight /\ writer[w].end = "none"
    /\ Begin(w, "start", "send")
    /\ copy_in_flight' = TRUE
    /\ UNCHANGED writer

WriteRow(w) ==
    /\ valid /\ writer[w].in_copy /\ writer[w].rows < MaxRows
    /\ Begin(w, "row", "put")
    /\ UNCHANGED <<copy_in_flight, writer>>

Finish(w) ==
    /\ valid /\ writer[w].in_copy
    /\ Begin(w, "finish", "put")
    /\ writer' = [writer EXCEPT ![w].end = "failed"]
    /\ UNCHANGED copy_in_flight

Abort(w) ==
    /\ valid /\ writer[w].in_copy
    /\ Begin(w, "abort", "end")
    /\ writer' = [writer EXCEPT ![w].end = IF @ = "none" THEN "aborted" ELSE @]
    /\ UNCHANGED copy_in_flight

\* The writer is gone, and its copy with it.
Discard(w, end) ==
    writer' = [writer EXCEPT ![w].made = FALSE, ![w].in_copy = FALSE, ![w].end = end]

GivenUp(w) == IF writer[w].end = "none" THEN "aborted" ELSE writer[w].end

\* ~PostgresCopyWriter in the middle of a copy: putCopyEnd, blocking, and the
\* results are drained.  What putCopyEnd answers is not looked at: on the
\* non-blocking connection it may have ended the copy or not.
EndCopyBlocking(w) ==
    /\ Touch(Run("destroy", "end"))
    /\ copy_in_flight' = FALSE
    /\ \/ async' = "idle" /\ Discard(w, GivenUp(w))
       \/ /\ conn = "ok" /\ async = "copy_in"
          /\ UNCHANGED async /\ Discard(w, "abandoned")

\* Mutant: the destructor does not look at state_->valid.
DestroyWriterUnchecked(w) ==
    /\ running = "none" /\ writer[w].made /\ task[w] = Idle
    /\ IF writer[w].in_copy
       THEN EndCopyBlocking(w)
       ELSE Discard(w, GivenUp(w)) /\ UNCHANGED <<copy_in_flight, async, freed_use>>
    /\ UNCHANGED <<conn, valid, operation_in_flight, task, running, queries, server>>

\* ~PostgresCopyWriter.
DestroyWriter(w) ==
    /\ running = "none" /\ writer[w].made /\ task[w] = Idle
    /\ IF writer[w].in_copy /\ valid
       THEN EndCopyBlocking(w)
       ELSE Discard(w, GivenUp(w)) /\ UNCHANGED <<copy_in_flight, async, freed_use>>
    /\ UNCHANGED <<conn, valid, operation_in_flight, task, running, queries, server>>

\* ~PostgresDatabase, at any time but during its own query(): a writer may be
\* waiting for the socket.
DestroyDatabase ==
    /\ running = "none" /\ task[Db] = Idle /\ conn \in {"ok", "bad"}
    /\ valid' = FALSE /\ conn' = "freed"
    /\ UNCHANGED <<flags, writer, task, running, queries, async, server, freed_use>>

-----------------------------------------------------------------------------
(***************************************************************************)
(* The steps of the running coroutine r: one call of libpq each.           *)
(***************************************************************************)
SendQuery(r) ==
    /\ task[r].at = "send" /\ Touch(task[r])
    /\ IF conn = "ok" /\ async = "idle"
       THEN Continue(r, "flush") /\ async' = "busy"
       ELSE Exit(r) /\ UNCHANGED async
    /\ UNCHANGED server

\* check_valid(), which the writers call each time round a loop that writes.
Invalid(r) == r # Db /\ ~valid

\* Mutant: abort() ends the copy without an error message.
CommandWithoutError(r) ==
    CASE task[r].call = "query" -> "query"
      [] task[r].call = "start" -> "copy"
      [] OTHER -> "end"

\* What the server has received when r has flushed.
Command(r) ==
    CASE task[r].call = "query" -> "query"
      [] task[r].call = "start" -> "copy"
      [] task[r].call = "abort" -> "fail"
      [] OTHER -> "end"

\* flush() until everything is sent.
Flush(r) ==
    /\ task[r].at \in {"flush", "put_flush", "end_flush"}
    /\ UNCHANGED <<async, reply, stored>>
    /\ IF Invalid(r) THEN Exit(r) /\ UNCHANGED <<wire, freed_use>>
       ELSE /\ Touch(task[r])
            /\ \/ /\ conn = "ok"
                  /\ Await(r, task[r].at) /\ UNCHANGED wire
               \/ /\ conn = "ok"
                  /\ CASE task[r].at # "put_flush" -> Continue(r, "read")
                       [] task[r].at = "put_flush" /\ task[r].call = "finish" -> Continue(r, "end")
                       [] OTHER -> Exit(r)
                  /\ wire' = IF task[r].at = "put_flush" THEN wire
                             ELSE [cmd |-> Command(r), by |-> r]
               \/ /\ conn # "ok"
                  /\ CASE task[r].call = "abort" -> Continue(r, "read")
                       [] task[r].call = "finish" /\ task[r].at = "end_flush" -> EndCopy(r, "failed")
                       [] OTHER -> Exit(r)
                  /\ UNCHANGED wire

\* putCopyData() of the header, a row or the trailer.
Put(r) ==
    /\ task[r].at = "put" /\ UNCHANGED <<async, server>>
    /\ IF Invalid(r) THEN Exit(r) /\ UNCHANGED freed_use
       ELSE /\ Touch(task[r])
            /\ \/ /\ conn = "ok" /\ async = "copy_in"
                  /\ task' = [task EXCEPT ![r].at = "put_flush"]
                  /\ writer' = IF task[r].call = "row" THEN [writer EXCEPT ![r].rows = @ + 1] ELSE writer
                  /\ UNCHANGED <<running, flags>>
               \/ /\ conn = "ok" /\ async = "copy_in"
                  /\ Await(r, "put")
               \/ /\ conn # "ok" \/ async # "copy_in"
                  /\ Exit(r)

\* putCopyEnd(); abort() goes on when it fails.
PutEnd(r) ==
    /\ task[r].at = "end" /\ UNCHANGED server
    /\ IF Invalid(r) THEN Exit(r) /\ UNCHANGED <<async, freed_use>>
       ELSE /\ Touch(task[r])
            /\ \/ /\ conn = "ok" /\ async = "copy_in"
                  /\ Continue(r, "end_flush") /\ async' = "busy"
               \/ /\ conn = "ok" /\ async = "copy_in"
                  /\ Await(r, "end") /\ UNCHANGED async
               \/ /\ conn # "ok" \/ async # "copy_in"
                  /\ IF task[r].call = "abort" THEN Continue(r, "end_flush") /\ UNCHANGED async
                     ELSE EndCopy(r, "failed") /\ async' = "idle"

\* isBusy(): the result is there, or the socket is awaited if not readable.
\* start() and finish() check state_->valid only after this call.
Read(r) ==
    /\ task[r].at = "read" /\ UNCHANGED <<async, server>>
    /\ IF task[r].call = "abort" /\ ~valid THEN Exit(r) /\ UNCHANGED freed_use
       ELSE /\ Touch(task[r])
            /\ \/ async = "busy" /\ conn = "ok" /\ Continue(r, "consume")
               \/ async = "busy" /\ conn = "ok" /\ Await(r, "consume")
               \/ ~(async = "busy" /\ conn = "ok") /\ Continue(r, "result")

\* consumeInput(), in start() and finish() without a look at state_->valid
\* after the wait.  query() ignores a failure, abort() leaves its loop.
Consume(r) ==
    /\ task[r].at = "consume" /\ UNCHANGED <<wire, stored>>
    /\ IF task[r].call = "abort" /\ ~valid THEN Exit(r) /\ UNCHANGED <<async, reply, freed_use>>
       ELSE /\ Touch(task[r])
            /\ \/ /\ conn = "ok" /\ reply = "none"
                  /\ Continue(r, "read") /\ UNCHANGED <<async, reply>>
               \/ /\ conn = "ok" /\ reply # "none"
                  /\ Continue(r, "read")
                  /\ async' = reply
                  /\ reply' = "none"
               \/ /\ conn # "ok"
                  /\ CASE task[r].call = "query" -> Continue(r, "read")
                       [] task[r].call = "abort" -> Continue(r, "result")
                       [] OTHER -> Exit(r)
                  /\ UNCHANGED <<async, reply>>

\* getResult() and the drain that follows it, except into COPY.
Result(r) ==
    /\ task[r].at = "result" /\ Touch(task[r]) /\ UNCHANGED server
    /\ IF task[r].call = "start" /\ async = "copy_in" /\ conn = "ok"
       THEN /\ task' = [task EXCEPT ![r].at = "put"]
            /\ writer' = [writer EXCEPT ![r].in_copy = TRUE]
            /\ UNCHANGED <<running, flags, async>>
       ELSE /\ async' = "idle"
            /\ IF task[r].call = "finish"
               THEN EndCopy(r, IF async = "ok" THEN "ok" ELSE "failed")
               ELSE Exit(r)

Step(r) ==
    /\ running = r
    /\ \/ SendQuery(r) \/ Flush(r) \/ Put(r) \/ PutEnd(r)
       \/ Read(r) \/ Consume(r) \/ Result(r)
    /\ UNCHANGED <<conn, valid, queries>>

\* The socket is ready for a coroutine that awaits it.
Resume(r) ==
    /\ running = "none" /\ task[r] # Idle
    /\ running' = r
    /\ UNCHANGED <<conn, valid, flags, writer, task, queries, async, server, freed_use>>

-----------------------------------------------------------------------------
(***************************************************************************)
(* The server and the network.                                             *)
(***************************************************************************)
\* The server answers the command it has.  A copy is committed when its end
\* arrives, if the server accepts the rows.
Serve ==
    /\ wire.cmd # "none" /\ reply = "none"
    /\ \/ /\ wire.cmd \in {"query", "end"}
          /\ reply' = "ok"
       \/ /\ wire.cmd = "copy"
          /\ reply' = "copy_in"
       \/ reply' = "error"
    /\ stored' = IF wire.cmd = "end" /\ reply' = "ok"
                 THEN [stored EXCEPT ![wire.by] = writer[wire.by].rows] ELSE stored
    /\ wire' = NoCommand
    /\ UNCHANGED <<conn, valid, flags, writer, task, running, queries, async, freed_use>>

\* The connection is lost, and libpq notices.
Lose ==
    /\ conn = "ok"
    /\ conn' = "bad"
    /\ UNCHANGED <<valid, flags, writer, task, running, queries, async, server, freed_use>>

Next ==
    \/ Connect \/ Query \/ DestroyDatabase \/ Serve \/ Lose
    \/ \E w \in Writers : \/ BeginCopy(w) \/ Start(w) \/ WriteRow(w)
                          \/ Finish(w) \/ Abort(w) \/ DestroyWriter(w)
    \/ \E r \in Writers \cup {Db} : Step(r) \/ Resume(r)

Spec == Init /\ [][Next]_vars

-----------------------------------------------------------------------------
\* A writer that outlives its database finds out before it calls libpq on the
\* connection that was freed, its destructor included; but for one place, the
\* consumeInput() of a start() or finish() that was waiting for the answer
\* when the database went.
FreedUseConfined ==
    freed_use \in {Idle, Run("start", "consume"), Run("finish", "consume")}

\* A connection that no flag marks as taken, and that is not lost, has no
\* command outstanding, so that the next operation is accepted: after any
\* failed query or copy, but not after a writer destroyed in the middle of its
\* copy could not end it.  A flag that is set belongs to a call under way or
\* to a writer that is in its copy, so it will be cleared.
ConnectionUsable ==
    /\ IsConnected /\ NoOperationInFlight =>
          \/ async = "idle" /\ reply = "none" /\ wire = NoCommand
          \/ \E w \in Writers : writer[w].end = "abandoned"
    /\ operation_in_flight => task[Db] # Idle
    /\ copy_in_flight /\ valid => \E w \in Writers : writer[w].in_copy \/ task[w].call = "start"

\* A copy is committed as a whole or not at all: with all its rows if finish()
\* succeeded, not at all if it was aborted or abandoned before finish() was
\* tried.
CopyAtomic ==
    \A w \in Writers :
        /\ writer[w].end = "ok" => stored[w] = writer[w].rows
        /\ writer[w].end \in {"none", "aborted", "abandoned"} => stored[w] = 0
        /\ stored[w] \in {0, writer[w].rows}
=============================================================================
