------------------------------ MODULE TcpSocket ------------------------------
(***************************************************************************)
(* TcpSocket<D>: the head of every protocol chain, on an edge-triggered    *)
(* epoll registration (EpollEventHandle).                                  *)
(*                                                                         *)
(* A callback into the downstream component (OnData, OnDone, OnError, the  *)
(* connect callback) may call Suspend, Resume, Write or Close before it    *)
(* returns, so a handler is not one step: `stack' holds the callbacks that *)
(* have not returned, innermost first, and Return resumes the code after   *)
(* the innermost one.                                                      *)
(*                                                                         *)
(* The kernel is external: `rx' unread chunks, `room' chunks the send      *)
(* buffer still takes, `peer' what the other side did, and `armed' TRUE    *)
(* while the registration is on epoll's ready list.  EpollWait takes it    *)
(* off the list; `pending' is what HandleEvents has still to dispatch.     *)
(***************************************************************************)
EXTENDS Integers, Sequences, FiniteSets, FiniteSetsExt

CONSTANTS
    MaxRx,          \* chunks the receive buffer holds
    MaxRoom,        \* chunks the send buffer holds
    MaxWrites,      \* bound on Write() calls
    MaxSuspend      \* bound on nested Suspend() calls

VARIABLES
    handle,         \* handle_ is not null
    connected,      \* connected_
    read_paused,    \* read_paused_
    watching_write, \* watching_write_
    suspend_count,  \* suspend_count_
    write_buffer,   \* write_buffer_, as the numbers of the chunks in it
    submitted,      \* chunks Write() has accepted
    sent,           \* chunks handed to the kernel
    interest,       \* events of the registration, EPOLLIN and EPOLLOUT
    armed,          \* the registration is on the ready list
    pending,        \* events epoll_wait returned and not yet dispatched
    excused,        \* data that may still come under this suspension
    rx, room, peer, \* kernel: unread chunks, free send space, remote side
    stack           \* callbacks that have not returned, innermost first

socket == <<handle, connected, read_paused, watching_write, suspend_count>>
output == <<write_buffer, submitted, sent>>
kernel == <<rx, room, peer>>
vars == <<socket, output, interest, armed, pending, excused, kernel, stack>>

\* A callback on the stack, and the code to resume when it returns.
Frame == [at : {"data", "done", "error", "connect"},
          then : {"return", "eof", "fail", "close", "flush"}]

-----------------------------------------------------------------------------
(***************************************************************************)
(* The kernel's view.                                                      *)
(***************************************************************************)
Readiness ==
    (IF rx > 0 \/ peer = "closed" THEN {"in"} ELSE {})
        \union (IF peer \in {"up", "closed"} /\ room > 0 THEN {"out"} ELSE {})

\* EPOLL_CTL_ADD and EPOLL_CTL_MOD put a ready registration back on the list.
Rearm(events) ==
    /\ interest' = events
    /\ armed' = (armed \/ events \cap Readiness # {} \/ peer = "reset")

\* Mutant: reading stays enabled while paused.
UpdateFlagsAlwaysRead(paused, watching) ==
    IF handle /\ connected
    THEN Rearm({"in"} \union (IF watching THEN {"out"} ELSE {}))
    ELSE UNCHANGED <<interest, armed>>

\* UpdateEpollFlags with the flags it is about to see.
UpdateEpollFlags(paused, watching) ==
    IF handle /\ connected
    THEN Rearm((IF paused THEN {} ELSE {"in"}) \union (IF watching THEN {"out"} ELSE {}))
    ELSE UNCHANGED <<interest, armed>>

Call(at, then, below) == <<[at |-> at, then |-> then]>> \o below

\* Close: the registration goes away with the handle.
CloseSocket ==
    /\ handle' = FALSE /\ connected' = FALSE /\ read_paused' = FALSE
    /\ watching_write' = FALSE /\ suspend_count' = 0
    /\ write_buffer' = <<>>
    /\ interest' = {} /\ armed' = FALSE
    /\ UNCHANGED <<submitted, sent>>

\* What HandleReadable does once OnData has returned.
AfterData(then, below) ==
    CASE then = "eof" -> CloseSocket /\ stack' = Call("done", "return", below)
      [] then = "fail" -> /\ stack' = Call("error", "return", below)
                          /\ UNCHANGED <<socket, output, interest, armed>>
      [] OTHER -> stack' = below /\ UNCHANGED <<socket, output, interest, armed>>

-----------------------------------------------------------------------------
(***************************************************************************)
(* The loop of HandleWritable on a connected socket, for the buffer buf    *)
(* that it finds: what the kernel takes is sent; then the registration     *)
(* stops watching, or watches for, writability, or the error is reported   *)
(* on top of the stack below.                                              *)
(***************************************************************************)
FlushBuffer(buf, below) ==
    LET n == IF peer = "reset" THEN 0 ELSE Min({room, Len(buf)})
        rest == SubSeq(buf, n + 1, Len(buf))
        watch == rest # <<>>
    IN  /\ sent' = sent \o SubSeq(buf, 1, n)
        /\ write_buffer' = rest
        /\ room' = room - n
        /\ IF watch /\ peer = "reset"
           THEN /\ stack' = Call("error", "return", below)
                /\ UNCHANGED <<watching_write, interest, armed>>
           ELSE /\ stack' = below
                /\ watching_write' = watch
                /\ IF watch = watching_write
                   THEN UNCHANGED <<interest, armed>>
                   ELSE UpdateEpollFlags(read_paused, watch)
        /\ UNCHANGED <<handle, connected, read_paused, suspend_count, rx, peer>>

\* HandleWritable.  The first one completes the connect: the flags drop
\* EPOLLOUT and the connect callback runs before the loop.
HandleWritable ==
    IF connected
    THEN FlushBuffer(write_buffer, <<>>) /\ UNCHANGED submitted
    ELSE /\ connected' = TRUE
         /\ IF handle THEN Rearm(IF read_paused THEN {} ELSE {"in"})
                      ELSE UNCHANGED <<interest, armed>>
         /\ stack' = Call("connect", "flush", <<>>)
         /\ UNCHANGED <<handle, read_paused, watching_write, suspend_count,
                        output, kernel>>

\* HandleReadable: everything unread goes downstream in one OnData, then the
\* end of the stream or a read error is handled.  With nothing unread the
\* code after OnData runs at once.
HandleReadable(then) ==
    /\ rx' = 0
    /\ \/ rx > 0 /\ stack' = Call("data", then, <<>>) /\ UNCHANGED <<socket, output, interest, armed>>
       \/ rx = 0 /\ AfterData(then, <<>>)

-----------------------------------------------------------------------------
Init ==
    /\ handle = FALSE /\ connected = FALSE /\ read_paused = FALSE
    /\ watching_write = FALSE /\ suspend_count = 0
    /\ write_buffer = <<>> /\ submitted = 0 /\ sent = <<>>
    /\ interest = {} /\ armed = FALSE /\ pending = {} /\ excused = "none"
    /\ rx = 0 /\ room = MaxRoom /\ peer = "none"
    /\ stack = <<>>

(***************************************************************************)
(* Calls of the owner and of the downstream component.  They come from a   *)
(* callback of this socket or from anywhere else on the loop's thread,     *)
(* callbacks of other handles between epoll_wait and the dispatch of this  *)
(* one's events included.                                                  *)
(***************************************************************************)
\* Connect: socket() or connect() may fail at once.
Connect(outcome) ==
    /\ peer = "none"
    /\ \/ /\ outcome = "error"
          /\ peer' = "failed"
          /\ stack' = Call("error", "return", stack)
          /\ UNCHANGED <<handle, interest, armed>>
       \/ /\ outcome = "ok"
          /\ peer' = "connecting"
          /\ handle' = TRUE
          /\ Rearm({"in", "out"})
          /\ UNCHANGED stack
    /\ UNCHANGED <<connected, read_paused, watching_write, suspend_count,
                   output, pending, excused, rx, room>>

\* Mutant: new output goes ahead of what is already buffered.
WriteJumpsQueue ==
    /\ handle
    /\ submitted < MaxWrites
    /\ submitted' = submitted + 1
    /\ LET buf == <<submitted + 1>> \o write_buffer
       IN  IF connected
           THEN FlushBuffer(buf, stack)
           ELSE /\ write_buffer' = buf
                /\ UNCHANGED <<socket, sent, interest, armed, kernel, stack>>
    /\ UNCHANGED <<pending, excused>>

\* Write one chunk: queued, and flushed at once on a connected socket.
Write ==
    /\ handle
    /\ submitted < MaxWrites
    /\ submitted' = submitted + 1
    /\ LET buf == Append(write_buffer, submitted + 1)
       IN  IF connected
           THEN FlushBuffer(buf, stack)
           ELSE /\ write_buffer' = buf
                /\ UNCHANGED <<socket, sent, interest, armed, kernel, stack>>
    /\ UNCHANGED <<pending, excused>>

Close ==
    /\ handle
    /\ CloseSocket
    /\ UNCHANGED <<pending, excused, kernel, stack>>

\* The data a suspension that begins now cannot hold back: all of it without
\* a handle to pause, and the one event that epoll_wait has returned.
Excuse == CASE ~handle -> "any"
            [] handle /\ "in" \in pending -> "one"
            [] OTHER -> "none"

Suspend ==
    /\ suspend_count < MaxSuspend
    /\ suspend_count' = suspend_count + 1
    /\ excused' = IF suspend_count = 0 THEN Excuse ELSE excused
    /\ IF suspend_count = 0 /\ ~read_paused /\ handle
       THEN read_paused' = TRUE /\ UpdateEpollFlags(TRUE, watching_write)
       ELSE UNCHANGED <<read_paused, interest, armed>>
    /\ UNCHANGED <<handle, connected, watching_write, output, pending, kernel,
                   stack>>

\* Mutant: the registration is not updated.
ResumeForgetsEpoll ==
    /\ suspend_count > 0
    /\ suspend_count' = suspend_count - 1
    /\ read_paused' = (read_paused /\ suspend_count # 1)
    /\ UNCHANGED <<handle, connected, watching_write, output, interest, armed,
                   pending, excused, kernel, stack>>

Resume ==
    /\ suspend_count > 0
    /\ suspend_count' = suspend_count - 1
    /\ IF suspend_count = 1 /\ read_paused /\ handle
       THEN read_paused' = FALSE /\ UpdateEpollFlags(FALSE, watching_write)
       ELSE UNCHANGED <<read_paused, interest, armed>>
    /\ UNCHANGED <<handle, connected, watching_write, output, pending, excused,
                   kernel, stack>>

\* The innermost callback returns to the code that made it.
Return ==
    /\ stack # <<>>
    /\ LET f == Head(stack)  below == Tail(stack)
       IN  CASE f.at = "data" ->
                  AfterData(f.then, below) /\ UNCHANGED kernel
             [] f.then = "close" ->
                  CloseSocket /\ stack' = below /\ UNCHANGED kernel
             [] f.then = "flush" ->
                  FlushBuffer(write_buffer, below) /\ UNCHANGED submitted
             [] OTHER ->
                  /\ stack' = below
                  /\ UNCHANGED <<socket, output, interest, armed, kernel>>
    /\ UNCHANGED <<pending, excused>>

-----------------------------------------------------------------------------
(***************************************************************************)
(* The loop: epoll_wait, then EpollEventHandle::HandleEvents.              *)
(***************************************************************************)
EpollWait ==
    /\ stack = <<>> /\ pending = {}
    /\ armed
    /\ armed' = FALSE
    /\ pending' = IF peer = "reset" THEN {"err"} ELSE interest \cap Readiness
    /\ UNCHANGED <<socket, output, interest, excused, kernel, stack>>

\* EPOLLERR or EPOLLHUP: the error callback reports and closes.
DispatchError ==
    /\ stack = <<>> /\ handle
    /\ "err" \in pending
    /\ pending' = {}
    /\ stack' = Call("error", "close", <<>>)
    /\ UNCHANGED <<socket, output, interest, armed, excused, kernel>>

\* EPOLLIN: read until EAGAIN, end of file, or a reset that arrives in
\* between.
DispatchRead(then) ==
    /\ stack = <<>> /\ handle
    /\ "in" \in pending
    /\ pending' = pending \ {"in"}
    /\ then = "eof" <=> peer = "closed"
    /\ peer' = IF then = "fail" THEN "reset" ELSE peer
    /\ HandleReadable(then)
    /\ excused' = IF rx > 0 /\ excused = "one" THEN "none" ELSE excused
    /\ UNCHANGED room

\* EPOLLOUT, looked at after the read callback has returned.
DispatchWrite ==
    /\ stack = <<>> /\ handle
    /\ pending = {"out"}
    /\ pending' = {}
    /\ HandleWritable
    /\ UNCHANGED excused

\* Events of a handle that was destroyed after epoll_wait returned them: the
\* dispatch reads freed memory, and runs the callback or does not.
DispatchStale ==
    /\ stack = <<>> /\ ~handle
    /\ pending # {}
    /\ pending' = {}
    /\ \/ UNCHANGED <<socket, output, interest, armed, kernel, stack>>
       \/ "out" \in pending /\ HandleWritable
    /\ UNCHANGED excused

(***************************************************************************)
(* The kernel and the peer.                                                *)
(***************************************************************************)
Established ==
    /\ peer = "connecting"
    /\ peer' = "up"
    /\ armed' = (armed \/ (handle /\ "out" \in interest))
    /\ UNCHANGED <<socket, output, interest, pending, excused, rx, room, stack>>

PeerSend ==
    /\ peer = "up" /\ rx < MaxRx
    /\ rx' = rx + 1
    /\ armed' = (armed \/ (handle /\ "in" \in interest))
    /\ UNCHANGED <<socket, output, interest, pending, excused, room, peer, stack>>

PeerRead ==
    /\ peer = "up" /\ room < MaxRoom
    /\ room' = room + 1
    /\ armed' = (armed \/ (handle /\ "out" \in interest))
    /\ UNCHANGED <<socket, output, interest, pending, excused, rx, peer, stack>>

PeerClose ==
    /\ peer = "up"
    /\ peer' = "closed"
    /\ armed' = (armed \/ (handle /\ "in" \in interest))
    /\ UNCHANGED <<socket, output, interest, pending, excused, rx, room, stack>>

\* A refused connect, or a reset connection: the receive buffer is gone.
PeerReset ==
    /\ peer \in {"connecting", "up", "closed"}
    /\ peer' = "reset"
    /\ rx' = 0
    /\ armed' = handle
    /\ UNCHANGED <<socket, output, interest, pending, excused, room, stack>>

-----------------------------------------------------------------------------
Next ==
    \/ \E o \in {"ok", "error"} : Connect(o)
    \/ Write \/ Close \/ Suspend \/ Resume
    \/ Return
    \/ EpollWait
    \/ DispatchError
    \/ \E t \in {"return", "eof", "fail"} : DispatchRead(t)
    \/ DispatchWrite
    \/ DispatchStale
    \/ Established \/ PeerSend \/ PeerRead \/ PeerClose \/ PeerReset

Spec == Init /\ [][Next]_vars

\* Callbacks return, the loop keeps polling and dispatching, and a peer that
\* is up keeps reading what it is sent.
Fairness ==
    /\ WF_vars(Return)
    /\ WF_vars(EpollWait)
    /\ WF_vars(DispatchError \/ DispatchWrite \/ DispatchStale
                \/ \E t \in {"return", "eof", "fail"} : DispatchRead(t))
    /\ WF_vars(PeerRead)

FairSpec == Spec /\ Fairness

-----------------------------------------------------------------------------
(***************************************************************************)
(* Properties.                                                             *)
(***************************************************************************)

\* While the socket is open, what the kernel was given followed by the write
\* buffer is exactly what Write() accepted, in order: partial writes, EAGAIN
\* and writes made from inside a callback neither lose, repeat nor reorder
\* a chunk.
WritesInOrder == handle => sent \o write_buffer = [i \in 1..submitted |-> i]

\* A suspension stops the data ("Pause reading from the network
\* (backpressure)"): on a connected socket it lets at most the one OnData
\* through whose event epoll had already returned, however long it lasts and
\* whatever is nested in it.  One that comes before there is a handle to
\* pause, as a client's Suspend() before Connect() does, holds nothing back.
NoDataWhileSuspended ==
    [][Len(stack') > Len(stack) /\ Head(stack').at = "data"
          => suspend_count = 0 \/ excused # "none" \/ ~connected]_vars

\* Data that has arrived on an open socket that is not suspended is read: no
\* edge is lost between Suspend, Resume, partial reads and new arrivals.  And
\* buffered output reaches a peer that keeps reading.
SocketProgress ==
    /\ (handle /\ connected /\ rx > 0 /\ suspend_count = 0)
           ~> (rx = 0 \/ ~handle \/ suspend_count > 0)
    /\ (handle /\ connected /\ write_buffer # <<>>)
           ~> (write_buffer = <<>> \/ ~handle \/ peer # "up")
=============================================================================
