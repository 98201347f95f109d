---------------------------- MODULE EventLoopProofs ----------------------------
(***************************************************************************)
(* The loop: deferred callbacks run in order, once, for any set of         *)
(* callbacks, timers and threads.  The socket on it: what Write() accepts  *)
(* reaches the kernel whole and in order, and a suspended socket delivers  *)
(* no more than what epoll had returned before, for buffers of any size    *)
(* and any number of calls.  The timer: silent while stopped, however often*)
(* it is restarted.                                                        *)
(***************************************************************************)
EXTENDS MCEventLoop, SequenceTheorems, TLAPS

\* The queues are sequences of callbacks, and the local queue of
\* ProcessDeferredCallbacks is empty outside of it: SwapDeferred overwrites it.
Queues ==
    /\ deferred_callbacks \in Seq(Callbacks) /\ callbacks \in Seq(Callbacks)
    /\ ran \in Seq(Callbacks)

LocalQueueEmpty == pc \in {"out", "wait", "dispatch"} => callbacks = <<>>

Pcs == pc \in {"out", "first", "wait", "dispatch", "second"}

IInv == Queues /\ LocalQueueEmpty /\ Pcs /\ RunsInOrder

\* Append at the end of a concatenation appends to its last part.
LEMMA AppendLast ==
    ASSUME NEW r \in Seq(Callbacks), NEW q \in Seq(Callbacks), NEW d \in Seq(Callbacks), NEW c \in Callbacks
    PROVE  Append(r \o q \o d, c) = r \o q \o Append(d, c)
<1> DEFINE p == r \o q
<1>1. p \in Seq(Callbacks) /\ p \o d \in Seq(Callbacks) /\ <<c>> \in Seq(Callbacks)
  BY ConcatProperties
<1> HIDE DEF p
<1>2. Append(p \o d, c) = (p \o d) \o <<c>> /\ Append(d, c) = d \o <<c>>
  BY <1>1, AppendIsConcat
<1>3. (p \o d) \o <<c>> = p \o (d \o <<c>>)
  BY <1>1, ConcatAssociative
<1>4. Append(p \o d, c) = p \o Append(d, c)
  BY <1>2, <1>3
<1> QED BY <1>4 DEF p

\* Moving the head of the middle part to the end of the first changes nothing.
LEMMA MoveHead ==
    ASSUME NEW r \in Seq(Callbacks), NEW q \in Seq(Callbacks), NEW d \in Seq(Callbacks), q # <<>>
    PROVE  /\ Head(q) \in Callbacks /\ Tail(q) \in Seq(Callbacks)
           /\ Append(r, Head(q)) \o Tail(q) \o d = r \o q \o d
  OBVIOUS

\* An empty middle part may change places with the last.
LEMMA SwapEmpty ==
    ASSUME NEW r \in Seq(Callbacks), NEW d \in Seq(Callbacks)
    PROVE  r \o <<>> \o d = r \o d \o <<>>
  OBVIOUS

-----------------------------------------------------------------------------
\* Push, by another thread or by a callback, keeps the order.
LEMMA PushKeeps ==
    ASSUME IInv, NEW c \in Callbacks, Push(c), UNCHANGED <<pc, callbacks, ran>>
    PROVE  IInv'
<1>1. deferred_callbacks' \in Seq(Callbacks)
  BY DEF IInv, Queues, Push
<1>2. Append(ran \o callbacks \o deferred_callbacks, c)
          = ran \o callbacks \o Append(deferred_callbacks, c)
  <2>1. /\ ran \in Seq(Callbacks) /\ callbacks \in Seq(Callbacks)
        /\ deferred_callbacks \in Seq(Callbacks)
    BY DEF IInv, Queues
  <2> QED BY <2>1, AppendLast, Zenon
<1>3. pushed' = ran \o callbacks \o Append(deferred_callbacks, c)
  BY <1>2, Zenon DEF IInv, RunsInOrder, Push
<1>4. RunsInOrder'
  BY <1>3 DEF RunsInOrder, Push
<1> QED BY <1>1, <1>4 DEF IInv, Queues, LocalQueueEmpty, Pcs

\* SwapDeferred outside of ProcessDeferredCallbacks overwrites nothing.
LEMMA SwapKeeps ==
    ASSUME IInv, callbacks = <<>>, SwapDeferred, UNCHANGED <<pushed, ran>>,
           pc' \in {"first", "second"}
    PROVE  IInv'
<1>1. ran \o <<>> \o deferred_callbacks = ran \o deferred_callbacks \o <<>>
  BY SwapEmpty DEF IInv, Queues
<1>2. RunsInOrder'
  BY <1>1 DEF IInv, RunsInOrder, SwapDeferred
<1>3. Queues'
  BY DEF IInv, Queues, SwapDeferred
<1>4. LocalQueueEmpty' /\ Pcs'
  BY DEF LocalQueueEmpty, Pcs
<1> QED BY <1>2, <1>3, <1>4 DEF IInv

\* Running the oldest callback of the local queue keeps the order.
LEMMA RunDeferredKeeps == ASSUME IInv, RunDeferred PROVE IInv'
<1>1. /\ Head(callbacks) \in Callbacks /\ Tail(callbacks) \in Seq(Callbacks)
      /\ Append(ran, Head(callbacks)) \o Tail(callbacks) \o deferred_callbacks
            = ran \o callbacks \o deferred_callbacks
  BY MoveHead DEF IInv, Queues, RunDeferred
<1>2. RunsInOrder'
  BY <1>1 DEF IInv, RunsInOrder, RunDeferred
<1>3. Queues'
  BY <1>1 DEF IInv, Queues, RunDeferred
<1>4. LocalQueueEmpty' /\ Pcs'
  BY DEF IInv, LocalQueueEmpty, Pcs, RunDeferred
<1> QED BY <1>2, <1>3, <1>4 DEF IInv

\* A step that touches no queue, and leaves ProcessDeferredCallbacks only with
\* its queue empty.
LEMMA OthersKeep ==
    ASSUME IInv, UNCHANGED <<deferred_callbacks, callbacks, pushed, ran>>,
           pc' = pc \/ (callbacks = <<>> /\ Pcs')
    PROVE  IInv'
  BY DEF IInv, Queues, LocalQueueEmpty, Pcs, RunsInOrder

\* A new loop has deferred nothing and run nothing.
LEMMA InitEstablishes == Init => IInv
<1> SUFFICES ASSUME Init PROVE IInv
  OBVIOUS
<1>1. Queues /\ LocalQueueEmpty /\ Pcs
  BY DEF Init, Queues, LocalQueueEmpty, Pcs
<1>2. <<>> \o <<>> \o <<>> = <<>>
  OBVIOUS
<1> QED BY <1>1, <1>2 DEF IInv, RunsInOrder, Init

\* Every step of every thread keeps the invariant.
LEMMA NextKeeps == IInv /\ [Next]_vars => IInv'
<1> SUFFICES ASSUME IInv, [Next]_vars PROVE IInv'
  OBVIOUS
<1>1. CASE LoopThread
  <2>1. CASE Run
    BY <2>1, OthersKeep DEF Run, poll
  <2>2. CASE Poll
    BY <2>2, SwapKeeps DEF Poll, IInv, LocalQueueEmpty
  <2>3. CASE RunDeferred
    BY <2>3, RunDeferredKeeps
  <2>4. CASE DeferredDone
    BY <2>4, OthersKeep DEF DeferredDone, Pcs
  <2>5. CASE EpollWait
    <3>1. callbacks = <<>> /\ pc' = "dispatch"
              /\ UNCHANGED <<deferred_callbacks, callbacks, pushed, ran>>
      BY <2>5 DEF EpollWait, IInv, LocalQueueEmpty
    <3> QED BY <3>1, OthersKeep DEF Pcs
  <2>6. CASE DispatchWake
    BY <2>6, OthersKeep DEF DispatchWake
  <2>7. CASE HandleTimerExpired
    BY <2>7, OthersKeep DEF HandleTimerExpired
  <2>8. CASE DispatchDone
    BY <2>8, SwapKeeps DEF DispatchDone, IInv, LocalQueueEmpty
  <2>9. CASE CallbackReturns
    BY <2>9, OthersKeep DEF CallbackReturns
  <2> QED BY <1>1, <2>1, <2>2, <2>3, <2>4, <2>5, <2>6, <2>7, <2>8, <2>9 DEF LoopThread
<1>2. CASE Wake \/ Stop
  BY <1>2, OthersKeep DEF Wake, Stop, poll
<1>3. CASE \E c \in Callbacks \ Nested : Defer(c)
  BY <1>3, PushKeeps DEF Defer, poll
<1>4. CASE \E c \in Nested : DeferFromCallback(c)
  BY <1>4, PushKeeps, LoopAssumption DEF DeferFromCallback, poll
<1>5. CASE \E t \in Timers : Expire(t) \/ \E d \in Delays : Schedule(t, d)
  BY <1>5, OthersKeep DEF Expire, Schedule, poll
<1>6. CASE Interrupt
  BY <1>6, OthersKeep DEF Interrupt, IInv, LocalQueueEmpty, Pcs
<1>7. CASE UNCHANGED vars
  BY <1>7, OthersKeep DEF vars
<1> QED BY <1>1, <1>2, <1>3, <1>4, <1>5, <1>6, <1>7 DEF Next

\* ProcessDeferredCallbacks runs what was deferred in the order it was
\* deferred, each callback once and none lost, for any number of callbacks,
\* timers and deferring threads.
THEOREM DeferredInOrder == Spec => []RunsInOrder
<1>1. IInv => RunsInOrder
  BY DEF IInv
<1> QED BY InitEstablishes, NextKeeps, <1>1, PTL DEF Spec

-----------------------------------------------------------------------------
(***************************************************************************)
(* The socket.  A callback that has not returned knows what to go on with: *)
(* only an OnData is followed by the end of the stream or a read error.    *)
(***************************************************************************)
Pending == {f \in TCP!Frame : f.at = "data" => f.then \notin {"close", "flush"}}

SocketTyped ==
    /\ handle \in BOOLEAN /\ read_paused \in BOOLEAN /\ suspend_count \in Nat
    /\ write_buffer \in Seq(Nat) /\ sent \in Seq(Nat) /\ submitted \in Nat /\ room \in Nat
    /\ stack \in Seq(Pending)

\* Nothing has happened to a socket before Connect().
Unconnected ==
    peer = "none" =>
        /\ ~handle /\ ~connected /\ ~read_paused /\ ~armed
        /\ sent = <<>> /\ write_buffer = <<>> /\ submitted = 0
        /\ pending = {} /\ stack = <<>>

\* How a suspension, what excuses it and the registration go together.  A
\* suspension without a handle pauses nothing; one with a handle pauses, and a
\* paused socket is registered without EPOLLIN once it is connected, so only
\* an event returned before can be left.
Paused ==
    /\ ~handle /\ suspend_count > 0 => excused = "any"
    /\ handle /\ suspend_count > 0 /\ excused # "any" => read_paused
    /\ handle /\ connected /\ read_paused => "in" \notin interest
    /\ "in" \in pending /\ suspend_count > 0 /\ connected => excused # "none"

\* What holds of every socket.
SInv == SocketTyped /\ Unconnected /\ WritesInOrder

LEMMA MinOfTwo ==
    ASSUME NEW a \in Nat, NEW b \in Nat
    PROVE  TCP!Min({a, b}) \in Nat /\ TCP!Min({a, b}) <= a /\ TCP!Min({a, b}) <= b
<1>1. \E x \in {a, b} : \A y \in {a, b} : x <= y
  <2>1. CASE a <= b
    BY <2>1
  <2>2. CASE b <= a
    BY <2>2
  <2> QED BY <2>1, <2>2
<1>2. TCP!Min({a, b}) \in {a, b} /\ \A y \in {a, b} : TCP!Min({a, b}) <= y
  BY <1>1 DEF TCP!Min
<1> QED BY <1>2

\* A buffer cut in two and put together again.
LEMMA CutAndJoined ==
    ASSUME NEW s \in Seq(Nat), NEW buf \in Seq(Nat), NEW n \in Nat, n <= Len(buf)
    PROVE  /\ SubSeq(buf, 1, n) \in Seq(Nat) /\ SubSeq(buf, n + 1, Len(buf)) \in Seq(Nat)
           /\ s \o SubSeq(buf, 1, n) \in Seq(Nat)
           /\ (s \o SubSeq(buf, 1, n)) \o SubSeq(buf, n + 1, Len(buf)) = s \o buf
<1> DEFINE a == SubSeq(buf, 1, n)  b == SubSeq(buf, n + 1, Len(buf))
<1>1. a \in Seq(Nat) /\ b \in Seq(Nat)
  OBVIOUS
<1>2. a \o b = buf
  <2>1. 1 \in 1..(Len(buf) + 1) /\ n \in (1 - 1)..Len(buf) /\ Len(buf) \in n..Len(buf)
    OBVIOUS
  <2>2. a \o b = SubSeq(buf, 1, Len(buf))
    BY <2>1, ConcatAdjacentSubSeq, Zenon
  <2>3. SubSeq(buf, 1, Len(buf)) = buf
    BY SubSeqFull
  <2> QED BY <2>2, <2>3
<1> HIDE DEF a, b
<1>3. s \o a \in Seq(Nat)
  BY <1>1
<1>4. (s \o a) \o b = s \o (a \o b)
  BY <1>1, ConcatAssociative
<1>5. (s \o a) \o b = s \o buf
  BY <1>2, <1>4
<1> QED BY <1>1, <1>3, <1>5 DEF a, b

LEMMA Called ==
    ASSUME NEW at \in {"done", "error", "connect"}, NEW then \in {"return", "close", "flush"},
           NEW below \in Seq(Pending)
    PROVE  /\ TCP!Call(at, then, below) \in Seq(Pending) /\ TCP!Call(at, then, below) # <<>>
           /\ Head(TCP!Call(at, then, below)).at = at
<1>1. [at |-> at, then |-> then] \in Pending
  BY DEF Pending, TCP!Frame
<1> QED BY <1>1 DEF TCP!Call

\* The loop of HandleWritable: the kernel takes a prefix, the rest stays.
LEMMA Flushing ==
    ASSUME SocketTyped, NEW buf \in Seq(Nat), NEW below \in Seq(Pending), TCP!FlushBuffer(buf, below)
    PROVE  /\ sent' \in Seq(Nat) /\ write_buffer' \in Seq(Nat) /\ room' \in Nat
           /\ sent' \o write_buffer' = sent \o buf
           /\ UNCHANGED <<handle, connected, read_paused, suspend_count, peer>>
           /\ stack' = below \/ stack' = TCP!Call("error", "return", below)
           /\ stack' \in Seq(Pending)
           /\ "in" \in interest' => "in" \in interest \/ ~read_paused
<1> DEFINE n == IF peer = "reset" THEN 0 ELSE TCP!Min({room, Len(buf)})
           rest == SubSeq(buf, n + 1, Len(buf))
<1>1. room \in Nat /\ Len(buf) \in Nat /\ sent \in Seq(Nat)
  BY DEF SocketTyped
<1>2. n \in Nat /\ n <= Len(buf) /\ n <= room
  <2> DEFINE l == TCP!Min({room, Len(buf)})
  <2>1. l \in Nat /\ l <= room /\ l <= Len(buf)
    BY <1>1, MinOfTwo, Zenon
  <2>2. n = 0 \/ n = l
    OBVIOUS
  <2> HIDE DEF n, l
  <2> QED BY <1>1, <2>1, <2>2
<1>3. /\ sent' = sent \o SubSeq(buf, 1, n) /\ write_buffer' = rest /\ room' = room - n
      /\ UNCHANGED <<handle, connected, read_paused, suspend_count, peer>>
  BY DEF TCP!FlushBuffer
<1>4. stack' = below \/ stack' = TCP!Call("error", "return", below)
  BY DEF TCP!FlushBuffer
<1>5. "in" \in interest' => "in" \in interest \/ ~read_paused
  BY DEF TCP!FlushBuffer, TCP!UpdateEpollFlags, TCP!Rearm
<1> HIDE DEF n
<1>6. /\ sent' \in Seq(Nat) /\ write_buffer' \in Seq(Nat) /\ sent' \o write_buffer' = sent \o buf
  BY <1>1, <1>2, <1>3, CutAndJoined
<1>7. room' \in Nat
  BY <1>1, <1>2, <1>3
<1>8. stack' \in Seq(Pending)
  BY <1>4, Called
<1> QED BY <1>3, <1>4, <1>5, <1>6, <1>7, <1>8

\* A callback that HandleReadable makes.
LEMMA CalledWithData ==
    ASSUME NEW then \in {"return", "eof", "fail"}
    PROVE  TCP!Call("data", then, <<>>) \in Seq(Pending)
<1>1. [at |-> "data", then |-> then] \in Pending
  BY DEF Pending, TCP!Frame
<1> QED BY <1>1 DEF TCP!Call

\* The innermost callback, and the ones below it.
LEMMA Innermost ==
    ASSUME SocketTyped, stack # <<>>
    PROVE  Head(stack) \in Pending /\ Tail(stack) \in Seq(Pending)
  BY DEF SocketTyped

\* A step that moves chunks from the buffer to the kernel, or moves none.
LEMMA SameOutput ==
    ASSUME SInv, SocketTyped', peer' # "none",
           handle' => handle /\ sent' \o write_buffer' = sent \o write_buffer /\ submitted' = submitted
    PROVE  SInv'
  BY DEF SInv, Unconnected, WritesInOrder, TCP!WritesInOrder

\* Close() leaves nothing that has to be kept.
LEMMA CloseTyped ==
    ASSUME SocketTyped, TCP!CloseSocket, stack' \in Seq(Pending), room' \in Nat
    PROVE  SocketTyped' /\ ~handle'
<1>1. <<>> \in Seq(Nat)
  OBVIOUS
<1> QED BY <1>1 DEF SocketTyped, TCP!CloseSocket

\* The next chunk goes behind the others.
LEMMA AppendBehind ==
    ASSUME NEW s \in Seq(Nat), NEW w \in Seq(Nat), NEW n \in Nat
    PROVE  Append(w, n) \in Seq(Nat) /\ s \o Append(w, n) = Append(s \o w, n)
<1>1. <<n>> \in Seq(Nat) /\ s \o w \in Seq(Nat)
  OBVIOUS
<1>2. Append(w, n) = w \o <<n>> /\ Append(s \o w, n) = (s \o w) \o <<n>>
  BY <1>1, AppendIsConcat
<1>3. (s \o w) \o <<n>> = s \o (w \o <<n>>)
  BY <1>1, ConcatAssociative
<1> QED BY <1>2, <1>3

LEMMA NextChunk ==
    ASSUME NEW s \in Seq(Nat), NEW w \in Seq(Nat), NEW k \in Nat, s \o w = [i \in 1..k |-> i]
    PROVE  /\ Append(w, k + 1) \in Seq(Nat)
           /\ s \o Append(w, k + 1) = [i \in 1..(k + 1) |-> i]
<1>1. k + 1 \in Nat
  OBVIOUS
<1>2. Append(w, k + 1) \in Seq(Nat) /\ s \o Append(w, k + 1) = Append(s \o w, k + 1)
  BY <1>1, AppendBehind, Zenon
<1>3. Append([i \in 1..k |-> i], k + 1) = [i \in 1..(k + 1) |-> i]
  OBVIOUS
<1> QED BY <1>2, <1>3, Zenon

-----------------------------------------------------------------------------
\* Connect() on a fresh socket.
LEMMA ConnectKeeps ==
    ASSUME SInv, NEW o \in {"ok", "error"}, TCP!Connect(o)
    PROVE  SInv'
<1>1. /\ peer' # "none" /\ stack = <<>> /\ sent = <<>> /\ write_buffer = <<>> /\ submitted = 0
      /\ UNCHANGED <<sent, write_buffer, submitted, room, read_paused, suspend_count>>
      /\ handle' \in BOOLEAN
  BY DEF SInv, SocketTyped, Unconnected, TCP!Connect, TCP!output
<1>2. stack' = stack \/ stack' = TCP!Call("error", "return", <<>>)
  BY <1>1 DEF TCP!Connect
<1>3. stack' \in Seq(Pending)
  <2>1. stack \in Seq(Pending) /\ <<>> \in Seq(Pending)
    BY DEF SInv, SocketTyped
  <2>2. TCP!Call("error", "return", <<>>) \in Seq(Pending)
    BY <2>1, Called
  <2> QED BY <1>2, <2>1, <2>2
<1>4. SocketTyped'
  BY <1>1, <1>3 DEF SInv, SocketTyped
<1>5. sent' \o write_buffer' = [i \in 1..submitted' |-> i]
  <2>1. [i \in 1..0 |-> i] = <<>> /\ <<>> \o <<>> = <<>>
    OBVIOUS
  <2> QED BY <1>1, <2>1
<1> QED BY <1>1, <1>4, <1>5 DEF SInv, Unconnected, WritesInOrder, TCP!WritesInOrder

\* Write() puts its chunk behind the others, and flushes.
LEMMA WriteKeeps ==
    ASSUME SInv, TCP!Write
    PROVE  SInv'
<1> DEFINE buf == Append(write_buffer, submitted + 1)
<1>1. handle /\ peer # "none" /\ submitted' = submitted + 1
  BY DEF SInv, Unconnected, TCP!Write
<1>2. buf \in Seq(Nat) /\ sent \o buf = [i \in 1..(submitted + 1) |-> i]
  BY <1>1, NextChunk DEF SInv, SocketTyped, WritesInOrder, TCP!WritesInOrder
<1>3. CASE connected
  <2>1. TCP!FlushBuffer(buf, stack)
    BY <1>3 DEF TCP!Write
  <2> HIDE DEF buf
  <2>2. /\ sent' \in Seq(Nat) /\ write_buffer' \in Seq(Nat) /\ room' \in Nat
        /\ sent' \o write_buffer' = sent \o buf
        /\ UNCHANGED <<handle, connected, read_paused, suspend_count, peer>>
        /\ stack' \in Seq(Pending)
    BY <1>2, <2>1, Flushing DEF SInv, SocketTyped
  <2>3. SocketTyped'
    BY <1>1, <2>2 DEF SInv, SocketTyped
  <2>4. sent' \o write_buffer' = [i \in 1..submitted' |-> i]
    BY <1>1, <1>2, <2>2
  <2> QED BY <1>1, <2>2, <2>3, <2>4 DEF SInv, Unconnected, WritesInOrder, TCP!WritesInOrder
<1>4. CASE ~connected
  <2>1. write_buffer' = buf /\ UNCHANGED <<handle, read_paused, suspend_count, sent, room, peer, stack>>
    BY <1>4 DEF TCP!Write, TCP!socket, TCP!kernel
  <2> HIDE DEF buf
  <2>2. SocketTyped'
    BY <1>1, <1>2, <2>1 DEF SInv, SocketTyped
  <2>3. sent' \o write_buffer' = [i \in 1..submitted' |-> i]
    BY <1>1, <1>2, <2>1
  <2> QED BY <1>1, <2>1, <2>2, <2>3 DEF SInv, Unconnected, WritesInOrder, TCP!WritesInOrder
<1> QED BY <1>3, <1>4

\* Suspend() and Resume() count, and touch nothing else of this.
LEMMA CountKeeps ==
    ASSUME SInv, TCP!Suspend \/ TCP!Resume
    PROVE  SInv'
<1>1. UNCHANGED <<handle, connected, sent, write_buffer, submitted, room, peer, stack, pending>>
  BY DEF TCP!Suspend, TCP!Resume, TCP!output, TCP!kernel
<1>2. suspend_count' \in Nat
  <2>1. \/ suspend_count' = suspend_count + 1
        \/ suspend_count > 0 /\ suspend_count' = suspend_count - 1
    BY DEF TCP!Suspend, TCP!Resume
  <2>2. suspend_count \in Nat
    BY DEF SInv, SocketTyped
  <2> QED BY <2>1, <2>2
<1>3. read_paused' \in BOOLEAN
  BY Zenon DEF SInv, SocketTyped, TCP!Suspend, TCP!Resume
<1>4. ~handle => UNCHANGED <<read_paused, armed>>
  BY Zenon DEF TCP!Suspend, TCP!Resume
<1> QED BY <1>1, <1>2, <1>3, <1>4 DEF SInv, SocketTyped, Unconnected, WritesInOrder, TCP!WritesInOrder

\* The code after a callback.
LEMMA ReturnKeeps ==
    ASSUME SInv, TCP!Return
    PROVE  SInv'
<1> DEFINE f == Head(stack)  below == Tail(stack)
<1>1. f \in Pending /\ below \in Seq(Pending) /\ peer # "none"
  BY Innermost DEF SInv, Unconnected, TCP!Return
<1>2. \/ /\ TCP!CloseSocket /\ UNCHANGED TCP!kernel
         /\ stack' = below \/ stack' = TCP!Call("done", "return", below)
      \/ TCP!FlushBuffer(write_buffer, below) /\ UNCHANGED submitted
      \/ /\ UNCHANGED <<TCP!socket, TCP!output, TCP!kernel>>
         /\ stack' = below \/ stack' = TCP!Call("error", "return", below)
  <2>1. CASE f.at = "data"
    <3>1. TCP!AfterData(f.then, below) /\ UNCHANGED TCP!kernel
      BY <1>1, <2>1 DEF TCP!Return, Pending
    <3> HIDE DEF f, below
    <3> QED BY <3>1 DEF TCP!AfterData
  <2>2. CASE f.at # "data" /\ f.then = "close"
    BY <2>2 DEF TCP!Return
  <2>3. CASE f.at # "data" /\ f.then = "flush"
    BY <2>3 DEF TCP!Return
  <2>4. CASE f.at # "data" /\ f.then \notin {"close", "flush"}
    BY <2>4 DEF TCP!Return
  <2> QED BY <2>1, <2>2, <2>3, <2>4
<1> HIDE DEF f, below
<1>3. CASE /\ TCP!CloseSocket /\ UNCHANGED TCP!kernel
           /\ stack' = below \/ stack' = TCP!Call("done", "return", below)
  <2>1. stack' \in Seq(Pending)
    BY <1>1, <1>3, Called
  <2>2. room' = room /\ peer' = peer
    BY <1>3 DEF TCP!kernel
  <2>3. SocketTyped' /\ ~handle'
    BY <1>3, <2>1, <2>2, CloseTyped DEF SInv, SocketTyped
  <2> QED BY <1>1, <2>2, <2>3, SameOutput
<1>4. CASE TCP!FlushBuffer(write_buffer, below) /\ UNCHANGED submitted
  <2>1. /\ sent' \in Seq(Nat) /\ write_buffer' \in Seq(Nat) /\ room' \in Nat
        /\ sent' \o write_buffer' = sent \o write_buffer
        /\ UNCHANGED <<handle, connected, read_paused, suspend_count, peer>>
        /\ stack' \in Seq(Pending)
    BY <1>1, <1>4, Flushing DEF SInv, SocketTyped
  <2>2. SocketTyped'
    BY <1>4, <2>1 DEF SInv, SocketTyped
  <2> QED BY <1>1, <1>4, <2>1, <2>2, SameOutput
<1>5. CASE /\ UNCHANGED <<TCP!socket, TCP!output, TCP!kernel>>
           /\ stack' = below \/ stack' = TCP!Call("error", "return", below)
  <2>1. stack' \in Seq(Pending)
    BY <1>1, <1>5, Called
  <2>2. UNCHANGED <<handle, read_paused, suspend_count, sent, write_buffer, submitted, room, peer>>
    BY <1>5 DEF TCP!socket, TCP!output, TCP!kernel
  <2>3. SocketTyped'
    BY <2>1, <2>2 DEF SInv, SocketTyped
  <2> QED BY <1>1, <2>2, <2>3, SameOutput
<1> QED BY <1>2, <1>3, <1>4, <1>5

\* HandleWritable, from a live registration or a stale event.
LEMMA WritableKeeps ==
    ASSUME SInv, TCP!HandleWritable, peer # "none"
    PROVE  SInv'
<1>0. <<>> \in Seq(Pending)
  OBVIOUS
<1>1. CASE connected
  <2>1. TCP!FlushBuffer(write_buffer, <<>>) /\ submitted' = submitted
    BY <1>1 DEF TCP!HandleWritable
  <2>2. /\ sent' \in Seq(Nat) /\ write_buffer' \in Seq(Nat) /\ room' \in Nat
        /\ sent' \o write_buffer' = sent \o write_buffer
        /\ UNCHANGED <<handle, connected, read_paused, suspend_count, peer>>
        /\ stack' \in Seq(Pending)
    BY <1>0, <2>1, Flushing DEF SInv, SocketTyped
  <2>3. SocketTyped'
    BY <2>1, <2>2 DEF SInv, SocketTyped
  <2> QED BY <2>1, <2>2, <2>3, SameOutput
<1>2. CASE ~connected
  <2>1. /\ UNCHANGED <<handle, read_paused, suspend_count, write_buffer, submitted, sent, room, peer>>
        /\ stack' = TCP!Call("connect", "flush", <<>>)
    BY <1>2 DEF TCP!HandleWritable, TCP!output, TCP!kernel
  <2>2. stack' \in Seq(Pending)
    BY <1>0, <2>1, Called
  <2>3. SocketTyped'
    BY <2>1, <2>2 DEF SInv, SocketTyped
  <2> QED BY <2>1, <2>3, SameOutput
<1> QED BY <1>1, <1>2

\* HandleReadable.
LEMMA ReadableKeeps ==
    ASSUME SInv, NEW t \in {"return", "eof", "fail"}, TCP!DispatchRead(t)
    PROVE  SInv'
<1>0. <<>> \in Seq(Pending)
  OBVIOUS
<1>1. peer' # "none" /\ room' = room
  BY DEF SInv, Unconnected, TCP!DispatchRead
<1>2. \/ TCP!CloseSocket /\ stack' = TCP!Call("done", "return", <<>>)
      \/ /\ UNCHANGED <<TCP!socket, TCP!output>>
         /\ \/ stack' = <<>>
            \/ stack' = TCP!Call("error", "return", <<>>)
            \/ stack' = TCP!Call("data", t, <<>>)
  BY DEF TCP!DispatchRead, TCP!HandleReadable, TCP!AfterData
<1>3. stack' \in Seq(Pending)
  <2>1. /\ TCP!Call("done", "return", <<>>) \in Seq(Pending)
        /\ TCP!Call("error", "return", <<>>) \in Seq(Pending)
    BY <1>0, Called
  <2>2. TCP!Call("data", t, <<>>) \in Seq(Pending)
    BY CalledWithData
  <2> QED BY <1>0, <1>2, <2>1, <2>2
<1>4. CASE TCP!CloseSocket
  <2>1. SocketTyped' /\ ~handle'
    BY <1>1, <1>3, <1>4, CloseTyped DEF SInv, SocketTyped
  <2> QED BY <1>1, <2>1, SameOutput
<1>5. CASE UNCHANGED <<TCP!socket, TCP!output>>
  <2>1. UNCHANGED <<handle, read_paused, suspend_count, sent, write_buffer, submitted>>
    BY <1>5 DEF TCP!socket, TCP!output
  <2>2. SocketTyped'
    BY <1>1, <1>3, <2>1 DEF SInv, SocketTyped
  <2> QED BY <1>1, <2>1, <2>2, SameOutput
<1> QED BY <1>2, <1>4, <1>5

\* The other steps of the loop and the kernel leave the output alone.
LEMMA OutsideKeeps ==
    ASSUME SInv, UNCHANGED <<handle, read_paused, suspend_count, write_buffer, submitted, sent>>,
           room' \in Nat, stack' \in Seq(Pending), peer' # "none"
    PROVE  SInv'
<1>1. SocketTyped'
  BY DEF SInv, SocketTyped
<1> QED BY <1>1, SameOutput

LEMMA SocketInit ==
    ASSUME TCP!Init
    PROVE  SInv
<1>1. [i \in 1..0 |-> i] = <<>> /\ <<>> \o <<>> = <<>> /\ <<>> \in Seq(Nat) /\ <<>> \in Seq(Pending)
  OBVIOUS
<1>2. SocketTyped
  BY <1>1, SocketAssumption DEF TCP!Init, SocketTyped
<1>3. WritesInOrder
  BY DEF TCP!Init, WritesInOrder, TCP!WritesInOrder
<1> QED BY <1>2, <1>3 DEF TCP!Init, SInv, Unconnected

LEMMA SocketNext ==
    ASSUME SInv, TCP!Next \/ UNCHANGED tcpvars
    PROVE  SInv'
<1> USE DEF TCP!socket, TCP!output, TCP!kernel
<1>0. room \in Nat /\ stack \in Seq(Pending)
  BY DEF SInv, SocketTyped
<1>1. CASE \E o \in {"ok", "error"} : TCP!Connect(o)
  BY <1>1, ConnectKeeps
<1>2. CASE TCP!Write
  BY <1>2, WriteKeeps
<1>3. CASE TCP!Close
  <2>1. peer' # "none" /\ TCP!CloseSocket /\ UNCHANGED <<room, stack>>
    BY <1>3 DEF TCP!Close, SInv, Unconnected
  <2>2. SocketTyped' /\ ~handle'
    BY <1>0, <2>1, CloseTyped DEF SInv
  <2> QED BY <2>1, <2>2, SameOutput
<1>4. CASE TCP!Suspend \/ TCP!Resume
  BY <1>4, CountKeeps
<1>5. CASE TCP!Return
  BY <1>5, ReturnKeeps
<1>6. CASE TCP!EpollWait
  <2>1. peer' # "none" /\ UNCHANGED <<TCP!socket, TCP!output, room, stack>>
    BY <1>6 DEF TCP!EpollWait, SInv, Unconnected
  <2> QED BY <1>0, <2>1, OutsideKeeps
<1>7. CASE TCP!DispatchError
  <2>1. /\ peer' # "none" /\ UNCHANGED <<TCP!socket, TCP!output, room>>
        /\ stack' = TCP!Call("error", "close", <<>>)
    BY <1>7 DEF TCP!DispatchError, SInv, Unconnected
  <2>2. <<>> \in Seq(Pending)
    OBVIOUS
  <2>3. stack' \in Seq(Pending)
    BY <2>1, <2>2, Called
  <2> QED BY <1>0, <2>1, <2>3, OutsideKeeps
<1>8. CASE \E t \in {"return", "eof", "fail"} : TCP!DispatchRead(t)
  BY <1>8, ReadableKeeps
<1>9. CASE TCP!DispatchWrite
  <2>1. peer # "none" /\ TCP!HandleWritable
    BY <1>9 DEF TCP!DispatchWrite, SInv, Unconnected
  <2> QED BY <2>1, WritableKeeps
<1>10. CASE TCP!DispatchStale
  <2>1. /\ peer # "none"
        /\ TCP!HandleWritable \/ UNCHANGED <<TCP!socket, TCP!output, room, peer, stack>>
    BY <1>10 DEF TCP!DispatchStale, SInv, Unconnected
  <2>2. CASE TCP!HandleWritable
    BY <2>1, <2>2, WritableKeeps
  <2>3. CASE UNCHANGED <<TCP!socket, TCP!output, room, peer, stack>>
    BY <1>0, <2>1, <2>3, OutsideKeeps
  <2> QED BY <2>1, <2>2, <2>3
<1>11. CASE TCP!Established \/ TCP!PeerSend \/ TCP!PeerRead \/ TCP!PeerClose \/ TCP!PeerReset
  <2>1. peer' # "none" /\ UNCHANGED <<TCP!socket, TCP!output, stack>>
    BY <1>11 DEF TCP!Established, TCP!PeerSend, TCP!PeerRead, TCP!PeerClose, TCP!PeerReset
  <2>2. room' = room \/ room' = room + 1
    BY <1>11 DEF TCP!Established, TCP!PeerSend, TCP!PeerRead, TCP!PeerClose, TCP!PeerReset
  <2>3. room' \in Nat
    BY <1>0, <2>2
  <2> QED BY <1>0, <2>1, <2>3, OutsideKeeps
<1>12. CASE UNCHANGED tcpvars
  BY <1>12 DEF tcpvars, SInv, SocketTyped, Unconnected, WritesInOrder, TCP!WritesInOrder
<1> QED BY <1>1, <1>2, <1>3, <1>4, <1>5, <1>6, <1>7, <1>8, <1>9, <1>10, <1>11, <1>12 DEF TCP!Next

\* What Write() accepts on a socket goes to the kernel whole, once and in
\* order, whatever the kernel takes at a time, whichever callback the Write()
\* comes from and whatever else the chain calls: for any number of chunks, any
\* send buffer, and calls from anywhere on the loop's thread.
THEOREM AcceptedInOrder == MCSpec => []WritesInOrder
<1>1. MCInit => SInv
  BY SocketInit DEF MCInit
<1>2. SInv /\ [MCNext]_<<part, vars, tmvars, tcpvars>> => SInv'
  <2>1. [MCNext]_<<part, vars, tmvars, tcpvars>> => TCP!Next \/ UNCHANGED tcpvars
    BY DEF MCNext
  <2> QED BY <2>1, SocketNext
<1>3. SInv => WritesInOrder
  BY DEF SInv
<1> QED BY <1>1, <1>2, <1>3, PTL DEF MCSpec

-----------------------------------------------------------------------------
(***************************************************************************)
(* Suspension: what it excuses, and that nothing else comes through.       *)
(***************************************************************************)

\* A step that calls no callback of the read path.
Silent == Len(stack') > Len(stack) => Head(stack').at # "data"

\* A call that is not OnData.
LEMMA CallSilent ==
    ASSUME SocketTyped, NEW at \in {"done", "error", "connect"},
           NEW then \in {"return", "close", "flush"}, NEW below \in Seq(Pending),
           stack' = TCP!Call(at, then, below) \/ stack' = below, Len(below) <= Len(stack)
    PROVE  Silent
<1>1. Head(TCP!Call(at, then, below)).at = at
  BY Called
<1>2. Len(stack) \in Nat /\ Len(below) \in Nat
  BY DEF SocketTyped
<1>3. CASE stack' = TCP!Call(at, then, below)
  BY <1>1, <1>3 DEF Silent
<1>4. CASE stack' = below
  BY <1>2, <1>4 DEF Silent
<1> QED BY <1>3, <1>4

LEMMA StackUntouched ==
    ASSUME SocketTyped, stack' = stack
    PROVE  Silent
<1>1. Len(stack) \in Nat
  BY DEF SocketTyped
<1> QED BY <1>1 DEF Silent

\* Flags and registration change together.
LEMMA FlushKeepsPaused ==
    ASSUME SInv, Paused, NEW buf \in Seq(Nat), NEW below \in Seq(Pending), TCP!FlushBuffer(buf, below),
           UNCHANGED excused, "in" \in pending' => "in" \in pending
    PROVE  Paused'
<1>1. /\ UNCHANGED <<handle, connected, read_paused, suspend_count, peer>>
      /\ "in" \in interest' => "in" \in interest \/ ~read_paused
  BY Flushing DEF SInv
<1> QED BY <1>1 DEF Paused

LEMMA SuspendPauses ==
    ASSUME SInv, Paused, TCP!Suspend
    PROVE  Paused'
<1>1. /\ suspend_count \in Nat /\ suspend_count' = suspend_count + 1
      /\ UNCHANGED <<handle, connected, pending>>
      /\ excused' = IF suspend_count = 0 THEN TCP!Excuse ELSE excused
  BY DEF TCP!Suspend, TCP!kernel, SInv, SocketTyped
<1>2. CASE suspend_count # 0
  <2>1. UNCHANGED <<read_paused, interest, excused>> /\ suspend_count > 0
    BY <1>1, <1>2 DEF TCP!Suspend
  <2> QED BY <1>1, <2>1 DEF Paused
<1>3. CASE suspend_count = 0 /\ ~handle
  <2>1. excused' = "any"
    BY <1>1, <1>3 DEF TCP!Excuse
  <2> QED BY <1>1, <1>3, <2>1 DEF Paused
<1>4. CASE suspend_count = 0 /\ handle
  <2>1. excused' \in {"one", "none"} /\ ("in" \in pending => excused' = "one")
    BY <1>1, <1>4 DEF TCP!Excuse
  <2>2. CASE read_paused
    <3>1. UNCHANGED <<read_paused, interest>>
      BY <1>4, <2>2 DEF TCP!Suspend
    <3> QED BY <1>1, <1>4, <2>1, <2>2, <3>1 DEF Paused
  <2>3. CASE ~read_paused
    <3>1. read_paused' = TRUE
      BY <1>4, <2>3 DEF TCP!Suspend
    <3>2. connected => interest' = {} \union (IF watching_write THEN {"out"} ELSE {})
      BY <1>4, <2>3 DEF TCP!Suspend, TCP!UpdateEpollFlags, TCP!Rearm
    <3>3. connected => "in" \notin interest'
      BY <3>2
    <3> QED BY <1>1, <1>4, <2>1, <3>1, <3>3 DEF Paused
  <2> QED BY <2>2, <2>3
<1> QED BY <1>2, <1>3, <1>4

LEMMA ResumeUnpauses ==
    ASSUME SInv, Paused, TCP!Resume
    PROVE  Paused'
<1>1. /\ suspend_count \in Nat /\ suspend_count > 0 /\ suspend_count' = suspend_count - 1
      /\ UNCHANGED <<handle, connected, pending, excused>>
  BY DEF TCP!Resume, TCP!kernel, SInv, SocketTyped
<1>2. CASE suspend_count = 1 /\ read_paused /\ handle
  <2>1. read_paused' = FALSE /\ ~(suspend_count' > 0)
    BY <1>1, <1>2 DEF TCP!Resume
  <2> QED BY <1>1, <2>1 DEF Paused
<1>3. CASE ~(suspend_count = 1 /\ read_paused /\ handle)
  <2>1. UNCHANGED <<read_paused, interest>>
    BY <1>3 DEF TCP!Resume
  <2> QED BY <1>1, <2>1 DEF Paused
<1> QED BY <1>2, <1>3

\* The code after a callback.
LEMMA ReturnPaused ==
    ASSUME SInv, Paused, TCP!Return
    PROVE  Paused' /\ Silent
<1> DEFINE f == Head(stack)  below == Tail(stack)
<1>1. f \in Pending /\ below \in Seq(Pending) /\ UNCHANGED <<pending, excused>>
  BY Innermost DEF SInv, TCP!Return
<1>2. Len(below) <= Len(stack)
  BY DEF SInv, SocketTyped, TCP!Return
<1>3. \/ /\ TCP!CloseSocket /\ UNCHANGED TCP!kernel
         /\ stack' = below \/ stack' = TCP!Call("done", "return", below)
      \/ TCP!FlushBuffer(write_buffer, below)
      \/ /\ UNCHANGED <<TCP!socket, interest, TCP!kernel>>
         /\ stack' = below \/ stack' = TCP!Call("error", "return", below)
  <2>1. CASE f.at = "data"
    <3>1. TCP!AfterData(f.then, below) /\ UNCHANGED TCP!kernel
      BY <1>1, <2>1 DEF TCP!Return, Pending
    <3> HIDE DEF f, below
    <3> QED BY <3>1 DEF TCP!AfterData
  <2>2. CASE f.at # "data" /\ f.then = "close"
    BY <2>2 DEF TCP!Return
  <2>3. CASE f.at # "data" /\ f.then = "flush"
    BY <2>3 DEF TCP!Return
  <2>4. CASE f.at # "data" /\ f.then \notin {"close", "flush"}
    BY <2>4 DEF TCP!Return
  <2> QED BY <2>1, <2>2, <2>3, <2>4
<1> HIDE DEF f, below
<1>4. CASE /\ TCP!CloseSocket /\ UNCHANGED TCP!kernel
           /\ stack' = below \/ stack' = TCP!Call("done", "return", below)
  <2>1. Silent
    BY <1>1, <1>2, <1>4, CallSilent DEF SInv
  <2>2. ~handle' /\ suspend_count' = 0 /\ peer' = peer
    BY <1>4 DEF TCP!CloseSocket, TCP!kernel
  <2> QED BY <1>1, <2>1, <2>2 DEF Paused
<1>5. CASE TCP!FlushBuffer(write_buffer, below)
  <2>1. write_buffer \in Seq(Nat)
    BY DEF SInv, SocketTyped
  <2>2. Paused'
    BY <1>1, <1>5, <2>1, FlushKeepsPaused
  <2>3. stack' = below \/ stack' = TCP!Call("error", "return", below)
    BY <1>1, <1>5, <2>1, Flushing DEF SInv
  <2>4. Silent
    BY <1>1, <1>2, <2>3, CallSilent DEF SInv
  <2> QED BY <2>2, <2>4
<1>6. CASE /\ UNCHANGED <<TCP!socket, interest, TCP!kernel>>
           /\ stack' = below \/ stack' = TCP!Call("error", "return", below)
  <2>1. Silent
    BY <1>1, <1>2, <1>6, CallSilent DEF SInv
  <2> QED BY <1>1, <1>6, <2>1 DEF Paused, TCP!socket, TCP!kernel
<1> QED BY <1>3, <1>4, <1>5, <1>6

\* HandleWritable, once its event is off the list.
LEMMA WritablePaused ==
    ASSUME SInv, Paused, TCP!HandleWritable, stack = <<>>, "in" \notin pending', UNCHANGED excused
    PROVE  Paused' /\ Silent
<1>0. <<>> \in Seq(Pending) /\ write_buffer \in Seq(Nat) /\ Len(<<>>) <= Len(stack)
  BY DEF SInv, SocketTyped
<1>1. CASE connected
  <2>1. TCP!FlushBuffer(write_buffer, <<>>)
    BY <1>1 DEF TCP!HandleWritable
  <2>2. Paused'
    BY <1>0, <2>1, FlushKeepsPaused
  <2>3. stack' = <<>> \/ stack' = TCP!Call("error", "return", <<>>)
    BY <1>0, <2>1, Flushing DEF SInv
  <2>4. Silent
    BY <1>0, <2>3, CallSilent DEF SInv
  <2> QED BY <2>2, <2>4
<1>2. CASE ~connected
  <2>1. /\ UNCHANGED <<handle, read_paused, suspend_count, peer>>
        /\ stack' = TCP!Call("connect", "flush", <<>>)
    BY <1>2 DEF TCP!HandleWritable, TCP!kernel
  <2>2. handle /\ read_paused => "in" \notin interest'
    BY <1>2 DEF TCP!HandleWritable, TCP!Rearm
  <2>3. Paused'
    BY <2>1, <2>2 DEF Paused
  <2>4. Silent
    BY <1>0, <2>1, CallSilent DEF SInv
  <2> QED BY <2>3, <2>4
<1> QED BY <1>1, <1>2

\* Every step keeps the pause, and delivers nothing that is not excused.
LEMMA PausedNext ==
    ASSUME SInv, Paused, TCP!Next \/ UNCHANGED tcpvars
    PROVE  Paused' /\ (Silent \/ suspend_count = 0 \/ excused # "none" \/ ~connected)
<1> USE DEF TCP!socket, TCP!output, TCP!kernel
<1>0. SocketTyped /\ stack \in Seq(Pending) /\ <<>> \in Seq(Pending) /\ suspend_count \in Nat
  BY DEF SInv, SocketTyped
<1>00. Len(stack) <= Len(stack)
  BY <1>0
<1>1. CASE \E o \in {"ok", "error"} : TCP!Connect(o)
  <2>1. /\ peer = "none" /\ UNCHANGED <<connected, read_paused, suspend_count, pending, excused>>
        /\ stack' = TCP!Call("error", "return", stack) \/ stack' = stack
    BY <1>1 DEF TCP!Connect
  <2>2. ~handle /\ ~connected /\ ~read_paused /\ pending = {}
    BY <2>1 DEF SInv, Unconnected
  <2>3. Paused'
    BY <2>1, <2>2 DEF Paused
  <2> QED BY <2>2, <2>3
<1>2. CASE TCP!Write
  <2>1. UNCHANGED <<pending, excused>>
    BY <1>2 DEF TCP!Write
  <2>2. CASE connected
    <3> DEFINE buf == Append(write_buffer, submitted + 1)
    <3>1. TCP!FlushBuffer(buf, stack)
      BY <1>2, <2>2 DEF TCP!Write
    <3>2. buf \in Seq(Nat)
      BY DEF SInv, SocketTyped
    <3> HIDE DEF buf
    <3>3. Paused'
      BY <1>0, <2>1, <3>1, <3>2, FlushKeepsPaused
    <3>4. stack' = stack \/ stack' = TCP!Call("error", "return", stack)
      BY <1>0, <3>1, <3>2, Flushing
    <3>5. Silent
      BY <1>0, <1>00, <3>4, CallSilent
    <3> QED BY <3>3, <3>5
  <2>3. CASE ~connected
    <3>1. UNCHANGED <<TCP!socket, interest, TCP!kernel, stack>>
      BY <1>2, <2>3 DEF TCP!Write
    <3>2. Silent
      BY <1>0, <3>1, StackUntouched
    <3> QED BY <2>1, <3>1, <3>2 DEF Paused
  <2> QED BY <2>2, <2>3
<1>3. CASE TCP!Close
  <2>1. ~handle' /\ suspend_count' = 0 /\ UNCHANGED stack
    BY <1>3 DEF TCP!Close, TCP!CloseSocket
  <2>2. Silent
    BY <1>0, <2>1, StackUntouched
  <2> QED BY <2>1, <2>2 DEF Paused
<1>4. CASE TCP!Suspend \/ TCP!Resume
  <2>1. stack' = stack
    BY <1>4 DEF TCP!Suspend, TCP!Resume
  <2>2. Silent
    BY <1>0, <2>1, StackUntouched
  <2> QED BY <1>4, <2>2, SuspendPauses, ResumeUnpauses
<1>5. CASE TCP!Return
  BY <1>5, ReturnPaused
<1>6. CASE TCP!EpollWait
  <2>1. /\ ("in" \in pending' => "in" \in interest)
        /\ UNCHANGED <<TCP!socket, interest, excused, TCP!kernel, stack>>
    BY <1>6 DEF TCP!EpollWait
  <2>2. Silent
    BY <1>0, <2>1, StackUntouched
  <2> QED BY <2>1, <2>2 DEF Paused
<1>7. CASE TCP!DispatchError
  <2>1. /\ stack = <<>> /\ pending' = {} /\ stack' = TCP!Call("error", "close", <<>>)
        /\ UNCHANGED <<TCP!socket, interest, excused, TCP!kernel>>
    BY <1>7 DEF TCP!DispatchError
  <2>2. Silent
    BY <1>0, <1>00, <2>1, CallSilent
  <2> QED BY <2>1, <2>2 DEF Paused
<1>8. CASE \E t \in {"return", "eof", "fail"} : TCP!DispatchRead(t)
  <2>1. PICK t \in {"return", "eof", "fail"} : TCP!DispatchRead(t)
    BY <1>8
  <2>2. /\ handle /\ "in" \in pending /\ "in" \notin pending'
        /\ excused' = IF rx > 0 /\ excused = "one" THEN "none" ELSE excused
    BY <2>1 DEF TCP!DispatchRead
  <2>3. suspend_count = 0 \/ excused # "none" \/ ~connected
    BY <1>0, <2>2 DEF Paused
  <2>4. TCP!CloseSocket \/ UNCHANGED <<TCP!socket, interest>>
    BY <2>1 DEF TCP!DispatchRead, TCP!HandleReadable, TCP!AfterData
  <2>5. CASE TCP!CloseSocket
    BY <2>2, <2>3, <2>5 DEF TCP!CloseSocket, Paused
  <2>6. CASE UNCHANGED <<TCP!socket, interest>>
    BY <2>2, <2>3, <2>6 DEF Paused
  <2> QED BY <2>4, <2>5, <2>6
<1>9. CASE TCP!DispatchWrite
  <2>1. TCP!HandleWritable /\ stack = <<>> /\ "in" \notin pending' /\ UNCHANGED excused
    BY <1>9 DEF TCP!DispatchWrite
  <2> QED BY <2>1, WritablePaused
<1>10. CASE TCP!DispatchStale
  <2>1. /\ stack = <<>> /\ "in" \notin pending' /\ UNCHANGED excused
        /\ TCP!HandleWritable \/ UNCHANGED <<TCP!socket, interest, peer, stack>>
    BY <1>10 DEF TCP!DispatchStale
  <2>2. CASE TCP!HandleWritable
    BY <2>1, <2>2, WritablePaused
  <2>3. CASE UNCHANGED <<TCP!socket, interest, peer, stack>>
    <3>1. Silent
      BY <1>0, <2>3, StackUntouched
    <3> QED BY <2>1, <2>3, <3>1 DEF Paused
  <2> QED BY <2>1, <2>2, <2>3
<1>11. CASE TCP!Established \/ TCP!PeerSend \/ TCP!PeerRead \/ TCP!PeerClose \/ TCP!PeerReset
  <2>1. UNCHANGED <<TCP!socket, interest, pending, excused, stack>>
    BY <1>11 DEF TCP!Established, TCP!PeerSend, TCP!PeerRead, TCP!PeerClose, TCP!PeerReset
  <2>2. Silent
    BY <1>0, <2>1, StackUntouched
  <2> QED BY <2>1, <2>2 DEF Paused
<1>12. CASE UNCHANGED tcpvars
  <2>1. Silent
    BY <1>0, <1>12, StackUntouched DEF tcpvars
  <2> QED BY <1>12, <2>1 DEF tcpvars, Paused
<1> QED BY <1>1, <1>2, <1>3, <1>4, <1>5, <1>6, <1>7, <1>8, <1>9, <1>10, <1>11, <1>12 DEF TCP!Next

\* A suspended socket that is connected gives its chain no data but what an
\* event that epoll had returned before the suspension carries, once, and
\* unless the suspension came before there was a handle: for buffers of any
\* size, any depth of suspension, and calls from anywhere on the loop's thread.
THEOREM SuspendedIsSilent == MCSpec => NoDataWhileSuspended
<1> DEFINE Delivers == Len(stack') > Len(stack) /\ Head(stack').at = "data"
                          => suspend_count = 0 \/ excused # "none" \/ ~connected
<1>1. MCInit => SInv /\ Paused
  <2>1. MCInit => SInv
    BY SocketInit DEF MCInit
  <2>2. MCInit => Paused
    BY DEF MCInit, TCP!Init, Paused
  <2> QED BY <2>1, <2>2
<1>2. SInv /\ Paused /\ [MCNext]_<<part, vars, tmvars, tcpvars>> => (SInv /\ Paused)' /\ [Delivers]_TCP!vars
  <2> SUFFICES ASSUME SInv, Paused, [MCNext]_<<part, vars, tmvars, tcpvars>>
               PROVE  (SInv /\ Paused)' /\ [Delivers]_TCP!vars
    OBVIOUS
  <2>1. TCP!Next \/ UNCHANGED tcpvars
    BY DEF MCNext
  <2>2. SInv'
    BY <2>1, SocketNext
  <2>3. Paused' /\ (Silent \/ suspend_count = 0 \/ excused # "none" \/ ~connected)
    BY <2>1, PausedNext
  <2>4. Delivers
    BY <2>3 DEF Silent
  <2> HIDE DEF Delivers
  <2> QED BY <2>2, <2>3, <2>4
<1>3. MCSpec => [][Delivers]_TCP!vars
  <2> HIDE DEF Delivers
  <2> QED BY <1>1, <1>2, PTL DEF MCSpec
<1> QED BY <1>3, PTL DEF NoDataWhileSuspended, TCP!NoDataWhileSuspended

-----------------------------------------------------------------------------
(***************************************************************************)
(* The timer.  A tick cannot be taken back, and Stop() only disarms: what  *)
(* holds of the ticks that are left is that every Start() has one of them  *)
(* at most, and that an armed one-shot has not run its callback yet.       *)
(***************************************************************************)
TimerTyped ==
    /\ starts \in 0..MaxStarts /\ stops \in 0..starts /\ fired \in 0..2
    /\ ticks \in [1..MaxStarts -> {0, 1}]
    /\ in_callback => firing \in 1..starts

TInv ==
    /\ TimerTyped
    /\ \A n \in 1..MaxStarts : ticks[n] = 1 => n <= starts
    /\ in_callback => ticks[firing] = 0
    /\ timer_armed => stops < starts
    /\ TM!OneShotOnce

\* Nothing is armed and no tick outstanding before the first Start().
LEMMA TimerInit == TM!Init => TInv
  BY TimerAssumption DEF TM!Init, TInv, TimerTyped, TM!OneShotOnce

\* Arming adds the first tick of a Start() that had none.
LEMMA StartKeeps ==
    ASSUME TInv, NEW periodic \in BOOLEAN, TM!Start(periodic)
    PROVE  TInv'
<1>1. /\ starts' = starts + 1 /\ starts < MaxStarts /\ timer_armed' = TRUE /\ fired' = 0
      /\ ticks' = [ticks EXCEPT ![starts + 1] = @ + 1]
      /\ UNCHANGED <<in_callback, stops, firing>>
  BY DEF TM!Start, TM!ScheduleNext
<1>2. starts \in Nat /\ starts + 1 \in 1..MaxStarts /\ stops \in Nat /\ stops <= starts
  BY <1>1, TimerAssumption DEF TInv, TimerTyped
<1>3. ticks[starts + 1] = 0
  <2>1. ticks[starts + 1] \in {0, 1}
    BY <1>2 DEF TInv, TimerTyped
  <2> QED BY <1>2, <2>1 DEF TInv
<1>4. /\ ticks' \in [1..MaxStarts -> {0, 1}]
      /\ \A n \in 1..MaxStarts : n # starts + 1 => ticks'[n] = ticks[n]
  BY <1>1, <1>2, <1>3 DEF TInv, TimerTyped
<1>5. \A n \in 1..MaxStarts : ticks'[n] = 1 => n <= starts'
  BY <1>1, <1>2, <1>4 DEF TInv
<1>6. in_callback' => firing' \in 1..starts' /\ ticks'[firing'] = 0
  BY <1>1, <1>2, <1>4, TimerAssumption DEF TInv, TimerTyped
<1>7. TM!OneShotOnce'
  BY <1>1 DEF TM!OneShotOnce
<1>8. starts' \in 0..MaxStarts /\ stops' \in 0..starts' /\ fired' \in 0..2 /\ stops' < starts'
  BY <1>1, <1>2, TimerAssumption
<1> QED BY <1>4, <1>5, <1>6, <1>7, <1>8 DEF TInv, TimerTyped

\* A tick is used up, and runs the callback only of an armed timer.
LEMMA FireKeeps ==
    ASSUME TInv, TM!Fire
    PROVE  TInv' /\ (in_callback' => alive /\ starts > stops)
<1>1. PICK n \in 1..MaxStarts :
         /\ ticks[n] > 0
         /\ ticks' = [ticks EXCEPT ![n] = @ - 1]
         /\ IF alive /\ timer_armed THEN TM!Callback(n)
                                    ELSE UNCHANGED <<in_callback, firing, fired>>
  BY DEF TM!Fire
<1>2. ~in_callback /\ UNCHANGED <<alive, timer_armed, interval, starts, stops>>
  BY DEF TM!Fire
<1>3. ticks[n] = 1 /\ n <= starts /\ n \in Nat
  BY <1>1 DEF TInv, TimerTyped
<1>4. /\ ticks' \in [1..MaxStarts -> {0, 1}] /\ ticks'[n] = 0
      /\ \A k \in 1..MaxStarts : k # n => ticks'[k] = ticks[k]
  BY <1>1, <1>3 DEF TInv, TimerTyped
<1>5. \A k \in 1..MaxStarts : ticks'[k] = 1 => k <= starts
  BY <1>4 DEF TInv
<1>6. starts \in Nat /\ stops \in Nat /\ n \in 1..starts
  BY <1>3, TimerAssumption DEF TInv, TimerTyped
<1>7. CASE alive /\ timer_armed
  <2>1. in_callback' = TRUE /\ firing' = n /\ fired' = IF fired < 2 THEN fired + 1 ELSE 2
    BY <1>1, <1>7 DEF TM!Callback
  <2>2. starts > stops
    BY <1>6, <1>7 DEF TInv
  <2>3. fired' \in 0..2 /\ (~interval => fired' <= 1)
    BY <1>2, <1>7, <2>1 DEF TInv, TimerTyped, TM!OneShotOnce
  <2>4. TM!OneShotOnce'
    BY <1>2, <2>1, <2>3 DEF TM!OneShotOnce
  <2> QED BY <1>2, <1>4, <1>5, <1>6, <1>7, <2>1, <2>2, <2>3, <2>4 DEF TInv, TimerTyped
<1>8. CASE ~(alive /\ timer_armed)
  <2>1. UNCHANGED <<in_callback, firing, fired>>
    BY <1>1, <1>8
  <2>2. TM!OneShotOnce'
    BY <1>2, <2>1 DEF TM!OneShotOnce, TInv
  <2> QED BY <1>2, <1>4, <1>5, <2>1, <2>2 DEF TInv, TimerTyped
<1> QED BY <1>7, <1>8

\* The next tick of a periodic timer replaces the one that has run.
LEMMA FireReturnsKeeps ==
    ASSUME TInv, TM!FireReturns
    PROVE  TInv'
<1>1. /\ in_callback /\ ~in_callback' /\ UNCHANGED <<interval, starts, stops, firing, fired>>
      /\ IF timer_armed /\ interval
         THEN ticks' = [ticks EXCEPT ![firing] = @ + 1] /\ UNCHANGED timer_armed
         ELSE timer_armed' = FALSE /\ UNCHANGED ticks
  BY DEF TM!FireReturns, TM!ScheduleNext
<1>2. firing \in 1..starts /\ firing \in 1..MaxStarts /\ ticks[firing] = 0
  BY <1>1, TimerAssumption DEF TInv, TimerTyped
<1>3. CASE timer_armed /\ interval
  <2>0. ticks' = [ticks EXCEPT ![firing] = @ + 1]
    BY <1>1, <1>3
  <2>0a. ticks \in [1..MaxStarts -> {0, 1}]
    BY DEF TInv, TimerTyped
  <2>1. /\ ticks' \in [1..MaxStarts -> {0, 1}]
        /\ \A n \in 1..MaxStarts : n # firing => ticks'[n] = ticks[n]
    BY <1>2, <2>0, <2>0a
  <2>2. \A n \in 1..MaxStarts : ticks'[n] = 1 => n <= starts
    BY <1>2, <2>1 DEF TInv
  <2>3. TM!OneShotOnce'
    BY <1>1, <1>3 DEF TM!OneShotOnce
  <2> QED BY <1>1, <1>3, <2>1, <2>2, <2>3 DEF TInv, TimerTyped
<1>4. CASE ~(timer_armed /\ interval)
  <2>1. ~timer_armed' /\ UNCHANGED ticks
    BY <1>1, <1>4
  <2> QED BY <1>1, <2>1 DEF TInv, TimerTyped, TM!OneShotOnce
<1> QED BY <1>3, <1>4

LEMMA TimerNext ==
    ASSUME TInv, TM!Next \/ UNCHANGED tmvars
    PROVE  TInv' /\ (~in_callback /\ in_callback' => alive /\ starts > stops)
<1>1. CASE \E periodic \in BOOLEAN : TM!Start(periodic)
  <2>1. in_callback' = in_callback
    BY <1>1 DEF TM!Start
  <2> QED BY <1>1, <2>1, StartKeeps
<1>2. CASE TM!Stop
  BY <1>2, TimerAssumption DEF TM!Stop, TInv, TimerTyped, TM!OneShotOnce
<1>3. CASE TM!Destroy
  BY <1>3 DEF TM!Destroy, TInv, TimerTyped, TM!OneShotOnce
<1>4. CASE TM!Fire
  BY <1>4, FireKeeps
<1>5. CASE TM!FireReturns
  <2>1. in_callback
    BY <1>5 DEF TM!FireReturns
  <2> QED BY <1>5, <2>1, FireReturnsKeeps
<1>6. CASE UNCHANGED tmvars
  BY <1>6 DEF tmvars, TInv, TimerTyped, TM!OneShotOnce
<1> QED BY <1>1, <1>2, <1>3, <1>4, <1>5, <1>6 DEF TM!Next

\* With restarts and calls of Start() and Stop() from the callback included, a
\* stopped or destroyed timer is silent, a one-shot Start() runs the callback
\* once at most, and every Start() has one tick outstanding at most.
THEOREM TimerIsSafe == MCSpec => TM!TimerSafe
<1> DEFINE Allowed == ~in_callback /\ in_callback' => alive /\ starts > stops
<1>1. MCInit => TInv
  BY TimerInit DEF MCInit
<1>2. TInv /\ [MCNext]_<<part, vars, tmvars, tcpvars>> => TInv' /\ [Allowed]_TM!vars
  <2>1. [MCNext]_<<part, vars, tmvars, tcpvars>> => TM!Next \/ UNCHANGED tmvars
    BY DEF MCNext
  <2> QED BY <2>1, TimerNext
<1>3. TInv => TM!OneShotOnce /\ TM!OneTickPerStart
  BY DEF TInv, TimerTyped, TM!OneTickPerStart
<1>4. MCSpec => [][Allowed]_TM!vars /\ []TM!OneShotOnce /\ []TM!OneTickPerStart
  <2> HIDE DEF Allowed
  <2> QED BY <1>1, <1>2, <1>3, PTL DEF MCSpec
<1> QED BY <1>4, PTL DEF TM!TimerSafe, TM!StopSilences
=============================================================================
