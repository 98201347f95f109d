----------------------------- MODULE TlsTransport -----------------------------
(***************************************************************************)
(* TlsTransport<D>: the TLS stage between the socket and the HTTP parser,  *)
(* on top of PipelineComponent.                                            *)
(*                                                                         *)
(* OpenSSL and the server are external.  The server sends Hs units of      *)
(* handshake, each in answer to a flight of the client, Records units of   *)
(* application data and perhaps a close_notify; a server that quits sends  *)
(* a close_notify instead of its handshake.  rbio counts the units SSL has *)
(* not taken yet.  What SSL has encrypted and FlushWbio has not passed on  *)
(* is held as the numbers of the writes and a count of handshake flights,  *)
(* which all come before the first write.                                  *)
(***************************************************************************)
EXTENDS PipelineComponent, SequencesExt, FiniteSetsExt

CONSTANTS
    Hs,         \* units of the server's handshake
    Records,    \* units of application data the server sends
    Batch,      \* Segment::kSize, in units
    MaxRbio,    \* kMaxRbioSize, in units
    MaxRead,    \* kMaxPendingRead, in units
    MaxWrite,   \* kMaxPendingWrite, in writes
    MaxWrites   \* bound on calls of Write()

ASSUME TlsAssumption ==
    /\ Hs \in Nat \ {0} /\ Records \in Nat /\ Batch \in Nat \ {0}
    /\ MaxRbio \in Nat /\ MaxRead \in Nat /\ MaxWrite \in Nat /\ MaxWrites \in Nat

VARIABLES
    server,              \* how the server ends: "eof", "notify" or "quit"
    received,            \* units the upstream has delivered
    rbio,                \* units in rbio_
    handshake_state,     \* handshake_state_
    ssl,                 \* ssl_ is not freed
    wbio,                \* the writes in wbio_, in order
    wbio_flights,        \* handshake flights in wbio_
    flights,             \* handshake flights sent upstream
    wire,                \* the writes sent upstream, in order
    write_pending,       \* write_pending_
    accepted,            \* calls of Write() that were accepted
    pending_read_chain,  \* units in pending_read_chain_
    delivered,           \* units the downstream has consumed
    input,               \* what the upstream has signalled
    outcome              \* the terminal signal of the downstream

reading == <<received, rbio, pending_read_chain, delivered>>
wbios == <<wbio, wbio_flights, flights, wire>>
writing == <<wbios, write_pending, accepted>>
tls == <<server, handshake_state, ssl>>
vars == <<componentVars, reading, writing, tls, input, outcome>>

Init ==
    /\ ComponentInit
    /\ server \in {"eof", "notify", "quit"}
    /\ received = 0 /\ rbio = 0 /\ pending_read_chain = 0 /\ delivered = 0
    /\ handshake_state = "NotStarted" /\ ssl = TRUE
    /\ wbio = <<>> /\ wbio_flights = 0 /\ flights = 0 /\ wire = <<>>
    /\ write_pending = <<>> /\ accepted = 0
    /\ input = "open" /\ outcome = "none"

-----------------------------------------------------------------------------
(***************************************************************************)
(* The server's stream.                                                    *)
(***************************************************************************)
Total ==
    CASE server = "quit" -> 1
      [] server = "notify" -> Hs + Records + 1
      [] OTHER -> Hs + Records

\* Units SSL has taken, and the kind of the one it would take next.
Taken == received - rbio
NextIsNotify == server # "eof" /\ Taken + 1 = Total

\* A unit of handshake answers a flight; the rest of the stream may come with
\* the last one.
Available == IF flights >= Hs THEN Total ELSE Min({flights, Total})

-----------------------------------------------------------------------------
unmoved == <<close_pending, close_scheduled, closed, close_deferred,
             backpressure, done_pending, downstream>>

\* EmitError or EmitDone, then on at pc.
Tell(signal, pc) ==
    /\ Emit(signal, pc)
    /\ outcome' = IF finalized THEN outcome ELSE signal

\* Hand pending_read_chain_, grown by `more', to the downstream, which consumes
\* all of it or nothing.
Forward(more, pc) ==
    \E used \in {0, pending_read_chain + more} :
        /\ pending_read_chain' = pending_read_chain + more - used
        /\ delivered' = delivered + used
        /\ CallDownstream("data", pc)

\* FlushWbio: pass wbio on to upstream_write_, and go on at pc when it returns.
FlushWbio(pc) ==
    IF wbio = <<>> /\ wbio_flights = 0
    THEN Goto(pc) /\ UNCHANGED wbios
    ELSE /\ wbio' = <<>> /\ wbio_flights' = 0
         /\ flights' = flights + wbio_flights
         /\ wire' = wire \o wbio
         /\ stack' = [stack EXCEPT ![1].cb = "write", ![1].pc = pc]

\* Mutant: the new write goes in front of write_pending_.
EncryptOvertakes(writes, pc) ==
    \E k \in 0..Len(writes) :
        /\ wbio' = wbio \o SubSeq(Reverse(writes), 1, k)
        /\ write_pending' = SubSeq(Reverse(writes), k + 1, Len(writes))
        /\ Goto(pc)

\* The loop over SSL_write: it may stop with WANT_READ or WANT_WRITE after any
\* number of writes; the rest is kept in write_pending_.
Encrypt(writes, pc) ==
    \E k \in 0..Len(writes) :
        /\ wbio' = wbio \o SubSeq(writes, 1, k)
        /\ write_pending' = SubSeq(writes, k + 1, Len(writes))
        /\ Goto(pc)

\* Where the caller of ProcessPendingReads goes on.
AfterReads ==
    CASE Top.method = "Resume" -> "drained"
      [] Top.method = "Handshake" -> "ready"
      [] OTHER -> "exit"

-----------------------------------------------------------------------------
(***************************************************************************)
(* Calls of the owner, the upstream and the downstream.                    *)
(***************************************************************************)

\* The socket is connected.  There is no guard in the code.
StartHandshake ==
    /\ stack = <<>> /\ ssl /\ input = "open"
    /\ handshake_state = "NotStarted"
    /\ handshake_state' = "InProgress"
    /\ wbio_flights' = 1
    /\ Enter("StartHandshake", "send", 0, FALSE)
    /\ UNCHANGED <<unmoved, signals, reading, wbio, flights, wire, write_pending,
                   accepted, server, ssl, input, outcome>>

\* OnData and Read.
OnData(n) ==
    /\ UpstreamRuns /\ ~closed
    /\ input = "open" /\ handshake_state # "NotStarted"
    /\ received + n <= Available
    /\ IF n > MaxRbio - rbio
       THEN Enter("Read", "fail", 0, TRUE) /\ UNCHANGED <<received, rbio>>
       ELSE /\ Enter("Read", IF handshake_state = "Complete" THEN "read" ELSE "handshake",
                     0, TRUE)
            /\ received' = received + n
            /\ rbio' = rbio + n
    /\ UNCHANGED <<unmoved, signals, pending_read_chain, delivered, writing, tls,
                   input, outcome>>

OnDone ==
    /\ UpstreamRuns /\ ~closed
    /\ input = "open" /\ handshake_state # "NotStarted"
    /\ input' = "done"
    /\ IF IsSuspended
       THEN done_pending' = TRUE /\ UNCHANGED <<stack, processing_count>>
       ELSE Enter("OnDone", "completing", 0, TRUE) /\ UNCHANGED done_pending
    /\ UNCHANGED <<close_pending, close_scheduled, closed, close_deferred,
                   backpressure, downstream, signals, reading, writing, tls, outcome>>

\* The socket may also fail inside upstream_write_.
OnError ==
    /\ UpstreamRuns \/ Inside = "write"
    /\ ~closed /\ input = "open"
    /\ input' = "failed"
    /\ Enter("OnError", "fail", 0, TRUE)
    /\ UNCHANGED <<unmoved, signals, reading, writing, tls, outcome>>

\* Write() of the downstream or the owner.
Write ==
    /\ CallerRuns /\ Inside # "write" /\ ~closed
    /\ accepted < MaxWrites
    /\ LET ok == handshake_state = "Complete" /\ 1 <= MaxWrite - Len(write_pending)
       IN  Enter("Write", IF ok THEN "encrypt" ELSE "fail", 0, TRUE)
    /\ UNCHANGED <<unmoved, signals, reading, writing, tls, input, outcome>>

-----------------------------------------------------------------------------
(***************************************************************************)
(* Write and RetryPendingWrites.                                           *)
(***************************************************************************)
EncryptWrite ==
    /\ At("encrypt")
    /\ accepted' = accepted + (IF Top.method = "Write" THEN 1 ELSE 0)
    /\ Encrypt(IF Top.method = "Write" THEN Append(write_pending, accepted')
                                       ELSE write_pending,
               "send")
    /\ UNCHANGED <<lifecycle, backpressure, signals, done_pending, downstream,
                   reading, wbio_flights, flights, wire, tls, input, outcome>>

\* Mutant: what SSL_do_handshake wrote stays in wbio_.
FlushForgotten ==
    /\ At("send")
    /\ Goto(AfterReads)
    /\ UNCHANGED <<lifecycle, backpressure, signals, done_pending, downstream,
                   reading, writing, tls, input, outcome>>

\* FlushWbio as the last thing a method does.
Flush ==
    /\ At("send")
    /\ FlushWbio(AfterReads)
    /\ UNCHANGED <<lifecycle, backpressure, signals, done_pending, downstream,
                   reading, write_pending, accepted, tls, input, outcome>>

-----------------------------------------------------------------------------
(***************************************************************************)
(* ProcessHandshake.                                                       *)
(***************************************************************************)

\* SSL_do_handshake takes the handshake units it was given.
ProcessHandshake ==
    /\ At("handshake")
    /\ ~NextIsNotify
    /\ LET units == Min({rbio, Hs - Taken})
       IN  /\ rbio' = rbio - units
           /\ wbio_flights' = wbio_flights + units
           /\ IF Taken + units = Hs
              THEN /\ handshake_state' = "Complete"
                   /\ stack' = [stack EXCEPT ![1].method = "Handshake",
                                             ![1].pc = "send_first"]
              ELSE Goto("send") /\ UNCHANGED handshake_state
    /\ UNCHANGED <<lifecycle, backpressure, signals, done_pending, downstream,
                   received, pending_read_chain, delivered, wbio, flights, wire,
                   write_pending, accepted, server, ssl, input, outcome>>

\* SSL_ERROR_ZERO_RETURN.
HandshakeQuit ==
    /\ At("handshake")
    /\ NextIsNotify
    /\ rbio' = rbio - 1
    /\ done_pending' = (done_pending \/ IsSuspended)
    /\ Goto(IF IsSuspended THEN "exit" ELSE "completing")
    /\ UNCHANGED <<lifecycle, backpressure, signals, downstream, received,
                   pending_read_chain, delivered, writing, tls, input, outcome>>

\* HandleSSLError, of the handshake or of SSL_read.
SSLError ==
    /\ At("handshake") \/ At("reading")
    /\ rbio > 0
    /\ Tell("error", "close_reads")
    /\ UNCHANGED <<unmoved, reading, writing, tls, input>>

\* HandleSSLError of SSL_write.
WriteError ==
    /\ At("encrypt")
    /\ write_pending' = <<>>
    /\ Tell("error", "close_reads")
    /\ UNCHANGED <<unmoved, reading, wbios, accepted, tls, input>>

\* Mutant: application data that came with the handshake is not read.
HandshakeSkipsReads ==
    /\ At("send_first")
    /\ FlushWbio("ready")
    /\ UNCHANGED <<lifecycle, backpressure, signals, done_pending, downstream,
                   reading, write_pending, accepted, tls, input, outcome>>

\* The handshake is complete: flush, then read what came with it.
HandshakeFlush ==
    /\ At("send_first")
    /\ FlushWbio("read")
    /\ UNCHANGED <<lifecycle, backpressure, signals, done_pending, downstream,
                   reading, write_pending, accepted, tls, input, outcome>>

\* handshake_complete_cb_, closed stage or not.
Ready ==
    /\ At("ready")
    /\ stack' = [stack EXCEPT ![1].cb = "ready", ![1].pc = "exit",
                              ![1].method = "Read"]
    /\ UNCHANGED <<lifecycle, backpressure, signals, done_pending, downstream,
                   reading, writing, tls, input, outcome>>

-----------------------------------------------------------------------------
(***************************************************************************)
(* ProcessPendingReads.                                                    *)
(***************************************************************************)
ReadsBegin ==
    /\ At("read")
    /\ Goto(IF closed \/ handshake_state # "Complete" \/ IsSuspended
            THEN AfterReads ELSE "reading")
    /\ UNCHANGED <<lifecycle, backpressure, signals, done_pending, downstream,
                   reading, writing, tls, input, outcome>>

\* SSL_read gives a record: it is appended, and delivered once a segment's worth
\* has gathered.
ReadRecord ==
    /\ At("reading")
    /\ rbio > 0 /\ ~NextIsNotify
    /\ rbio' = rbio - 1
    /\ \/ /\ 1 > MaxRead - pending_read_chain
          /\ Tell("error", "close_reads")
          /\ UNCHANGED <<pending_read_chain, delivered>>
       \/ /\ 1 <= MaxRead - pending_read_chain
          /\ IF pending_read_chain + 1 >= Batch
             THEN Forward(1, "batched")
             ELSE /\ pending_read_chain' = pending_read_chain + 1
                  /\ UNCHANGED <<delivered, stack, crashed>>
          /\ UNCHANGED <<finalized, terminals, processing_count, outcome>>
    /\ UNCHANGED <<unmoved, received, writing, tls, input>>

\* The loop stops when the delivery suspended the stage, not when it closed it.
Batched ==
    /\ At("batched")
    /\ Goto(IF IsSuspended THEN AfterReads ELSE "reading")
    /\ UNCHANGED <<lifecycle, backpressure, signals, done_pending, downstream,
                   reading, writing, tls, input, outcome>>

\* SSL_ERROR_WANT_READ, and SSL_ERROR_WANT_WRITE, which also retries the writes:
\* deliver what there is.
WantMore ==
    /\ At("reading")
    /\ rbio = 0
    /\ \E next \in {AfterReads, "send_retry"} :
          IF pending_read_chain > 0
          THEN Forward(0, next)
          ELSE Goto(next) /\ UNCHANGED <<pending_read_chain, delivered, crashed>>
    /\ UNCHANGED <<lifecycle, backpressure, finalized, terminals, done_pending,
                   downstream, received, rbio, writing, tls, input, outcome>>

FlushAndRetry ==
    /\ At("send_retry")
    /\ FlushWbio(IF write_pending = <<>> THEN AfterReads ELSE "encrypt")
    /\ UNCHANGED <<lifecycle, backpressure, signals, done_pending, downstream,
                   reading, write_pending, accepted, tls, input, outcome>>

\* SSL_ERROR_ZERO_RETURN.
Shutdown ==
    /\ At("reading")
    /\ rbio > 0 /\ NextIsNotify
    /\ rbio' = rbio - 1
    /\ done_pending' = (done_pending \/ IsSuspended)
    /\ Goto(IF IsSuspended THEN AfterReads ELSE "completing")
    /\ UNCHANGED <<lifecycle, backpressure, signals, downstream, received,
                   pending_read_chain, delivered, writing, tls, input, outcome>>

-----------------------------------------------------------------------------
(***************************************************************************)
(* ProcessPending, CompleteWithFlush, closing.                             *)
(***************************************************************************)
ProcessPending ==
    /\ At("drain")
    /\ IF pending_read_chain > 0
       THEN Forward(0, "read")
       ELSE Goto("read") /\ UNCHANGED <<pending_read_chain, delivered, crashed>>
    /\ UNCHANGED <<lifecycle, backpressure, finalized, terminals, done_pending,
                   downstream, received, rbio, writing, tls, input, outcome>>

FlushAndComplete ==
    /\ At("flush")
    /\ stack' = [stack EXCEPT ![1].method = "Complete", ![1].pc = "completing"]
    /\ UNCHANGED <<lifecycle, backpressure, signals, done_pending, downstream,
                   reading, writing, tls, input, outcome>>

CompleteWithFlush ==
    /\ At("completing")
    /\ IF pending_read_chain = 0
       THEN Tell("done", "close_reads") /\ UNCHANGED <<pending_read_chain, delivered>>
       ELSE /\ Forward(0, "flushed")
            /\ UNCHANGED <<finalized, terminals, processing_count, outcome>>
    /\ UNCHANGED <<unmoved, received, rbio, writing, tls, input>>

Flushed ==
    /\ At("flushed")
    /\ \/ /\ IsSuspended
          /\ done_pending' = TRUE
          /\ Goto(AfterReads)
          /\ UNCHANGED <<signals, processing_count, outcome>>
       \/ /\ ~IsSuspended
          /\ Tell(IF pending_read_chain > 0 THEN "error" ELSE "done", "close_reads")
          /\ UNCHANGED done_pending
    /\ UNCHANGED <<close_pending, close_scheduled, closed, close_deferred,
                   backpressure, downstream, reading, writing, tls, input>>

\* RequestClose, on the way out of a handshake, a read or a completion.
CloseReads ==
    /\ At("close_reads")
    /\ RequestClose
    /\ Goto(AfterReads)
    /\ UNCHANGED <<processing_count, backpressure, signals, done_pending,
                   downstream, reading, writing, tls, input, outcome>>

\* The errors that are not OpenSSL's: overflow, a write before the handshake is
\* complete, PropagateError.
Fail ==
    /\ At("fail")
    /\ Tell("error", "close")
    /\ UNCHANGED <<unmoved, reading, writing, tls, input>>

\* The event loop runs the deferred DoClose: shutdown, FlushWbio, Cleanup.
DoClose ==
    /\ stack = <<>>
    /\ close_deferred
    /\ close_deferred' = FALSE
    /\ ssl' = FALSE
    /\ wbio' = <<>> /\ wbio_flights' = 0
    /\ wire' = IF handshake_state = "Complete" THEN wire \o wbio ELSE wire
    /\ Enter("DoClose", IF finalized \/ IsSuspended THEN "clear" ELSE "last_data", 0, FALSE)
    /\ UNCHANGED <<close_pending, close_scheduled, closed, backpressure, signals,
                   done_pending, downstream, reading, flights, write_pending,
                   accepted, server, handshake_state, input, outcome>>

\* Best-effort delivery of what is buffered ...
DoCloseData ==
    /\ At("last_data")
    /\ IF pending_read_chain > 0
       THEN Forward(0, "last_done")
       ELSE Goto("last_done") /\ UNCHANGED <<pending_read_chain, delivered, crashed>>
    /\ UNCHANGED <<lifecycle, backpressure, finalized, terminals, done_pending,
                   downstream, received, rbio, writing, tls, input, outcome>>

\* ... and of the completion.
DoCloseDone ==
    /\ At("last_done")
    /\ IF ~IsSuspended /\ pending_read_chain = 0
       THEN Tell("done", "clear")
       ELSE Goto("clear") /\ UNCHANGED <<signals, processing_count, outcome>>
    /\ UNCHANGED <<unmoved, reading, writing, tls, input>>

DoCloseClear ==
    /\ At("clear")
    /\ pending_read_chain' = 0
    /\ write_pending' = <<>>
    /\ downstream' = FALSE
    /\ Goto("exit")
    /\ UNCHANGED <<lifecycle, backpressure, signals, done_pending, received, rbio,
                   delivered, wbios, accepted, tls, input, outcome>>

-----------------------------------------------------------------------------
Base == CommonNext /\ UNCHANGED <<reading, writing, tls, input, outcome>>

Deliver == \E n \in 1..(Hs + Records + 1) : OnData(n)

Code ==
    \/ EncryptWrite \/ Flush \/ ProcessHandshake \/ HandshakeQuit \/ SSLError
    \/ WriteError \/ HandshakeFlush \/ Ready \/ ReadsBegin \/ ReadRecord
    \/ Batched \/ WantMore \/ FlushAndRetry \/ Shutdown \/ ProcessPending
    \/ FlushAndComplete \/ CompleteWithFlush \/ Flushed \/ CloseReads \/ Fail
    \/ DoClose \/ DoCloseData \/ DoCloseDone \/ DoCloseClear

Next == Base \/ StartHandshake \/ Deliver \/ OnDone \/ OnError \/ Write \/ Code

Spec == Init /\ [][Next]_vars

\* The code runs, callbacks return, and the server answers what it gets.
Fairness ==
    /\ WF_vars(Code)
    /\ WF_vars((Return \/ Exit \/ CloseStep \/ ResumeUpstream \/ CompleteDeferred)
                /\ UNCHANGED <<reading, writing, tls, input, outcome>>)
    /\ WF_vars(Deliver)

FairSpec == Spec /\ Fairness

-----------------------------------------------------------------------------
(***************************************************************************)
(* Properties.                                                             *)
(***************************************************************************)
\* TlsTransport is a stage whose output is the application data: every record
\* the server sent goes down once and in order, those that arrive with the end
\* of the handshake included, and the end of the stream is reported after all
\* of them, however decryption is suspended.
S == INSTANCE Stage WITH
        owed <- IF server = "quit" THEN 0 ELSE Max({0, Min({received - Hs, Records})}),
        handed <- delivered,
        ended <- input = "done" \/ (server # "eof" /\ received = Total),
        signal <- outcome

ImplementsStage == S!Spec

\* The plaintext given to Write() is encrypted and sent in the order of the
\* calls, once each, even when SSL_write blocks in the middle and when Write()
\* is called from inside a callback; and nothing encrypted stays in wbio_.
WritesInOrder ==
    LET sent == wire \o wbio
    IN  /\ \A i \in 1..(Len(sent) - 1) : sent[i] < sent[i + 1]
        /\ outcome = "none" /\ ~closed =>
              sent \o write_pending = [i \in 1..accepted |-> i]
        /\ stack = <<>> /\ ~closed => wbio = <<>> /\ wbio_flights = 0

\* A handshake that was started completes if the server answers, unless the
\* connection ends or fails, or the stage is closed or suspended.
HandshakeCompletes ==
    handshake_state = "InProgress" ~>
        (handshake_state = "Complete" \/ outcome # "none" \/ closed
            \/ input # "open" \/ IsSuspended)
=============================================================================
