--------------------------- MODULE ApplicationProofs ---------------------------
(***************************************************************************)
(* What reaches the application.  The records of a stream depend on the    *)
(* stream alone, for any sizes, records and cuts; an instrument resolves   *)
(* to its symbol, for any market and any limit of the table; the chains    *)
(* of segments in between are queues of bytes, and what a reader holds     *)
(* stays as it was; a request to the HTTP API is answered at most once and *)
(* costs at most MaxRetries + 1 pipelines, for any documents, delays and   *)
(* retry limits.                                                           *)
(***************************************************************************)
EXTENDS MCDataPath, MCApiCall, FiniteSetTheorems, SequenceTheorems, WellFoundedInduction, TLAPS

(***************************************************************************)
(* Induction, for want of the theorems that take a predicate: a nonempty   *)
(* set of numbers has a least member.                                      *)
(***************************************************************************)
\* A counterexample to a claim about numbers may be taken to be the first.
LEMMA LeastNumber ==
    ASSUME NEW T, T \subseteq Nat, T # {}
    PROVE  \E x \in T : \A y \in T : x <= y
<1> DEFINE R == {ss \in Nat \X Nat : ss[1] < ss[2]}
<1>1. IsWellFoundedOn(R, Nat)
  BY NatLessThanWellFounded DEF OpToRel
<1> HIDE DEF R
<1>2. PICK x \in T : \A y \in T : <<y, x>> \notin R
  BY <1>1, WFMin
<1>3. \A y \in T : ~(y < x)
  BY <1>2 DEF R
<1> QED BY <1>3

\* There is a table of the places of records of the sizes E, the first at M.
LEMMA TableExists ==
    ASSUME NEW M \in Nat, NEW E \in [Nat -> Nat]
    PROVE  \E f \in [Nat -> Nat] :
              f = [i \in Nat |-> IF i <= 1 THEN M ELSE f[i - 1] + E[i - 1]]
<1> DEFINE Part(n, g) == /\ g \in [0..n -> Nat]
                         /\ \A i \in 0..n : g[i] = IF i <= 1 THEN M ELSE g[i - 1] + E[i - 1]
<1>1. ASSUME NEW n \in Nat PROVE \E g : Part(n, g)
  <2> DEFINE T == {m \in Nat : ~ \E g : Part(m, g)}
  <2>1. SUFFICES ASSUME T # {} PROVE FALSE
    BY <1>1
  <2>2. PICK x \in T : \A y \in T : x <= y
    BY <2>1, LeastNumber
  <2>3. CASE x = 0
    <3>1. Part(0, [i \in 0..0 |-> M])
      OBVIOUS
    <3> QED BY <3>1, <2>2, <2>3
  <2>4. CASE x # 0
    <3>1. x \in Nat /\ x - 1 \in Nat
      BY <2>2, <2>4
    <3>2. PICK g : Part(x - 1, g)
      <4> HIDE DEF Part
      <4>1. x - 1 \notin T
        <5> HIDE DEF T
        <5> QED BY <2>2, <3>1
      <4> QED BY <4>1, <3>1
    <3>a. /\ g \in [0..(x - 1) -> Nat]
          /\ \A i \in 0..(x - 1) : g[i] = IF i <= 1 THEN M ELSE g[i - 1] + E[i - 1]
      BY <3>2
    <3>b. \A i \in 0..x : i < x => i \in 0..(x - 1)
      BY <3>1
    <3>c. x - 1 \in 0..(x - 1)
      BY <3>1, <2>4
    <3>d. E[x - 1] \in Nat /\ g[x - 1] \in Nat
      BY <3>1, <3>a, <3>c
    <3> DEFINE h == [i \in 0..x |-> IF i < x THEN g[i] ELSE IF x = 1 THEN M ELSE g[x - 1] + E[x - 1]]
    <3>3. h \in [0..x -> Nat]
      <4>1. ASSUME NEW i \in 0..x PROVE h[i] \in Nat
        <5>1. i < x => g[i] \in Nat
          BY <3>a, <3>b
        <5>2. E[x - 1] + g[x - 1] \in Nat /\ g[x - 1] + E[x - 1] \in Nat
          <6>1. \A a, b \in Nat : a + b \in Nat
            OBVIOUS
          <6> QED BY <6>1, <3>d, Zenon
        <5> QED BY <5>1, <5>2
      <4> QED BY <4>1
    <3>4. ASSUME NEW i \in 0..x PROVE h[i] = IF i <= 1 THEN M ELSE h[i - 1] + E[i - 1]
      <4>1. CASE i < x
        <5>1. i > 1 => i - 1 \in 0..x /\ i - 1 < x
          BY <4>1, <3>1
        <5>2. h[i] = g[i] /\ (i > 1 => h[i - 1] = g[i - 1])
          BY <5>1, <4>1
        <5> HIDE DEF h
        <5> QED BY <5>2, <4>1, <3>a, <3>b
      <4>2. CASE i = x
        <5>1. x - 1 \in 0..x /\ x - 1 < x /\ x \in 0..x
          BY <3>1, <2>4
        <5>2. h[x - 1] = g[x - 1] /\ h[x] = IF x = 1 THEN M ELSE g[x - 1] + E[x - 1]
          BY <5>1
        <5> HIDE DEF h
        <5> QED BY <5>2, <4>2, <2>4, <3>1
      <4> QED BY <4>1, <4>2, <3>1
    <3>5. Part(x, h)
      BY <3>3, <3>4
    <3> QED BY <3>5, <2>2
  <2> QED BY <2>3, <2>4
<1>2. ASSUME NEW n \in Nat, NEW m \in Nat, n <= m, NEW g, NEW h, Part(n, g), Part(m, h)
      PROVE  g[n] = h[n]
  <2> DEFINE T == {i \in 0..n : g[i] # h[i]}
  <2>1. SUFFICES ASSUME T # {} PROVE FALSE
    BY n \in 0..n
  <2>2. PICK x \in T : \A y \in T : x <= y
    BY <2>1, LeastNumber, T \subseteq Nat
  <2>3. x \in 0..n /\ x \in 0..m
    BY <1>2, <2>2
  <2>4. g[x] = (IF x <= 1 THEN M ELSE g[x - 1] + E[x - 1])
        /\ h[x] = (IF x <= 1 THEN M ELSE h[x - 1] + E[x - 1])
    BY <1>2, <2>3
  <2>5. x > 1 => x - 1 \in 0..n /\ x - 1 \notin T
    BY <2>2, <2>3
  <2> QED BY <2>2, <2>4, <2>5, <2>3
<1> DEFINE G(n) == CHOOSE g : Part(n, g)
           f == [i \in Nat |-> G(i)[i]]
<1>3. \A n \in Nat : Part(n, G(n))
  BY <1>1
<1> HIDE DEF G
<1>4. \A n \in Nat : f[n] = G(n)[n] /\ f[n] \in Nat
  BY <1>3
<1>5. ASSUME NEW i \in Nat PROVE f[i] = IF i <= 1 THEN M ELSE f[i - 1] + E[i - 1]
  <2>1. G(i)[i] = IF i <= 1 THEN M ELSE G(i)[i - 1] + E[i - 1]
    BY <1>3
  <2>2. i > 1 => G(i)[i - 1] = G(i - 1)[i - 1]
    <3> SUFFICES ASSUME i > 1 PROVE G(i - 1)[i - 1] = G(i)[i - 1]
      OBVIOUS
    <3> HIDE DEF Part
    <3>1. Part(i - 1, G(i - 1)) /\ Part(i, G(i)) /\ i - 1 \in Nat /\ i - 1 <= i
      BY <1>3
    <3> QED BY <3>1, <1>2
  <2> QED BY <2>1, <2>2, <1>4
<1>6. f \in [Nat -> Nat]
  BY <1>4
<1>7. f = [i \in Nat |-> IF i <= 1 THEN M ELSE f[i - 1] + E[i - 1]]
  BY <1>5
<1> QED BY <1>6, <1>7

-----------------------------------------------------------------------------
(***************************************************************************)
(* Where things are in a stream s, whatever the state.                     *)
(***************************************************************************)
RecordOK(s, k) == s.records[k].size \in RecordHeaderSize..MaxRecordSize

SizeOf(s, k) == IF RecordOK(s, k) THEN s.records[k].size ELSE RecordHeaderSize

Prefix(s) == IF s.prefix THEN DbnHeaderSize + s.frame_size ELSE 0

Table(s) ==
    CHOOSE f : f = [i \in Nat |-> IF i <= 1 THEN Prefix(s) ELSE f[i - 1] + SizeOf(s, i - 1)]

Start(s, k) == Table(s)[k]

End(s, k) == Start(s, k) + SizeOf(s, k)

\* They are what the parser computes of its stream.
LEMMA SamePlaces ==
    /\ \A k : /\ SizeOK(k) <=> RecordOK(stream, k)
              /\ Extent(k) = SizeOf(stream, k)
              /\ Offset(k) = Start(stream, k)
    /\ MetadataSize = Prefix(stream)
  BY DEF SizeOK, RecordOK, Extent, SizeOf, Offset, Start, Table, MetadataSize, Prefix

LEMMA StreamFields ==
    ASSUME NEW s \in Streams
    PROVE  /\ s.prefix \in BOOLEAN
           /\ s.version \in Nat /\ (~s.prefix => s.version = 3)
           /\ s.frame_size \in Nat
           /\ Len(s.records) \in Nat
           /\ Prefix(s) \in Nat
           /\ \A k : SizeOf(s, k) \in Nat /\ RecordHeaderSize <= SizeOf(s, k)
           /\ \A k \in 1..Len(s.records) : s.records[k].rtype \in RTypes
<1>a. /\ s.records \in BoundedSeq(Records, MaxRecords) /\ s.prefix \in BOOLEAN
      /\ s.version \in Versions \cup {3} /\ s.frame_size \in FrameSizes \cup {0}
      /\ ~s.prefix => s.version = 3
  BY DEF Streams
<1>1. s.records \in UNION {[1..m -> Records] : m \in 0..MaxRecords}
  BY <1>a DEF BoundedSeq, SeqOf
<1>2. PICK m \in 0..MaxRecords : s.records \in [1..m -> Records]
  BY <1>1
<1>3. m \in Nat /\ Len(s.records) = m
  BY <1>2, ParserAssumption
<1>5. \A k : SizeOf(s, k) \in Nat /\ RecordHeaderSize <= SizeOf(s, k)
  BY ParserAssumption DEF SizeOf, RecordOK
<1>6. s.version \in Nat /\ s.frame_size \in Nat /\ DbnHeaderSize \in Nat
  <2>1. s.version \in Nat
    <3>1. s.version \in Versions \/ s.version = 3
      BY <1>a
    <3>2. Versions \subseteq Nat
      BY ParserAssumption
    <3>3. s.version \in Versions => s.version \in Nat
      BY <3>2
    <3>4. 3 \in Nat
      OBVIOUS
    <3> QED BY <3>1, <3>3, <3>4, Zenon
  <2>2. s.frame_size \in Nat
    <3>1. s.frame_size \in FrameSizes \/ s.frame_size = 0
      BY <1>a
    <3>2. FrameSizes \subseteq Nat
      BY ParserAssumption
    <3>3. s.frame_size \in FrameSizes => s.frame_size \in Nat
      BY <3>2
    <3>4. 0 \in Nat
      OBVIOUS
    <3> QED BY <3>1, <3>3, <3>4, Zenon
  <2> QED BY <2>1, <2>2, ParserAssumption
<1>7. Prefix(s) \in Nat
  BY <1>6 DEF Prefix
<1>8. \A k \in 1..Len(s.records) : s.records[k].rtype \in RTypes
  BY <1>2, <1>3 DEF Records
<1> QED BY <1>3, <1>a, <1>5, <1>6, <1>7, <1>8

\* Each record starts where the one in front ends.
LEMMA Places ==
    ASSUME NEW s \in Streams
    PROVE  /\ \A k \in Nat : Start(s, k) \in Nat
           /\ Start(s, 1) = Prefix(s)
           /\ \A k \in Nat : k >= 1 => Start(s, k + 1) = End(s, k)
<1> DEFINE E == [i \in Nat |-> SizeOf(s, i)]
<1>1. E \in [Nat -> Nat] /\ Prefix(s) \in Nat
  BY StreamFields
<1>2. PICK f \in [Nat -> Nat] :
         f = [i \in Nat |-> IF i <= 1 THEN Prefix(s) ELSE f[i - 1] + E[i - 1]]
  BY <1>1, TableExists
<1>3. [i \in Nat |-> IF i <= 1 THEN Prefix(s) ELSE f[i - 1] + E[i - 1]]
      = [i \in Nat |-> IF i <= 1 THEN Prefix(s) ELSE f[i - 1] + SizeOf(s, i - 1)]
  OBVIOUS
<1>4. Table(s) = [i \in Nat |-> IF i <= 1 THEN Prefix(s)
                                ELSE Table(s)[i - 1] + SizeOf(s, i - 1)]
  BY <1>2, <1>3, Zenon DEF Table
<1>5. ASSUME NEW k \in Nat
      PROVE  Table(s)[k] = IF k <= 1 THEN Prefix(s) ELSE Table(s)[k - 1] + SizeOf(s, k - 1)
  BY <1>4
<1>6. \A k \in Nat : Table(s)[k] \in Nat
  <2> DEFINE T == {k \in Nat : Table(s)[k] \notin Nat}
  <2>1. SUFFICES ASSUME T # {} PROVE FALSE
    OBVIOUS
  <2>2. PICK x \in T : \A y \in T : x <= y
    BY <2>1, LeastNumber
  <2>3. x > 1 => x - 1 \in Nat /\ x - 1 \notin T
    BY <2>2
  <2>4. \A a, b \in Nat : a + b \in Nat
    OBVIOUS
  <2>5. x \in Nat /\ Table(s)[x] \notin Nat
    BY <2>2
  <2>6. Table(s)[x] = IF x <= 1 THEN Prefix(s) ELSE Table(s)[x - 1] + SizeOf(s, x - 1)
    BY <1>5, <2>5
  <2>7. x > 1 => Table(s)[x - 1] \in Nat
    BY <2>3
  <2>8. SizeOf(s, x - 1) \in Nat /\ Prefix(s) \in Nat
    BY StreamFields
  <2>9. ~(x <= 1) => x > 1
    BY <2>5
  <2> QED BY <2>4, <2>5, <2>6, <2>7, <2>8, <2>9, Zenon
<1>7. ASSUME NEW k \in Nat, k >= 1 PROVE Start(s, k + 1) = End(s, k)
  BY <1>5, <1>7, k + 1 \in Nat, ~(k + 1 <= 1), (k + 1) - 1 = k DEF Start, End
<1> QED BY <1>5, <1>6, <1>7 DEF Start

LEMMA PlacesTyped ==
    ASSUME NEW s \in Streams, NEW k \in Nat
    PROVE  /\ Start(s, k) \in Nat /\ SizeOf(s, k) \in Nat /\ End(s, k) \in Nat
           /\ End(s, k) = Start(s, k) + SizeOf(s, k)
           /\ RecordHeaderSize \in Nat /\ RecordHeaderSize <= SizeOf(s, k)
           /\ Start(s, k) + RecordHeaderSize \in Nat
<1>1. Start(s, k) \in Nat /\ SizeOf(s, k) \in Nat
  BY Places, StreamFields
<1>2. RecordHeaderSize \in Nat /\ RecordHeaderSize <= SizeOf(s, k)
  BY StreamFields, ParserAssumption
<1> QED BY <1>1, <1>2 DEF End

\* Records lie one after the other.
LEMMA InLine ==
    ASSUME NEW s \in Streams, NEW j \in Nat, NEW k \in Nat, 1 <= j, j < k
    PROVE  End(s, j) <= Start(s, k)
<1> DEFINE T == {n \in Nat : j < n /\ ~(End(s, j) <= Start(s, n))}
<1>1. SUFFICES ASSUME T # {} PROVE FALSE
  OBVIOUS
<1>2. PICK x \in T : \A y \in T : x <= y
  BY <1>1, LeastNumber
<1>3. /\ x \in Nat /\ j < x /\ x - 1 \in Nat /\ x - 1 >= 1
      /\ (x - 1) + 1 = x
  BY <1>2
<1>4. x - 1 \notin T
  BY <1>2, <1>3
<1>5. Start(s, x) = Start(s, x - 1) + SizeOf(s, x - 1)
  BY <1>3, Places DEF End
<1>6. /\ Start(s, x - 1) \in Nat /\ SizeOf(s, x - 1) \in Nat
      /\ Start(s, j) \in Nat /\ SizeOf(s, j) \in Nat
  BY <1>3, Places, StreamFields
<1>7. CASE x - 1 = j
  BY <1>7, <1>5, <1>6, <1>2 DEF End
<1>8. CASE x - 1 # j
  <2>1. End(s, j) <= Start(s, x - 1)
    BY <1>8, <1>3, <1>4
  <2> QED BY <2>1, <1>5, <1>6, <1>2 DEF End
<1> QED BY <1>7, <1>8
-----------------------------------------------------------------------------
(***************************************************************************)
(* The invariant.                                                          *)
(***************************************************************************)
\* What the sink gets for the first n records of s.
Wanted(s, k) ==
    [index |-> k,
     read_as |-> IF s.version = 3 \/ s.records[k].rtype \notin V3Types THEN 3
                 ELSE ConvertRecordToV3(s.records[k].rtype, s.version)]

Batch(s, n) == [k \in 1..n |-> Wanted(s, k)]

\* The metadata and n records of s, all good, lie in its first r units; the
\* records are read as version v.
Parsed(s, n, v, r) ==
    /\ s.prefix => s.frame_size <= MaxMetadataSize
    /\ v = s.version
    /\ DbnHeaderSize <= r
    /\ n \in 0..Len(s.records)
    /\ Start(s, n + 1) <= r
    /\ \A j \in 1..n : RecordOK(s, j)
    /\ n > 0 => v <= 3

\* The next record is not there, and what there is of it is not wrong.
Starved(s, n, r) ==
    \/ n + 1 > Len(s.records)
    \/ Start(s, n + 1) + RecordHeaderSize > r
    \/ RecordOK(s, n + 1) /\ End(s, n + 1) > r

\* The metadata is not there.
Headless(s, r) ==
    \/ r < DbnHeaderSize
    \/ s.prefix /\ s.frame_size <= MaxMetadataSize /\ r < Prefix(s)

\* The first r units of s break a rule of the format.
Bad(s, r) ==
    \/ s.prefix /\ DbnHeaderSize <= r /\ s.frame_size > MaxMetadataSize
    \/ \E k \in 1..Len(s.records) : Start(s, k) + RecordHeaderSize <= r /\ ~RecordOK(s, k)
    \/ /\ s.prefix /\ s.version > 3
       /\ \E k \in 1..Len(s.records) : End(s, k) <= r

\* The parser has gone as far as the stream allows.
CaughtUp ==
    /\ metadata_parsed => Parsed(stream, next, dbn_version, received)
                          /\ Starved(stream, next, received)
    /\ ~metadata_parsed => next = 0 /\ dbn_version = 3 /\ Headless(stream, received)
    /\ delivered = Batch(stream, next)

AtBoundary ==
    /\ metadata_parsed => received = Start(stream, next + 1)
    /\ ~metadata_parsed => received = 0

\* What the sink has been told, once.
Told ==
    /\ ~finalized => \/ signals = <<>>
                     \/ signals = <<"complete">> /\ upstream = "ended" /\ AtBoundary
    /\ finalized => \E why : /\ signals = <<why>> /\ why # "complete"
                             /\ why = "parse" => Bad(stream, received)
                             /\ why # "parse" => upstream = "ended" /\ clean = received

\* The first n records are all that the first r units of s hold.
Holds(s, n, r) ==
    \/ \E v : Parsed(s, n, v, r) /\ Starved(s, n, r)
    \/ n = 0 /\ Headless(s, r)

\* The sink has what the stream held when the parser last did not fail.
SinkHas == \E n \in Nat : delivered = Batch(stream, n) /\ Holds(stream, n, clean)

IInv ==
    /\ stream \in Streams /\ received \in Nat /\ clean \in Nat
    /\ finalized \in BOOLEAN /\ metadata_parsed \in BOOLEAN
    /\ ~finalized => CaughtUp /\ clean = received
    /\ SinkHas
    /\ Told

\* A parser that has gone as far as it can has given the sink all there is.
LEMMA CaughtUpHas ==
    ASSUME NEW s \in Streams, NEW m, NEW k, NEW v, NEW r, NEW d,
           m => Parsed(s, k, v, r) /\ Starved(s, k, r),
           ~m => k = 0 /\ Headless(s, r),
           d = Batch(s, k)
    PROVE  \E n \in Nat : d = Batch(s, n) /\ Holds(s, n, r)
<1>1. CASE m
  <2>1. Parsed(s, k, v, r) /\ Starved(s, k, r)
    BY <1>1
  <2>2. k \in Nat
    BY <2>1, StreamFields DEF Parsed
  <2> QED BY <2>1, <2>2 DEF Holds
<1>2. CASE ~m
  BY <1>2 DEF Holds
<1> QED BY <1>1, <1>2

-----------------------------------------------------------------------------
\* What the loop of OnData makes of a record.
LEMMA Verdicts ==
    ASSUME stream \in Streams, NEW k \in Nat, NEW upto \in Nat, NEW version \in Nat
    PROVE  /\ Verdict(k, upto, version) \in {"wait", "error", "take"}
           /\ Verdict(k, upto, version) = "take" =>
                 /\ k <= Count /\ RecordOK(stream, k) /\ version <= 3
                 /\ End(stream, k) <= upto
           /\ Verdict(k, upto, version) = "error" =>
                 /\ k <= Count /\ Start(stream, k) + RecordHeaderSize <= upto
                 /\ ~RecordOK(stream, k) \/ (version > 3 /\ End(stream, k) <= upto)
           /\ Verdict(k, upto, version) = "wait" =>
                 \/ k > Count
                 \/ ~(Start(stream, k) + RecordHeaderSize <= upto)
                 \/ RecordOK(stream, k) /\ ~(End(stream, k) <= upto)
<1>1. /\ Start(stream, k) \in Nat /\ SizeOf(stream, k) \in Nat
      /\ Count \in Nat /\ RecordHeaderSize \in Nat
  BY Places, StreamFields, ParserAssumption DEF Count
<1>2. IsComplete(k, upto) <=> End(stream, k) <= upto
  BY SamePlaces DEF IsComplete, End
<1>3. End(stream, k) \in Nat
  BY <1>1 DEF End
<1> DEFINE here == k <= Count /\ Start(stream, k) + RecordHeaderSize <= upto
           V == Verdict(k, upto, version)
<1>4. ~here => V = "wait"
  BY <1>1, SamePlaces DEF Verdict
<1>5. here => V = CASE ~RecordOK(stream, k) -> "error"
                    [] RecordOK(stream, k) /\ ~(End(stream, k) <= upto) -> "wait"
                    [] RecordOK(stream, k) /\ End(stream, k) <= upto ->
                          IF version > 3 THEN "error" ELSE "take"
  BY <1>1, <1>2, SamePlaces DEF Verdict
<1> QED BY <1>1, <1>3, <1>4, <1>5

\* The loop stops at the first record it does not take.
LEMMA LoopStops ==
    ASSUME stream \in Streams, NEW upto \in Nat, NEW version \in Nat,
           next \in 0..Count
    PROVE  LET stop == Stop(upto, version)
           IN  /\ stop \in (next + 1)..(Count + 1)
               /\ Verdict(stop, upto, version) # "take"
               /\ \A j \in (next + 1)..(stop - 1) : Verdict(j, upto, version) = "take"
<1> DEFINE T == {k \in (next + 1)..(Count + 1) : Verdict(k, upto, version) # "take"}
<1>1. Count \in Nat /\ T \subseteq Nat
  BY StreamFields DEF Count
<1>2. Count + 1 \in T
  BY <1>1, Verdicts
<1>3. PICK x \in T : \A y \in T : x <= y
  BY <1>1, <1>2, LeastNumber
<1>4. \A j \in (next + 1)..(x - 1) : Verdict(j, upto, version) = "take"
  BY <1>1, <1>3
<1> QED BY <1>3, <1>4 DEF Stop

\* What is read of a stream stays read, and what is wrong with it stays wrong.
LEMMA BadStays ==
    ASSUME NEW s \in Streams, NEW r \in Nat, NEW q \in Nat, r <= q, Bad(s, r)
    PROVE  Bad(s, q)
<1>1. \A k \in 1..Len(s.records) :
        Start(s, k) + RecordHeaderSize \in Nat /\ End(s, k) \in Nat
  <2> SUFFICES ASSUME NEW k \in 1..Len(s.records)
               PROVE  Start(s, k) + RecordHeaderSize \in Nat /\ End(s, k) \in Nat
    OBVIOUS
  <2>1. Len(s.records) \in Nat
    BY StreamFields
  <2>2. k \in Nat
    BY <2>1
  <2> QED BY <2>2, PlacesTyped
<1>2. DbnHeaderSize \in Nat
  BY ParserAssumption
<1> QED BY <1>1, <1>2 DEF Bad

\* Batches in a row are a batch.
LEMMA BatchesJoin ==
    ASSUME NEW s, NEW n \in Nat, NEW m \in Nat
    PROVE  Batch(s, n) \o [i \in 1..m |-> Wanted(s, n + i)] = Batch(s, n + m)
<1> DEFINE W == [k \in 1..(n + m) |-> Wanted(s, k)]
           b == [i \in 1..m |-> Wanted(s, n + i)]
<1>1. Batch(s, n) = [k \in 1..n |-> W[k]] /\ b = [i \in 1..m |-> W[n + i]]
  BY DEF Batch
<1>2. Len(Batch(s, n)) = n /\ Len(b) = m
  BY <1>1
<1>3. Batch(s, n) \o b = [k \in 1..(n + m) |-> IF k <= n THEN Batch(s, n)[k] ELSE b[k - n]]
  BY <1>1, <1>2
<1>4. ASSUME NEW k \in 1..(n + m) PROVE (IF k <= n THEN Batch(s, n)[k] ELSE b[k - n]) = Wanted(s, k)
  BY DEF Batch
<1> QED BY <1>3, <1>4 DEF Batch

\* The records that have arrived are those in front of the one that is missing.
LEMMA ArrivedInFront ==
    ASSUME NEW s \in Streams, NEW n, NEW v, NEW r \in Nat,
           Parsed(s, n, v, r), Starved(s, n, r)
    PROVE  {k \in 1..Len(s.records) : End(s, k) <= r} = 1..n
<1>1. n \in Nat /\ Len(s.records) \in Nat /\ n <= Len(s.records)
  BY StreamFields DEF Parsed
<1>2. ASSUME NEW k \in 1..n PROVE End(s, k) <= r
  <2>1. End(s, k) <= Start(s, n + 1) /\ Start(s, n + 1) <= r
    BY <1>1, InLine DEF Parsed
  <2>2. n + 1 \in Nat /\ k \in Nat
    BY <1>1
  <2>3. Start(s, n + 1) \in Nat /\ End(s, k) \in Nat
    BY <2>2, PlacesTyped
  <2> QED BY <2>1, <2>3
<1>3. ASSUME NEW k \in 1..Len(s.records), End(s, k) <= r, k > n PROVE FALSE
  <2>a. n + 1 \in Nat /\ k \in Nat
    BY <1>1
  <2>1. /\ Start(s, n + 1) \in Nat /\ SizeOf(s, n + 1) \in Nat
        /\ End(s, n + 1) = Start(s, n + 1) + SizeOf(s, n + 1)
        /\ Start(s, k) \in Nat /\ SizeOf(s, k) \in Nat /\ End(s, k) = Start(s, k) + SizeOf(s, k)
        /\ RecordHeaderSize \in Nat /\ RecordHeaderSize <= SizeOf(s, n + 1)
    BY <2>a, PlacesTyped
  <2>2. End(s, n + 1) <= End(s, k)
    <3>1. CASE k = n + 1
      BY <3>1, <2>1
    <3>2. CASE k # n + 1
      <4>1. End(s, n + 1) <= Start(s, k)
        BY <3>2, <1>1, <1>3, InLine
      <4> QED BY <4>1, <2>1
    <3> QED BY <3>1, <3>2
  <2>3. End(s, n + 1) <= r /\ n + 1 <= Len(s.records)
    BY <2>1, <2>2, <1>3, <1>1
  <2>4. ~(n + 1 > Len(s.records)) /\ ~(End(s, n + 1) > r)
    BY <2>1, <2>3, <1>1
  <2>5. ~(Start(s, n + 1) + RecordHeaderSize > r)
    BY <2>1, <2>3
  <2> QED BY <2>4, <2>5 DEF Starved
<1> QED BY <1>1, <1>2, <1>3

\* What is wrong with a stream makes the parser stop.
LEMMA BadNotRead ==
    ASSUME NEW s \in Streams, NEW n, NEW v, NEW r \in Nat,
           Parsed(s, n, v, r), Starved(s, n, r)
    PROVE  ~Bad(s, r)
<1>1. n \in Nat /\ Len(s.records) \in Nat /\ n <= Len(s.records) /\ s.version \in Nat
      /\ s.frame_size \in Nat /\ MaxMetadataSize \in Nat
  BY StreamFields, ParserAssumption DEF Parsed
<1>2. ~(s.prefix /\ s.frame_size > MaxMetadataSize)
  BY <1>1 DEF Parsed
<1>3. ASSUME s.prefix, s.version > 3, NEW k \in 1..Len(s.records), End(s, k) <= r PROVE FALSE
  <2>1. k \in 1..n
    BY <1>3, ArrivedInFront
  <2> QED BY <2>1, <1>1, <1>3 DEF Parsed
<1>4. ASSUME NEW k \in 1..Len(s.records), Start(s, k) + RecordHeaderSize <= r, ~RecordOK(s, k)
      PROVE  FALSE
  <2>1. SizeOf(s, k) = RecordHeaderSize
    BY <1>4 DEF SizeOf
  <2>2. k \in 1..n
    BY <2>1, <1>4, ArrivedInFront DEF End
  <2> QED BY <2>2, <1>4 DEF Parsed
<1> QED BY <1>2, <1>3, <1>4 DEF Bad

\* Nothing is wrong with a stream whose metadata is missing.
LEMMA BadNotHeadless ==
    ASSUME NEW s \in Streams, NEW r \in Nat, Headless(s, r)
    PROVE  /\ ~Bad(s, r)
           /\ \A k \in 1..Len(s.records) : ~(End(s, k) <= r)
<1>1. /\ DbnHeaderSize \in Nat /\ RecordHeaderSize \in Nat
      /\ DbnHeaderSize <= RecordHeaderSize
      /\ Prefix(s) \in Nat /\ Len(s.records) \in Nat
      /\ s.frame_size \in Nat /\ MaxMetadataSize \in Nat
  BY ParserAssumption, StreamFields
<1>2. ASSUME NEW k \in 1..Len(s.records)
      PROVE  ~(End(s, k) <= r) /\ ~(Start(s, k) + RecordHeaderSize <= r)
  <2>1. k \in Nat /\ 1 \in Nat
    BY <1>1
  <2>2. /\ Start(s, k) \in Nat /\ SizeOf(s, k) \in Nat
        /\ End(s, k) = Start(s, k) + SizeOf(s, k) /\ RecordHeaderSize <= SizeOf(s, k)
        /\ End(s, 1) \in Nat /\ End(s, 1) = Start(s, 1) + SizeOf(s, 1)
        /\ SizeOf(s, 1) \in Nat /\ Start(s, 1) = Prefix(s)
    BY <2>1, PlacesTyped, Places
  <2>3. Prefix(s) <= Start(s, k)
    <3>1. CASE k = 1
      BY <3>1, <2>2, <1>1
    <3>2. CASE k # 1
      <4>1. End(s, 1) <= Start(s, k)
        BY <3>2, <2>1, <1>1, InLine
      <4> QED BY <4>1, <2>2, <1>1
    <3> QED BY <3>1, <3>2
  <2>4. CASE r < DbnHeaderSize
    BY <2>4, <2>2, <1>1
  <2>5. CASE r < Prefix(s)
    BY <2>5, <2>2, <2>3, <1>1
  <2> QED BY <2>4, <2>5 DEF Headless
<1> QED BY <1>1, <1>2 DEF Bad, Headless

\* The loop of OnData, once the metadata is out of the way.
LEMMA LoopKeeps ==
    ASSUME stream \in Streams, NEW upto \in Nat, NEW version \in Nat,
           Parsed(stream, next, version, upto),
           delivered = Batch(stream, next), finalized = FALSE, signals = <<>>,
           ParseRecords(upto, version)
    PROVE  /\ metadata_parsed' = TRUE
           /\ \/ /\ finalized' = FALSE /\ signals' = <<>>
                 /\ Parsed(stream, next', dbn_version', upto)
                 /\ Starved(stream, next', upto)
                 /\ delivered' = Batch(stream, next')
              \/ /\ finalized' = TRUE /\ signals' = <<"parse">> /\ Bad(stream, upto)
                 /\ UNCHANGED delivered
<1> DEFINE stop == Stop(upto, version)
           batch == [i \in 1..(stop - 1 - next) |-> Ref(next + i, version)]
<1>1. Count \in Nat /\ Count = Len(stream.records) /\ next \in 0..Count /\ next \in Nat
  BY StreamFields DEF Count, Parsed
<1>2. /\ stop \in (next + 1)..(Count + 1)
      /\ Verdict(stop, upto, version) # "take"
      /\ \A j \in (next + 1)..(stop - 1) : Verdict(j, upto, version) = "take"
  BY <1>1, LoopStops
<1>3. /\ metadata_parsed' = TRUE /\ dbn_version' = version /\ next' = stop - 1
      /\ IF Verdict(stop, upto, version) = "error"
         THEN ReportError("parse") /\ UNCHANGED delivered
         ELSE delivered' = delivered \o batch /\ UNCHANGED <<finalized, signals>>
  BY DEF ParseRecords
<1> HIDE DEF stop
<1>4. stop \in Nat /\ stop - 1 \in 0..Count /\ stop - 1 - next \in Nat
  BY <1>1, <1>2
<1>5. ASSUME NEW j \in (next + 1)..(stop - 1)
      PROVE  /\ RecordOK(stream, j) /\ End(stream, j) <= upto /\ version <= 3
             /\ Ref(j, version) = Wanted(stream, j)
  <2>1. j \in Nat /\ Verdict(j, upto, version) = "take"
    BY <1>1, <1>2, <1>4
  <2>2. RecordOK(stream, j) /\ End(stream, j) <= upto /\ version <= 3
    BY <2>1, Verdicts
  <2>3. version = stream.version
    BY DEF Parsed
  <2>5. Ref(j, version) = Wanted(stream, j)
    BY <2>3 DEF Ref, Wanted
  <2> QED BY <2>2, <2>5
<1>6. Start(stream, stop) <= upto
  <2>1. CASE stop = next + 1
    BY <2>1 DEF Parsed
  <2>2. CASE stop # next + 1
    <3>1. stop - 1 \in (next + 1)..(stop - 1) /\ stop - 1 \in Nat /\ stop - 1 >= 1
          /\ (stop - 1) + 1 = stop
      BY <2>2, <1>1, <1>2, <1>4
    <3> QED BY <3>1, <1>5, Places
  <2> QED BY <2>1, <2>2
<1>7. CASE Verdict(stop, upto, version) = "error"
  <2>1. /\ stop <= Count /\ Start(stream, stop) + RecordHeaderSize <= upto
        /\ ~RecordOK(stream, stop) \/ (version > 3 /\ End(stream, stop) <= upto)
    BY <1>7, <1>4, Verdicts
  <2>2. stop \in 1..Len(stream.records)
    BY <2>1, <1>1, <1>2, <1>4
  <2>3. version > 3 => stream.prefix /\ stream.version > 3
    BY StreamFields DEF Parsed
  <2>4. Bad(stream, upto)
    BY <2>1, <2>2, <2>3 DEF Bad
  <2>5. finalized' = TRUE /\ signals' = Append(<<>>, "parse")
    BY <1>3, <1>7 DEF ReportError
  <2> QED BY <2>4, <2>5, <1>3
<1>8. CASE Verdict(stop, upto, version) # "error"
  <2>1. Verdict(stop, upto, version) = "wait"
    BY <1>8, <1>2, <1>4, Verdicts
  <2>2. /\ delivered' = delivered \o batch /\ finalized' = FALSE /\ signals' = <<>>
        /\ dbn_version' = version /\ next' = stop - 1 /\ next' + 1 = stop
    BY <1>3, <1>8, <1>4
  <2>3. Starved(stream, next', upto)
    <3>1. \/ stop > Count
          \/ ~(Start(stream, stop) + RecordHeaderSize <= upto)
          \/ RecordOK(stream, stop) /\ ~(End(stream, stop) <= upto)
      BY <2>1, <1>4, Verdicts
    <3>2. Start(stream, stop) + RecordHeaderSize \in Nat /\ End(stream, stop) \in Nat
      BY <1>4, PlacesTyped
    <3> QED BY <3>1, <3>2, <2>2, <1>1 DEF Starved
  <2>4. \A j \in 1..(stop - 1) : RecordOK(stream, j)
    <3>1. \A j \in 1..next : RecordOK(stream, j)
      BY DEF Parsed
    <3>2. \A j \in 1..(stop - 1) : j \in 1..next \/ j \in (next + 1)..(stop - 1)
      BY <1>1, <1>4
    <3> QED BY <3>1, <3>2, <1>5
  <2>5. stop - 1 > 0 => version <= 3
    <3>1. stop - 1 > 0 => next > 0 \/ stop - 1 \in (next + 1)..(stop - 1)
      BY <1>1, <1>2, <1>4
    <3> QED BY <3>1, <1>5 DEF Parsed
  <2>6. Parsed(stream, next', dbn_version', upto)
    BY <2>2, <2>4, <2>5, <1>6, <1>4, <1>1 DEF Parsed
  <2>7. delivered' = Batch(stream, next')
    <3>1. batch = [i \in 1..(stop - 1 - next) |-> Wanted(stream, next + i)]
      <4>1. ASSUME NEW i \in 1..(stop - 1 - next)
            PROVE  Ref(next + i, version) = Wanted(stream, next + i)
        <5>1. next + i \in (next + 1)..(stop - 1)
          BY <1>1, <1>4
        <5> QED BY <5>1, <1>5
      <4> QED BY <4>1
    <3>2. next + (stop - 1 - next) = stop - 1
      BY <1>1, <1>4
    <3> DEFINE m == stop - 1 - next
    <3>3. m \in Nat /\ batch = [i \in 1..m |-> Wanted(stream, next + i)]
      BY <3>1, <1>4
    <3> HIDE DEF batch, m
    <3>4. Batch(stream, next) \o batch = Batch(stream, next + m)
      <4>1. Batch(stream, next) \o [i \in 1..m |-> Wanted(stream, next + i)]
            = Batch(stream, next + m)
        BY <3>3, <1>1, BatchesJoin
      <4> QED BY <4>1, <3>3
    <3>5. next + m = next'
      BY <3>2, <2>2 DEF m
    <3> QED BY <3>4, <3>5, <2>2
  <2> QED BY <2>2, <2>3, <2>6, <2>7, <1>3
<1> QED BY <1>7, <1>8

-----------------------------------------------------------------------------
LEMMA InitEstablishes == Init => IInv
<1> SUFFICES ASSUME Init PROVE IInv
  OBVIOUS
<1>1. stream \in Streams
  BY DEF Init
<1>2. Headless(stream, 0)
  BY ParserAssumption DEF Headless
<1>3. Batch(stream, 0) = <<>>
  BY DEF Batch
<1>4. Holds(stream, 0, 0)
  BY <1>2 DEF Holds
<1> QED BY <1>1, <1>2, <1>3, <1>4 DEF Init, IInv, CaughtUp, Told, SinkHas

\* A chunk, of whatever size, and one more look at the chain.
LEMMA OnDataKeeps ==
    ASSUME IInv, NEW n \in Nat, OnData(n)
    PROVE  IInv'
<1> DEFINE upto == received'
<1>1. /\ stream' = stream /\ upstream' = upstream /\ upstream = "open"
      /\ received \in Nat /\ upto = received + n /\ Parse(upto) /\ stream \in Streams
      /\ finalized \in BOOLEAN /\ metadata_parsed \in BOOLEAN
      /\ clean \in Nat /\ SinkHas /\ clean' = IF finalized' THEN clean ELSE upto
  BY DEF OnData, IInv
<1>2. upto \in Nat /\ received <= upto
  BY <1>1
<1>3. SUFFICES /\ finalized' \in BOOLEAN /\ metadata_parsed' \in BOOLEAN
               /\ ~finalized' => CaughtUp' /\ signals' = <<>>
               /\ finalized' => /\ signals' = <<"parse">> /\ Bad(stream, upto)
                                /\ UNCHANGED delivered
  <2>1. finalized' => SinkHas'
    BY <1>1, <1>3 DEF SinkHas
  <2>2. ~finalized' => SinkHas'
    <3>1. SUFFICES ASSUME ~finalized' PROVE SinkHas'
      OBVIOUS
    <3>2. CaughtUp' /\ clean' = upto /\ stream' = stream
      BY <1>1, <1>3, <3>1
    <3>3. \E k \in Nat : delivered' = Batch(stream, k) /\ Holds(stream, k, upto)
      <4>1. /\ metadata_parsed' => Parsed(stream, next', dbn_version', upto)
                                   /\ Starved(stream, next', upto)
            /\ ~metadata_parsed' => next' = 0 /\ Headless(stream, upto)
            /\ delivered' = Batch(stream, next')
        BY <3>2 DEF CaughtUp
      <4> HIDE DEF upto
      <4> QED BY <1>1, <4>1, CaughtUpHas
    <3> QED BY <3>2, <3>3 DEF SinkHas
  <2> QED BY <1>1, <1>2, <1>3, <2>1, <2>2 DEF IInv, Told
<1> HIDE DEF upto
<1>4. CASE finalized
  <2>1. UNCHANGED parser
    BY <1>4, <1>1 DEF Parse
  <2>2. signals = <<"parse">> /\ Bad(stream, received)
    BY <1>1, <1>4 DEF IInv, Told
  <2>3. Bad(stream, upto)
    BY <2>2, <1>1, <1>2, BadStays
  <2> QED BY <1>1, <1>4, <2>1, <2>2, <2>3 DEF parser
<1>5. CASE ~finalized
  <2>1. CaughtUp /\ signals = <<>> /\ finalized = FALSE
    BY <1>1, <1>5 DEF IInv, Told
  <2> DEFINE found == SkipMetadata(upto - Consumed)
  <2>2. ~metadata_parsed => upto - Consumed = upto
    BY <1>2 DEF Consumed
  <2>3. /\ DbnHeaderSize \in Nat /\ stream.frame_size \in Nat /\ MaxMetadataSize \in Nat
        /\ Prefix(stream) \in Nat /\ stream.version \in Nat
    BY StreamFields, ParserAssumption, <1>1
  <2>4. found \in {"wait", "error", "ready"}
    BY <1>1, <1>2, <2>2, <2>3 DEF SkipMetadata
  <2>5. CASE found = "wait"
    <3>1. UNCHANGED parser
      BY <1>5, <1>1, <2>5 DEF Parse
    <3>2. /\ ~metadata_parsed
          /\ \/ ~(upto >= DbnHeaderSize)
             \/ /\ stream.prefix /\ ~(stream.frame_size > MaxMetadataSize)
                /\ upto < Prefix(stream)
      BY <2>2, <2>3, <2>5, <1>1, <1>2, SamePlaces DEF SkipMetadata
    <3>3. Headless(stream, upto)
      BY <3>2, <2>3, <1>2 DEF Headless
    <3> QED BY <3>1, <3>2, <3>3, <2>1, <1>1 DEF parser, CaughtUp, upto
  <2>6. CASE found = "error"
    <3>1. /\ finalized' = TRUE /\ signals' = Append(<<>>, "parse")
          /\ metadata_parsed' = metadata_parsed /\ UNCHANGED delivered
      BY <1>5, <1>1, <2>1, <2>6 DEF Parse, ReportError
    <3>2. /\ stream.prefix /\ upto >= DbnHeaderSize
          /\ stream.frame_size > MaxMetadataSize
      BY <2>2, <2>3, <2>6, <1>1, <1>2, SamePlaces DEF SkipMetadata
    <3>3. Bad(stream, upto)
      BY <3>2, <2>3, <1>2 DEF Bad
    <3> QED BY <3>1, <3>3, <1>1
  <2>7. CASE found = "ready"
    <3>1. ParseRecords(upto, VersionRead)
      BY <1>5, <1>1, <2>7 DEF Parse
    <3>2. Parsed(stream, next, VersionRead, upto) /\ delivered = Batch(stream, next)
      <4>1. CASE metadata_parsed
        <5>1. Parsed(stream, next, dbn_version, received) /\ VersionRead = dbn_version
          BY <4>1, <2>1 DEF CaughtUp, VersionRead
        <5>2. Start(stream, next + 1) \in Nat
          <6>1. next + 1 \in Nat
            BY <5>1, StreamFields, <1>1 DEF Parsed
          <6> QED BY <6>1, <1>1, Places
        <5> QED BY <5>1, <5>2, <2>1, <2>3, <1>1, <1>2 DEF Parsed, CaughtUp
      <4>2. CASE ~metadata_parsed
        <5>1. next = 0 /\ dbn_version = 3 /\ delivered = Batch(stream, next)
          BY <4>2, <2>1 DEF CaughtUp
        <5>2. /\ upto >= DbnHeaderSize
              /\ stream.prefix => /\ ~(stream.frame_size > MaxMetadataSize)
                                  /\ ~(upto < Prefix(stream))
          BY <4>2, <2>2, <2>3, <2>7, <1>1, <1>2, SamePlaces DEF SkipMetadata
        <5>3. Start(stream, 1) <= upto
          BY <5>2, <2>3, <1>1, <1>2, Places DEF Prefix
        <5>4. VersionRead = stream.version
          BY <4>2, <5>1, <1>1, StreamFields DEF VersionRead
        <5>5. Len(stream.records) \in Nat
          BY StreamFields, <1>1
        <5> QED BY <5>1, <5>2, <5>3, <5>4, <5>5, <2>3, <1>2 DEF Parsed
      <4> QED BY <4>1, <4>2
    <3>3. VersionRead \in Nat
      BY <3>2, <2>3 DEF Parsed
    <3>4. /\ metadata_parsed' = TRUE
          /\ \/ /\ finalized' = FALSE /\ signals' = <<>>
                /\ Parsed(stream, next', dbn_version', upto)
                /\ Starved(stream, next', upto)
                /\ delivered' = Batch(stream, next')
             \/ /\ finalized' = TRUE /\ signals' = <<"parse">> /\ Bad(stream, upto)
                /\ UNCHANGED delivered
      BY <3>1, <3>2, <3>3, <2>1, <1>1, <1>2, LoopKeeps
    <3> QED BY <3>4, <1>1 DEF CaughtUp, upto
  <2> QED BY <2>4, <2>5, <2>6, <2>7
<1> QED BY <1>4, <1>5

\* The end of the stage above, and its failure.
LEMMA EndKeeps ==
    ASSUME IInv, CompleteWithFlush \/ OnError
    PROVE  IInv'
<1>1. /\ stream' = stream /\ received' = received /\ upstream = "open" /\ upstream' = "ended"
      /\ UNCHANGED <<metadata_parsed, dbn_version, next, delivered, clean>>
      /\ clean \in Nat /\ SinkHas' /\ (~finalized => clean = received)
      /\ stream \in Streams /\ received \in Nat
      /\ finalized \in BOOLEAN /\ metadata_parsed \in BOOLEAN
  BY DEF CompleteWithFlush, OnError, OnDone, IInv, SinkHas
<1>2. CASE finalized
  <2>1. UNCHANGED <<finalized, signals>>
    BY <1>2 DEF CompleteWithFlush, OnError, OnDone, ReportError
  <2> QED BY <1>1, <1>2, <2>1 DEF IInv, Told
<1>3. CASE ~finalized
  <2>1. CaughtUp /\ signals = <<>>
    BY <1>1, <1>3 DEF IInv, Told
  <2>2. CaughtUp'
    BY <2>1, <1>1 DEF CaughtUp
  <2>3. \/ finalized' = TRUE /\ signals' \in {<<"leftover">>, <<"upstream">>}
        \/ /\ finalized' = finalized /\ signals' = <<"complete">>
           /\ ~(received > Consumed)
    BY <1>3, <2>1 DEF CompleteWithFlush, OnError, OnDone, ReportError
  <2>4. ASSUME ~(received > Consumed) PROVE AtBoundary
    <3>1. CASE metadata_parsed
      <4>1. /\ Parsed(stream, next, dbn_version, received)
            /\ Consumed = Start(stream, next + 1)
        BY <3>1, <2>1, SamePlaces DEF CaughtUp, Consumed
      <4>2. next + 1 \in Nat
        BY <4>1, StreamFields, <1>1 DEF Parsed
      <4>3. Start(stream, next + 1) \in Nat
        BY <4>2, <1>1, Places
      <4> QED BY <2>4, <3>1, <4>1, <4>3, <1>1 DEF Parsed, AtBoundary
    <3>2. CASE ~metadata_parsed
      BY <2>4, <3>2, <1>1 DEF Consumed, AtBoundary
    <3> QED BY <3>1, <3>2
  <2>5. AtBoundary <=> AtBoundary'
    BY <1>1 DEF AtBoundary
  <2>6. CASE finalized' = TRUE /\ signals' \in {<<"leftover">>, <<"upstream">>}
    <3>1. \E why : signals' = <<why>> /\ why # "complete" /\ why # "parse"
      BY <2>6
    <3>2. Told'
      <4>1. clean' = received' /\ upstream' = "ended"
        BY <1>1, <1>3
      <4> QED BY <2>6, <3>1, <4>1 DEF Told
    <3>3. ~finalized' => CaughtUp' /\ clean' = received'
      BY <2>6
    <3> QED BY <1>1, <2>6, <3>2, <3>3 DEF IInv
  <2>7. CASE finalized' = finalized /\ signals' = <<"complete">> /\ ~(received > Consumed)
    BY <1>1, <1>3, <2>2, <2>4, <2>5, <2>7 DEF IInv, Told
  <2> QED BY <2>3, <2>6, <2>7
<1> QED BY <1>1, <1>2, <1>3

LEMMA NextKeeps == ASSUME IInv, [Next]_vars PROVE IInv'
<1>1. CASE \E n \in 1..Total : OnData(n)
  <2>1. PICK n \in 1..Total : OnData(n)
    BY <1>1
  <2>2. n \in Nat
    OBVIOUS
  <2> QED BY <2>1, <2>2, OnDataKeeps
<1>2. CASE CompleteWithFlush \/ OnError
  BY <1>2, EndKeeps
<1>3. CASE UNCHANGED vars
  BY <1>3 DEF vars, parser, IInv, CaughtUp, Told, AtBoundary, SinkHas
<1> QED BY <1>1, <1>2, <1>3 DEF Next

-----------------------------------------------------------------------------
\* The records that have arrived, and whether something is wrong with them.
LEMMA HeldIsArrived ==
    ASSUME NEW s \in Streams, NEW n \in Nat, NEW r \in Nat, Holds(s, n, r)
    PROVE  {k \in 1..Len(s.records) : End(s, k) <= r} = 1..n /\ ~Bad(s, r)
<1>1. CASE \E v : Parsed(s, n, v, r) /\ Starved(s, n, r)
  BY <1>1, ArrivedInFront, BadNotRead
<1>2. CASE n = 0 /\ Headless(s, r)
  BY <1>2, BadNotHeadless
<1> QED BY <1>1, <1>2 DEF Holds

\* A record is read in the layout it was written in, or is one of those the
\* converters do not read so.
LEMMA ReadRight ==
    ASSUME NEW s \in Streams, NEW k \in Nat, s.version <= 3
    PROVE  LET rtype == s.records[k].rtype
           IN  \/ Wanted(s, k).read_as = WrittenAs(rtype, s.version)
               \/ s.version = 2 /\ rtype \in {"Error", "System", "SymbolMapping"}
               \/ s.version = 0
<1>1. s.version \in Nat
  BY StreamFields
<1>2. s.version \in {0, 1, 2, 3}
  BY <1>1
<1> QED BY <1>2 DEF Wanted, WrittenAs, V3Types, ConvertRecordToV3, ConvertInstrumentDef,
                    ConvertSingleLayout

\* What the sink has got, in the words of the property.
LEMMA Decided == ASSUME IInv PROVE StreamDecides
<1>1. /\ Count = Len(stream.records) /\ Count \in Nat /\ stream \in Streams /\ received \in Nat
      /\ clean \in Nat
      /\ \A r : ArrivedBy(r) = {k \in 1..Count : End(stream, k) <= r}
      /\ \A k : Ref(k, stream.version) = Wanted(stream, k)
  BY StreamFields, SamePlaces DEF IInv, Count, ArrivedBy, End, Ref, Wanted
<1>2. Malformed <=> Bad(stream, received)
  <2>1. DbnHeaderSize \in Nat
    BY ParserAssumption
  <2>2. ArrivedBy(received) # {} <=> \E k \in 1..Count : End(stream, k) <= received
    BY <1>1
  <2> QED BY <1>1, <2>1, <2>2, SamePlaces DEF Malformed, Bad
<1>3. PICK n \in Nat : delivered = Batch(stream, n) /\ Holds(stream, n, clean)
  BY DEF IInv, SinkHas
<1>4. /\ ArrivedBy(clean) = 1..n /\ ~Bad(stream, clean) /\ Cardinality(ArrivedBy(clean)) = n
  <2>1. ArrivedBy(clean) = 1..n /\ ~Bad(stream, clean)
    BY <1>1, <1>3, HeldIsArrived
  <2>2. Cardinality(1..n) = n
    BY <1>3, FS_Interval
  <2> QED BY <2>1, <2>2
<1>5. \/ ~finalized /\ clean = received /\ signals \in {<<>>, <<"complete">>}
      \/ finalized /\ signals = <<"parse">> /\ Bad(stream, received)
      \/ finalized /\ clean = received /\ \E why : signals = <<why>> /\ why # "complete" /\ why # "parse"
  BY DEF IInv, Told
<1>a. CutsDoNotMatter
  <2>1. delivered = [k \in 1..Cardinality(ArrivedBy(clean)) |-> Ref(k, stream.version)]
    BY <1>1, <1>3, <1>4 DEF Batch
  <2>2. "parse" \notin Range(signals) => clean = received
    BY <1>5 DEF Range
  <2> QED BY <2>1, <2>2 DEF CutsDoNotMatter
<1>b. ReadAsWritten
  <2> SUFFICES ASSUME NEW k \in DOMAIN delivered
               PROVE  LET rtype == stream.records[k].rtype
                      IN  \/ delivered[k].read_as = WrittenAs(rtype, stream.version)
                          \/ stream.version = 2 /\ rtype \in {"Error", "System", "SymbolMapping"}
                          \/ stream.version = 0
    BY DEF ReadAsWritten
  <2>1. k \in 1..n /\ k \in Nat /\ delivered[k] = Wanted(stream, k)
    BY <1>3 DEF Batch
  <2>2. stream.version <= 3
    BY <1>3, <2>1 DEF Holds, Parsed
  <2> QED BY <1>1, <2>1, <2>2, ReadRight
<1>6. ErrorMeansBad
  <2>1. "parse" \in Range(signals) => Bad(stream, received)
    BY <1>5 DEF Range
  <2>2. Bad(stream, received) => signals = <<"parse">>
    BY <1>4, <1>5
  <2>3. Len(signals) <= 1
    BY <1>5
  <2>4. signals = <<"parse">> => "parse" \in Range(signals)
    <3>1. SUFFICES ASSUME signals = <<"parse">> PROVE \E i \in DOMAIN signals : signals[i] = "parse"
      BY DEF Range
    <3>2. 1 \in DOMAIN signals /\ signals[1] = "parse"
      BY <3>1
    <3> QED BY <3>2
  <2> QED BY <1>2, <2>1, <2>2, <2>3, <2>4 DEF ErrorMeansBad
<1>7. CompleteMeansWhole
  <2> SUFFICES ASSUME "complete" \in Range(signals)
               PROVE  /\ \/ received \in {0, MetadataSize}
                         \/ \E k \in ArrivedBy(received) : received = Offset(k) + Extent(k)
                      /\ Len(delivered) = Cardinality(ArrivedBy(received))
    BY DEF CompleteMeansWhole
  <2>1. ~finalized /\ clean = received /\ AtBoundary /\ CaughtUp
    BY DEF IInv, Told, Range
  <2>2. Len(delivered) = Cardinality(ArrivedBy(received))
    BY <2>1, <1>3, <1>4 DEF Batch
  <2>3. CASE ~metadata_parsed
    BY <2>1, <2>2, <2>3 DEF AtBoundary
  <2>4. CASE metadata_parsed /\ next = 0
    BY <2>1, <2>2, <2>4, <1>1, Places, SamePlaces DEF AtBoundary
  <2>5. CASE metadata_parsed /\ next # 0
    <3>1. Parsed(stream, next, dbn_version, received) /\ Starved(stream, next, received)
      BY <2>1, <2>5 DEF CaughtUp
    <3>2. next \in Nat /\ next >= 1 /\ next \in ArrivedBy(received)
      BY <2>5, <3>1, <1>1, ArrivedInFront DEF Parsed
    <3>3. received = Start(stream, next + 1)
      BY <2>1, <2>5 DEF AtBoundary
    <3>4. received = Offset(next) + Extent(next)
      BY <3>2, <3>3, <1>1, Places, SamePlaces DEF End
    <3> QED BY <2>1, <2>2, <3>2, <3>4
  <2> QED BY <2>3, <2>4, <2>5
<1> QED BY <1>a, <1>b, <1>6, <1>7 DEF StreamDecides

\* DbnParserComponent: what the sink gets of a stream that keeps to the format
\* depends on the stream alone, and of a malformed one also on the cut in front
\* of the bad piece; for any sizes of headers, records and metadata, any
\* stream of any version and any cuts (StreamDecides).
THEOREM StreamDecidesAlways == MCSpec => []StreamDecides
<1>1. MCInit => IInv
  BY InitEstablishes DEF MCInit
<1>2. IInv /\ [MCNext]_<<part, vars, chainvars, mapvars>> => IInv'
  <2> SUFFICES ASSUME IInv, [MCNext]_<<part, vars, chainvars, mapvars>> PROVE IInv'
    OBVIOUS
  <2>1. [Next]_vars
    BY DEF MCNext
  <2> QED BY <2>1, NextKeeps
<1>3. IInv => StreamDecides
  BY Decided
<1> QED BY <1>1, <1>2, <1>3, PTL DEF MCSpec

-----------------------------------------------------------------------------
(***************************************************************************)
(* InstrumentMap                                                           *)
(***************************************************************************)
\* A sequence of intervals of one instrument, by start date.
Sorted(s) == \A i, j \in DOMAIN s : i < j => s[i].start <= s[j].start

MapInv ==
    /\ rows \in Seq(Market)
    /\ MaxMappings > 0 => Len(rows) <= MaxMappings
    /\ \A id \in DOMAIN mappings :
        /\ mappings[id] \in Seq(Market)
        /\ Sorted(mappings[id])
        /\ \A i \in DOMAIN mappings[id] : mappings[id][i].id = id

LEMMA MinIsLeast ==
    ASSUME NEW T, T \subseteq Nat, T # {}
    PROVE  IM!Min(T) \in T /\ \A y \in T : IM!Min(T) <= y
  BY LeastNumber DEF IM!Min

\* One row more, or the row with the same key replaced.
LEMMA UpsertKeeps ==
    ASSUME NEW table \in Seq(Market), NEW m \in Market
    PROVE  /\ IM!Upsert(table, m) \in Seq(Market)
           /\ Len(IM!Upsert(table, m)) <= Len(table) + 1
           /\ m \in IM!ToSet(table) => Len(IM!Upsert(table, m)) <= Len(table)
<1> DEFINE I == {i \in 1..Len(table) : table[i].id = m.id /\ table[i].start = m.start}
           old == IF I # {} THEN IM!Min(I) ELSE 0
           kept == IF old = 0 THEN table ELSE IM!RemoveAt(table, old)
<1>1. IM!Upsert(table, m) = Append(kept, m)
  BY DEF IM!Upsert, IM!SelectInSeq
<1>2. Len(table) \in Nat /\ I \subseteq Nat
  OBVIOUS
<1>3. I = {} => old = 0
  OBVIOUS
<1>4. I # {} => old \in 1..Len(table)
  BY <1>2, MinIsLeast
<1>5. m \in IM!ToSet(table) => I # {}
  BY DEF IM!ToSet
<1> HIDE DEF old, I
<1>6. CASE old = 0
  BY <1>6, <1>1, <1>2, <1>3, <1>4, <1>5
<1>7. CASE old # 0
  <2>1. old \in 1..Len(table)
    BY <1>3, <1>4, <1>7
  <2>2. /\ SubSeq(table, 1, old - 1) \in Seq(Market) /\ Len(SubSeq(table, 1, old - 1)) = old - 1
        /\ SubSeq(table, old + 1, Len(table)) \in Seq(Market)
        /\ Len(SubSeq(table, old + 1, Len(table))) = Len(table) - old
    BY <2>1, <1>2
  <2>3. kept \in Seq(Market) /\ Len(kept) = Len(table) - 1
    <3> DEFINE front == SubSeq(table, 1, old - 1)
               back == SubSeq(table, old + 1, Len(table))
    <3>1. kept = front \o back
      BY <1>7 DEF IM!RemoveAt
    <3>2. front \in Seq(Market) /\ back \in Seq(Market)
          /\ Len(front) = old - 1 /\ Len(back) = Len(table) - old
      BY <2>2
    <3> HIDE DEF front, back
    <3>3. front \o back \in Seq(Market) /\ Len(front \o back) = Len(front) + Len(back)
      BY <3>2
    <3>4. Len(front) + Len(back) = Len(table) - 1
      BY <3>2, <2>1, <1>2
    <3> HIDE DEF kept
    <3> QED BY <3>1, <3>3, <3>4
  <2> HIDE DEF kept
  <2> QED BY <2>3, <1>1, <1>2
<1> QED BY <1>6, <1>7

\* The eviction makes room for a row.
LEMMA EvictKeeps ==
    ASSUME rows \in Seq(Market), MaxMappings > 0 => Len(rows) <= MaxMappings
    PROVE  /\ IM!EvictIfNeeded \in Seq(Market)
           /\ MaxMappings > 0 => Len(IM!EvictIfNeeded) < MaxMappings
<1>1. Len(rows) \in Nat /\ MaxMappings \in Nat
  BY MarketAssumption
<1> DEFINE k == (MaxMappings * 9) \div 10
<1>2. CASE MaxMappings = 0 \/ Len(rows) < MaxMappings
  BY <1>1, <1>2 DEF IM!EvictIfNeeded
<1>3. CASE ~(MaxMappings = 0 \/ Len(rows) < MaxMappings)
  <2>1. Len(rows) = MaxMappings /\ MaxMappings > 0
    BY <1>1, <1>3
  <2>2. k \in Nat /\ k < MaxMappings
    BY <1>1, <2>1
  <2>3. IM!EvictIfNeeded = SubSeq(rows, Len(rows) - k + 1, Len(rows))
    BY <1>3 DEF IM!EvictIfNeeded
  <2> HIDE DEF k
  <2>4. Len(rows) - k + 1 \in 1..(Len(rows) + 1)
    BY <2>1, <2>2
  <2>5. /\ SubSeq(rows, Len(rows) - k + 1, Len(rows)) \in Seq(Market)
        /\ Len(SubSeq(rows, Len(rows) - k + 1, Len(rows))) = k
    BY <2>1, <2>2, <2>4
  <2> QED BY <2>1, <2>2, <2>3, <2>5
<1> QED BY <1>2, <1>3

\* One interval more, at the end of a sorted sequence, and the sort.
LEMMA SortKeeps ==
    ASSUME NEW id, NEW s \in Seq(Market), NEW m \in Market, m.id = id, Sorted(s),
           \A i \in DOMAIN s : s[i].id = id
    PROVE  LET t == IM!SortedByStart(Append(s, m))
           IN  /\ t \in Seq(Market) /\ Sorted(t)
               /\ \A i \in DOMAIN t : t[i].id = id
<1> DEFINE a == Append(s, m)
           n == Len(s) + 1
           Good(p) == \A i, j \in DOMAIN a : i < j => a[p[i]].start <= a[p[j]].start
           order == CHOOSE p \in IM!Bijection(DOMAIN a, DOMAIN a) : Good(p)
<1>1. /\ n \in Nat /\ DOMAIN a = 1..n /\ a \in Seq(Market) /\ a[n] = m
      /\ \A i \in 1..n : a[i] \in Market /\ a[i].id = id /\ a[i].start \in Int
      /\ \A i, j \in 1..n : i < j /\ j < n => a[i].start <= a[j].start
  <2>1. Len(s) \in Nat /\ DOMAIN s = 1..Len(s)
    OBVIOUS
  <2>2. /\ n \in Nat /\ DOMAIN a = 1..n /\ a \in Seq(Market) /\ a[n] = m
        /\ \A i \in 1..n : i < n => i \in DOMAIN s /\ a[i] = s[i]
    BY <2>1
  <2> HIDE DEF a
  <2>3. \A i \in 1..n : a[i] \in Market /\ a[i].id = id
    BY <2>2, <2>1
  <2>4. \A i, j \in 1..n : i < j /\ j < n => a[i].start <= a[j].start
    <3> SUFFICES ASSUME NEW i \in 1..n, NEW j \in 1..n, i < j, j < n
                 PROVE  a[i].start <= a[j].start
      OBVIOUS
    <3>1. i < n
      BY <2>2
    <3> QED BY <3>1, <2>2 DEF Sorted
  <2> QED BY <2>2, <2>3, <2>4, MarketAssumption
<1>2. IM!SortedByStart(a) = [i \in DOMAIN a |-> a[order[i]]]
  BY DEF IM!SortedByStart
<1> HIDE DEF a
<1>3. \E p \in IM!Bijection(DOMAIN a, DOMAIN a) : Good(p)
  <2> DEFINE T == {i \in 1..n : a[i].start >= m.start}
  <2>1. n \in T
    BY <1>1
  <2>2. PICK q \in T : \A i \in T : q <= i
    BY <2>1, <1>1, LeastNumber, T \subseteq Nat
  <2>3. /\ q \in 1..n /\ a[q].start >= m.start /\ m.start \in Int
        /\ \A i \in 1..n : i < q => a[i].start <= m.start
    BY <2>2, <1>1
  <2> HIDE DEF T
  <2> DEFINE p == [i \in 1..n |-> IF i < q THEN i ELSE IF i = q THEN n ELSE i - 1]
  <2>4. p \in [1..n -> 1..n]
    BY <2>3, <1>1
  <2>5. \A i, j \in 1..n : p[i] = p[j] => i = j
    BY <2>3, <1>1
  <2>6. \A k \in 1..n : \E i \in 1..n : p[i] = k
    <3> SUFFICES ASSUME NEW k \in 1..n PROVE \E i \in 1..n : p[i] = k
      OBVIOUS
    <3>1. CASE k < q
      <4>1. p[k] = k
        BY <3>1
      <4> QED BY <4>1
    <3>2. CASE k = n
      <4>1. p[q] = k
        BY <3>2, <2>3, <1>1
      <4> QED BY <4>1, <2>3
    <3>3. CASE k >= q /\ k # n
      <4>1. k + 1 \in 1..n /\ p[k + 1] = k
        BY <3>3, <2>3, <1>1
      <4> QED BY <4>1
    <3> QED BY <3>1, <3>2, <3>3, <2>3, <1>1
  <2>7. p \in IM!Bijection(DOMAIN a, DOMAIN a)
    BY <2>4, <2>5, <2>6, <1>1 DEF IM!Bijection, IM!Injection, IM!Surjection, IM!IsInjective
  <2>8. ASSUME NEW i \in 1..n, NEW j \in 1..n, i < j
        PROVE  a[p[i]].start <= a[p[j]].start
    <3>1. CASE j < q
      <4>1. p[i] = i /\ p[j] = j /\ j < n
        BY <3>1, <2>8, <2>3, <1>1
      <4> QED BY <4>1, <2>8, <1>1
    <3>2. CASE j = q
      <4>1. p[i] = i /\ p[j] = n
        BY <3>2, <2>8, <2>3, <1>1
      <4> QED BY <4>1, <3>2, <2>8, <2>3, <1>1
    <3>3. CASE j > q /\ i < q
      <4>1. p[i] = i /\ p[j] = j - 1 /\ j - 1 \in 1..n /\ i < j - 1 /\ j - 1 < n
        BY <3>3, <2>8, <2>3, <1>1
      <4> QED BY <4>1, <1>1
    <3>4. CASE j > q /\ i = q
      <4>1. p[i] = n /\ p[j] = j - 1 /\ j - 1 \in 1..n /\ q <= j - 1 /\ j - 1 < n
        BY <3>4, <2>8, <2>3, <1>1
      <4>2. a[q].start <= a[j - 1].start
        <5>1. q = j - 1 \/ q < j - 1
          BY <4>1, <2>3
        <5>2. a[q].start \in Int
          BY <2>3, <1>1
        <5> QED BY <5>1, <5>2, <4>1, <2>3, <1>1
      <4>3. a[q].start \in Int /\ a[j - 1].start \in Int
        BY <4>1, <2>3, <1>1
      <4> QED BY <4>1, <4>2, <4>3, <2>3, <1>1
    <3>5. CASE j > q /\ i > q
      <4>1. p[i] = i - 1 /\ p[j] = j - 1 /\ i - 1 \in 1..n /\ j - 1 \in 1..n
            /\ i - 1 < j - 1 /\ j - 1 < n
        BY <3>5, <2>8, <2>3, <1>1
      <4> QED BY <4>1, <1>1
    <3>6. q \in Int
      BY <2>3, <1>1
    <3> QED BY <3>1, <3>2, <3>3, <3>4, <3>5, <3>6
  <2> QED BY <2>7, <2>8, <1>1
<1>4. order \in IM!Bijection(DOMAIN a, DOMAIN a) /\ Good(order)
  BY <1>3
<1> HIDE DEF order
<1>5. order \in [1..n -> 1..n]
  BY <1>4, <1>1 DEF IM!Bijection, IM!Surjection
<1> DEFINE t == [i \in DOMAIN a |-> a[order[i]]]
<1>6. t \in Seq(Market) /\ DOMAIN t = 1..n /\ \A i \in 1..n : t[i] = a[order[i]]
  BY <1>1, <1>5
<1>7. Sorted(t) /\ \A i \in DOMAIN t : t[i].id = id
  BY <1>6, <1>4, <1>1, <1>5 DEF Sorted
<1> QED BY <1>2, <1>6, <1>7 DEF a

-----------------------------------------------------------------------------
LEMMA MapInitEstablishes == IM!Init => MapInv
<1> SUFFICES ASSUME IM!Init PROVE MapInv
  OBVIOUS
<1>1. rows = <<>> /\ mappings = <<>>
  BY DEF IM!Init
<1>2. DOMAIN <<>> = {}
  OBVIOUS
<1> QED BY <1>1, <1>2, MarketAssumption DEF MapInv

LEMMA MapNextKeeps == ASSUME MapInv, [IM!Next]_mapvars PROVE MapInv'
<1>1. CASE \E m \in Market, ok \in BOOLEAN : IM!Insert(m, ok)
  <2>1. PICK m \in Market, ok \in BOOLEAN : IM!Insert(m, ok)
    BY <1>1
  <2> DEFINE sorted == IM!SortedByStart(Append(IM!Intervals(m.id), m))
  <2>2. /\ mappings' = [id \in DOMAIN mappings \cup {m.id} |->
                          IF id = m.id THEN sorted ELSE mappings[id]]
        /\ rows' = IM!StoreMapping(m, ok)
    BY <2>1 DEF IM!Insert
  <2>3. rows' \in Seq(Market) /\ (MaxMappings > 0 => Len(rows') <= MaxMappings)
    <3>1. /\ IM!EvictIfNeeded \in Seq(Market)
          /\ MaxMappings > 0 => Len(IM!EvictIfNeeded) < MaxMappings
      BY EvictKeeps DEF MapInv
    <3>2. /\ IM!Upsert(IM!EvictIfNeeded, m) \in Seq(Market)
          /\ Len(IM!Upsert(IM!EvictIfNeeded, m)) <= Len(IM!EvictIfNeeded) + 1
      BY <3>1, UpsertKeeps
    <3>3. Len(IM!EvictIfNeeded) \in Nat /\ Len(IM!Upsert(IM!EvictIfNeeded, m)) \in Nat
          /\ MaxMappings \in Nat
      BY <3>1, <3>2, MarketAssumption
    <3> QED BY <2>2, <3>1, <3>2, <3>3 DEF IM!StoreMapping
  <2>4. /\ IM!Intervals(m.id) \in Seq(Market) /\ Sorted(IM!Intervals(m.id))
        /\ \A i \in DOMAIN IM!Intervals(m.id) : IM!Intervals(m.id)[i].id = m.id
    <3>1. CASE m.id \in DOMAIN mappings
      BY <3>1 DEF IM!Intervals, MapInv
    <3>2. CASE m.id \notin DOMAIN mappings
      <4>1. IM!Intervals(m.id) = <<>> /\ DOMAIN <<>> = {} /\ <<>> \in Seq(Market)
        BY <3>2 DEF IM!Intervals
      <4> QED BY <4>1 DEF Sorted
    <3> QED BY <3>1, <3>2
  <2>5. /\ sorted \in Seq(Market) /\ Sorted(sorted)
        /\ \A i \in DOMAIN sorted : sorted[i].id = m.id
    BY <2>4, SortKeeps
  <2> HIDE DEF sorted
  <2>6. ASSUME NEW id \in DOMAIN mappings'
        PROVE  /\ mappings'[id] \in Seq(Market)
               /\ Sorted(mappings'[id])
               /\ \A i \in DOMAIN mappings'[id] : mappings'[id][i].id = id
    <3>1. CASE id = m.id
      <4>1. mappings'[id] = sorted
        BY <3>1, <2>2
      <4> QED BY <4>1, <3>1, <2>5
    <3>2. CASE id # m.id
      <4>1. id \in DOMAIN mappings /\ mappings'[id] = mappings[id]
        BY <3>2, <2>2, <2>6
      <4> QED BY <4>1 DEF MapInv
    <3> QED BY <3>1, <3>2
  <2> QED BY <2>3, <2>6 DEF MapInv
<1>2. CASE \E id \in IM!Ids, date \in Dates : IM!ResolveStored(id, date)
  <2>1. PICK id \in IM!Ids, date \in Dates : IM!ResolveStored(id, date)
    BY <1>2
  <2>2. PICK r \in IM!Matches(id, date) : rows' = IM!Upsert(rows, r) /\ UNCHANGED mappings
    BY <2>1 DEF IM!ResolveStored
  <2>3. r \in IM!ToSet(rows) /\ r \in Market /\ rows \in Seq(Market)
    BY DEF IM!Matches, IM!ToSet, MapInv
  <2>4. rows' \in Seq(Market) /\ Len(rows') <= Len(rows)
    BY <2>2, <2>3, UpsertKeeps
  <2>5. MaxMappings > 0 => Len(rows') <= MaxMappings
    BY <2>3, <2>4, MarketAssumption DEF MapInv
  <2> QED BY <2>2, <2>4, <2>5 DEF MapInv
<1>3. CASE IM!Clear
  <2>1. DOMAIN mappings' = {} /\ rows' = rows
    BY <1>3 DEF IM!Clear
  <2> QED BY <2>1 DEF MapInv
<1>4. CASE UNCHANGED mapvars
  BY <1>4 DEF mapvars, MapInv
<1> QED BY <1>1, <1>2, <1>3, <1>4 DEF IM!Next

\* Intervals of one instrument on one date are one interval.
LEMMA OneCovers ==
    ASSUME NEW m \in Market, NEW n \in Market, m.id = n.id, NEW date \in Int,
           m.start <= date, date < m.end, n.start <= date, date < n.end
    PROVE  m = n
<1>1. m.end \in Int /\ n.start \in Int /\ n.end \in Int /\ m.start \in Int
  BY MarketAssumption
<1>2. m # n => m.end <= n.start \/ n.end <= m.start
  BY MarketAssumption
<1> QED BY <1>1, <1>2

\* The binary search finds the interval of the date if there is one.
LEMMA SearchFinds ==
    ASSUME NEW id \in DOMAIN mappings, NEW date \in Int, MapInv
    PROVE  \/ /\ IM!ResolveCached(id, date) = IM!None
              /\ ~ \E i \in DOMAIN mappings[id] :
                     mappings[id][i].start <= date /\ date < mappings[id][i].end
           \/ \E i \in DOMAIN mappings[id] :
                 /\ IM!ResolveCached(id, date) = mappings[id][i].symbol
                 /\ mappings[id][i].start <= date /\ date < mappings[id][i].end
<1> DEFINE s == mappings[id]
           I == {i \in 1..Len(s) : s[i].start > date}
           after == IF I # {} THEN IM!Min(I) ELSE 0
           last == IF after = 0 THEN Len(s) ELSE after - 1
<1>1. /\ s \in Seq(Market) /\ Sorted(s) /\ \A i \in DOMAIN s : s[i].id = id
  BY DEF MapInv
<1>2. Len(s) \in Nat /\ DOMAIN s = 1..Len(s)
  BY <1>1
<1>3. \A i \in 1..Len(s) : /\ s[i] \in Market /\ s[i].id = id
                            /\ s[i].start \in Int /\ s[i].end \in Int
                            /\ s[i].start < s[i].end
  BY <1>1, <1>2, MarketAssumption
<1>4. IM!ResolveCached(id, date) =
        IF last > 0 /\ s[last].start <= date /\ date < s[last].end
        THEN s[last].symbol ELSE IM!None
  BY DEF IM!ResolveCached, IM!SelectInSeq
<1>5. \A i, j \in 1..Len(s) : i < j => s[i].start <= s[j].start
  BY <1>1, <1>2 DEF Sorted
<1> HIDE DEF s
<1>6. /\ last \in 0..Len(s)
      /\ last > 0 => s[last].start <= date
      /\ \A i \in 1..Len(s) : s[i].start <= date => i <= last
  <2>1. CASE I = {}
    BY <2>1, <1>2, <1>3
  <2>2. CASE I # {}
    <3>1. IM!Min(I) \in I /\ \A y \in I : IM!Min(I) <= y
      BY <2>2, <1>2, MinIsLeast, I \subseteq Nat
    <3>2. after = IM!Min(I)
      BY <2>2
    <3> HIDE DEF after
    <3>3. after \in 1..Len(s) /\ s[after].start > date /\ last = after - 1
      BY <3>1, <3>2
    <3>4. last > 0 => last \in 1..Len(s) /\ last \notin I
      BY <3>1, <3>2, <3>3, <1>2
    <3>5. ASSUME NEW i \in 1..Len(s), s[i].start <= date PROVE i <= last
      <4>1. ~(i > after)
        BY <3>3, <3>5, <1>3, <1>5
      <4>2. i # after
        BY <3>3, <3>5, <1>3
      <4> QED BY <4>1, <4>2, <3>3, <1>2
    <3> QED BY <3>3, <3>4, <3>5, <1>2, <1>3
  <2> QED BY <2>1, <2>2
<1> HIDE DEF last
<1>7. CASE last > 0 /\ s[last].start <= date /\ date < s[last].end
  BY <1>7, <1>4, <1>6, <1>2 DEF s
<1>8. CASE ~(last > 0 /\ s[last].start <= date /\ date < s[last].end)
  <2>1. SUFFICES ASSUME NEW i \in 1..Len(s), s[i].start <= date, date < s[i].end PROVE FALSE
    BY <1>4, <1>8, <1>2 DEF s
  <2>2. i <= last /\ last \in 1..Len(s) /\ s[last].start <= date
    BY <2>1, <1>6, <1>2
  <2>3. ~(date < s[last].end)
    BY <2>2, <1>8
  <2>4. s[i].start <= s[last].start /\ i # last
    BY <2>1, <2>2, <2>3, <1>2, <1>5
  <2>5. s[i].end <= s[last].start \/ s[last].end <= s[i].start
    BY <2>1, <2>2, <2>3, <1>3, MarketAssumption
  <2> QED BY <2>1, <2>2, <2>3, <2>4, <2>5, <1>3
<1> QED BY <1>7, <1>8

LEMMA Faithful == MapInv => ResolveFaithful
<1> SUFFICES ASSUME MapInv, NEW id \in IM!Ids, NEW date \in Dates
             PROVE  LET known == IF id \in DOMAIN mappings THEN IM!ToSet(mappings[id])
                                                           ELSE IM!ToSet(rows)
                        right == {m \in Market \cap known :
                                     m.id = id /\ m.start <= date /\ date < m.end}
                        ended == IF id \in DOMAIN mappings THEN {}
                                 ELSE {m \in Market \cap known : m.id = id /\ m.end = date}
                    IN  IM!Answers(id, date) =
                          IF right \cup ended = {} THEN {IM!None}
                          ELSE {m.symbol : m \in right \cup ended}
  BY DEF MapInv, ResolveFaithful, IM!ResolveFaithful
<1>1. date \in Int
  BY MarketAssumption
<1>2. CASE id \in DOMAIN mappings
  <2> DEFINE s == mappings[id]
             right == {m \in Market \cap IM!ToSet(s) :
                          m.id = id /\ m.start <= date /\ date < m.end}
  <2>1. s \in Seq(Market) /\ \A i \in DOMAIN s : s[i] \in Market /\ s[i].id = id
    BY <1>2 DEF MapInv
  <2>2. IM!Answers(id, date) = {IM!ResolveCached(id, date)}
    BY <1>2 DEF IM!Answers
  <2>3. IM!ToSet(s) = {s[i] : i \in DOMAIN s}
    BY <2>1 DEF IM!ToSet
  <2>4. \/ /\ IM!ResolveCached(id, date) = IM!None
           /\ ~ \E i \in DOMAIN s : s[i].start <= date /\ date < s[i].end
        \/ \E i \in DOMAIN s : /\ IM!ResolveCached(id, date) = s[i].symbol
                                /\ s[i].start <= date /\ date < s[i].end
    BY <1>1, <1>2, SearchFinds
  <2> HIDE DEF s
  <2>5. CASE /\ IM!ResolveCached(id, date) = IM!None
             /\ ~ \E i \in DOMAIN s : s[i].start <= date /\ date < s[i].end
    <3>1. right = {}
      BY <2>3, <2>5
    <3> QED BY <3>1, <2>2, <2>5, <1>2 DEF s
  <2>6. ASSUME NEW i \in DOMAIN s, IM!ResolveCached(id, date) = s[i].symbol,
               s[i].start <= date, date < s[i].end
        PROVE  right # {} /\ IM!Answers(id, date) = {m.symbol : m \in right}
    <3>1. s[i] \in right
      BY <2>1, <2>3, <2>6
    <3>2. right = {s[i]}
      BY <3>1, <1>1, OneCovers
    <3> HIDE DEF right
    <3> QED BY <3>1, <3>2, <2>2, <2>6
  <2> QED BY <2>4, <2>5, <2>6, <1>2 DEF s
<1>3. CASE id \notin DOMAIN mappings
  <2> DEFINE M == IM!Matches(id, date)
             right == {m \in Market \cap IM!ToSet(rows) :
                          m.id = id /\ m.start <= date /\ date < m.end}
             ended == {m \in Market \cap IM!ToSet(rows) : m.id = id /\ m.end = date}
  <2>1. \A r \in IM!ToSet(rows) :
          r \in Market /\ r.start \in Int /\ r.end \in Int /\ r.start < r.end
    BY MarketAssumption DEF IM!ToSet, MapInv
  <2>2. M = right \cup ended
    <3>1. ASSUME NEW r \in IM!ToSet(rows)
          PROVE  r.start <= date /\ r.end >= date
                   <=> (r.start <= date /\ date < r.end) \/ r.end = date
      BY <3>1, <2>1, <1>1
    <3> QED BY <3>1, <2>1 DEF IM!Matches
  <2>3. IM!Answers(id, date) = IF M = {} THEN {IM!None} ELSE {r.symbol : r \in M}
    BY <1>3 DEF IM!Answers
  <2> QED BY <2>2, <2>3, <1>3
<1> QED BY <1>2, <1>3

\* InstrumentMap: whatever is inserted, fails, is evicted, looked up or lost in a
\* restart, Resolve answers with the symbol the id had on the date or says that
\* it does not know, except that a stored answer may be the symbol of an interval
\* that ends on that day; and the table keeps to its limit (ResolveFaithful), for
\* any market without overlaps and any limit.
THEOREM ResolveFaithfulAlways == MCSpec => []ResolveFaithful
<1>1. MCInit => MapInv
  BY MapInitEstablishes DEF MCInit
<1>2. MapInv /\ [MCNext]_<<part, vars, chainvars, mapvars>> => MapInv'
  <2> SUFFICES ASSUME MapInv, [MCNext]_<<part, vars, chainvars, mapvars>> PROVE MapInv'
    OBVIOUS
  <2>1. [IM!Next]_mapvars
    BY DEF MCNext
  <2> QED BY <2>1, MapNextKeeps
<1>3. MapInv => ResolveFaithful
  BY Faithful
<1> QED BY <1>1, <1>2, <1>3, PTL DEF MCSpec

-----------------------------------------------------------------------------
(***************************************************************************)
(* BufferChain                                                             *)
(***************************************************************************)
\* The functions that start at a and follow G.
Following(n, S, a, G) ==
    {f \in [0..n -> S] : f[0] = a /\ \A i \in 1..n : f[i] = G[i][f[i - 1]]}

LEMMA RecursionExists ==
    ASSUME NEW n \in Nat, NEW S, NEW a \in S, NEW G \in [1..n -> [S -> S]]
    PROVE  Following(n, S, a, G) # {}
<1> SUFFICES \E f \in [0..n -> S] : f[0] = a /\ \A i \in 1..n : f[i] = G[i][f[i - 1]]
  BY DEF Following
<1> DEFINE Part(m, g) == /\ g \in [0..m -> S]
                         /\ \A i \in 0..m : g[i] = IF i = 0 THEN a ELSE G[i][g[i - 1]]
           T == {m \in 0..n : ~ \E g : Part(m, g)}
<1>1. CASE T = {}
  <2>1. n \in 0..n /\ n \notin T
    BY <1>1
  <2>2. PICK g : Part(n, g)
    BY <2>1
  <2>3. g[0] = a /\ \A i \in 1..n : g[i] = G[i][g[i - 1]]
    BY <2>2
  <2> QED BY <2>2, <2>3
<1>2. CASE T # {}
  <2>1. T \subseteq Nat
    OBVIOUS
  <2>2. PICK x \in T : \A y \in T : x <= y
    BY <1>2, <2>1, LeastNumber
  <2>3. CASE x = 0
    <3>1. Part(0, [i \in 0..0 |-> a])
      OBVIOUS
    <3> QED BY <3>1, <2>2, <2>3
  <2>4. CASE x # 0
    <3>1. x \in 1..n /\ x - 1 \in 0..n /\ x - 1 \in 0..(x - 1)
      BY <2>2, <2>4
    <3>2. x - 1 \notin T
      <4> HIDE DEF T
      <4> QED BY <2>2, <3>1
    <3>3. PICK g : Part(x - 1, g)
      <4> HIDE DEF Part
      <4> QED BY <3>1, <3>2
    <3>4. g[x - 1] \in S /\ G[x][g[x - 1]] \in S
      BY <3>1, <3>3
    <3> DEFINE h == [i \in 0..x |-> IF i < x THEN g[i] ELSE G[x][g[x - 1]]]
    <3>5. h \in [0..x -> S]
      <4>1. ASSUME NEW i \in 0..x PROVE h[i] \in S
        <5>1. i < x => i \in 0..(x - 1)
          BY <3>1
        <5>2. i < x => g[i] \in S
          BY <5>1, <3>3
        <5> QED BY <3>4, <5>2
      <4> QED BY <4>1
    <3>6. ASSUME NEW i \in 0..x PROVE h[i] = IF i = 0 THEN a ELSE G[i][h[i - 1]]
      <4>1. i \in 0..n /\ (i > 0 => i - 1 \in 0..x /\ i - 1 < x)
        BY <3>1
      <4>2. i > 0 => h[i - 1] = g[i - 1]
        BY <4>1
      <4>3. CASE i < x
        <5>1. i \in 0..(x - 1)
          BY <3>1, <4>3
        <5>2. g[i] = IF i = 0 THEN a ELSE G[i][g[i - 1]]
          BY <5>1, <3>3
        <5>3. h[i] = g[i]
          BY <4>3
        <5> QED BY <5>2, <5>3, <4>2
      <4>4. CASE i = x
        <5>1. h[i] = G[x][g[x - 1]]
          BY <4>4, <3>1
        <5> HIDE DEF h
        <5> QED BY <5>1, <4>2, <4>4, <3>1
      <4> QED BY <4>3, <4>4, <3>1
    <3>7. Part(x, h)
      BY <3>5, <3>6
    <3> QED BY <3>7, <2>2
  <2> QED BY <2>3, <2>4
<1> QED BY <1>1, <1>2

-----------------------------------------------------------------------------
(***************************************************************************)
(* Parts of a sequence.                                                    *)
(***************************************************************************)
Cut(s, a, b) == SubSeq(s, a + 1, b)

LEMMA CutTyped ==
    ASSUME NEW S, NEW s \in Seq(S), NEW a \in Nat, NEW b \in Nat, a <= b, b <= Len(s)
    PROVE  /\ Cut(s, a, b) \in Seq(S)
           /\ Len(Cut(s, a, b)) = b - a
           /\ \A i \in 1..(b - a) : Cut(s, a, b)[i] = s[a + i]
<1>1. \A i \in (a + 1)..b : s[i] \in S
  BY ElementOfSeq
<1>2. /\ SubSeq(s, a + 1, b) \in Seq(S)
      /\ Len(SubSeq(s, a + 1, b)) = IF a + 1 <= b THEN b - (a + 1) + 1 ELSE 0
      /\ \A i \in 1..(b - (a + 1) + 1) : SubSeq(s, a + 1, b)[i] = s[(a + 1) + i - 1]
  BY <1>1, SubSeqProperties, a + 1 \in Int, b \in Int
<1> DEFINE c == SubSeq(s, a + 1, b)
<1> HIDE DEF c
<1>3. /\ c \in Seq(S)
      /\ Len(c) = IF a + 1 <= b THEN b - (a + 1) + 1 ELSE 0
      /\ \A i \in 1..(b - (a + 1) + 1) : c[i] = s[(a + 1) + i - 1]
  BY <1>2 DEF c
<1>4. \A i \in 1..(b - a) : i \in 1..(b - (a + 1) + 1) /\ (a + 1) + i - 1 = a + i
  OBVIOUS
<1>5. Len(c) = b - a /\ \A i \in 1..(b - a) : c[i] = s[a + i]
  BY <1>3, <1>4
<1> QED BY <1>3, <1>5 DEF Cut, c

LEMMA CutOfCut ==
    ASSUME NEW S, NEW s \in Seq(S), NEW a \in Nat, NEW b \in Nat, a <= b, b <= Len(s),
           NEW c \in Nat, NEW d \in Nat, c <= d, d <= b - a
    PROVE  Cut(Cut(s, a, b), c, d) = Cut(s, a + c, a + d)
<1> DEFINE t == Cut(s, a, b)
           u == Cut(t, c, d)
           v == Cut(s, a + c, a + d)
<1>0. Len(s) \in Nat
  BY LenProperties
<1>1. t \in Seq(S) /\ Len(t) = b - a /\ \A i \in 1..(b - a) : t[i] = s[a + i]
  BY CutTyped
<1> HIDE DEF t
<1>a. t \in Seq(S) /\ d <= Len(t)
  BY <1>1
<1>2. u \in Seq(S) /\ Len(u) = d - c /\ \A i \in 1..(d - c) : u[i] = t[c + i]
  BY <1>a, CutTyped, Zenon
<1>3. a + c \in Nat /\ a + d \in Nat /\ a + c <= a + d /\ a + d <= Len(s)
  BY <1>0
<1>b. (a + d) - (a + c) = d - c
  OBVIOUS
<1>4. /\ v \in Seq(S) /\ Len(v) = (a + d) - (a + c)
      /\ \A i \in 1..((a + d) - (a + c)) : v[i] = s[(a + c) + i]
  BY <1>3, CutTyped, ZenonT(40)
<1> HIDE DEF u, v
<1>5. ASSUME NEW i \in 1..Len(u) PROVE u[i] = v[i]
  <2>1. i \in 1..(d - c) /\ c + i \in 1..(b - a) /\ a + (c + i) = (a + c) + i
    BY <1>2
  <2> QED BY <2>1, <1>1, <1>2, <1>b, <1>4
<1>6. Len(u) = Len(v)
  BY <1>2, <1>b, <1>4
<1>7. u = v
  BY <1>2, <1>4, <1>5, <1>6, SeqEqual
<1> QED BY <1>7 DEF t, u, v

LEMMA CutOfConcat ==
    ASSUME NEW S, NEW s \in Seq(S), NEW t \in Seq(S), NEW a \in Nat, NEW b \in Nat, a <= b
    PROVE  /\ b <= Len(s) => Cut(s \o t, a, b) = Cut(s, a, b)
           /\ b <= Len(t) => Cut(s \o t, Len(s) + a, Len(s) + b) = Cut(t, a, b)
<1> DEFINE w == s \o t
<1>0. Len(s) \in Nat /\ Len(t) \in Nat
  BY LenProperties
<1>1. /\ w \in Seq(S) /\ Len(w) = Len(s) + Len(t)
      /\ \A i \in 1..(Len(s) + Len(t)) : w[i] = IF i <= Len(s) THEN s[i] ELSE t[i - Len(s)]
  BY ConcatProperties
<1> HIDE DEF w
<1>2. ASSUME b <= Len(s) PROVE Cut(w, a, b) = Cut(s, a, b)
  <2> DEFINE u == Cut(w, a, b)
             v == Cut(s, a, b)
  <2>1. b <= Len(w)
    BY <1>0, <1>1, <1>2
  <2>a. w \in Seq(S)
    BY <1>1
  <2>2. /\ u \in Seq(S) /\ Len(u) = b - a /\ \A i \in 1..(b - a) : u[i] = w[a + i]
        /\ v \in Seq(S) /\ Len(v) = b - a /\ \A i \in 1..(b - a) : v[i] = s[a + i]
    BY <2>a, <1>2, <2>1, CutTyped, Zenon
  <2> HIDE DEF u, v
  <2>3. ASSUME NEW i \in 1..Len(u) PROVE u[i] = v[i]
    <3>1. a + i \in 1..(Len(s) + Len(t)) /\ a + i <= Len(s) /\ i \in 1..(b - a)
      BY <1>0, <1>2, <2>2
    <3> QED BY <3>1, <1>1, <2>2
  <2>4. u = v
    BY <2>2, <2>3, SeqEqual
  <2> QED BY <2>4 DEF u, v
<1>3. ASSUME b <= Len(t) PROVE Cut(w, Len(s) + a, Len(s) + b) = Cut(t, a, b)
  <2> DEFINE u == Cut(w, Len(s) + a, Len(s) + b)
             v == Cut(t, a, b)
  <2>1. /\ Len(s) + b <= Len(w) /\ Len(s) + a <= Len(s) + b
        /\ Len(s) + a \in Nat /\ Len(s) + b \in Nat /\ w \in Seq(S)
    BY <1>0, <1>1, <1>3
  <2>a. (Len(s) + b) - (Len(s) + a) = b - a
    BY <1>0
  <2>2. /\ u \in Seq(S) /\ Len(u) = b - a /\ \A i \in 1..(b - a) : u[i] = w[(Len(s) + a) + i]
        /\ v \in Seq(S) /\ Len(v) = b - a /\ \A i \in 1..(b - a) : v[i] = t[a + i]
    <3>1. u \in Seq(S) /\ Len(u) = (Len(s) + b) - (Len(s) + a)
          /\ \A i \in 1..((Len(s) + b) - (Len(s) + a)) : u[i] = w[(Len(s) + a) + i]
      BY <2>1, CutTyped, Zenon
    <3> HIDE DEF u
    <3>2. v \in Seq(S) /\ Len(v) = b - a /\ \A i \in 1..(b - a) : v[i] = t[a + i]
      BY <1>3, CutTyped
    <3> HIDE DEF v
    <3> QED BY <2>a, <3>1, <3>2
  <2> HIDE DEF u, v
  <2>3. ASSUME NEW i \in 1..Len(u) PROVE u[i] = v[i]
    <3>1. /\ (Len(s) + a) + i \in 1..(Len(s) + Len(t)) /\ ~((Len(s) + a) + i <= Len(s))
          /\ i \in 1..(b - a) /\ ((Len(s) + a) + i) - Len(s) = a + i
      BY <1>0, <1>3, <2>2
    <3>2. w[(Len(s) + a) + i] = t[a + i]
      BY <3>1, <1>1
    <3> QED BY <3>1, <3>2, <2>2
  <2>4. u = v
    BY <2>2, <2>3, SeqEqual
  <2> QED BY <2>4 DEF u, v
<1> QED BY <1>2, <1>3 DEF w

LEMMA CutInFront ==
    ASSUME NEW S, NEW s \in Seq(S), NEW t \in Seq(S), NEW a \in Nat, NEW b \in Nat, a <= b,
           b <= Len(s)
    PROVE  Cut(s \o t, a, b) = Cut(s, a, b)
  BY CutOfConcat

LEMMA CutBehind ==
    ASSUME NEW S, NEW s \in Seq(S), NEW t \in Seq(S), NEW a \in Nat, NEW b \in Nat, a <= b,
           b <= Len(t)
    PROVE  Cut(s \o t, Len(s) + a, Len(s) + b) = Cut(t, a, b)
  BY CutOfConcat

LEMMA CutAcross ==
    ASSUME NEW S, NEW s \in Seq(S), NEW t \in Seq(S), NEW a \in Nat, NEW b \in Nat,
           a <= Len(s), b <= Len(t)
    PROVE  Cut(s \o t, a, Len(s) + b) = Cut(s, a, Len(s)) \o Cut(t, 0, b)
<1> DEFINE w == s \o t
<1>0. Len(s) \in Nat /\ Len(t) \in Nat
  BY LenProperties
<1>1. /\ w \in Seq(S) /\ Len(w) = Len(s) + Len(t)
      /\ \A i \in 1..(Len(s) + Len(t)) : w[i] = IF i <= Len(s) THEN s[i] ELSE t[i - Len(s)]
  BY ConcatProperties
<1> HIDE DEF w
<1>2. Cut(w, a, Len(s) + b) = Cut(s, a, Len(s)) \o Cut(t, 0, b)
  <2> DEFINE u == Cut(w, a, Len(s) + b)
             x == Cut(s, a, Len(s))
             y == Cut(t, 0, b)
             v == x \o y
  <2>1. Len(s) + b <= Len(w) /\ a <= Len(s) + b /\ Len(s) + b \in Nat /\ 0 \in Nat /\ 0 <= b
        /\ Len(s) <= Len(s) /\ w \in Seq(S)
    BY <1>0, <1>1
  <2>2. /\ u \in Seq(S) /\ Len(u) = (Len(s) + b) - a
        /\ \A i \in 1..((Len(s) + b) - a) : u[i] = w[a + i]
    BY <2>1, CutTyped, Zenon
  <2>3. x \in Seq(S) /\ Len(x) = Len(s) - a /\ \A i \in 1..(Len(s) - a) : x[i] = s[a + i]
    BY <1>0, <2>1, CutTyped, ZenonT(40)
  <2>4. y \in Seq(S) /\ Len(y) = b - 0 /\ \A i \in 1..(b - 0) : y[i] = t[0 + i]
    BY <2>1, CutTyped, ZenonT(40)
  <2> HIDE DEF u, x, y
  <2>5. /\ v \in Seq(S) /\ Len(v) = Len(x) + Len(y)
        /\ \A i \in 1..(Len(x) + Len(y)) : v[i] = IF i <= Len(x) THEN x[i] ELSE y[i - Len(x)]
    BY <2>3, <2>4, ConcatProperties
  <2> HIDE DEF v
  <2>6. Len(u) = Len(v) /\ Len(x) = Len(s) - a /\ Len(y) = b
    BY <1>0, <2>2, <2>3, <2>4, <2>5
  <2>7. ASSUME NEW i \in 1..Len(u) PROVE u[i] = v[i]
    <3>1. i \in 1..((Len(s) + b) - a) /\ i \in 1..(Len(x) + Len(y)) /\ a + i \in 1..(Len(s) + Len(t))
      BY <1>0, <2>2, <2>6
    <3>2. u[i] = w[a + i]
      BY <2>2, <3>1
    <3>3. CASE i <= Len(x)
      <4>1. i \in 1..(Len(s) - a) /\ a + i <= Len(s)
        BY <3>1, <3>3, <2>6, <1>0
      <4> QED BY <4>1, <3>1, <3>2, <3>3, <1>1, <2>3, <2>5
    <3>4. CASE ~(i <= Len(x))
      <4>1. i - Len(x) \in 1..(b - 0) /\ ~(a + i <= Len(s)) /\ 0 + (i - Len(x)) = (a + i) - Len(s)
        BY <3>1, <3>4, <2>6, <1>0
      <4>2. v[i] = t[0 + (i - Len(x))]
        BY <4>1, <3>1, <3>4, <2>4, <2>5
      <4>3. w[a + i] = t[(a + i) - Len(s)]
        BY <4>1, <3>1, <1>1
      <4> QED BY <4>1, <4>2, <4>3, <3>2
    <3> QED BY <3>3, <3>4
  <2>8. u = v
    BY <2>2, <2>5, <2>6, <2>7, SeqEqual
  <2> QED BY <2>8 DEF u, v, x, y
<1> QED BY <1>2 DEF w

LEMMA CutAll ==
    ASSUME NEW S, NEW s \in Seq(S)
    PROVE  Cut(s, 0, Len(s)) = s
  BY SubSeqFull DEF Cut

\* The same for bytes.
LEMMA CutBytes ==
    \A s \in Seq(Nat) : \A a, b \in Nat :
        a <= b /\ b <= Len(s) =>
            /\ Cut(s, a, b) \in Seq(Nat)
            /\ Len(Cut(s, a, b)) = b - a
  BY CutTyped

LEMMA CutTwice ==
    \A s \in Seq(Nat) : \A a, b, c, d \in Nat :
        a <= b /\ b <= Len(s) /\ c <= d /\ d <= b - a =>
            Cut(Cut(s, a, b), c, d) = Cut(s, a + c, a + d)
  BY CutOfCut

LEMMA CutFirst ==
    \A s, t \in Seq(Nat) : \A a, b \in Nat :
        a <= b /\ b <= Len(s) => Cut(s \o t, a, b) = Cut(s, a, b)
  BY CutInFront

LEMMA CutSecond ==
    \A s, t \in Seq(Nat) : \A a, b \in Nat :
        a <= b /\ b <= Len(t) => Cut(s \o t, Len(s) + a, Len(s) + b) = Cut(t, a, b)
  BY CutBehind

LEMMA CutBoth ==
    \A s, t \in Seq(Nat) : \A a, b \in Nat :
        a <= Len(s) /\ b <= Len(t) =>
            Cut(s \o t, a, Len(s) + b) = Cut(s, a, Len(s)) \o Cut(t, 0, b)
  BY CutAcross

-----------------------------------------------------------------------------
(***************************************************************************)
(* Sequences of sequences, joined.                                         *)
(***************************************************************************)
\* The joins of the first i members of w.
Upto(w) ==
    CHOOSE f : f = [i \in 0..Len(w) |-> IF i = 0 THEN <<>> ELSE f[i - 1] \o w[i]]

LEMMA UptoTyped ==
    ASSUME NEW S, NEW w \in Seq(Seq(S))
    PROVE  /\ Upto(w) \in [0..Len(w) -> Seq(S)]
           /\ Upto(w)[0] = <<>>
           /\ \A i \in 1..Len(w) : Upto(w)[i] = Upto(w)[i - 1] \o w[i]
<1> DEFINE n == Len(w)
           G == [i \in 1..n |-> [x \in Seq(S) |-> x \o w[i]]]
<1>1. n \in Nat /\ <<>> \in Seq(S) /\ \A i \in 1..n : w[i] \in Seq(S)
  BY LenProperties, ElementOfSeq, EmptySeq
<1>2. G \in [1..n -> [Seq(S) -> Seq(S)]]
  <2>1. ASSUME NEW i \in 1..n, NEW x \in Seq(S) PROVE x \o w[i] \in Seq(S)
    BY <1>1, ConcatProperties
  <2> QED BY <2>1
<1>3. \A i \in 1..n : \A x \in Seq(S) : G[i][x] = x \o w[i]
  OBVIOUS
<1> HIDE DEF G
<1>a. Following(n, Seq(S), <<>>, G) # {}
  BY <1>1, <1>2, RecursionExists, Zenon
<1>4. PICK f \in [0..n -> Seq(S)] : f[0] = <<>> /\ \A i \in 1..n : f[i] = G[i][f[i - 1]]
  BY <1>a DEF Following
<1>5. \A i \in 0..n : i # 0 => i \in 1..n /\ i - 1 \in 0..n
  BY <1>1
<1>6. f = [i \in 0..n |-> IF i = 0 THEN <<>> ELSE f[i - 1] \o w[i]]
  <2>1. ASSUME NEW i \in 0..n PROVE f[i] = IF i = 0 THEN <<>> ELSE f[i - 1] \o w[i]
    BY <1>3, <1>4, <1>5, <2>1
  <2> QED BY <2>1
<1> HIDE DEF n
<1>7. Upto(w) = [i \in 0..n |-> IF i = 0 THEN <<>> ELSE Upto(w)[i - 1] \o w[i]]
  BY <1>6, Zenon DEF Upto, n
<1>8. ASSUME NEW i \in 0..n
      PROVE  Upto(w)[i] = IF i = 0 THEN <<>> ELSE Upto(w)[i - 1] \o w[i]
  BY <1>7
<1>9. 0 \in 0..n /\ \A i \in 1..n : i \in 0..n /\ i # 0
  BY <1>1
<1>10. \A i \in 0..n : Upto(w)[i] \in Seq(S)
  <2> DEFINE T == {i \in 0..n : Upto(w)[i] \notin Seq(S)}
  <2>1. SUFFICES ASSUME T # {} PROVE FALSE
    OBVIOUS
  <2>2. T \subseteq Nat
    BY <1>1
  <2>3. PICK x \in T : \A y \in T : x <= y
    BY <2>1, <2>2, LeastNumber
  <2>4. x # 0
    BY <1>8, <1>9, <1>1, <2>3
  <2>5. x \in 1..n /\ x - 1 \in 0..n /\ x - 1 \notin T
    <3>1. x \in 1..n /\ x - 1 \in 0..n
      BY <1>5, <2>3, <2>4
    <3> HIDE DEF T
    <3> QED BY <3>1, <2>3
  <2>6. Upto(w)[x - 1] \in Seq(S) /\ w[x] \in Seq(S)
    BY <1>1, <2>5
  <2>7. Upto(w)[x - 1] \o w[x] \in Seq(S)
    BY <2>6, ConcatProperties
  <2> QED BY <2>7, <2>5, <2>3, <2>4, <1>8
<1> QED BY <1>7, <1>8, <1>9, <1>10 DEF n

\* The whole join is the last of them.
LEMMA FlattenIsUpto ==
    ASSUME NEW S, NEW w \in Seq(Seq(S))
    PROVE  BC!FlattenSeq(w) = Upto(w)[Len(w)]
<1> DEFINE n == Len(w)
           F == CHOOSE f : f = [i \in 1..n |-> IF i = 1 THEN w[i] ELSE f[i - 1] \o w[i]]
           U == Upto(w)
<1>1. n \in Nat /\ \A i \in 1..n : w[i] \in Seq(S)
  BY LenProperties, ElementOfSeq
<1>2. U \in [0..n -> Seq(S)] /\ U[0] = <<>> /\ \A i \in 1..n : U[i] = U[i - 1] \o w[i]
  BY UptoTyped
<1> HIDE DEF U
<1>3. CASE n = 0
  <2>1. w = <<>>
    BY <1>3, EmptySeq
  <2> QED BY <2>1, <1>2, <1>3 DEF BC!FlattenSeq, U
<1>4. CASE n # 0
  <2> DEFINE f == [i \in 1..n |-> U[i]]
  <2>1. f = [i \in 1..n |-> IF i = 1 THEN w[i] ELSE f[i - 1] \o w[i]]
    <3>1. ASSUME NEW i \in 1..n PROVE U[i] = IF i = 1 THEN w[i] ELSE f[i - 1] \o w[i]
      <4>1. U[i] = U[i - 1] \o w[i]
        BY <1>2
      <4>2. CASE i = 1
        <5>1. U[i] = <<>> \o w[i] /\ w[i] \in Seq(S)
          BY <4>1, <4>2, <1>1, <1>2
        <5>2. <<>> \o w[i] = w[i]
          BY <5>1, ConcatEmptySeq
        <5> QED BY <5>1, <5>2, <4>2
      <4>3. CASE i # 1
        <5>1. i - 1 \in 1..n
          BY <4>3, <1>1
        <5>2. f[i - 1] = U[i - 1]
          BY <5>1
        <5> HIDE DEF f
        <5> QED BY <4>1, <4>3, <5>2
      <4> QED BY <4>2, <4>3
    <3> QED BY <3>1
  <2> HIDE DEF f
  <2>2. F = [i \in 1..n |-> IF i = 1 THEN w[i] ELSE F[i - 1] \o w[i]]
    BY <2>1, Zenon
  <2>3. BC!FlattenSeq(w) = F[n]
    BY <1>4 DEF BC!FlattenSeq
  <2> HIDE DEF F
  <2>4. ASSUME NEW i \in 1..n
        PROVE  F[i] = IF i = 1 THEN w[i] ELSE F[i - 1] \o w[i]
    BY <2>2
  <2>5. \A i \in 1..n : F[i] = U[i]
    <3> DEFINE T == {i \in 1..n : F[i] # U[i]}
    <3>1. SUFFICES ASSUME T # {} PROVE FALSE
      OBVIOUS
    <3>2. T \subseteq Nat
      BY <1>1
    <3>3. PICK x \in T : \A y \in T : x <= y
      BY <3>1, <3>2, LeastNumber
    <3>4. x \in 1..n /\ F[x] # U[x] /\ U[x] = U[x - 1] \o w[x]
      BY <1>2, <3>3
    <3>5. CASE x = 1
      <4>1. U[x] = <<>> \o w[x] /\ w[x] \in Seq(S)
        BY <3>4, <3>5, <1>1, <1>2
      <4>2. <<>> \o w[x] = w[x]
        BY <4>1, ConcatEmptySeq
      <4> QED BY <4>1, <4>2, <2>4, <3>4, <3>5
    <3>6. CASE x # 1
      <4>1. x - 1 \in 1..n
        BY <3>4, <3>6, <1>1
      <4>2. x - 1 \notin T
        <5> HIDE DEF T
        <5> QED BY <4>1, <3>3, <3>4
      <4>3. F[x - 1] = U[x - 1]
        BY <4>1, <4>2
      <4> QED BY <4>3, <3>4, <3>6, <2>4
    <3> QED BY <3>5, <3>6
  <2> QED BY <2>3, <2>5, <1>1, <1>4 DEF U
<1> QED BY <1>3, <1>4

LEMMA JoinTyped ==
    ASSUME NEW S, NEW w \in Seq(Seq(S))
    PROVE  BC!FlattenSeq(w) \in Seq(S)
<1>1. Len(w) \in Nat /\ Len(w) \in 0..Len(w)
  BY LenProperties
<1>2. Upto(w) \in [0..Len(w) -> Seq(S)]
  BY UptoTyped
<1> QED BY <1>1, <1>2, FlattenIsUpto

\* What is joined in front does not depend on what follows.
LEMMA JoinOfConcat ==
    ASSUME NEW S, NEW w \in Seq(Seq(S)), NEW v \in Seq(Seq(S))
    PROVE  /\ \A i \in 0..Len(w) : Upto(w \o v)[i] = Upto(w)[i]
           /\ BC!FlattenSeq(w \o v) = BC!FlattenSeq(w) \o BC!FlattenSeq(v)
<1> DEFINE u == w \o v
           m == Len(w)
           n == Len(v)
           U == Upto(u)
           W == Upto(w)
           V == Upto(v)
<1>1. m \in Nat /\ n \in Nat
  BY LenProperties
<1>2. /\ u \in Seq(Seq(S)) /\ Len(u) = m + n
      /\ \A i \in 1..(m + n) : u[i] = IF i <= m THEN w[i] ELSE v[i - m]
  BY ConcatProperties
<1> HIDE DEF u
<1>3. U \in [0..Len(u) -> Seq(S)] /\ U[0] = <<>> /\ \A i \in 1..Len(u) : U[i] = U[i - 1] \o u[i]
  <2>1. u \in Seq(Seq(S))
    BY <1>2
  <2> QED BY <2>1, UptoTyped
<1>4. W \in [0..m -> Seq(S)] /\ W[0] = <<>> /\ \A i \in 1..m : W[i] = W[i - 1] \o w[i]
  BY UptoTyped
<1>5. V \in [0..n -> Seq(S)] /\ V[0] = <<>> /\ \A i \in 1..n : V[i] = V[i - 1] \o v[i]
  BY UptoTyped
<1>6. BC!FlattenSeq(u) = U[m + n] /\ BC!FlattenSeq(w) = W[m] /\ BC!FlattenSeq(v) = V[n]
  BY <1>2, FlattenIsUpto
<1>7. \A i \in 1..n : v[i] \in Seq(S)
  BY ElementOfSeq
<1> HIDE DEF U, W, V, m, n
<1>8. \A i \in 0..m : U[i] = W[i]
  <2> DEFINE T == {i \in 0..m : U[i] # W[i]}
  <2>1. SUFFICES ASSUME T # {} PROVE FALSE
    OBVIOUS
  <2>2. T \subseteq Nat
    BY <1>1
  <2>3. PICK x \in T : \A y \in T : x <= y
    BY <2>1, <2>2, LeastNumber
  <2>4. x \in 0..m /\ U[x] # W[x] /\ x # 0
    BY <2>3, <1>3, <1>4
  <2>5. x \in 1..m /\ x - 1 \in 0..m /\ x \in 1..(m + n) /\ x <= m /\ x \in 1..Len(u)
    BY <2>4, <1>1, <1>2
  <2>6. x - 1 \notin T
    <3> HIDE DEF T
    <3> QED BY <2>5, <2>3
  <2>7. U[x - 1] = W[x - 1]
    BY <2>5, <2>6
  <2>8. u[x] = w[x]
    BY <2>5, <1>2
  <2> QED BY <2>4, <2>5, <2>7, <2>8, <1>3, <1>4
<1>9. \A j \in 0..n : U[m + j] = W[m] \o V[j]
  <2> DEFINE T == {j \in 0..n : U[m + j] # W[m] \o V[j]}
  <2>1. SUFFICES ASSUME T # {} PROVE FALSE
    OBVIOUS
  <2>2. T \subseteq Nat
    <3>1. T \subseteq 0..n
      BY Zenon
    <3>2. \A j \in 0..n : j \in Nat
      BY <1>1
    <3> QED BY <3>1, <3>2, Zenon
  <2>3. PICK x \in T : \A y \in T : x <= y
    BY <2>1, <2>2, LeastNumber
  <2>4. x \in 0..n /\ U[m + x] # W[m] \o V[x]
    BY <2>3
  <2>5. m \in 0..m /\ W[m] \in Seq(S)
    BY <1>1, <1>4
  <2>6. CASE x = 0
    <3>1. m + x = m /\ V[x] = <<>>
      BY <2>6, <1>1, <1>5
    <3>2. W[m] \o <<>> = W[m]
      BY <2>5, ConcatEmptySeq
    <3> QED BY <3>1, <3>2, <2>4, <2>5, <1>8
  <2>7. CASE x # 0
    <3>1. /\ x \in 1..n /\ x - 1 \in 0..n /\ m + x \in 1..(m + n) /\ ~(m + x <= m)
          /\ (m + x) - m = x /\ (m + x) - 1 = m + (x - 1) /\ m + x \in 1..Len(u)
      BY <2>4, <2>7, <1>1, <1>2
    <3>2. x - 1 \notin T
      <4> HIDE DEF T
      <4> QED BY <3>1, <2>3
    <3>3. U[m + (x - 1)] = W[m] \o V[x - 1]
      BY <3>1, <3>2
    <3>4. u[m + x] = v[x]
      BY <3>1, <1>2
    <3>5. V[x] = V[x - 1] \o v[x] /\ V[x - 1] \in Seq(S) /\ v[x] \in Seq(S)
      BY <3>1, <1>5, <1>7
    <3>6. U[m + x] = (W[m] \o V[x - 1]) \o v[x]
      BY <3>1, <3>3, <3>4, <1>3
    <3>7. (W[m] \o V[x - 1]) \o v[x] = W[m] \o (V[x - 1] \o v[x])
      <4>1. \A a, b, c \in Seq(S) : (a \o b) \o c = a \o (b \o c)
        BY ConcatAssociative, SMTT(40)
      <4> QED BY <3>5, <2>5, <4>1, Zenon
    <3> QED BY <3>5, <3>6, <3>7, <2>4
  <2> QED BY <2>6, <2>7
<1>10. U[m + n] = W[m] \o V[n]
  <2>1. n \in 0..n
    BY <1>1
  <2> QED BY <2>1, <1>9, Zenon
<1>11. \A i \in 0..m : Upto(u)[i] = Upto(w)[i]
  BY <1>8 DEF U, W
<1>12. BC!FlattenSeq(u) = BC!FlattenSeq(w) \o BC!FlattenSeq(v)
  BY <1>6, <1>10
<1> QED BY <1>11, <1>12 DEF u, m

LEMMA JoinOne ==
    ASSUME NEW S, NEW x \in Seq(S)
    PROVE  BC!FlattenSeq(<<x>>) = x
<1>1. <<x>> \in Seq(Seq(S)) /\ Len(<<x>>) = 1 /\ <<x>>[1] = x
  OBVIOUS
<1>2. BC!FlattenSeq(<<x>>) = Upto(<<x>>)[1]
  BY <1>1, FlattenIsUpto
<1>3. Upto(<<x>>)[1] = <<>> \o x
  <2>1. \A i \in 1..Len(<<x>>) : Upto(<<x>>)[i] = Upto(<<x>>)[i - 1] \o <<x>>[i]
    BY <1>1, UptoTyped
  <2>2. Upto(<<x>>)[0] = <<>>
    BY <1>1, UptoTyped
  <2>3. 1 \in 1..Len(<<x>>) /\ 1 - 1 = 0
    BY <1>1
  <2>4. Upto(<<x>>)[1] = Upto(<<x>>)[1 - 1] \o <<x>>[1]
    BY <2>1, <2>3
  <2> QED BY <2>2, <2>3, <2>4, <1>1
<1> QED BY <1>2, <1>3, ConcatEmptySeq

\* A join is what is joined in front of a place and what comes after it.
LEMMA JoinSplit ==
    ASSUME NEW S, NEW w \in Seq(Seq(S)), NEW k \in 0..Len(w)
    PROVE  /\ Cut(w, k, Len(w)) \in Seq(Seq(S))
           /\ BC!FlattenSeq(w) = Upto(w)[k] \o BC!FlattenSeq(Cut(w, k, Len(w)))
<1> DEFINE n == Len(w)
           x == Cut(w, 0, k)
           y == Cut(w, k, n)
<1>1. n \in Nat /\ k \in Nat /\ 0 \in Nat /\ 0 <= k /\ k <= n /\ n <= n /\ k - 0 = k
  BY LenProperties
<1>2. x \in Seq(Seq(S)) /\ Len(x) = k - 0
  BY <1>1, CutTyped
<1>3. y \in Seq(Seq(S))
  BY <1>1, CutTyped, Zenon
<1>4. w = x \o y
  <2>1. 1 \in 1..(n + 1) /\ k \in (1 - 1)..n /\ n \in k..n
    BY <1>1
  <2>2. SubSeq(w, 1, k) \o SubSeq(w, k + 1, n) = SubSeq(w, 1, n)
    BY <2>1, ConcatAdjacentSubSeq, Zenon
  <2>3. SubSeq(w, 1, n) = w
    BY SubSeqFull
  <2>4. 0 + 1 = 1
    OBVIOUS
  <2> QED BY <2>2, <2>3, <2>4, Zenon DEF Cut
<1> HIDE DEF x, y
<1>5. /\ \A i \in 0..Len(x) : Upto(x \o y)[i] = Upto(x)[i]
      /\ BC!FlattenSeq(x \o y) = BC!FlattenSeq(x) \o BC!FlattenSeq(y)
  BY <1>2, <1>3, JoinOfConcat
<1>6. BC!FlattenSeq(x) = Upto(x)[Len(x)]
  BY <1>2, FlattenIsUpto
<1>7. Upto(w)[k] = BC!FlattenSeq(x)
  BY <1>1, <1>2, <1>4, <1>5, <1>6
<1>8. BC!FlattenSeq(w) = Upto(w)[k] \o BC!FlattenSeq(y)
  BY <1>4, <1>5, <1>7
<1> QED BY <1>3, <1>8 DEF y

-----------------------------------------------------------------------------
(***************************************************************************)
(* What the segments of a chain hold, for any contents d.                  *)
(***************************************************************************)
Joined(d, segs) == [i \in 1..Len(segs) |-> d[segs[i]]]
All(d, segs) == BC!FlattenSeq(Joined(d, segs))

\* No segment of a chain is empty, the one in front is not all consumed, and
\* the size is that of the rest.
ChainOK(d, r) ==
    /\ \A i \in 1..Len(r.segments) : d[r.segments[i]] # <<>>
    /\ r.segments = <<>> => r.consumed_offset = 0
    /\ r.segments # <<>> => r.consumed_offset < Len(d[r.segments[1]])
    /\ r.total_size = Len(All(d, r.segments)) - r.consumed_offset

ChainRecord == [segments : Seq(Segments), consumed_offset : Nat, total_size : Nat,
                recycles : BOOLEAN]

Contents == [Segments -> Seq(Nat)]

LEMMA JoinedTyped ==
    ASSUME NEW d \in Contents, NEW segs \in Seq(Segments)
    PROVE  /\ Joined(d, segs) \in Seq(Seq(Nat)) /\ Len(Joined(d, segs)) = Len(segs)
           /\ \A i \in 1..Len(segs) : /\ Joined(d, segs)[i] = d[segs[i]]
                                      /\ d[segs[i]] \in Seq(Nat)
           /\ All(d, segs) \in Seq(Nat) /\ Len(All(d, segs)) \in Nat
           /\ All(d, segs) = Upto(Joined(d, segs))[Len(segs)]
<1>1. Len(segs) \in Nat /\ \A i \in 1..Len(segs) : segs[i] \in Segments
  BY LenProperties, ElementOfSeq
<1>2. \A i \in 1..Len(segs) : d[segs[i]] \in Seq(Nat)
  BY <1>1 DEF Contents
<1>3. Joined(d, segs) \in Seq(Seq(Nat)) /\ Len(Joined(d, segs)) = Len(segs)
  BY <1>1, <1>2 DEF Joined
<1>4. \A i \in 1..Len(segs) : Joined(d, segs)[i] = d[segs[i]]
  BY DEF Joined
<1>5. All(d, segs) \in Seq(Nat)
  BY <1>3, JoinTyped DEF All
<1>6. All(d, segs) = Upto(Joined(d, segs))[Len(segs)]
  BY <1>3, FlattenIsUpto DEF All
<1> QED BY <1>2, <1>3, <1>4, <1>5, <1>6, LenProperties

\* How far the first i segments reach.
LEMMA Lengths ==
    ASSUME NEW d \in Contents, NEW segs \in Seq(Segments)
    PROVE  LET U == Upto(Joined(d, segs))
           IN  /\ Len(U[0]) = 0
               /\ \A i \in 0..Len(segs) : U[i] \in Seq(Nat) /\ Len(U[i]) \in Nat
               /\ \A i \in 1..Len(segs) :
                     /\ U[i] = U[i - 1] \o d[segs[i]]
                     /\ Len(U[i]) = Len(U[i - 1]) + Len(d[segs[i]])
               /\ Len(U[Len(segs)]) = Len(All(d, segs))
<1> DEFINE w == Joined(d, segs)
           U == Upto(w)
<1>1. /\ w \in Seq(Seq(Nat)) /\ Len(w) = Len(segs)
      /\ \A i \in 1..Len(segs) : w[i] = d[segs[i]] /\ d[segs[i]] \in Seq(Nat)
      /\ All(d, segs) = U[Len(segs)]
  BY JoinedTyped
<1> HIDE DEF w
<1>2. U \in [0..Len(w) -> Seq(Nat)] /\ U[0] = <<>> /\ \A i \in 1..Len(w) : U[i] = U[i - 1] \o w[i]
  <2>1. w \in Seq(Seq(Nat))
    BY <1>1
  <2> QED BY <2>1, UptoTyped
<1> HIDE DEF U
<1>3. \A i \in 0..Len(segs) : U[i] \in Seq(Nat) /\ Len(U[i]) \in Nat
  <2>1. \A i \in 0..Len(segs) : U[i] \in Seq(Nat)
    BY <1>1, <1>2
  <2> QED BY <2>1, LenProperties
<1>4. ASSUME NEW i \in 1..Len(segs)
      PROVE  U[i] = U[i - 1] \o d[segs[i]] /\ Len(U[i]) = Len(U[i - 1]) + Len(d[segs[i]])
  <2>1. U[i] = U[i - 1] \o d[segs[i]]
    BY <1>1, <1>2
  <2>2. i - 1 \in 0..Len(segs)
    OBVIOUS
  <2>3. U[i - 1] \in Seq(Nat) /\ d[segs[i]] \in Seq(Nat)
    BY <1>1, <1>3, <2>2
  <2> QED BY <2>1, <2>3, ConcatProperties
<1>5. Len(U[0]) = 0
  BY <1>2, EmptySeq
<1> QED BY <1>1, <1>3, <1>4, <1>5 DEF U, w

\* The segment and the position of an offset.
LEMMA Located ==
    ASSUME NEW c \in Chains, data \in Contents, chain[c] \in ChainRecord,
           ChainOK(data, chain[c]), NEW offset \in Nat, offset < chain[c].total_size
    PROVE  LET l == BC!Locate(c, offset)
               segs == chain[c].segments
               U == Upto(Joined(data, segs))
           IN  /\ l.index \in 1..Len(segs) /\ l.found /\ l.pos \in Nat
               /\ l.pos < Len(data[segs[l.index]])
               /\ Len(U[l.index - 1]) + l.pos = chain[c].consumed_offset + offset
<1> DEFINE segs == chain[c].segments
           n == Len(segs)
           b == chain[c].consumed_offset + offset
           U == Upto(Joined(data, segs))
           P == CHOOSE f : f = [i \in 0..n |-> IF i = 0 THEN b ELSE f[i - 1] - Len(data[segs[i]])]
           M == {i \in 0..n : i < n => P[i] < Len(data[segs[i + 1]])}
           m == BC!Min(M)
<1>1. /\ segs \in Seq(Segments) /\ n \in Nat /\ b \in Nat
      /\ b < Len(All(data, segs)) /\ chain[c].consumed_offset \in Nat
  <2>1. /\ segs \in Seq(Segments) /\ chain[c].consumed_offset \in Nat
    BY DEF ChainRecord
  <2>2. n \in Nat /\ Len(All(data, segs)) \in Nat
    BY <2>1, LenProperties, JoinedTyped
  <2>3. chain[c].total_size = Len(All(data, segs)) - chain[c].consumed_offset
    BY DEF ChainOK
  <2> HIDE DEF segs, n
  <2> QED BY <2>1, <2>2, <2>3
<1>2. /\ Len(U[0]) = 0
      /\ \A i \in 0..n : Len(U[i]) \in Nat
      /\ \A i \in 1..n : Len(U[i]) = Len(U[i - 1]) + Len(data[segs[i]])
      /\ Len(U[n]) = Len(All(data, segs))
  BY <1>1, Lengths
<1>3. \A i \in 1..n : Len(data[segs[i]]) \in Nat
  <2>1. \A i \in 1..n : data[segs[i]] \in Seq(Nat)
    BY <1>1, JoinedTyped
  <2> QED BY <2>1, LenProperties
<1>4. BC!Locate(c, offset) = [index |-> m + 1, pos |-> P[m], found |-> m < n]
  BY DEF BC!Locate, BC!Size
<1> HIDE DEF U, b, n, segs
<1>5. \A i \in 0..n : P[i] = b - Len(U[i])
  <2> DEFINE f == [i \in 0..n |-> b - Len(U[i])]
  <2>1. f = [i \in 0..n |-> IF i = 0 THEN b ELSE f[i - 1] - Len(data[segs[i]])]
    <3>1. ASSUME NEW i \in 0..n
          PROVE  b - Len(U[i]) = IF i = 0 THEN b ELSE f[i - 1] - Len(data[segs[i]])
      <4>1. CASE i = 0
        BY <4>1, <1>1, <1>2
      <4>2. CASE i # 0
        <5>1. i \in 1..n /\ i - 1 \in 0..n
          BY <4>2, <1>1
        <5>2. f[i - 1] = b - Len(U[i - 1])
          BY <5>1
        <5> HIDE DEF f
        <5>3. /\ Len(U[i]) = Len(U[i - 1]) + Len(data[segs[i]])
              /\ Len(U[i - 1]) \in Nat /\ Len(data[segs[i]]) \in Nat
          BY <5>1, <1>2, <1>3
        <5> QED BY <5>2, <5>3, <4>2, <1>1
      <4> QED BY <4>1, <4>2
    <3> QED BY <3>1
  <2>2. \A i \in 0..n : f[i] = b - Len(U[i])
    OBVIOUS
  <2> HIDE DEF f
  <2>3. P = [i \in 0..n |-> IF i = 0 THEN b ELSE P[i - 1] - Len(data[segs[i]])]
    BY <2>1, Zenon
  <2> HIDE DEF P
  <2>4. ASSUME NEW i \in 0..n
        PROVE  P[i] = IF i = 0 THEN b ELSE P[i - 1] - Len(data[segs[i]])
    BY <2>3
  <2> DEFINE T == {i \in 0..n : P[i] # f[i]}
  <2>5. SUFFICES ASSUME T # {} PROVE FALSE
    BY <2>2
  <2>6. T \subseteq Nat
    BY <1>1
  <2>7. PICK x \in T : \A y \in T : x <= y
    BY <2>5, <2>6, LeastNumber
  <2>8. x \in 0..n /\ P[x] # f[x]
    BY <2>7
  <2>a. \A i \in 0..n : f[i] = IF i = 0 THEN b ELSE f[i - 1] - Len(data[segs[i]])
    <3>1. ASSUME NEW i \in 0..n
          PROVE  f[i] = IF i = 0 THEN b ELSE f[i - 1] - Len(data[segs[i]])
      BY <2>1
    <3> QED BY <3>1
  <2>9. x # 0
    BY <2>8, <2>4, <2>a
  <2>10. x - 1 \in 0..n /\ x - 1 \notin T
    <3>1. x - 1 \in 0..n
      BY <2>8, <2>9, <1>1
    <3> HIDE DEF T
    <3> QED BY <3>1, <2>7, <2>8
  <2>11. P[x - 1] = f[x - 1]
    BY <2>10
  <2> QED BY <2>11, <2>8, <2>9, <2>4, <2>a
<1> HIDE DEF P
<1>6. m \in M /\ \A y \in M : m <= y
  <2>1. n \in M /\ M \subseteq Nat
    BY <1>1
  <2> HIDE DEF M
  <2>2. \E x \in M : \A y \in M : x <= y
    BY <2>1, LeastNumber
  <2> QED BY <2>2 DEF BC!Min
<1> HIDE DEF m
<1>7. m \in 0..n
  BY <1>6
<1>8. P[m] \in Int /\ P[m] >= 0
  <2>1. CASE m = 0
    BY <2>1, <1>1, <1>2, <1>5
  <2>2. CASE m # 0
    <3>1. m - 1 \in 0..n /\ m \in 1..n /\ (m - 1) + 1 = m /\ m - 1 < n
      BY <2>2, <1>7, <1>1
    <3>2. m - 1 \notin M
      <4> HIDE DEF M
      <4> QED BY <1>6, <1>7
    <3>3. ~(P[m - 1] < Len(data[segs[m]]))
      BY <3>1, <3>2
    <3>4. /\ P[m] = b - Len(U[m]) /\ P[m - 1] = b - Len(U[m - 1])
          /\ Len(U[m]) = Len(U[m - 1]) + Len(data[segs[m]])
          /\ Len(U[m]) \in Nat /\ Len(U[m - 1]) \in Nat /\ Len(data[segs[m]]) \in Nat
      BY <3>1, <1>2, <1>3, <1>5, <1>7
    <3>5. P[m - 1] \in Int /\ P[m] \in Int /\ P[m - 1] - P[m] = Len(data[segs[m]])
      <4> DEFINE x == P[m - 1]
                 y == P[m]
                 v == Len(U[m - 1])
                 w == Len(U[m])
                 l == Len(data[segs[m]])
      <4>1. y = b - w /\ x = b - v /\ w = v + l /\ w \in Nat /\ v \in Nat /\ l \in Nat /\ b \in Nat
        BY <3>4, <1>1
      <4> HIDE DEF x, y, v, w, l
      <4>2. x \in Int /\ y \in Int /\ x - y = l
        BY ONLY <4>1
      <4> QED BY <4>2 DEF x, y, l
    <3> QED BY <3>3, <3>5
  <2> QED BY <2>1, <2>2
<1>9. m < n
  <2>1. m # n
    <3>1. P[n] = b - Len(U[n]) /\ Len(U[n]) \in Nat
      <4>1. n \in 0..n
        BY <1>1
      <4> QED BY <4>1, <1>2, <1>5
    <3>2. ~(P[n] >= 0)
      BY <3>1, <1>1, <1>2
    <3> QED BY <3>2, <1>8
  <2> QED BY <2>1, <1>7, <1>1
<1>10. P[m] < Len(data[segs[m + 1]])
  BY <1>6, <1>9
<1>11. Len(U[m]) + P[m] = b
  BY <1>2, <1>5, <1>7, <1>1
<1>12. m + 1 \in 1..n /\ (m + 1) - 1 = m
  BY <1>7, <1>9, <1>1
<1> DEFINE l == BC!Locate(c, offset)
<1>13. l.index = m + 1 /\ l.pos = P[m] /\ l.found
  <2>1. (m < n) = TRUE
    BY <1>9
  <2>2. l = [index |-> m + 1, pos |-> P[m], found |-> TRUE]
    BY <1>4, <2>1, Zenon
  <2> HIDE DEF l
  <2> QED BY <2>2
<1> HIDE DEF l
<1>14. /\ l.index \in 1..n /\ l.found /\ l.pos \in Nat
       /\ l.pos < Len(data[segs[l.index]]) /\ Len(U[l.index - 1]) + l.pos = b
  BY <1>8, <1>9, <1>10, <1>11, <1>12, <1>13
<1> QED BY <1>14 DEF l, U, b, n, segs

Readable(c) == data \in Contents /\ chain[c] \in ChainRecord /\ ChainOK(data, chain[c])

LEMMA ContentIsCut ==
    ASSUME NEW c \in Chains, Readable(c)
    PROVE  LET all == All(data, chain[c].segments)
               co == chain[c].consumed_offset
           IN  /\ all \in Seq(Nat) /\ Len(all) \in Nat /\ co \in Nat /\ co <= Len(all)
               /\ BC!Content(c) = Cut(all, co, Len(all))
               /\ BC!Content(c) \in Seq(Nat)
               /\ Len(BC!Content(c)) = chain[c].total_size
               /\ chain[c].total_size \in Nat /\ chain[c].total_size = Len(all) - co
<1> DEFINE segs == chain[c].segments
           all == All(data, segs)
           co == chain[c].consumed_offset
<1>1. segs \in Seq(Segments) /\ co \in Nat /\ chain[c].total_size \in Nat /\ data \in Contents
  BY DEF Readable, ChainRecord
<1>2. all \in Seq(Nat) /\ Len(all) \in Nat
  BY <1>1, JoinedTyped
<1>3. chain[c].total_size = Len(all) - co
  BY DEF Readable, ChainOK
<1>4. DOMAIN segs = 1..Len(segs)
  BY <1>1, LenProperties
<1>5. BC!Content(c) = Cut(all, co, Len(all))
  BY <1>4 DEF BC!Content, Cut, All, Joined
<1> HIDE DEF all, segs, co
<1>6. co <= Len(all) /\ Len(all) <= Len(all)
  BY <1>1, <1>2, <1>3
<1>7. BC!Content(c) \in Seq(Nat) /\ Len(BC!Content(c)) = Len(all) - co
  <2>1. all \in Seq(Nat) /\ co \in Nat /\ Len(all) \in Nat
    BY <1>1, <1>2
  <2>2. Cut(all, co, Len(all)) \in Seq(Nat) /\ Len(Cut(all, co, Len(all))) = Len(all) - co
    BY <2>1, <1>6, CutTyped
  <2> QED BY <2>2, <1>5
<1> QED BY <1>1, <1>2, <1>3, <1>5, <1>6, <1>7 DEF all, segs, co

\* Bytes that lie in one segment are read where they are.
LEMMA ReadInPlace ==
    ASSUME NEW c \in Chains, Readable(c), NEW offset \in Nat, NEW len \in Nat, len > 0,
           offset + len <= chain[c].total_size, BC!IsContiguous(c, offset, len)
    PROVE  LET l == BC!Locate(c, offset)
               seg == chain[c].segments[l.index]
           IN  /\ seg \in Segments /\ BC!GetSegmentAt(c, offset) = seg
               /\ \E i \in 1..Len(chain[c].segments) : seg = chain[c].segments[i]
               /\ l.pos \in Nat /\ l.pos + len <= Len(data[seg])
               /\ SubSeq(BC!DataAt(c, offset), 1, len) = Cut(data[seg], l.pos, l.pos + len)
               /\ SubSeq(BC!DataAt(c, offset), 1, len) = Cut(BC!Content(c), offset, offset + len)
<1> DEFINE segs == chain[c].segments
           l == BC!Locate(c, offset)
           k == l.index
           seg == segs[k]
           here == data[seg]
           all == All(data, segs)
           co == chain[c].consumed_offset
           U == Upto(Joined(data, segs))
<1>1. segs \in Seq(Segments) /\ data \in Contents /\ Len(segs) \in Nat
  BY LenProperties DEF Readable, ChainRecord
<1>2. /\ all \in Seq(Nat) /\ Len(all) \in Nat /\ co \in Nat /\ co <= Len(all)
      /\ BC!Content(c) = Cut(all, co, Len(all))
      /\ chain[c].total_size \in Nat /\ chain[c].total_size = Len(all) - co
  BY ContentIsCut
<1>3. offset < chain[c].total_size
  BY <1>2
<1>4. /\ k \in 1..Len(segs) /\ l.pos \in Nat /\ l.pos < Len(here)
      /\ Len(U[k - 1]) + l.pos = co + offset
  BY <1>3, Located DEF Readable
<1>5. l.pos + len <= Len(here)
  BY DEF BC!IsContiguous, BC!Size
<1>6. BC!DataAt(c, offset) = Cut(here, l.pos, Len(here))
  BY DEF BC!DataAt, BC!Size, Cut
<1>7. BC!GetSegmentAt(c, offset) = seg
  BY DEF BC!GetSegmentAt
<1>8. seg \in Segments /\ here \in Seq(Nat) /\ Len(here) \in Nat
  <2>1. seg \in Segments /\ here \in Seq(Nat)
    BY <1>1, <1>4, JoinedTyped, ElementOfSeq, SMTT(40)
  <2> QED BY <2>1, LenProperties
<1>9. U[k] = U[k - 1] \o here /\ U[k - 1] \in Seq(Nat) /\ Len(U[k - 1]) \in Nat /\ U[k] \in Seq(Nat)
  <2>1. k \in 0..Len(segs) /\ k - 1 \in 0..Len(segs)
    BY <1>1, <1>4, SMTT(40)
  <2> QED BY <1>1, <1>4, <2>1, Lengths
<1>10. all = U[k] \o BC!FlattenSeq(Cut(Joined(data, segs), k, Len(segs)))
       /\ BC!FlattenSeq(Cut(Joined(data, segs), k, Len(segs))) \in Seq(Nat)
  <2>1. Joined(data, segs) \in Seq(Seq(Nat)) /\ Len(Joined(data, segs)) = Len(segs)
    BY <1>1, JoinedTyped
  <2>2. k \in 0..Len(Joined(data, segs))
    BY <2>1, <1>1, <1>4
  <2> QED BY <2>1, <2>2, JoinSplit, JoinTyped DEF All
<1> DEFINE rest == BC!FlattenSeq(Cut(Joined(data, segs), k, Len(segs)))
           p == l.pos
           q == Len(U[k - 1])
<1>a. p \in Nat /\ q \in Nat /\ q + p = co + offset /\ p + len <= Len(here)
  BY <1>4, <1>5, <1>9, Zenon
<1>b. BC!DataAt(c, offset) = Cut(here, p, Len(here))
  BY <1>6
<1>c. rest \in Seq(Nat) /\ all = U[k] \o rest
  BY <1>10
<1> HIDE DEF segs, l, k, seg, here, all, co, U, rest, p
<1>11. SubSeq(BC!DataAt(c, offset), 1, len) = Cut(here, p, p + len)
  <2>1. /\ p \in Nat /\ Len(here) \in Nat /\ p <= Len(here) /\ Len(here) <= Len(here)
        /\ 0 \in Nat /\ 0 <= len /\ len <= Len(here) - p /\ here \in Seq(Nat)
    BY <1>a, <1>8
  <2>2. Cut(Cut(here, p, Len(here)), 0, len) = Cut(here, p + 0, p + len)
    BY <2>1, CutTwice
  <2>3. SubSeq(BC!DataAt(c, offset), 1, len) = Cut(Cut(here, p, Len(here)), 0, len)
    BY <1>b DEF Cut
  <2>4. p + 0 = p
    BY <2>1
  <2> QED BY <2>2, <2>3, <2>4
<1>12. Cut(here, p, p + len) = Cut(U[k], q + p, q + (p + len))
  <2>1. p \in Nat /\ p + len \in Nat /\ p <= p + len /\ p + len <= Len(here)
    BY <1>a
  <2>2. here \in Seq(Nat) /\ U[k - 1] \in Seq(Nat)
    BY <1>8, <1>9
  <2>3. Cut(U[k - 1] \o here, Len(U[k - 1]) + p, Len(U[k - 1]) + (p + len)) = Cut(here, p, p + len)
    BY <2>1, <2>2, CutSecond
  <2> QED BY <2>3, <1>9
<1>d. Len(U[k]) = q + Len(here)
  BY <1>8, <1>9, ConcatProperties
<1> HIDE DEF q
<1>13. Cut(U[k], q + p, q + (p + len)) = Cut(all, q + p, q + (p + len))
  <2>1. q + p \in Nat /\ q + (p + len) \in Nat /\ q + p <= q + (p + len)
        /\ q + (p + len) <= Len(U[k])
    BY <1>a, <1>d, <1>8
  <2>3. rest \in Seq(Nat) /\ all = U[k] \o rest /\ U[k] \in Seq(Nat)
    BY <1>9, <1>c
  <2> QED BY <2>1, <2>3, CutFirst
<1>14. Cut(BC!Content(c), offset, offset + len) = Cut(all, co + offset, co + (offset + len))
  <2>1. /\ co \in Nat /\ Len(all) \in Nat /\ co <= Len(all) /\ Len(all) <= Len(all)
        /\ offset + len \in Nat /\ offset <= offset + len /\ offset + len <= Len(all) - co
        /\ all \in Seq(Nat)
    BY <1>2
  <2>2. Cut(Cut(all, co, Len(all)), offset, offset + len) = Cut(all, co + offset, co + (offset + len))
    BY <2>1, CutTwice
  <2> QED BY <2>2, <1>2
<1>15. q + p = co + offset /\ q + (p + len) = co + (offset + len)
  <2>1. q \in Nat /\ p \in Nat /\ co \in Nat /\ offset \in Nat /\ len \in Nat /\ q + p = co + offset
    BY <1>a, <1>2
  <2> HIDE DEF p, co
  <2> QED BY ONLY <2>1
<1>16. SubSeq(BC!DataAt(c, offset), 1, len) = Cut(BC!Content(c), offset, offset + len)
  BY <1>11, <1>12, <1>13, <1>14, <1>15
<1>17. l.pos \in Nat /\ l.pos + len <= Len(here) /\ SubSeq(BC!DataAt(c, offset), 1, len) = Cut(here, l.pos, l.pos + len)
  BY <1>4, <1>5, <1>11 DEF p
<1> QED BY <1>4, <1>7, <1>8, <1>16, <1>17 DEF segs, l, k, seg, here

\* What CopyTo has copied after one segment more: u is what is joined in front
\* of the segment, s what the segment holds.
Least(a, b) == IF a < b THEN a ELSE b

LEMMA CopyMore ==
    ASSUME NEW u \in Seq(Nat), NEW s \in Seq(Nat), NEW b \in Nat, NEW e \in Nat,
           b <= Len(u), b <= e
    PROVE  LET done == Cut(u, b, Least(Len(u), e))
               left == (e - b) - Len(done)
           IN  done \o SubSeq(s, 1, IF Len(s) < left THEN Len(s) ELSE left)
               = Cut(u \o s, b, Least(Len(u \o s), e))
<1> DEFINE m == Least(Len(u), e)
           done == Cut(u, b, m)
           left == (e - b) - Len(done)
           t == Least(Len(s), left)
<1>1. Len(u) \in Nat /\ Len(s) \in Nat /\ Len(u \o s) = Len(u) + Len(s)
  BY LenProperties, ConcatProperties
<1>2. m \in Nat /\ b <= m /\ m <= Len(u) /\ m <= e
  BY <1>1 DEF Least
<1>3. done \in Seq(Nat) /\ Len(done) = m - b
  <2> HIDE DEF m
  <2> QED BY <1>2, CutBytes
<1>4. left = e - m /\ left \in Nat
  <2> HIDE DEF done
  <2>1. left = (e - b) - (m - b)
    BY <1>3
  <2> HIDE DEF m, left
  <2> QED BY <1>2, <2>1
<1>5. t \in Nat /\ t <= Len(s)
  <2> HIDE DEF left
  <2> QED BY <1>1, <1>4 DEF Least
<1>6. SubSeq(s, 1, IF Len(s) < left THEN Len(s) ELSE left) = Cut(s, 0, t)
  BY DEF Least, Cut
<1> SUFFICES done \o Cut(s, 0, t) = Cut(u \o s, b, Least(Len(u \o s), e))
  BY <1>6, Zenon
<1>7. CASE Len(u) < e
  <2>1. m = Len(u)
    BY <1>7 DEF Least
  <2>2. Cut(u \o s, b, Len(u) + t) = Cut(u, b, Len(u)) \o Cut(s, 0, t)
    <3> HIDE DEF t
    <3> QED BY <1>5, CutBoth
  <2>3. Len(u) + t = Least(Len(u \o s), e)
    <3>1. t = Least(Len(s), e - Len(u))
      BY <1>4, <2>1
    <3> HIDE DEF t
    <3> QED BY <3>1, <1>1, <1>7 DEF Least
  <2> HIDE DEF t, m
  <2> QED BY <2>1, <2>2, <2>3
<1>8. CASE ~(Len(u) < e)
  <2>1. m = e
    BY <1>8 DEF Least
  <2>2. left = 0
    BY <1>4, <2>1
  <2>3. t = 0
    <3> HIDE DEF left
    <3> QED BY <2>2, <1>1 DEF Least
  <2>4. Cut(s, 0, t) = <<>>
    <3>1. Cut(s, 0, 0) \in Seq(Nat) /\ Len(Cut(s, 0, 0)) = 0 - 0
      BY <1>1, CutBytes
    <3>2. Cut(s, 0, 0) = <<>>
      BY <3>1, EmptySeq
    <3> HIDE DEF t
    <3> QED BY <3>2, <2>3
  <2>5. done \o <<>> = done
    <3> HIDE DEF done
    <3> QED BY <1>3, ConcatEmptySeq
  <2>6. Least(Len(u \o s), e) = e
    BY <1>1, <1>8 DEF Least
  <2>7. Cut(u \o s, b, e) = Cut(u, b, e)
    <3>1. e <= Len(u)
      BY <1>1, <1>8
    <3> QED BY <3>1, CutFirst
  <2> HIDE DEF t, m, left, done
  <2>8. done = Cut(u, b, e)
    BY <2>1 DEF done
  <2> QED BY <2>4, <2>5, <2>6, <2>7, <2>8
<1> QED BY <1>1, <1>7, <1>8

\* What it has copied after the first segment s, found at position p.
LEMMA CopyStart ==
    ASSUME NEW u \in Seq(Nat), NEW s \in Seq(Nat), NEW p \in Nat, NEW len \in Nat, p < Len(s)
    PROVE  LET front == Cut(s, p, Len(s))
           IN  <<>> \o SubSeq(front, 1, IF Len(front) < len - Len(<<>>) THEN Len(front) ELSE len - Len(<<>>))
               = Cut(u \o s, Len(u) + p, Least(Len(u \o s), (Len(u) + p) + len))
<1> DEFINE front == Cut(s, p, Len(s))
           m == Least(Len(s) - p, len)
<1>1. Len(u) \in Nat /\ Len(s) \in Nat /\ Len(u \o s) = Len(u) + Len(s)
  BY LenProperties, ConcatProperties
<1>2. p <= Len(s) /\ Len(s) <= Len(s)
  BY <1>1
<1>3. Len(front) = Len(s) - p
  BY <1>1, <1>2, CutBytes
<1>4. m \in Nat /\ m <= Len(s) - p
  BY <1>1, <1>2 DEF Least
<1>5. Cut(front, 0, m) = Cut(s, p + 0, p + m)
  <2> HIDE DEF m
  <2>1. 0 \in Nat /\ 0 <= m
    BY <1>4
  <2> QED BY <2>1, <1>1, <1>2, <1>4, CutTwice
<1>6. Cut(front, 0, m) = Cut(s, p, p + m)
  BY <1>5, p + 0 = p
<1> HIDE DEF front
<1>7. SubSeq(front, 1, IF Len(front) < len - Len(<<>>) THEN Len(front) ELSE len - Len(<<>>))
      = Cut(front, 0, m)
  <2>1. len - Len(<<>>) = len
    BY EmptySeq
  <2> QED BY <2>1, <1>3 DEF Cut, Least
<1>8. (Len(u) + p) + len \in Nat /\ Least(Len(u) + Len(s), (Len(u) + p) + len) = Len(u) + (p + m)
  BY <1>1, <1>2 DEF Least
<1> HIDE DEF m
<1>9. p + m \in Nat /\ p <= p + m /\ p + m <= Len(s)
  BY <1>1, <1>4
<1>10. Cut(s, p, p + m) \in Seq(Nat)
  BY <1>9, CutBytes
<1>11. Cut(u \o s, Len(u) + p, Len(u) + (p + m)) = Cut(s, p, p + m)
  BY <1>9, CutSecond
<1>12. <<>> \o Cut(s, p, p + m) = Cut(s, p, p + m)
  BY <1>10, ConcatEmptySeq
<1>13. <<>> \o Cut(front, 0, m) = Cut(u \o s, Len(u) + p, Least(Len(u \o s), (Len(u) + p) + len))
  BY <1>1, <1>6, <1>8, <1>11, <1>12
<1> QED BY <1>7, <1>13 DEF front

\* CopyTo gives the bytes of the chain, however they lie in its segments.
LEMMA CopyReads ==
    ASSUME NEW c \in Chains, Readable(c), NEW offset \in Nat, NEW len \in Nat, len > 0,
           offset + len <= chain[c].total_size
    PROVE  BC!CopyTo(c, offset, len) = Cut(BC!Content(c), offset, offset + len)
<1> DEFINE segs == chain[c].segments
           n == Len(segs)
           l == BC!Locate(c, offset)
           k == l.index
           p == l.pos
           all == All(data, segs)
           co == chain[c].consumed_offset
           U == Upto(Joined(data, segs))
           front == BC!DataAt(c, offset)
           B(i) == IF i = k THEN front ELSE data[segs[i]]
           More(f, i) == f \o SubSeq(B(i), 1, IF Len(B(i)) < len - Len(f) THEN Len(B(i)) ELSE len - Len(f))
           F == CHOOSE f : f = [i \in 0..n |-> IF i < k THEN <<>> ELSE More(f[i - 1], i)]
           b == co + offset
           e == b + len
           g == [i \in 0..n |-> IF i < k THEN <<>> ELSE Cut(U[i], b, Least(Len(U[i]), e))]
<1>1. BC!CopyTo(c, offset, len) = F[n]
  BY DEF BC!CopyTo
<1>2. segs \in Seq(Segments) /\ data \in Contents /\ n \in Nat
  BY LenProperties DEF Readable, ChainRecord
<1>3. /\ all \in Seq(Nat) /\ Len(all) \in Nat /\ co \in Nat /\ co <= Len(all)
      /\ BC!Content(c) = Cut(all, co, Len(all))
      /\ chain[c].total_size \in Nat /\ chain[c].total_size = Len(all) - co
  BY ContentIsCut
<1>4. offset < chain[c].total_size
  BY <1>3
<1>5. /\ k \in 1..n /\ p \in Nat /\ p < Len(data[segs[k]])
      /\ Len(U[k - 1]) + p = b
  BY <1>4, Located DEF Readable
<1>6. /\ all = U[n] /\ Len(U[n]) = Len(all)
      /\ \A i \in 0..n : U[i] \in Seq(Nat) /\ Len(U[i]) \in Nat
      /\ \A i \in 1..n : U[i] = U[i - 1] \o data[segs[i]] /\ Len(U[i]) = Len(U[i - 1]) + Len(data[segs[i]])
      /\ \A i \in 1..n : data[segs[i]] \in Seq(Nat)
  BY <1>2, Lengths, JoinedTyped
<1>7. \A i \in 1..n : Len(data[segs[i]]) \in Nat
  BY <1>6, LenProperties
<1>8. front = Cut(data[segs[k]], p, Len(data[segs[k]]))
  BY DEF BC!DataAt, BC!Size, Cut
<1>9. b \in Nat /\ e \in Nat /\ b <= e /\ e <= Len(all) /\ len = e - b /\ e = b + len
  <2> HIDE DEF all, co
  <2> QED BY <1>3
<1> HIDE DEF segs, n, l, k, p, all, co, U, front, b, e
\* From the segment found on, everything joined reaches past the offset.
<1>10. \A i \in 0..n : i >= k => b < Len(U[i])
  <2> DEFINE T == {i \in 0..n : i >= k /\ ~(b < Len(U[i]))}
  <2>1. SUFFICES ASSUME T # {} PROVE FALSE
    OBVIOUS
  <2>2. T \subseteq Nat
    BY <1>2
  <2>3. PICK x \in T : \A y \in T : x <= y
    BY <2>1, <2>2, LeastNumber
  <2>4. x \in 1..n /\ x >= k /\ ~(b < Len(U[x])) /\ x - 1 \in 0..n
    BY <2>3, <1>5, <1>2
  <2>5. /\ Len(U[x]) = Len(U[x - 1]) + Len(data[segs[x]])
        /\ Len(U[x - 1]) \in Nat /\ Len(data[segs[x]]) \in Nat
    BY <2>4, <1>6, <1>7
  <2> DEFINE before == Len(U[x - 1])
             here == Len(data[segs[x]])
             after == Len(U[x])
  <2>6. after = before + here /\ before \in Nat /\ here \in Nat
    BY <2>5
  <2>7. ~(b < after) /\ b \in Nat /\ p \in Nat
    BY <2>4, <1>5, <1>9
  <2>8. CASE x = k
    <3>1. before + p = b /\ p < here
      BY <2>8, <1>5
    <3> HIDE DEF before, here, after
    <3> QED BY <3>1, <2>6, <2>7
  <2>9. CASE x # k
    <3>1. x - 1 \notin T
      <4> HIDE DEF T
      <4> QED BY <2>3, <2>4
    <3>2. x - 1 >= k
      BY <2>4, <2>9, <1>5
    <3>3. b < before
      BY <3>1, <3>2, <2>4
    <3> HIDE DEF before, here, after
    <3> QED BY <3>3, <2>6, <2>7
  <2> QED BY <2>8, <2>9
<1>11. \A i \in 0..n : g[i] = IF i < k THEN <<>> ELSE Cut(U[i], b, Least(Len(U[i]), e))
  BY SMTT(40)
<1>12. ASSUME NEW i \in 0..n, ~(i < k)
       PROVE  /\ i \in 1..n /\ i - 1 \in 0..n
              /\ g[i] = More(g[i - 1], i)
  <2>1. i \in 1..n /\ i - 1 \in 0..n /\ k \in Nat /\ i >= k
    BY <1>12, <1>5, <1>2
  <2>2. /\ U[i] = U[i - 1] \o data[segs[i]] /\ U[i - 1] \in Seq(Nat) /\ data[segs[i]] \in Seq(Nat)
        /\ Len(U[i - 1]) \in Nat /\ Len(data[segs[i]]) \in Nat
        /\ Len(U[i]) = Len(U[i - 1]) + Len(data[segs[i]])
    BY <2>1, <1>6, <1>7
  <2>3. g[i] = Cut(U[i], b, Least(Len(U[i]), e))
    BY <1>11, <1>12
  <2>4. CASE i = k
    <3>1. g[i - 1] = <<>>
      BY <2>1, <2>4, <1>11
    <3>2. B(i) = Cut(data[segs[i]], p, Len(data[segs[i]])) /\ p < Len(data[segs[i]])
          /\ Len(U[i - 1]) + p = b /\ p \in Nat
      BY <2>4, <1>5, <1>8
    <3> DEFINE u == U[i - 1]
               s == data[segs[i]]
               f == Cut(s, p, Len(s))
    <3>3. u \in Seq(Nat) /\ s \in Seq(Nat) /\ p < Len(s) /\ p \in Nat
          /\ Len(u) + p = b /\ B(i) = f /\ U[i] = u \o s /\ e = b + len
      BY <2>2, <3>2, <1>9
    <3> HIDE DEF u, s, B
    <3>4. <<>> \o SubSeq(f, 1, IF Len(f) < len - Len(<<>>) THEN Len(f) ELSE len - Len(<<>>))
          = Cut(u \o s, Len(u) + p, Least(Len(u \o s), (Len(u) + p) + len))
      BY <3>3, CopyStart, ZenonT(40)
    <3> HIDE DEF g, f
    <3>5. More(g[i - 1], i) = <<>> \o SubSeq(f, 1, IF Len(f) < len - Len(<<>>) THEN Len(f) ELSE len - Len(<<>>))
      BY <3>1, <3>3
    <3> QED BY <2>1, <2>3, <3>3, <3>4, <3>5
  <2>5. CASE i # k
    <3>1. ~(i - 1 < k) /\ b <= Len(U[i - 1])
      <4>1. i - 1 >= k
        BY <2>1, <2>5
      <4>2. b < Len(U[i - 1])
        BY <4>1, <2>1, <1>10
      <4> QED BY <4>1, <4>2, <2>1, <2>2, <1>9
    <3>2. g[i - 1] = Cut(U[i - 1], b, Least(Len(U[i - 1]), e))
      BY <3>1, <2>1, <1>11
    <3>3. B(i) = data[segs[i]]
      BY <2>5
    <3> HIDE DEF g, B
    <3> DEFINE done == Cut(U[i - 1], b, Least(Len(U[i - 1]), e))
               s == data[segs[i]]
    <3>a. U[i - 1] \in Seq(Nat) /\ s \in Seq(Nat) /\ b <= Len(U[i - 1]) /\ b <= e /\ b \in Nat /\ e \in Nat
      BY <3>1, <2>2, <1>9
    <3> HIDE DEF s
    <3>4. done \o SubSeq(s, 1, IF Len(s) < (e - b) - Len(done) THEN Len(s) ELSE (e - b) - Len(done))
          = Cut(U[i - 1] \o s, b, Least(Len(U[i - 1] \o s), e))
      BY <3>a, CopyMore, ZenonT(40)
    <3> HIDE DEF done
    <3>5. More(g[i - 1], i) = done \o SubSeq(s, 1, IF Len(s) < (e - b) - Len(done) THEN Len(s) ELSE (e - b) - Len(done))
      BY <3>2, <3>3, <1>9 DEF done, s
    <3> QED BY <3>4, <3>5, <2>1, <2>2, <2>3 DEF s
  <2> QED BY <2>4, <2>5
<1> HIDE DEF More
<1>13. g = [i \in 0..n |-> IF i < k THEN <<>> ELSE More(g[i - 1], i)]
  <2> HIDE DEF g
  <2>1. ASSUME NEW i \in 0..n PROVE g[i] = IF i < k THEN <<>> ELSE More(g[i - 1], i)
    BY <1>11, <1>12
  <2>2. g = [i \in 0..n |-> g[i]]
    BY DEF g
  <2> QED BY <2>1, <2>2
<1>14. F = [i \in 0..n |-> IF i < k THEN <<>> ELSE More(F[i - 1], i)]
  <2> HIDE DEF g
  <2> QED BY <1>13, Zenon
<1> HIDE DEF F, g
<1>15. ASSUME NEW i \in 0..n PROVE F[i] = IF i < k THEN <<>> ELSE More(F[i - 1], i)
  BY <1>14
<1>16. \A i \in 0..n : F[i] = g[i]
  <2> DEFINE T == {i \in 0..n : F[i] # g[i]}
  <2>1. SUFFICES ASSUME T # {} PROVE FALSE
    OBVIOUS
  <2>2. T \subseteq Nat
    BY <1>2
  <2>3. PICK x \in T : \A y \in T : x <= y
    BY <2>1, <2>2, LeastNumber
  <2>4. x \in 0..n /\ F[x] # g[x]
    BY <2>3
  <2>5. ~(x < k)
    BY <2>4, <1>11, <1>15
  <2>6. x \in 1..n /\ x - 1 \in 0..n /\ g[x] = More(g[x - 1], x)
    BY <2>4, <2>5, <1>12
  <2>7. x - 1 \notin T
    <3> HIDE DEF T
    <3> QED BY <2>3, <2>6
  <2>8. F[x - 1] = g[x - 1]
    BY <2>6, <2>7
  <2>9. F[x] = More(F[x - 1], x)
    BY <2>4, <2>5, <1>15
  <2> QED BY <2>4, <2>6, <2>8, <2>9
<1>17. F[n] = Cut(all, b, e)
  <2>1. n \in 0..n /\ ~(n < k)
    BY <1>2, <1>5
  <2>2. Least(Len(U[n]), e) = e
    BY <1>3, <1>6, <1>9 DEF Least
  <2> QED BY <2>1, <2>2, <1>6, <1>11, <1>16
<1>18. Cut(BC!Content(c), offset, offset + len) = Cut(all, co + offset, co + (offset + len))
  <2>1. /\ Len(all) <= Len(all) /\ offset + len \in Nat /\ offset <= offset + len
        /\ offset + len <= Len(all) - co
    BY <1>3
  <2>2. Cut(Cut(all, co, Len(all)), offset, offset + len) = Cut(all, co + offset, co + (offset + len))
    BY <1>3, <2>1, CutTwice
  <2> QED BY <2>2, <1>3
<1>19. b = co + offset /\ e = co + (offset + len)
  BY <1>3 DEF b, e
<1> QED BY <1>1, <1>17, <1>18, <1>19

-----------------------------------------------------------------------------
(***************************************************************************)
(* The members of a sequence.                                              *)
(***************************************************************************)
In(s) == {s[i] : i \in 1..Len(s)}
Distinct(s) == \A i, j \in 1..Len(s) : s[i] = s[j] => i = j
Apart(X, Y) == X \cap Y = {}

LEMMA InTyped ==
    ASSUME NEW S, NEW s \in Seq(S)
    PROVE  In(s) \subseteq S
  BY ElementOfSeq DEF In

LEMMA InIsToSet ==
    ASSUME NEW S, NEW s \in Seq(S)
    PROVE  BC!ToSet(s) = In(s)
  BY LenProperties DEF BC!ToSet, In

LEMMA InEmpty == In(<<>>) = {} /\ Distinct(<<>>)
  BY EmptySeq DEF In, Distinct

LEMMA InConcat ==
    ASSUME NEW S, NEW s \in Seq(S), NEW t \in Seq(S)
    PROVE  /\ In(s \o t) = In(s) \cup In(t)
           /\ Distinct(s) /\ Distinct(t) /\ Apart(In(s), In(t)) => Distinct(s \o t)
<1> DEFINE w == s \o t
<1>0. Len(s) \in Nat /\ Len(t) \in Nat
  BY LenProperties
<1>1. /\ w \in Seq(S) /\ Len(w) = Len(s) + Len(t)
      /\ \A i \in 1..(Len(s) + Len(t)) : w[i] = IF i <= Len(s) THEN s[i] ELSE t[i - Len(s)]
  BY ConcatProperties
<1> HIDE DEF w
<1>2. \A i \in 1..Len(w) : \/ i \in 1..Len(s) /\ w[i] = s[i]
                           \/ i - Len(s) \in 1..Len(t) /\ ~(i <= Len(s)) /\ w[i] = t[i - Len(s)]
  BY <1>0, <1>1
<1>3. In(w) \subseteq In(s) \cup In(t)
  BY <1>2 DEF In
<1>4. \A i \in 1..Len(s) : i \in 1..Len(w) /\ w[i] = s[i]
  BY <1>0, <1>1
<1>5. ASSUME NEW i \in 1..Len(t) PROVE Len(s) + i \in 1..Len(w) /\ w[Len(s) + i] = t[i]
  <2>1. Len(s) + i \in 1..Len(w) /\ ~(Len(s) + i <= Len(s)) /\ (Len(s) + i) - Len(s) = i
    BY <1>0, <1>1
  <2> QED BY <2>1, <1>1
<1>6. In(s) \cup In(t) \subseteq In(w)
  BY <1>4, <1>5 DEF In
<1>7. ASSUME Distinct(s), Distinct(t), Apart(In(s), In(t)),
             NEW i \in 1..Len(w), NEW j \in 1..Len(w), w[i] = w[j]
      PROVE  i = j
  <2>1. CASE i \in 1..Len(s) /\ j \in 1..Len(s)
    BY <2>1, <1>4, <1>7 DEF Distinct
  <2>2. CASE ~(i <= Len(s)) /\ ~(j <= Len(s))
    <3>1. i - Len(s) = j - Len(s)
      BY <2>2, <1>0, <1>2, <1>7 DEF Distinct
    <3> QED BY <3>1, <1>0, <1>1
  <2>3. ASSUME NEW a \in 1..Len(s), NEW b \in 1..Len(t), s[a] = t[b] PROVE FALSE
    BY <2>3, <1>7 DEF In, Apart
  <2> QED BY <2>1, <2>2, <2>3, <1>2, <1>7
<1> QED BY <1>3, <1>6, <1>7 DEF w, Distinct

LEMMA InCut ==
    ASSUME NEW S, NEW s \in Seq(S), NEW k \in 0..Len(s)
    PROVE  /\ s = Cut(s, 0, k) \o Cut(s, k, Len(s))
           /\ Cut(s, 0, k) \in Seq(S) /\ Len(Cut(s, 0, k)) = k
           /\ Cut(s, k, Len(s)) \in Seq(S) /\ Len(Cut(s, k, Len(s))) = Len(s) - k
           /\ \A i \in 1..k : Cut(s, 0, k)[i] = s[i]
           /\ \A i \in 1..(Len(s) - k) : Cut(s, k, Len(s))[i] = s[k + i]
           /\ In(Cut(s, 0, k)) \subseteq In(s) /\ In(Cut(s, k, Len(s))) \subseteq In(s)
           /\ Distinct(s) => /\ Distinct(Cut(s, 0, k)) /\ Distinct(Cut(s, k, Len(s)))
                             /\ Apart(In(Cut(s, 0, k)), In(Cut(s, k, Len(s))))
<1> DEFINE n == Len(s)
           x == Cut(s, 0, k)
           y == Cut(s, k, n)
<1>1. n \in Nat /\ k \in Nat /\ 0 \in Nat /\ 0 <= k /\ k <= n /\ n <= n /\ k - 0 = k
  BY LenProperties
<1>2. x \in Seq(S) /\ Len(x) = k - 0 /\ \A i \in 1..(k - 0) : x[i] = s[0 + i]
  BY <1>1, CutTyped, ZenonT(40)
<1>3. y \in Seq(S) /\ Len(y) = n - k /\ \A i \in 1..(n - k) : y[i] = s[k + i]
  BY <1>1, CutTyped, ZenonT(40)
<1>4. s = x \o y
  <2>1. 1 \in 1..(n + 1) /\ k \in (1 - 1)..n /\ n \in k..n
    BY <1>1
  <2>2. SubSeq(s, 1, k) \o SubSeq(s, k + 1, n) = SubSeq(s, 1, n)
    BY <2>1, ConcatAdjacentSubSeq, Zenon
  <2>3. SubSeq(s, 1, n) = s
    BY SubSeqFull
  <2>4. 0 + 1 = 1
    OBVIOUS
  <2> QED BY <2>2, <2>3, <2>4, Zenon DEF Cut
<1> HIDE DEF x, y
<1>5. Len(x) = k /\ \A i \in 1..k : i \in 1..n /\ x[i] = s[i]
  BY <1>1, <1>2
<1>6. \A i \in 1..(n - k) : k + i \in 1..n /\ y[i] = s[k + i]
  BY <1>1, <1>3
<1>7. In(x) \subseteq In(s) /\ In(y) \subseteq In(s)
  <2>1. \A i \in 1..k : x[i] \in In(s)
    BY <1>5 DEF In
  <2>2. \A i \in 1..(n - k) : y[i] \in In(s)
    BY <1>6 DEF In
  <2> QED BY <2>1, <2>2, <1>3, <1>5 DEF In
<1>8. ASSUME Distinct(s) PROVE Distinct(x) /\ Distinct(y) /\ Apart(In(x), In(y))
  <2>1. Distinct(x)
    BY <1>5, <1>8 DEF Distinct
  <2>2. ASSUME NEW i \in 1..(n - k), NEW j \in 1..(n - k), y[i] = y[j] PROVE i = j
    <3>1. k + i = k + j
      BY <1>6, <1>8, <2>2 DEF Distinct
    <3> QED BY <3>1, <1>1
  <2>3. ASSUME NEW i \in 1..k, NEW j \in 1..(n - k), x[i] = y[j] PROVE FALSE
    <3>1. i = k + j
      BY <1>5, <1>6, <1>8, <2>3 DEF Distinct
    <3> QED BY <3>1, <1>1
  <2>4. Distinct(y)
    BY <2>2, <1>3 DEF Distinct
  <2>5. Apart(In(x), In(y))
    <3>1. SUFFICES ASSUME NEW e \in In(x), e \in In(y) PROVE FALSE
      BY Zenon DEF Apart
    <3>2. PICK i \in 1..k : x[i] = e
      BY <1>5 DEF In
    <3>3. PICK j \in 1..(n - k) : y[j] = e
      BY <3>1, <1>3 DEF In
    <3> QED BY <3>2, <3>3, <2>3
  <2> QED BY <2>1, <2>4, <2>5
<1> QED BY <1>3, <1>4, <1>2, <1>5, <1>6, <1>7, <1>8 DEF x, y

-----------------------------------------------------------------------------
(***************************************************************************)
(* What a chain holds, and what is done to it.                             *)
(***************************************************************************)
Bytes(d, r) == Cut(All(d, r.segments), r.consumed_offset, Len(All(d, r.segments)))

LEMMA AllSame ==
    ASSUME NEW d \in Contents, NEW e \in Contents, NEW segs \in Seq(Segments),
           \A s \in In(segs) : d[s] = e[s]
    PROVE  Joined(d, segs) = Joined(e, segs) /\ All(d, segs) = All(e, segs)
<1>1. \A i \in 1..Len(segs) : d[segs[i]] = e[segs[i]]
  BY DEF In
<1>2. Joined(d, segs) = Joined(e, segs)
  BY <1>1 DEF Joined
<1> QED BY <1>2 DEF All

LEMMA AllConcat ==
    ASSUME NEW d \in Contents, NEW s \in Seq(Segments), NEW t \in Seq(Segments)
    PROVE  All(d, s \o t) = All(d, s) \o All(d, t)
<1> DEFINE w == s \o t
           x == Joined(d, s)
           y == Joined(d, t)
           z == Joined(d, w)
<1>0. Len(s) \in Nat /\ Len(t) \in Nat
  BY LenProperties
<1>1. /\ w \in Seq(Segments) /\ Len(w) = Len(s) + Len(t)
      /\ \A i \in 1..(Len(s) + Len(t)) : w[i] = IF i <= Len(s) THEN s[i] ELSE t[i - Len(s)]
  BY ConcatProperties
<1> HIDE DEF w
<1>2. x \in Seq(Seq(Nat)) /\ Len(x) = Len(s) /\ \A i \in 1..Len(s) : x[i] = d[s[i]]
  BY JoinedTyped
<1>3. y \in Seq(Seq(Nat)) /\ Len(y) = Len(t) /\ \A i \in 1..Len(t) : y[i] = d[t[i]]
  BY JoinedTyped
<1>4. z \in Seq(Seq(Nat)) /\ Len(z) = Len(w) /\ \A i \in 1..Len(w) : z[i] = d[w[i]]
  BY <1>1, JoinedTyped
<1> DEFINE v == x \o y
<1>a. All(d, s) = BC!FlattenSeq(x) /\ All(d, t) = BC!FlattenSeq(y) /\ All(d, w) = BC!FlattenSeq(z)
  BY DEF All
<1> HIDE DEF x, y, z
<1>5. /\ v \in Seq(Seq(Nat)) /\ Len(v) = Len(x) + Len(y)
      /\ \A i \in 1..(Len(x) + Len(y)) : v[i] = IF i <= Len(x) THEN x[i] ELSE y[i - Len(x)]
  BY <1>2, <1>3, ConcatProperties, ZenonT(40)
<1> HIDE DEF v
<1>6. ASSUME NEW i \in 1..Len(z) PROVE z[i] = v[i]
  <2>1. i \in 1..(Len(s) + Len(t)) /\ (~(i <= Len(s)) => i - Len(s) \in 1..Len(t))
        /\ (i <= Len(s) => i \in 1..Len(s))
    BY <1>0, <1>1, <1>4
  <2>2. z[i] = d[w[i]]
    BY <1>4
  <2>3. CASE i <= Len(s)
    BY <2>1, <2>2, <2>3, <1>1, <1>2, <1>3, <1>5
  <2>4. CASE ~(i <= Len(s))
    <3>1. w[i] = t[i - Len(s)] /\ v[i] = y[i - Len(s)]
      BY <2>1, <2>4, <1>1, <1>2, <1>3, <1>5
    <3> QED BY <3>1, <2>1, <2>2, <2>4, <1>3
  <2> QED BY <2>3, <2>4
<1>7. Len(z) = Len(v)
  BY <1>1, <1>2, <1>3, <1>4, <1>5
<1>8. z = v
  BY <1>4, <1>5, <1>6, <1>7, SeqEqual
<1>9. BC!FlattenSeq(x \o y) = BC!FlattenSeq(x) \o BC!FlattenSeq(y)
  BY <1>2, <1>3, JoinOfConcat
<1> QED BY <1>a, <1>8, <1>9 DEF v, w

LEMMA AllEmpty ==
    ASSUME NEW d \in Contents
    PROVE  All(d, <<>>) = <<>> /\ Len(All(d, <<>>)) = 0
<1>1. <<>> \in Seq(Segments) /\ Len(<<>>) = 0
  BY EmptySeq
<1>2. Len(Upto(Joined(d, <<>>))[0]) = 0 /\ Len(Upto(Joined(d, <<>>))[Len(<<>>)]) = Len(All(d, <<>>))
  BY <1>1, Lengths
<1>3. All(d, <<>>) \in Seq(Nat)
  BY <1>1, JoinedTyped
<1> QED BY <1>1, <1>2, <1>3, EmptySeq

LEMMA AllOne ==
    ASSUME NEW d \in Contents, NEW s \in Segments
    PROVE  All(d, <<s>>) = d[s]
<1>1. <<s>> \in Seq(Segments) /\ Len(<<s>>) = 1 /\ <<s>>[1] = s
  OBVIOUS
<1>2. d[s] \in Seq(Nat)
  BY DEF Contents
<1>3. Joined(d, <<s>>) = <<d[s]>>
  <2>1. Joined(d, <<s>>) \in Seq(Seq(Nat)) /\ Len(Joined(d, <<s>>)) = 1
        /\ Joined(d, <<s>>)[1] = d[s]
    <3> DEFINE one == <<s>>
    <3>1. one \in Seq(Segments) /\ Len(one) = 1 /\ one[1] = s /\ 1 \in 1..1
      BY <1>1
    <3> HIDE DEF one
    <3>2. Joined(d, one) \in Seq(Seq(Nat)) /\ Len(Joined(d, one)) = 1
          /\ Joined(d, one)[1] = d[s]
      BY <3>1, JoinedTyped
    <3> QED BY <3>2 DEF one
  <2>2. <<d[s]>> \in Seq(Seq(Nat)) /\ Len(<<d[s]>>) = 1 /\ <<d[s]>>[1] = d[s]
    BY <1>2
  <2> QED BY <2>1, <2>2, SeqEqual
<1> QED BY <1>2, <1>3, JoinOne DEF All

LEMMA ContentBytes ==
    ASSUME NEW c \in Chains, chain[c].segments \in Seq(Segments)
    PROVE  BC!Content(c) = Bytes(data, chain[c])
<1>1. DOMAIN chain[c].segments = 1..Len(chain[c].segments)
  BY LenProperties
<1> QED BY <1>1 DEF BC!Content, Cut, All, Joined, Bytes

LEMMA ContentBytesAfter ==
    ASSUME NEW c \in Chains, chain'[c].segments \in Seq(Segments)
    PROVE  BC!Content(c)' = Bytes(data', chain'[c])
<1>1. DOMAIN chain'[c].segments = 1..Len(chain'[c].segments)
  BY LenProperties
<1> QED BY <1>1 DEF BC!Content, Cut, All, Joined, Bytes

\* A chain holds what it held when nothing is written to its segments.
LEMMA BytesSame ==
    ASSUME NEW d \in Contents, NEW e \in Contents, NEW r \in ChainRecord,
           \A s \in In(r.segments) : d[s] = e[s]
    PROVE  /\ Bytes(e, r) = Bytes(d, r)
           /\ ChainOK(d, r) => ChainOK(e, r)
<1>1. r.segments \in Seq(Segments)
  BY DEF ChainRecord
<1>2. All(e, r.segments) = All(d, r.segments)
  BY <1>1, AllSame
<1>3. \A i \in 1..Len(r.segments) : d[r.segments[i]] = e[r.segments[i]]
  BY DEF In
<1>4. r.segments # <<>> => 1 \in 1..Len(r.segments)
  BY <1>1, EmptySeq, LenProperties
<1> QED BY <1>2, <1>3, <1>4 DEF Bytes, ChainOK

\* What the first k segments reach, and what the rest holds.
LEMMA AllSplit ==
    ASSUME NEW d \in Contents, NEW segs \in Seq(Segments), NEW k \in 0..Len(segs)
    PROVE  All(d, segs) = Upto(Joined(d, segs))[k] \o All(d, Cut(segs, k, Len(segs)))
<1> DEFINE n == Len(segs)
           y == Cut(segs, k, n)
           w == Joined(d, segs)
           z == Cut(w, k, n)
           v == Joined(d, y)
<1>1. n \in Nat /\ k \in Nat /\ k <= n /\ n <= n
  BY LenProperties
<1>2. y \in Seq(Segments) /\ Len(y) = n - k /\ \A i \in 1..(n - k) : y[i] = segs[k + i]
  BY InCut
<1> HIDE DEF y
<1>3. w \in Seq(Seq(Nat)) /\ Len(w) = n /\ \A i \in 1..n : w[i] = d[segs[i]]
  BY JoinedTyped
<1>4. v \in Seq(Seq(Nat)) /\ Len(v) = Len(y) /\ \A i \in 1..Len(y) : v[i] = d[y[i]]
  BY <1>2, JoinedTyped
<1>a. All(d, segs) = BC!FlattenSeq(w) /\ All(d, y) = BC!FlattenSeq(v)
  BY DEF All
<1> HIDE DEF w, v
<1>5. z \in Seq(Seq(Nat)) /\ Len(z) = n - k /\ \A i \in 1..(n - k) : z[i] = w[k + i]
  <2>1. w \in Seq(Seq(Nat)) /\ n <= Len(w) /\ k \in Nat /\ n \in Nat /\ k <= n
    BY <1>1, <1>3
  <2> QED BY <2>1, CutTyped, ZenonT(40)
<1>6. BC!FlattenSeq(w) = Upto(w)[k] \o BC!FlattenSeq(z)
  BY <1>1, <1>3, JoinSplit
<1> HIDE DEF z
<1>7. ASSUME NEW i \in 1..Len(z) PROVE z[i] = v[i]
  <2>1. i \in 1..(n - k) /\ k + i \in 1..n
    BY <1>1, <1>5
  <2> QED BY <2>1, <1>2, <1>3, <1>4, <1>5, ZenonT(40)
<1>8. z = v
  <2>1. z \in Seq(Seq(Nat)) /\ v \in Seq(Seq(Nat)) /\ Len(z) = Len(v)
    BY <1>2, <1>4, <1>5
  <2> QED BY <2>1, <1>7, SeqEqual, Zenon
<1> QED BY <1>a, <1>6, <1>8 DEF w, y

\* Consuming n bytes: the first k segments go, and a part of the next.
LEMMA Shed ==
    ASSUME NEW d \in Contents, NEW r \in ChainRecord, ChainOK(d, r), NEW q \in ChainRecord,
           NEW k \in 0..Len(r.segments), NEW n \in Nat, n <= r.total_size,
           q.segments = Cut(r.segments, k, Len(r.segments)),
           q.total_size = r.total_size - n,
           Len(Upto(Joined(d, r.segments))[k]) + q.consumed_offset = r.consumed_offset + n,
           k < Len(r.segments) => q.consumed_offset < Len(d[r.segments[k + 1]]),
           k = Len(r.segments) => q.consumed_offset = 0
    PROVE  /\ ChainOK(d, q)
           /\ Bytes(d, q) = Cut(Bytes(d, r), n, Len(Bytes(d, r)))
<1> DEFINE segs == r.segments
           m == Len(segs)
           rest == q.segments
           co == r.consumed_offset
           coq == q.consumed_offset
           front == Upto(Joined(d, segs))[k]
           all == All(d, segs)
           behind == All(d, rest)
<1>1. /\ segs \in Seq(Segments) /\ m \in Nat /\ co \in Nat /\ coq \in Nat /\ r.total_size \in Nat
      /\ rest \in Seq(Segments) /\ q.total_size \in Nat
  BY LenProperties DEF ChainRecord
<1>2. Len(rest) = m - k /\ \A i \in 1..(m - k) : rest[i] = segs[k + i]
  <2>1. rest = Cut(segs, k, m) /\ segs \in Seq(Segments) /\ k \in 0..m
    BY <1>1
  <2>2. Len(Cut(segs, k, m)) = m - k /\ \A i \in 1..(m - k) : Cut(segs, k, m)[i] = segs[k + i]
    BY <2>1, InCut, ZenonT(40)
  <2> QED BY <2>1, <2>2
<1>3. all = front \o behind
  BY <1>1, AllSplit
<1>4. front \in Seq(Nat) /\ Len(front) \in Nat
  BY <1>1, Lengths
<1>5. behind \in Seq(Nat) /\ all \in Seq(Nat) /\ Len(behind) \in Nat /\ Len(all) \in Nat
  BY <1>1, JoinedTyped
<1>6. /\ \A i \in 1..m : d[segs[i]] # <<>>
      /\ r.total_size = Len(all) - co
  BY DEF ChainOK
<1>7. Len(front) + coq = co + n
  OBVIOUS
<1>8. Bytes(d, r) = Cut(all, co, Len(all)) /\ Bytes(d, q) = Cut(behind, coq, Len(behind))
  BY DEF Bytes
<1>a. /\ n <= r.total_size /\ q.total_size = r.total_size - n
      /\ k < m => coq < Len(d[segs[k + 1]])
      /\ k = m => coq = 0
      /\ k \in 0..m
  OBVIOUS
<1>b. ChainOK(d, q) <=> /\ \A i \in 1..Len(rest) : d[rest[i]] # <<>>
                        /\ rest = <<>> => coq = 0
                        /\ rest # <<>> => coq < Len(d[rest[1]])
                        /\ q.total_size = Len(behind) - coq
  BY DEF ChainOK
<1> HIDE DEF segs, m, rest, co, coq, front, all, behind
<1>9. Len(all) = Len(front) + Len(behind)
  BY <1>3, <1>4, <1>5, ConcatProperties
<1> DEFINE p == Len(front)
           t == Len(behind)
<1>10. /\ p \in Nat /\ t \in Nat /\ Len(all) = p + t /\ p + coq = co + n /\ co \in Nat /\ coq \in Nat
       /\ n \in Nat /\ n <= (p + t) - co /\ q.total_size = ((p + t) - co) - n
  BY <1>1, <1>4, <1>5, <1>6, <1>7, <1>9, <1>a
<1> HIDE DEF p, t
<1>11. coq <= t /\ q.total_size = t - coq /\ co <= p + t
  BY <1>10
<1>12. ChainOK(d, q)
  <2>1. \A i \in 1..Len(rest) : d[rest[i]] # <<>>
    <3>1. ASSUME NEW i \in 1..(m - k) PROVE d[rest[i]] # <<>>
      <4>1. k + i \in 1..m
        BY <1>1, <1>a
      <4> QED BY <4>1, <1>2, <1>6
    <3> QED BY <3>1, <1>2
  <2>2. rest = <<>> => coq = 0
    BY <1>1, <1>2, <1>a, EmptySeq
  <2>3. rest # <<>> => coq < Len(d[rest[1]])
    <3>1. ASSUME rest # <<>> PROVE 1 \in 1..(m - k) /\ k < m
      <4>1. Len(rest) # 0 /\ Len(rest) \in Nat
        BY <1>1, <3>1, EmptySeq, LenProperties
      <4> QED BY <4>1, <1>1, <1>2, <1>a
    <3> QED BY <3>1, <1>2, <1>a
  <2> QED BY <2>1, <2>2, <2>3, <1>11, <1>b DEF t
<1>13. Cut(behind, coq, t) = Cut(all, p + coq, p + t)
  <2>1. coq \in Nat /\ t \in Nat /\ coq <= t /\ t <= Len(behind)
    BY <1>10, <1>11 DEF t
  <2>2. Cut(front \o behind, Len(front) + coq, Len(front) + t) = Cut(behind, coq, t)
    BY <2>1, <1>4, <1>5, CutSecond
  <2> QED BY <2>2, <1>3 DEF p
<1> DEFINE s == (p + t) - co
<1>14. s \in Nat /\ n <= s /\ co + n = p + coq /\ co + s = p + t
  BY <1>10
<1>15. Len(Bytes(d, r)) = s
  <2>1. co \in Nat /\ p + t \in Nat /\ co <= p + t /\ p + t <= Len(all)
    BY <1>10, <1>11
  <2>2. Len(Cut(all, co, p + t)) = (p + t) - co
    BY <2>1, <1>5, CutBytes
  <2> QED BY <2>2, <1>8, <1>10
<1>16. Cut(Cut(all, co, p + t), n, s) = Cut(all, co + n, co + s)
  <2>1. /\ co \in Nat /\ p + t \in Nat /\ co <= p + t /\ p + t <= Len(all)
        /\ n \in Nat /\ s \in Nat /\ n <= s /\ s <= (p + t) - co
    BY <1>10, <1>11, <1>14
  <2> HIDE DEF s
  <2> QED BY <2>1, <1>5, CutTwice
<1>17. Bytes(d, q) = Cut(Bytes(d, r), n, Len(Bytes(d, r)))
  <2> HIDE DEF s
  <2>1. Bytes(d, q) = Cut(behind, coq, t)
    BY <1>8 DEF t
  <2>2. Bytes(d, r) = Cut(all, co, p + t)
    BY <1>8, <1>10
  <2> QED BY <2>1, <2>2, <1>13, <1>14, <1>15, <1>16
<1> QED BY <1>12, <1>17

\* Segments t are put behind those of a chain.
LEMMA Extended ==
    ASSUME NEW d \in Contents, NEW r \in ChainRecord, ChainOK(d, r), NEW q \in ChainRecord,
           NEW t \in Seq(Segments), \A i \in 1..Len(t) : d[t[i]] # <<>>,
           q.segments = r.segments \o t, q.consumed_offset = r.consumed_offset,
           q.total_size = r.total_size + Len(All(d, t))
    PROVE  /\ ChainOK(d, q)
           /\ Bytes(d, q) = Bytes(d, r) \o All(d, t)
           /\ Len(Bytes(d, r)) = r.total_size /\ Bytes(d, r) \in Seq(Nat)
<1> DEFINE segs == r.segments
           m == Len(segs)
           w == q.segments
           co == r.consumed_offset
           all == All(d, segs)
           more == All(d, t)
           both == All(d, w)
           a == Len(all)
           b == Len(more)
<1>1. /\ segs \in Seq(Segments) /\ co \in Nat /\ r.total_size \in Nat
      /\ w \in Seq(Segments) /\ q.total_size \in Nat
  BY DEF ChainRecord
<1>2. m \in Nat /\ Len(t) \in Nat
  BY <1>1, LenProperties
<1>3. /\ Len(segs \o t) = m + Len(t)
      /\ \A i \in 1..(m + Len(t)) : (segs \o t)[i] = IF i <= m THEN segs[i] ELSE t[i - m]
  BY <1>1, ConcatProperties
<1>4. w = segs \o t
  OBVIOUS
<1>5. all \in Seq(Nat) /\ more \in Seq(Nat) /\ a \in Nat /\ b \in Nat
  BY <1>1, JoinedTyped
<1>6. both = all \o more
  BY <1>1, AllConcat, ZenonT(40)
<1>7. /\ \A i \in 1..m : d[segs[i]] # <<>>
      /\ segs = <<>> => co = 0
      /\ segs # <<>> => co < Len(d[segs[1]])
      /\ r.total_size = a - co
  BY DEF ChainOK
<1>8. q.consumed_offset = co /\ q.total_size = r.total_size + b
  OBVIOUS
<1>9. Bytes(d, r) = Cut(all, co, a) /\ Bytes(d, q) = Cut(both, co, Len(both))
  BY DEF Bytes
<1>b. ChainOK(d, q) <=> /\ \A i \in 1..Len(w) : d[w[i]] # <<>>
                        /\ w = <<>> => co = 0
                        /\ w # <<>> => co < Len(d[w[1]])
                        /\ q.total_size = Len(both) - co
  BY DEF ChainOK
<1>c. \A i \in 1..Len(t) : d[t[i]] # <<>> /\ Len(d[t[i]]) \in Nat /\ Len(d[t[i]]) # 0
  <2>1. \A i \in 1..Len(t) : d[t[i]] \in Seq(Nat)
    BY JoinedTyped
  <2> QED BY <2>1, EmptySeq, LenProperties
<1> HIDE DEF segs, m, w, co, all, more, both, a, b
<1>10. Len(both) = a + b
  BY <1>5, <1>6, ConcatProperties DEF a, b
<1>11. Len(w) = m + Len(t) /\ \A i \in 1..(m + Len(t)) : w[i] = IF i <= m THEN segs[i] ELSE t[i - m]
  BY <1>3, <1>4
<1>12. co <= a
  BY <1>1, <1>5, <1>7
<1> DEFINE T == q.total_size
           R == r.total_size
           B == Len(both)
<1>d. T = B - co
  <2>1. R = a - co /\ T = R + b /\ B = a + b /\ co \in Nat /\ a \in Nat /\ b \in Nat
    BY <1>1, <1>5, <1>7, <1>8, <1>10
  <2> HIDE DEF T, R, B
  <2> QED BY <2>1
<1>13. ChainOK(d, q)
  <2>1. ASSUME NEW i \in 1..Len(w) PROVE d[w[i]] # <<>>
    <3>1. i \in 1..(m + Len(t)) /\ (~(i <= m) => i - m \in 1..Len(t)) /\ (i <= m => i \in 1..m)
      BY <1>2, <1>11
    <3>2. CASE i <= m
      BY <3>1, <3>2, <1>7, <1>11
    <3>3. CASE ~(i <= m)
      BY <3>1, <3>3, <1>c, <1>11
    <3> QED BY <3>2, <3>3
  <2>2. CASE segs = <<>>
    <3>1. m = 0
      BY <2>2, EmptySeq DEF m
    <3>2. w # <<>> => 1 \in 1..Len(t) /\ w[1] = t[1]
      <4>1. ASSUME w # <<>> PROVE 1 \in 1..Len(t) /\ 1 \in 1..(m + Len(t)) /\ ~(1 <= m) /\ 1 - m = 1
        <5>1. Len(w) # 0 /\ Len(w) \in Nat
          BY <1>1, <4>1, EmptySeq, LenProperties
        <5> QED BY <5>1, <3>1, <1>2, <1>11
      <4> QED BY <4>1, <1>11
    <3>3. w # <<>> => co < Len(d[w[1]])
      <4>1. \A x \in Nat : x # 0 => 0 < x
        OBVIOUS
      <4> QED BY <4>1, <2>2, <3>2, <1>7, <1>c
    <3>4. q.total_size = Len(both) - co
      BY <1>d
    <3> QED BY <2>1, <2>2, <3>3, <3>4, <1>7, <1>b
  <2>3. CASE segs # <<>>
    <3>1. m # 0
      BY <1>1, <2>3, EmptySeq DEF m
    <3>2. 1 \in 1..(m + Len(t)) /\ 1 <= m
      BY <3>1, <1>2
    <3>3. w[1] = segs[1] /\ w # <<>>
      <4>1. Len(w) # 0
        BY <3>2, <1>2, <1>11
      <4> QED BY <4>1, <3>2, <1>11, EmptySeq
    <3>4. q.total_size = Len(both) - co
      BY <1>d
    <3> QED BY <2>1, <2>3, <3>3, <3>4, <1>7, <1>b
  <2> QED BY <2>2, <2>3
<1>14. Cut(both, co, a + b) = Cut(all, co, a) \o more
  <2>1. co \in Nat /\ b \in Nat /\ co <= Len(all) /\ b <= Len(more)
    BY <1>1, <1>5, <1>12 DEF a, b
  <2>2. Cut(all \o more, co, Len(all) + b) = Cut(all, co, Len(all)) \o Cut(more, 0, b)
    BY <2>1, <1>5, CutBoth
  <2>3. Cut(more, 0, b) = more
    BY <1>5, CutAll DEF b
  <2> QED BY <2>2, <2>3, <1>6 DEF a
<1>15. Bytes(d, r) \in Seq(Nat) /\ Len(Bytes(d, r)) = a - co
  <2>1. a <= Len(all)
    BY <1>5 DEF a
  <2>2. Cut(all, co, a) \in Seq(Nat) /\ Len(Cut(all, co, a)) = a - co
    BY <2>1, <1>1, <1>5, <1>12, CutBytes
  <2> QED BY <2>2, <1>9
<1> QED BY <1>7, <1>9, <1>10, <1>13, <1>14, <1>15 DEF more

\* An empty chain.
LEMMA Emptied ==
    ASSUME NEW d \in Contents, NEW q \in ChainRecord, q.segments = <<>>,
           q.consumed_offset = 0, q.total_size = 0
    PROVE  ChainOK(d, q) /\ Bytes(d, q) = <<>>
<1>1. All(d, <<>>) = <<>> /\ Len(All(d, <<>>)) = 0
  BY AllEmpty
<1>2. Len(q.segments) = 0
  BY EmptySeq
<1>3. ChainOK(d, q)
  BY <1>1, <1>2 DEF ChainOK
<1>4. <<>> \in Seq(Nat) /\ Len(<<>>) = 0
  BY EmptySeq
<1>6. Cut(<<>>, 0, 0) = <<>>
  BY <1>4, CutAll
<1>7. Bytes(d, q) = Cut(<<>>, 0, 0)
  BY <1>1 DEF Bytes
<1> QED BY <1>3, <1>6, <1>7

\* A chain that holds its bytes from the start of its segments on.
LEMMA WholeChain ==
    ASSUME NEW d \in Contents, NEW q \in ChainRecord, q.consumed_offset = 0,
           \A i \in 1..Len(q.segments) : d[q.segments[i]] # <<>>,
           q.total_size = Len(All(d, q.segments))
    PROVE  ChainOK(d, q) /\ Bytes(d, q) = All(d, q.segments)
<1>1. q.segments \in Seq(Segments)
  BY DEF ChainRecord
<1>2. All(d, q.segments) \in Seq(Nat) /\ Len(All(d, q.segments)) \in Nat
  BY <1>1, JoinedTyped
<1>3. q.segments # <<>> => 0 < Len(d[q.segments[1]])
  <2>1. q.segments # <<>> => 1 \in 1..Len(q.segments)
    BY <1>1, EmptySeq, LenProperties
  <2>2. q.segments # <<>> => d[q.segments[1]] \in Seq(Nat) /\ d[q.segments[1]] # <<>>
    BY <1>1, <2>1, JoinedTyped
  <2>3. \A s \in Seq(Nat) : s # <<>> => Len(s) \in Nat /\ Len(s) # 0
    BY EmptySeq, LenProperties
  <2>4. \A x \in Nat : x # 0 => 0 < x
    OBVIOUS
  <2> QED BY <2>2, <2>3, <2>4
<1>4. ChainOK(d, q)
  BY <1>2, <1>3 DEF ChainOK
<1>5. Bytes(d, q) = All(d, q.segments)
  BY <1>2, CutAll DEF Bytes
<1> QED BY <1>4, <1>5

-----------------------------------------------------------------------------
(***************************************************************************)
(* The free list and the segments taken from it and given back to it.      *)
(***************************************************************************)
\* A free list: no segment twice, none that a reader holds.
Free(f) == f \in Seq(Segments) /\ Distinct(f) /\ \A h \in held : h.segment \notin In(f)

LEMMA Released ==
    ASSUME NEW p, Free(p), NEW s \in Segments, s \notin In(p)
    PROVE  LET q == BC!Release(p, s)
           IN  Free(q) /\ In(q) \subseteq In(p) \cup {s}
<1>1. p \in Seq(Segments) /\ Distinct(p) /\ \A h \in held : h.segment \notin In(p)
  BY DEF Free
<1> DEFINE one == <<s>>
           q == BC!Release(p, s)
<1>2. one \in Seq(Segments) /\ In(one) = {s} /\ Distinct(one) /\ Apart(In(p), {s})
  <2>1. one \in Seq(Segments) /\ Len(one) = 1 /\ one[1] = s
    OBVIOUS
  <2> HIDE DEF one
  <2> QED BY <2>1 DEF In, Distinct, Apart
<1>3. Append(p, s) = p \o one
  BY <1>1
<1>4. /\ p \o one \in Seq(Segments) /\ In(p \o one) = In(p) \cup {s} /\ Distinct(p \o one)
  <2> HIDE DEF one
  <2>1. p \o one \in Seq(Segments)
    BY <1>1, <1>2, ConcatProperties
  <2>2. Apart(In(p), In(one))
    BY <1>2
  <2>3. In(p \o one) = In(p) \cup In(one) /\ Distinct(p \o one)
    BY <2>2, <1>1, <1>2, InConcat
  <2> QED BY <2>1, <2>3, <1>2
<1>5. q = p \/ (BC!Holders(s) = {} /\ q = p \o one)
  BY <1>3 DEF BC!Release
<1>6. CASE BC!Holders(s) = {} /\ q = p \o one
  <2>1. \A h \in held : h.segment # s
    BY <1>6 DEF BC!Holders
  <2> HIDE DEF q, one
  <2>2. Free(q)
    BY <2>1, <1>1, <1>4, <1>6 DEF Free
  <2> QED BY <2>2, <1>4, <1>6 DEF q
<1>7. CASE q = p
  BY <1>7
<1> QED BY <1>5, <1>6, <1>7

LEMMA RecycledFree ==
    ASSUME NEW c \in Chains, Free(free_list), NEW segs \in Seq(Segments), Distinct(segs),
           Apart(In(segs), In(free_list))
    PROVE  LET f == BC!Recycled(c, segs)
           IN  Free(f) /\ In(f) \subseteq In(free_list) \cup In(segs)
<1> DEFINE n == Len(segs)
           S == Seq(Segments)
           G == [i \in 1..n |-> [p \in S |-> BC!Release(p, segs[i])]]
           F == CHOOSE f : f = [i \in 0..n |-> IF i = 0 THEN free_list ELSE BC!Release(f[i - 1], segs[i])]
           Good(i) == Free(F[i]) /\ \A x \in In(F[i]) : x \in In(free_list) \/ \E j \in 1..i : x = segs[j]
<1>1. n \in Nat /\ free_list \in S /\ \A i \in 1..n : segs[i] \in Segments /\ segs[i] \in In(segs)
  <2>1. \A i \in 1..n : segs[i] \in Segments /\ segs[i] \in In(segs)
    BY ElementOfSeq DEF In
  <2> QED BY <2>1, LenProperties DEF Free
<1>2. G \in [1..n -> [S -> S]]
  <2>1. ASSUME NEW i \in 1..n, NEW p \in S PROVE BC!Release(p, segs[i]) \in S
    <3>1. segs[i] \in Segments
      BY <1>1
    <3>2. Append(p, segs[i]) \in S
      BY <3>1, AppendProperties
    <3> QED BY <3>2 DEF BC!Release
  <2> HIDE DEF S
  <2> QED BY <2>1
<1>3. PICK g \in Following(n, S, free_list, G) : TRUE
  BY <1>1, <1>2, RecursionExists, ZenonT(40)
<1>4. g \in [0..n -> S] /\ g[0] = free_list /\ \A i \in 1..n : g[i] = G[i][g[i - 1]]
  BY <1>3 DEF Following
<1>5. g = [i \in 0..n |-> IF i = 0 THEN free_list ELSE BC!Release(g[i - 1], segs[i])]
  <2>1. ASSUME NEW i \in 0..n
        PROVE  g[i] = IF i = 0 THEN free_list ELSE BC!Release(g[i - 1], segs[i])
    <3>1. CASE i = 0
      BY <3>1, <1>4
    <3>2. CASE i # 0
      <4>1. i \in 1..n /\ i - 1 \in 0..n
        BY <3>2, <1>1
      <4>2. g[i - 1] \in S
        BY <4>1, <1>4
      <4> HIDE DEF S
      <4> QED BY <4>1, <4>2, <3>2, <1>4
    <3> QED BY <3>1, <3>2
  <2>2. g = [i \in 0..n |-> g[i]]
    BY <1>4
  <2> QED BY <2>1, <2>2
<1>6. F = [i \in 0..n |-> IF i = 0 THEN free_list ELSE BC!Release(F[i - 1], segs[i])]
  BY <1>5, Zenon
<1>7. BC!Recycled(c, segs) = F[n] \/ BC!Recycled(c, segs) = free_list
  BY DEF BC!Recycled
<1> HIDE DEF F, G, S
<1>8. \A i \in 0..n : F[i] = IF i = 0 THEN free_list ELSE BC!Release(F[i - 1], segs[i])
  <2>1. ASSUME NEW i \in 0..n
        PROVE  F[i] = IF i = 0 THEN free_list ELSE BC!Release(F[i - 1], segs[i])
    BY <1>6
  <2> QED BY <2>1
<1>9. \A i \in 0..n : Good(i)
  <2> DEFINE T == {i \in 0..n : ~ Good(i)}
  <2>1. SUFFICES ASSUME T # {} PROVE FALSE
    OBVIOUS
  <2>2. T \subseteq Nat
    OBVIOUS
  <2> HIDE DEF Good
  <2>3. PICK x \in T : \A y \in T : x <= y
    BY <2>1, <2>2, LeastNumber
  <2>4. x \in 0..n /\ ~ Good(x)
    BY <2>3
  <2>5. x # 0
    <3>1. F[0] = free_list
      BY <1>1, <1>8
    <3>2. Good(0)
      BY <3>1 DEF Good
    <3> QED BY <3>2, <2>4
  <2>6. x \in 1..n /\ x - 1 \in 0..n /\ F[x] = BC!Release(F[x - 1], segs[x])
    BY <2>4, <2>5, <1>1, <1>8
  <2>7. Good(x - 1)
    <3>1. x - 1 \notin T
      <4> HIDE DEF T
      <4> QED BY <2>3, <2>6
    <3> QED BY <3>1, <2>6
  <2> DEFINE p == F[x - 1]
             s == segs[x]
  <2>8. Free(p) /\ \A y \in In(p) : y \in In(free_list) \/ \E j \in 1..(x - 1) : y = segs[j]
    BY <2>7 DEF Good
  <2>9. s \in Segments /\ s \notin In(p)
    <3>1. s \in Segments /\ s \notin In(free_list)
      BY <2>6, <1>1 DEF Apart
    <3>2. \A j \in 1..(x - 1) : j \in 1..n /\ j # x
      BY <2>6, <1>1
    <3>3. \A j \in 1..(x - 1) : s # segs[j]
      BY <3>2, <2>6 DEF Distinct
    <3> HIDE DEF p, s
    <3> QED BY <3>1, <3>3, <2>8
  <2> HIDE DEF p, s
  <2>10. Free(BC!Release(p, s)) /\ In(BC!Release(p, s)) \subseteq In(p) \cup {s}
    BY <2>8, <2>9, Released
  <2>11. \A j \in 1..(x - 1) : j \in 1..x
    BY <2>6
  <2>12. x \in 1..x
    BY <2>6
  <2>13. Good(x)
    <3>1. F[x] = BC!Release(p, s)
      BY <2>6 DEF p, s
    <3>2. ASSUME NEW y \in In(F[x]) PROVE y \in In(free_list) \/ \E j \in 1..x : y = segs[j]
      <4>1. y \in In(p) \/ y = segs[x]
        BY <3>1, <3>2, <2>10 DEF s
      <4> QED BY <4>1, <2>8, <2>11, <2>12
    <3> QED BY <3>1, <3>2, <2>10 DEF Good
  <2> QED BY <2>13, <2>4
<1>10. Free(F[n]) /\ In(F[n]) \subseteq In(free_list) \cup In(segs)
  <2>1. Good(n)
    BY <1>1, <1>9
  <2> QED BY <2>1, <1>1
<1> QED BY <1>7, <1>10

-----------------------------------------------------------------------------
(***************************************************************************)
(* The loop of Consume.                                                    *)
(***************************************************************************)
Turn(c, n) ==
    CHOOSE f : f = [i \in 0..Len(chain[c].segments) |->
        IF i = 0
        THEN [bytes |-> n, gone |-> 0, consumed_offset |-> chain[c].consumed_offset,
              total_size |-> chain[c].total_size]
        ELSE BC!ConsumeStep(f[i - 1], chain[c].segments[i])]

TurnRecord == [bytes : Int, gone : Int, consumed_offset : Int, total_size : Int]

LEMMA TurnTyped ==
    ASSUME NEW p \in TurnRecord, NEW s \in Segments, data \in Contents
    PROVE  LET q == BC!ConsumeStep(p, s)
               size == Len(data[s])
               available == size - p.consumed_offset
           IN  /\ q \in TurnRecord /\ size \in Nat
               /\ p.bytes = 0 => q = p
               /\ p.bytes > 0 /\ p.bytes >= available =>
                    /\ q.bytes = p.bytes - available /\ q.total_size = p.total_size - available
                    /\ q.consumed_offset = 0 /\ q.gone = p.gone + 1
               /\ p.bytes > 0 /\ ~(p.bytes >= available) =>
                    /\ q.bytes = 0 /\ q.total_size = p.total_size - p.bytes
                    /\ q.consumed_offset = p.consumed_offset + p.bytes /\ q.gone = p.gone
<1>1. data[s] \in Seq(Nat) /\ Len(data[s]) \in Nat
  <2>1. data[s] \in Seq(Nat)
    BY DEF Contents
  <2> QED BY <2>1, LenProperties
<1> DEFINE size == Len(data[s])
           available == size - p.consumed_offset
           q == BC!ConsumeStep(p, s)
<1>2. size \in Nat /\ available \in Int /\ BC!Size(s) - p.consumed_offset = available
  BY <1>1 DEF BC!Size, TurnRecord
<1>3. q = CASE p.bytes = 0 -> p
            [] p.bytes >= available /\ p.bytes > 0 ->
                  [p EXCEPT !.bytes = @ - available, !.total_size = @ - available,
                            !.consumed_offset = 0, !.gone = @ + 1]
            [] OTHER ->
                  [p EXCEPT !.bytes = 0, !.total_size = @ - p.bytes, !.consumed_offset = @ + p.bytes]
  BY <1>2 DEF BC!ConsumeStep
<1> HIDE DEF available, q
<1>a. p.bytes \in Int /\ p.gone \in Int /\ p.consumed_offset \in Int /\ p.total_size \in Int
  BY DEF TurnRecord
<1>4. CASE p.bytes = 0
  <2>1. q = p
    BY <1>3, <1>4
  <2> QED BY <2>1, <1>4, <1>2 DEF q, available
<1>5. CASE p.bytes # 0 /\ p.bytes > 0 /\ p.bytes >= available
  <2>1. q = [p EXCEPT !.bytes = @ - available, !.total_size = @ - available,
                      !.consumed_offset = 0, !.gone = @ + 1]
    BY <1>3, <1>5
  <2>2. q \in TurnRecord /\ q.bytes = p.bytes - available /\ q.total_size = p.total_size - available
        /\ q.consumed_offset = 0 /\ q.gone = p.gone + 1
    <3>1. q = [bytes |-> p.bytes - available, gone |-> p.gone + 1, consumed_offset |-> 0,
               total_size |-> p.total_size - available]
      BY <2>1, <1>a DEF TurnRecord
    <3> QED BY <3>1, <1>2, <1>a DEF TurnRecord
  <2> QED BY <2>2, <1>5, <1>2 DEF q, available
<1>6. CASE p.bytes # 0 /\ ~(p.bytes > 0 /\ p.bytes >= available)
  <2>1. q = [p EXCEPT !.bytes = 0, !.total_size = @ - p.bytes, !.consumed_offset = @ + p.bytes]
    BY <1>3, <1>6
  <2>2. q \in TurnRecord /\ q.bytes = 0 /\ q.total_size = p.total_size - p.bytes
        /\ q.consumed_offset = p.consumed_offset + p.bytes /\ q.gone = p.gone
    <3>1. q = [bytes |-> 0, gone |-> p.gone, consumed_offset |-> p.consumed_offset + p.bytes,
               total_size |-> p.total_size - p.bytes]
      BY <2>1, <1>a DEF TurnRecord
    <3> QED BY <3>1, <1>2, <1>a DEF TurnRecord
  <2> QED BY <2>2, <1>6, <1>2 DEF q, available
<1>7. p.bytes \in Int
  BY DEF TurnRecord
<1> QED BY <1>4, <1>5, <1>6, <1>7

LEMMA TurnFollows ==
    ASSUME NEW c \in Chains, data \in Contents, chain[c] \in ChainRecord, NEW n \in Nat
    PROVE  LET t == Turn(c, n)
               segs == chain[c].segments
           IN  /\ \A i \in 0..Len(segs) : t[i] \in TurnRecord
               /\ t[0] = [bytes |-> n, gone |-> 0, consumed_offset |-> chain[c].consumed_offset,
                          total_size |-> chain[c].total_size]
               /\ \A i \in 1..Len(segs) : t[i] = BC!ConsumeStep(t[i - 1], segs[i])
<1> DEFINE segs == chain[c].segments
           m == Len(segs)
           S == TurnRecord
           start == [bytes |-> n, gone |-> 0, consumed_offset |-> chain[c].consumed_offset,
                     total_size |-> chain[c].total_size]
           G == [i \in 1..m |-> [p \in S |-> BC!ConsumeStep(p, segs[i])]]
           t == Turn(c, n)
<1>1. segs \in Seq(Segments) /\ start \in S
  BY DEF ChainRecord, TurnRecord
<1>2. m \in Nat /\ \A i \in 1..m : segs[i] \in Segments
  BY <1>1, LenProperties, ElementOfSeq
<1>a. Turn(c, n) = CHOOSE f : f = [i \in 0..m |-> IF i = 0 THEN start ELSE BC!ConsumeStep(f[i - 1], segs[i])]
  BY DEF Turn
<1> HIDE DEF start, S, segs, m
<1>3. G \in [1..m -> [S -> S]]
  <2>1. ASSUME NEW i \in 1..m, NEW p \in S PROVE BC!ConsumeStep(p, segs[i]) \in S
    BY <1>2, TurnTyped DEF S
  <2> QED BY <2>1
<1>4. PICK g \in Following(m, S, start, G) : TRUE
  <2> HIDE DEF G
  <2>1. m \in Nat /\ start \in S /\ G \in [1..m -> [S -> S]]
    BY <1>1, <1>2, <1>3 DEF S
  <2>2. Following(m, S, start, G) # {}
    BY <2>1, RecursionExists
  <2> QED BY <2>2
<1>5. g \in [0..m -> S] /\ g[0] = start /\ \A i \in 1..m : g[i] = G[i][g[i - 1]]
  BY <1>4 DEF Following
<1>6. g = [i \in 0..m |-> IF i = 0 THEN start ELSE BC!ConsumeStep(g[i - 1], segs[i])]
  <2>1. ASSUME NEW i \in 0..m
        PROVE  g[i] = IF i = 0 THEN start ELSE BC!ConsumeStep(g[i - 1], segs[i])
    <3>1. CASE i = 0
      BY <3>1, <1>5
    <3>2. CASE i # 0
      <4>1. i \in 1..m /\ i - 1 \in 0..m
        BY <3>2, <1>2
      <4>2. g[i - 1] \in S
        BY <4>1, <1>5
      <4> QED BY <4>1, <4>2, <3>2, <1>5
    <3> QED BY <3>1, <3>2
  <2>2. g = [i \in 0..m |-> g[i]]
    BY <1>5
  <2> QED BY <2>1, <2>2
<1>7. t = [i \in 0..m |-> IF i = 0 THEN start ELSE BC!ConsumeStep(t[i - 1], segs[i])]
  <2> HIDE DEF t
  <2>1. t = CHOOSE f : f = [i \in 0..m |-> IF i = 0 THEN start ELSE BC!ConsumeStep(f[i - 1], segs[i])]
    BY <1>a DEF t
  <2> QED BY <2>1, <1>6, Zenon
<1> HIDE DEF t, G
<1>8. ASSUME NEW i \in 0..m
      PROVE  t[i] = IF i = 0 THEN start ELSE BC!ConsumeStep(t[i - 1], segs[i])
  BY <1>7
<1>9. \A i \in 0..m : t[i] \in S
  <2> DEFINE T == {i \in 0..m : t[i] \notin S}
  <2>1. SUFFICES ASSUME T # {} PROVE FALSE
    OBVIOUS
  <2>2. T \subseteq Nat
    BY <1>2
  <2>3. PICK x \in T : \A y \in T : x <= y
    BY <2>1, <2>2, LeastNumber
  <2>4. x \in 0..m /\ t[x] \notin S
    BY <2>3
  <2>5. x # 0
    BY <2>4, <1>1, <1>8
  <2>6. x \in 1..m /\ x - 1 \in 0..m
    BY <2>4, <2>5, <1>2
  <2>7. t[x] = BC!ConsumeStep(t[x - 1], segs[x])
    BY <2>4, <2>5, <1>8
  <2>8. x - 1 \notin T
    <3> HIDE DEF T
    <3> QED BY <2>3, <2>6
  <2>9. t[x - 1] \in S
    BY <2>6, <2>8
  <2>10. t[x] \in S
    BY <2>6, <2>7, <2>9, <1>2, TurnTyped DEF S
  <2> QED BY <2>4, <2>10
<1>10. t[0] = start /\ \A i \in 1..m : t[i] = BC!ConsumeStep(t[i - 1], segs[i])
  <2>1. 0 \in 0..m /\ \A i \in 1..m : i \in 0..m /\ i # 0
    BY <1>2
  <2> QED BY <2>1, <1>8
<1> QED BY <1>9, <1>10 DEF t, m, segs, start, S

\* When the loop is done it has consumed n bytes and stands in a segment that
\* is not all consumed, or behind the last.
LEMMA TurnsConsume ==
    ASSUME NEW c \in Chains, Readable(c), NEW n \in Nat, n <= chain[c].total_size
    PROVE  LET segs == chain[c].segments
               p == Turn(c, n)[Len(segs)]
           IN  /\ p.gone \in 0..Len(segs) /\ p.consumed_offset \in Nat
               /\ p.total_size = chain[c].total_size - n
               /\ Len(Upto(Joined(data, segs))[p.gone]) + p.consumed_offset
                  = chain[c].consumed_offset + n
               /\ p.gone < Len(segs) => p.consumed_offset < Len(data[segs[p.gone + 1]])
               /\ p.gone = Len(segs) => p.consumed_offset = 0
<1> DEFINE segs == chain[c].segments
           m == Len(segs)
           t == Turn(c, n)
           co == chain[c].consumed_offset
           T == chain[c].total_size
           U == Upto(Joined(data, segs))
           L(i) == Len(U[i])
           Z(i) == Len(data[segs[i]])
           Good(i) == LET p == t[i]
                      IN  /\ p.gone \in 0..i /\ p.bytes \in Nat /\ p.consumed_offset \in Nat
                          /\ L(p.gone) + p.consumed_offset + p.bytes = co + n
                          /\ p.total_size = (T - n) + p.bytes
                          /\ p.bytes > 0 => p.gone = i
                          /\ p.gone < m => p.consumed_offset < Z(p.gone + 1)
                          /\ p.gone = m => p.consumed_offset = 0
<1>1. segs \in Seq(Segments) /\ m \in Nat /\ data \in Contents /\ chain[c] \in ChainRecord
  BY LenProperties DEF Readable, ChainRecord
<1>2. co \in Nat /\ T \in Nat /\ L(m) \in Nat /\ T = L(m) - co /\ n <= T
  <2>1. Len(All(data, segs)) \in Nat /\ co \in Nat /\ T \in Nat /\ T = Len(All(data, segs)) - co
    BY ContentIsCut
  <2>2. L(m) = Len(All(data, segs))
    BY <1>1, Lengths
  <2> QED BY <2>1, <2>2
<1>3. /\ L(0) = 0 /\ \A i \in 0..m : L(i) \in Nat
      /\ \A i \in 1..m : L(i) = L(i - 1) + Z(i)
  BY <1>1, Lengths
<1>4. \A i \in 1..m : Z(i) \in Nat /\ Z(i) # 0 /\ segs[i] \in Segments
  <2>1. \A i \in 1..m : data[segs[i]] \in Seq(Nat) /\ segs[i] \in Segments
    BY <1>1, JoinedTyped, ElementOfSeq
  <2>2. \A i \in 1..m : data[segs[i]] # <<>>
    BY DEF Readable, ChainOK
  <2> QED BY <2>1, <2>2, LenProperties, EmptySeq
<1>5. m > 0 => co < Z(1)
  <2>1. m > 0 => segs # <<>>
    BY <1>1, EmptySeq
  <2> QED BY <2>1 DEF Readable, ChainOK
<1>6. m = 0 => co = 0
  <2>1. m = 0 => segs = <<>>
    BY <1>1, EmptySeq
  <2> QED BY <2>1 DEF Readable, ChainOK
<1>7. /\ \A i \in 0..m : t[i] \in TurnRecord
      /\ t[0] = [bytes |-> n, gone |-> 0, consumed_offset |-> co, total_size |-> T]
      /\ \A i \in 1..m : t[i] = BC!ConsumeStep(t[i - 1], segs[i])
  BY <1>1, TurnFollows
<1> HIDE DEF t, segs, m, co, T, L, Z
<1>8. Good(0)
  <2>1. /\ t[0].bytes = n /\ t[0].gone = 0 /\ t[0].consumed_offset = co /\ t[0].total_size = T
    BY <1>7
  <2>2. 0 \in 0..0 /\ L(0) + co + n = co + n /\ T = (T - n) + n
    BY <1>2, <1>3
  <2>3. (0 < m => co < Z(0 + 1)) /\ (0 = m => co = 0)
    BY <1>1, <1>5, <1>6
  <2>4. Good(0) <=> LET p == t[0]
                      IN  /\ p.gone \in 0..0 /\ p.bytes \in Nat /\ p.consumed_offset \in Nat
                          /\ L(p.gone) + p.consumed_offset + p.bytes = co + n
                          /\ p.total_size = (T - n) + p.bytes
                          /\ p.bytes > 0 => p.gone = 0
                          /\ p.gone < m => p.consumed_offset < Z(p.gone + 1)
                          /\ p.gone = m => p.consumed_offset = 0
    OBVIOUS
  <2> HIDE DEF Good
  <2> QED BY <2>1, <2>2, <2>3, <2>4, <1>2
<1>9. ASSUME NEW x \in 1..m, x - 1 \in 0..m, Good(x - 1) PROVE Good(x)
  <2> DEFINE p == t[x - 1]
             q == t[x]
             s == segs[x]
             b == p.bytes
             o == p.consumed_offset
             g == p.gone
             v == p.total_size
             z == Z(x)
  <2>1. /\ g \in 0..(x - 1) /\ b \in Nat /\ o \in Nat
        /\ L(g) + o + b = co + n
        /\ v = (T - n) + b
        /\ b > 0 => g = x - 1
        /\ g < m => o < Z(g + 1)
        /\ g = m => o = 0
    BY <1>9
  <2>2. /\ z \in Nat /\ L(x - 1) \in Nat /\ L(x) \in Nat /\ L(x) = L(x - 1) + z /\ co \in Nat /\ T \in Nat
        /\ x \in Nat /\ m \in Nat
    <3>1. x \in 0..m /\ x \in 1..m /\ x \in Nat /\ m \in Nat
      BY <1>1, <1>9
    <3>2. Z(x) \in Nat /\ L(x) = L(x - 1) + Z(x)
      BY <3>1, <1>3, <1>4
    <3>3. L(x - 1) \in Nat /\ L(x) \in Nat
      BY <3>1, <1>3, <1>9
    <3> QED BY <3>1, <3>2, <3>3, <1>2
  <2>3. p \in TurnRecord /\ s \in Segments /\ q = BC!ConsumeStep(p, s)
    BY <1>4, <1>7, <1>9
  <2>4. /\ b = 0 => q = p
        /\ b > 0 /\ b >= z - o =>
             /\ q.bytes = b - (z - o) /\ q.total_size = v - (z - o)
             /\ q.consumed_offset = 0 /\ q.gone = g + 1
        /\ b > 0 /\ ~(b >= z - o) =>
             /\ q.bytes = 0 /\ q.total_size = v - b
             /\ q.consumed_offset = o + b /\ q.gone = g
    <3>1. Len(data[s]) = z
      BY DEF Z
    <3> HIDE DEF p, q, s, z
    <3>2. q = BC!ConsumeStep(p, s) /\ p \in TurnRecord /\ s \in Segments /\ data \in Contents
      BY <2>3, <1>1
    <3> QED BY <3>1, <3>2, TurnTyped
  <2>5. Good(x) <=> /\ q.gone \in 0..x /\ q.bytes \in Nat /\ q.consumed_offset \in Nat
                    /\ L(q.gone) + q.consumed_offset + q.bytes = co + n
                    /\ q.total_size = (T - n) + q.bytes
                    /\ q.bytes > 0 => q.gone = x
                    /\ q.gone < m => q.consumed_offset < Z(q.gone + 1)
                    /\ q.gone = m => q.consumed_offset = 0
    OBVIOUS
  <2> HIDE DEF Good
  <2>6. CASE b = 0
    <3>1. q.bytes = 0 /\ q.gone = g /\ q.consumed_offset = o /\ q.total_size = v
      BY <2>4, <2>6
    <3> HIDE DEF p, q, b, o, g, v
    <3> QED BY <3>1, <2>1, <2>2, <2>5, <2>6
  <2>7. CASE b > 0 /\ b >= z - o
    <3>1. q.bytes = b - (z - o) /\ q.total_size = v - (z - o) /\ q.consumed_offset = 0
          /\ q.gone = g + 1
      BY <2>4, <2>7
    <3>2. g = x - 1 /\ g + 1 = x
      BY <2>1, <2>2, <2>7
    <3>3. o < z
      <4>1. g < m
        BY <3>2, <1>9, <2>2
      <4> QED BY <4>1, <3>2, <2>1
    <3>4. x < m => 0 < Z(x + 1)
      <4>1. x < m => x + 1 \in 1..m
        BY <2>2, <1>9
      <4>2. \A y \in Nat : y # 0 => 0 < y
        OBVIOUS
      <4> QED BY <4>1, <4>2, <1>4
    <3>5. L(g) = L(x - 1)
      BY <3>2
    <3> HIDE DEF p, q, b, o, g, v, z
    <3>6. L(x) + 0 + (b - (z - o)) = co + n /\ v - (z - o) = (T - n) + (b - (z - o)) /\ b - (z - o) \in Nat
      <4> DEFINE lx == L(x)
                 ly == L(x - 1)
      <4>1. ly + o + b = co + n /\ lx = ly + z /\ ly \in Nat
        BY <2>1, <2>2, <3>5
      <4>2. v = (T - n) + b /\ b \in Nat /\ o \in Nat /\ z \in Nat /\ T \in Nat /\ co \in Nat
            /\ b >= z - o
        BY <2>1, <2>2, <2>7
      <4> HIDE DEF lx, ly
      <4>3. lx + 0 + (b - (z - o)) = co + n
        BY <4>1, <4>2
      <4>4. v - (z - o) = (T - n) + (b - (z - o)) /\ b - (z - o) \in Nat
        BY <4>2
      <4> QED BY <4>3, <4>4 DEF lx
    <3>7. q.gone = x /\ q.gone \in 0..x /\ 0 \in Nat
      BY <3>1, <3>2, <2>2
    <3> QED BY <3>1, <3>4, <3>6, <3>7, <2>5
  <2>8. CASE b > 0 /\ ~(b >= z - o)
    <3>1. q.bytes = 0 /\ q.total_size = v - b /\ q.consumed_offset = o + b /\ q.gone = g
      BY <2>4, <2>8
    <3>2. g = x - 1 /\ g + 1 = x /\ g < m
      BY <2>1, <2>2, <2>8, <1>9
    <3>3. o + b < Z(g + 1)
      <4>1. Z(g + 1) = z
        BY <3>2
      <4> HIDE DEF b, o, g, z
      <4> QED BY <4>1, <2>1, <2>2, <2>8
    <3> HIDE DEF p, q, b, o, g, v, z
    <3>4. L(g) + (o + b) + 0 = co + n
      <4> DEFINE lg == L(g)
      <4>1. lg \in Nat /\ lg + o + b = co + n
        BY <2>1, <2>2, <3>2
      <4> HIDE DEF lg
      <4>2. lg + (o + b) + 0 = co + n
        BY <4>1, <2>1
      <4> QED BY <4>2 DEF lg
    <3>5. v - b = (T - n) + 0 /\ o + b \in Nat /\ g \in 0..x /\ 0 \in Nat
      BY <2>1, <2>2
    <3>6. g # m /\ ~(0 > 0)
      BY <3>2, <2>2
    <3> QED BY <3>1, <3>2, <3>3, <3>4, <3>5, <3>6, <2>5
  <2> QED BY <2>1, <2>6, <2>7, <2>8
<1>10. Good(m)
  <2> DEFINE W == {i \in 0..m : ~ Good(i)}
  <2> HIDE DEF Good
  <2>1. SUFFICES ASSUME W # {} PROVE FALSE
    BY <1>1
  <2>2. W \subseteq Nat
    BY <1>1
  <2>3. PICK x \in W : \A y \in W : x <= y
    BY <2>1, <2>2, LeastNumber
  <2>4. x \in 0..m /\ ~ Good(x)
    BY <2>3
  <2>5. x \in 1..m /\ x - 1 \in 0..m
    BY <2>4, <1>1, <1>8
  <2>6. x - 1 \notin W
    <3> HIDE DEF W
    <3> QED BY <2>3, <2>5
  <2> QED BY <2>4, <2>5, <2>6, <1>9
<1> DEFINE p == t[m]
           b == p.bytes
           o == p.consumed_offset
           g == p.gone
           v == p.total_size
<1>11. /\ g \in 0..m /\ b \in Nat /\ o \in Nat
       /\ L(g) + o + b = co + n
       /\ v = (T - n) + b
       /\ b > 0 => g = m
       /\ g < m => o < Z(g + 1)
       /\ g = m => o = 0
  BY <1>10
<1> HIDE DEF p, b, o, g, v, Good
<1>12. b = 0
  <2>1. ASSUME b > 0 PROVE FALSE
    <3>1. L(m) + o + b = co + n
      BY <2>1, <1>11
    <3> DEFINE lm == L(m)
    <3>2. lm + o + b = co + n /\ T = lm - co /\ lm \in Nat
      BY <3>1, <1>2
    <3> HIDE DEF lm
    <3> QED BY <3>2, <2>1, <1>2, <1>11
  <2> QED BY <2>1, <1>11
<1>13. L(g) + o = co + n /\ v = T - n
  <2> DEFINE lg == L(g)
  <2>1. lg \in Nat /\ lg + o + b = co + n
    BY <1>3, <1>11
  <2> HIDE DEF lg
  <2>2. lg + o = co + n /\ v = T - n
    BY <2>1, <1>2, <1>11, <1>12
  <2> QED BY <2>2 DEF lg
<1>14. /\ p.gone \in 0..m /\ p.consumed_offset \in Nat
       /\ p.total_size = T - n
       /\ Len(U[p.gone]) + p.consumed_offset = co + n
       /\ p.gone < m => p.consumed_offset < Len(data[segs[p.gone + 1]])
       /\ p.gone = m => p.consumed_offset = 0
  BY <1>11, <1>13 DEF g, o, v, L, Z
<1> QED BY <1>14 DEF p, t, m, T, co, segs

-----------------------------------------------------------------------------
(***************************************************************************)
(* The invariant: no segment is in two places, a segment a reader holds is *)
(* not free, and holds what the reader saw.                                *)
(***************************************************************************)
Reader == [segment : Segments, pos : Nat, bytes : Seq(Nat)]

ChainTyped ==
    /\ data \in Contents
    /\ chain \in [Chains -> ChainRecord]
    /\ held \subseteq Reader
    /\ arrived \in Nat

Owned ==
    /\ Free(free_list)
    /\ \A c \in Chains : /\ Distinct(chain[c].segments)
                         /\ Apart(In(chain[c].segments), In(free_list))
    /\ \A c, d \in Chains : c # d => Apart(In(chain[c].segments), In(chain[d].segments))

Seen ==
    \A h \in held : /\ h.pos + Len(h.bytes) <= Len(data[h.segment])
                    /\ Cut(data[h.segment], h.pos, h.pos + Len(h.bytes)) = h.bytes

ChainInv == ChainTyped /\ Owned /\ Seen /\ \A c \in Chains : ChainOK(data, chain[c])

LEMMA NotInUse ==
    ASSUME ChainTyped, Owned, NEW s, s \notin BC!InUse
    PROVE  /\ \A c \in Chains : s \notin In(chain[c].segments)
           /\ s \notin In(free_list)
           /\ \A h \in held : h.segment # s
<1>1. ASSUME NEW c \in Chains PROVE BC!ToSet(chain[c].segments) = In(chain[c].segments)
  BY InIsToSet DEF ChainTyped, ChainRecord
<1>2. BC!ToSet(free_list) = In(free_list)
  BY InIsToSet DEF Owned, Free
<1> QED BY <1>1, <1>2 DEF BC!InUse

\* New contents e and segments t of a chain d that hold what it holds: nothing
\* that belongs to another changes.
Rewritten(d, e, t) ==
    /\ e \in Contents /\ t \in Seq(Segments) /\ Distinct(t)
    /\ All(e, t) = Bytes(data, chain[d])
    /\ \A i \in 1..Len(t) : e[t[i]] # <<>>
    /\ Apart(In(t), In(free_list))
    /\ \A c \in Chains \ {d} : /\ Apart(In(t), In(chain[c].segments))
                               /\ \A s \in In(chain[c].segments) : e[s] = data[s]
    /\ \A h \in held : e[h.segment] = data[h.segment]

LEMMA NotCompactedKeeps ==
    ASSUME ChainInv, NEW d \in Chains, chain[d].consumed_offset = 0
    PROVE  Rewritten(d, data, chain[d].segments)
<1>1. chain[d].segments \in Seq(Segments) /\ data \in Contents
  BY DEF ChainInv, ChainTyped, ChainRecord
<1>2. All(data, chain[d].segments) \in Seq(Nat)
  BY <1>1, JoinedTyped
<1>3. All(data, chain[d].segments) = Bytes(data, chain[d])
  BY <1>2, CutAll DEF Bytes
<1>4. \A i \in 1..Len(chain[d].segments) : data[chain[d].segments[i]] # <<>>
  BY DEF ChainInv, ChainOK
<1>5. \A c \in Chains \ {d} : Apart(In(chain[d].segments), In(chain[c].segments))
  BY DEF ChainInv, Owned
<1> QED BY <1>1, <1>3, <1>4, <1>5 DEF Rewritten, ChainInv, Owned

LEMMA HeadAndTail ==
    ASSUME NEW segs \in Seq(Segments), segs # <<>>
    PROVE  /\ Head(segs) \in Segments /\ Tail(segs) \in Seq(Segments)
           /\ Head(segs) = segs[1] /\ segs = <<Head(segs)>> \o Tail(segs)
           /\ In(segs) = {Head(segs)} \cup In(Tail(segs))
           /\ Distinct(segs) => Distinct(Tail(segs)) /\ Head(segs) \notin In(Tail(segs))
<1> DEFINE n == Len(segs)
           x == Head(segs)
           y == Tail(segs)
           one == <<x>>
<1>1. n \in Nat /\ n # 0
  BY EmptySeq, LenProperties
<1>2. /\ x \in Segments /\ y \in Seq(Segments) /\ x = segs[1]
      /\ Len(y) = n - 1 /\ \A i \in 1..Len(y) : y[i] = segs[i + 1]
  BY HeadTailProperties
<1>3. one \in Seq(Segments) /\ Len(one) = 1 /\ one[1] = x
  BY <1>2
<1> HIDE DEF one
<1> DEFINE w == one \o y
<1> HIDE DEF x, y
<1>4. /\ w \in Seq(Segments) /\ Len(w) = 1 + (n - 1)
      /\ \A i \in 1..(1 + (n - 1)) : w[i] = IF i <= 1 THEN one[i] ELSE y[i - 1]
  <2>1. /\ w \in Seq(Segments) /\ Len(w) = Len(one) + Len(y)
        /\ \A i \in 1..(Len(one) + Len(y)) : w[i] = IF i <= Len(one) THEN one[i] ELSE y[i - Len(one)]
    <3>1. one \in Seq(Segments) /\ y \in Seq(Segments)
      BY <1>2, <1>3
    <3> QED BY <3>1, ConcatProperties, Zenon
  <2> HIDE DEF w, n
  <2> QED BY <2>1, <1>2, <1>3
<1> HIDE DEF w
<1>5. ASSUME NEW i \in 1..Len(segs) PROVE segs[i] = w[i]
  <2>1. CASE i = 1
    BY <2>1, <1>1, <1>2, <1>3, <1>4
  <2>2. CASE i # 1
    <3>1. i \in 1..(1 + (n - 1)) /\ ~(i <= 1) /\ i - 1 \in 1..(n - 1) /\ (i - 1) + 1 = i
      BY <2>2, <1>1
    <3> QED BY <3>1, <1>2, <1>4
  <2> QED BY <2>1, <2>2
<1>6. Len(segs) = Len(w)
  BY <1>1, <1>4
<1>7. segs = w
  BY <1>4, <1>5, <1>6, SeqEqual
<1>8. In(one) = {x}
  BY <1>3 DEF In
<1>9. In(w) = In(one) \cup In(y)
  BY <1>2, <1>3, InConcat DEF w
<1>10. ASSUME Distinct(segs) PROVE Distinct(y) /\ x \notin In(y)
  <2>1. \A i \in 1..Len(y) : i + 1 \in 1..n /\ i + 1 # 1 /\ y[i] = segs[i + 1]
    BY <1>1, <1>2
  <2>2. 1 \in 1..n
    BY <1>1
  <2>3. x \notin In(y)
    BY <2>1, <2>2, <1>2, <1>10 DEF Distinct, In
  <2>4. ASSUME NEW i \in 1..Len(y), NEW j \in 1..Len(y), y[i] = y[j] PROVE i = j
    <3>1. i + 1 = j + 1
      BY <2>1, <2>4, <1>10 DEF Distinct
    <3> QED BY <3>1
  <2> QED BY <2>3, <2>4 DEF Distinct
<1> QED BY <1>2, <1>7, <1>8, <1>9, <1>10 DEF x, y, w, one

LEMMA CompactedKeeps ==
    ASSUME ChainInv, NEW d \in Chains, chain[d].consumed_offset > 0, BC!CanCompact(d)
    PROVE  Rewritten(d, BC!Compacted(d).data, BC!Compacted(d).segments)
<1> DEFINE segs == chain[d].segments
           co == chain[d].consumed_offset
           first == Head(segs)
           tail == Tail(segs)
           n == Len(data[first])
           rest == Cut(data[first], co, n)
           seg == IF BC!Holders(first) = {} THEN first ELSE CHOOSE s \in Segments : s \notin BC!InUse
           one == <<seg>>
           e == [data EXCEPT ![seg] = rest]
           t == one \o tail
           behind == All(data, tail)
<1>1. segs \in Seq(Segments) /\ co \in Nat /\ data \in Contents /\ ChainTyped /\ Owned
  BY DEF ChainInv, ChainTyped, ChainRecord
<1>2. segs # <<>> /\ co < Len(data[segs[1]]) /\ \A i \in 1..Len(segs) : data[segs[i]] # <<>>
  <2>1. segs # <<>>
    BY <1>1 DEF ChainInv, ChainOK
  <2> QED BY <2>1 DEF ChainInv, ChainOK
<1>3. /\ first \in Segments /\ tail \in Seq(Segments) /\ first = segs[1]
      /\ segs = <<first>> \o tail /\ In(segs) = {first} \cup In(tail)
      /\ Distinct(tail) /\ first \notin In(tail)
  BY <1>1, <1>2, HeadAndTail DEF Owned
<1>4. /\ seg \in Segments /\ seg \notin In(tail) /\ seg \notin In(free_list)
      /\ \A c \in Chains \ {d} : seg \notin In(chain[c].segments)
      /\ \A h \in held : h.segment # seg
  <2>1. CASE BC!Holders(first) = {}
    <3>1. seg = first
      BY <2>1
    <3>2. first \in In(segs)
      BY <1>3
    <3>3. \A h \in held : h.segment # first
      BY <2>1 DEF BC!Holders
    <3> HIDE DEF seg, first, tail, segs
    <3> QED BY <3>1, <3>2, <3>3, <1>1, <1>3 DEF Owned, Apart, segs
  <2>2. CASE BC!Holders(first) # {}
    <3>1. seg = CHOOSE s \in Segments : s \notin BC!InUse
      BY <2>2
    <3>2. \E s \in Segments : s \notin BC!InUse
      BY <2>2 DEF BC!CanCompact
    <3>3. seg \in Segments /\ seg \notin BC!InUse
      <4> HIDE DEF seg
      <4> QED BY <3>1, <3>2
    <3> HIDE DEF seg
    <3>4. /\ \A c \in Chains : seg \notin In(chain[c].segments)
          /\ seg \notin In(free_list)
          /\ \A h \in held : h.segment # seg
      BY <3>3, <1>1, NotInUse
    <3> QED BY <3>3, <3>4, <1>3
  <2> QED BY <2>1, <2>2
<1>5. BC!Compacted(d).data = e /\ BC!Compacted(d).segments = t
  BY DEF BC!Compacted, BC!Size, Cut
<1>a. BC!Content(d) = BC!Content(d)
  OBVIOUS
<1> HIDE DEF segs, co, first, tail, seg
<1>6. data[first] \in Seq(Nat) /\ n \in Nat /\ co < n /\ behind \in Seq(Nat) /\ Len(behind) \in Nat
  <2>1. data[first] \in Seq(Nat)
    BY <1>1, <1>3 DEF Contents
  <2> QED BY <2>1, <1>1, <1>2, <1>3, LenProperties, JoinedTyped
<1>7. rest \in Seq(Nat) /\ Len(rest) = n - co
  <2>1. data[first] \in Seq(Nat) /\ co \in Nat /\ n \in Nat /\ co <= n /\ n <= Len(data[first])
    BY <1>1, <1>6
  <2> HIDE DEF n
  <2> QED BY <2>1, CutBytes
<1>8. rest # <<>>
  <2> HIDE DEF rest, n
  <2> QED BY <1>1, <1>6, <1>7, EmptySeq
<1> HIDE DEF rest
<1>9. e \in Contents /\ e[seg] = rest /\ \A s \in Segments : s # seg => e[s] = data[s]
  BY <1>1, <1>4, <1>7 DEF Contents
<1> HIDE DEF e
<1>10. one \in Seq(Segments) /\ In(one) = {seg} /\ Distinct(one) /\ Len(one) = 1 /\ one[1] = seg
  <2>1. one \in Seq(Segments) /\ Len(one) = 1 /\ one[1] = seg
    BY <1>4
  <2> HIDE DEF one
  <2> QED BY <2>1 DEF In, Distinct
<1>11. All(e, one) = rest
  <2>1. All(e, <<seg>>) = e[seg]
    BY <1>4, <1>9, AllOne
  <2> QED BY <2>1, <1>9
<1> HIDE DEF one
<1>12. t \in Seq(Segments) /\ In(t) = {seg} \cup In(tail) /\ Distinct(t)
  <2>1. t \in Seq(Segments)
    BY <1>3, <1>10, ConcatProperties
  <2>2. Apart(In(one), In(tail)) /\ one \in Seq(Segments) /\ tail \in Seq(Segments)
        /\ Distinct(one) /\ Distinct(tail)
    BY <1>3, <1>4, <1>10 DEF Apart
  <2>3. In(t) = In(one) \cup In(tail) /\ Distinct(t)
    BY <2>2, InConcat
  <2> QED BY <2>1, <2>3, <1>10
<1>13. All(e, t) = rest \o behind
  <2>1. All(e, t) = All(e, one) \o All(e, tail)
    BY <1>3, <1>9, <1>10, AllConcat
  <2>2. In(tail) \subseteq Segments
    BY <1>3, InTyped
  <2>3. \A s \in In(tail) : e[s] = data[s]
    BY <2>2, <1>4, <1>9
  <2>4. All(e, tail) = behind
    BY <2>3, <1>1, <1>3, <1>9, AllSame
  <2> QED BY <2>1, <2>4, <1>11
<1>14. Bytes(data, chain[d]) = rest \o behind
  <2> DEFINE all == All(data, segs)
             b == Len(behind)
             h == data[first]
             lone == <<first>>
  <2>1. lone \in Seq(Segments) /\ All(data, lone) = h
    BY <1>1, <1>3, AllOne
  <2>2. segs = lone \o tail
    BY <1>3
  <2> HIDE DEF lone
  <2>3. all = h \o behind
    BY <2>1, <2>2, <1>1, <1>3, AllConcat, ZenonT(40)
  <2>4. Bytes(data, chain[d]) = Cut(all, co, Len(all))
    BY DEF Bytes, segs, co
  <2> HIDE DEF all
  <2>5. Len(all) = Len(h) + b
    BY <2>3, <1>6, ConcatProperties
  <2>6. co <= Len(h) /\ b <= Len(behind) /\ b \in Nat
    BY <1>1, <1>6
  <2>7. Cut(h \o behind, co, Len(h) + b) = Cut(h, co, Len(h)) \o Cut(behind, 0, b)
    BY <2>6, <1>1, <1>6, CutBoth
  <2>8. Cut(behind, 0, b) = behind
    BY <1>6, CutAll
  <2> QED BY <2>3, <2>4, <2>5, <2>7, <2>8 DEF rest
<1>15. ASSUME NEW i \in 1..Len(t) PROVE e[t[i]] # <<>>
  <2>1. t[i] = seg \/ t[i] \in In(tail)
    BY <1>12 DEF In
  <2>2. ASSUME t[i] \in In(tail) PROVE e[t[i]] # <<>>
    <3>1. t[i] \in In(segs) /\ t[i] \in Segments /\ t[i] # seg
      BY <2>2, <1>3, <1>4, InTyped
    <3>2. data[t[i]] # <<>>
      <4> HIDE DEF t
      <4> QED BY <3>1, <1>2 DEF In
    <3> QED BY <3>1, <3>2, <1>9
  <2> QED BY <2>1, <2>2, <1>8, <1>9
<1>16. Apart(In(t), In(free_list))
  <2>1. Apart(In(segs), In(free_list))
    BY <1>1 DEF Owned, segs
  <2> QED BY <2>1, <1>3, <1>4, <1>12 DEF Apart
<1>17. ASSUME NEW c \in Chains \ {d}
       PROVE  /\ Apart(In(t), In(chain[c].segments))
              /\ \A s \in In(chain[c].segments) : e[s] = data[s]
  <2>1. Apart(In(segs), In(chain[c].segments)) /\ chain[c].segments \in Seq(Segments)
    BY <1>1 DEF Owned, segs, ChainTyped, ChainRecord
  <2>2. In(chain[c].segments) \subseteq Segments /\ seg \notin In(chain[c].segments)
    BY <2>1, <1>4, InTyped
  <2> QED BY <2>1, <2>2, <1>3, <1>9, <1>12 DEF Apart
<1>18. \A h \in held : e[h.segment] = data[h.segment]
  BY <1>1, <1>4, <1>9 DEF ChainTyped, Reader
<1>19. All(e, t) = Bytes(data, chain[d])
  BY <1>13, <1>14
<1> HIDE DEF t
<1> QED BY <1>5, <1>9, <1>12, <1>15, <1>16, <1>17, <1>18, <1>19 DEF Rewritten

-----------------------------------------------------------------------------
(***************************************************************************)
(* The bytes that arrive and the segments allocated for them.              *)
(***************************************************************************)
LEMMA LesserOfTwo ==
    ASSUME NEW a \in Int, NEW b \in Int
    PROVE  BC!Min({a, b}) = Least(a, b)
<1>1. Least(a, b) \in {a, b} /\ \A y \in {a, b} : Least(a, b) <= y
  BY DEF Least
<1>2. \A x \in {a, b} : (\A y \in {a, b} : x <= y) => x = Least(a, b)
  BY DEF Least
<1> QED BY <1>1, <1>2 DEF BC!Min

\* What arrives is cut into pieces of at most a segment, none of them empty.
LEMMA PiecesJoin ==
    ASSUME arrived \in Nat, NEW n \in 1..(SegmentSize + 1)
    PROVE  LET P == BC!Pieces(n)
           IN  /\ P \in Seq(Seq(Nat)) /\ Len(P) \in Nat /\ DOMAIN P = 1..Len(P)
               /\ \A i \in 1..Len(P) : P[i] # <<>>
               /\ Len(BC!FlattenSeq(P)) = n
<1> DEFINE S == SegmentSize
           m == (n + S - 1) \div S
           L(i) == Least(S, n - (i - 1) * S)
           x(i) == [j \in 1..L(i) |-> arrived + (i - 1) * S + j]
           P == BC!Pieces(n)
<1>1. S \in Nat /\ S # 0 /\ n \in Nat /\ n # 0 /\ n <= S + 1
  BY BufferAssumption
<1>2. n <= S => m = 1
  BY <1>1
<1>3. n = S + 1 => m = 2
  BY <1>1
<1>4. m \in {1, 2}
  BY <1>1, <1>2, <1>3
<1> HIDE DEF m
<1>5. \A i \in 1..m : /\ L(i) \in Nat /\ L(i) # 0
                      /\ BC!Min({S, n - (i - 1) * S}) = L(i)
                      /\ (i - 1) * S \in Nat
  <2>1. ASSUME NEW i \in 1..m
        PROVE  /\ L(i) \in Nat /\ L(i) # 0
               /\ BC!Min({S, n - (i - 1) * S}) = L(i)
               /\ (i - 1) * S \in Nat
    <3>1. (i = 1 /\ (i - 1) * S = 0) \/ (i = 2 /\ m = 2 /\ (i - 1) * S = S)
      BY <1>1, <1>4
    <3>2. m = 2 => n = S + 1
      BY <1>1, <1>2
    <3>3. n - (i - 1) * S \in Nat /\ n - (i - 1) * S # 0
      BY <3>1, <3>2, <1>1
    <3>4. BC!Min({S, n - (i - 1) * S}) = L(i)
      BY <3>3, <1>1, LesserOfTwo
    <3> QED BY <3>1, <3>3, <3>4, <1>1 DEF Least
  <2> QED BY <2>1
<1>6. P = [i \in 1..m |-> x(i)]
  <2>1. P = [i \in 1..m |-> [j \in 1..BC!Min({S, n - (i - 1) * S}) |-> arrived + (i - 1) * S + j]]
    BY DEF BC!Pieces, m
  <2> HIDE DEF P, L
  <2> QED BY <2>1, <1>5
<1>7. \A i \in 1..m : x(i) \in Seq(Nat) /\ Len(x(i)) = L(i) /\ x(i) # <<>>
  <2>1. ASSUME NEW i \in 1..m PROVE x(i) \in Seq(Nat) /\ Len(x(i)) = L(i) /\ x(i) # <<>>
    <3>1. L(i) \in Nat /\ L(i) # 0 /\ (i - 1) * S \in Nat
      BY <1>5
    <3> DEFINE k == L(i)
               o == (i - 1) * S
               f == [j \in 1..k |-> arrived + o + j]
    <3> HIDE DEF k, o
    <3>2. k \in Nat /\ k # 0 /\ o \in Nat
      BY <3>1 DEF k, o
    <3>3. f \in Seq(Nat) /\ Len(f) = k
      BY <3>2
    <3>4. f # <<>>
      <4> HIDE DEF f
      <4> QED BY <3>2, <3>3, EmptySeq
    <3>5. x(i) = f
      BY DEF k, o
    <3> QED BY <3>3, <3>4, <3>5 DEF k
  <2> QED BY <2>1
<1> HIDE DEF x, P
<1>8. P \in Seq(Seq(Nat)) /\ Len(P) = m /\ DOMAIN P = 1..m /\ \A i \in 1..m : P[i] = x(i)
  BY <1>4, <1>6, <1>7
<1> HIDE DEF L
<1>9. /\ BC!FlattenSeq(P) = Upto(P)[m]
      /\ Upto(P) \in [0..m -> Seq(Nat)] /\ Upto(P)[0] = <<>>
      /\ \A i \in 1..m : Upto(P)[i] = Upto(P)[i - 1] \o P[i]
  <2>1. P \in Seq(Seq(Nat))
    BY <1>8
  <2>2. BC!FlattenSeq(P) = Upto(P)[Len(P)]
    BY <2>1, FlattenIsUpto
  <2>3. /\ Upto(P) \in [0..Len(P) -> Seq(Nat)] /\ Upto(P)[0] = <<>>
        /\ \A i \in 1..Len(P) : Upto(P)[i] = Upto(P)[i - 1] \o P[i]
    BY <2>1, UptoTyped
  <2> QED BY <2>2, <2>3, <1>8
<1>10. ASSUME NEW i \in 1..m PROVE Len(Upto(P)[i]) = Len(Upto(P)[i - 1]) + L(i)
  <2>1. i - 1 \in 0..m /\ i \in 0..m
    BY <1>4
  <2> DEFINE u == Upto(P)[i - 1]
             s == x(i)
  <2>2. u \in Seq(Nat) /\ s \in Seq(Nat) /\ Len(s) = L(i) /\ Upto(P)[i] = u \o s
    BY <2>1, <1>7, <1>8, <1>9
  <2> HIDE DEF u, s
  <2>3. Len(u \o s) = Len(u) + Len(s)
    BY <2>2, ConcatProperties
  <2> QED BY <2>2, <2>3 DEF u
<1>11. Len(Upto(P)[0]) = 0
  BY <1>9, EmptySeq
<1>12. Len(BC!FlattenSeq(P)) = n
  <2>1. CASE m = 1
    <3>1. 1 \in 1..m /\ 1 - 1 = 0
      BY <2>1
    <3>2. Len(Upto(P)[1]) = 0 + L(1)
      BY <3>1, <1>10, <1>11
    <3>3. n <= S
      BY <2>1, <1>1, <1>3
    <3>4. 0 + L(1) = n
      BY <3>3, <1>1 DEF L, Least
    <3> QED BY <2>1, <3>2, <3>4, <1>9
  <2>2. CASE m = 2
    <3>1. 1 \in 1..m /\ 1 - 1 = 0 /\ 2 \in 1..m /\ 2 - 1 = 1
      BY <2>2
    <3>2. Len(Upto(P)[1]) = 0 + L(1)
      BY <3>1, <1>10, <1>11
    <3>3. Len(Upto(P)[2]) = Len(Upto(P)[1]) + L(2)
      BY <3>1, <1>10
    <3>4. n = S + 1
      BY <2>2, <1>1, <1>2
    <3>5. (0 + L(1)) + L(2) = n
      BY <3>4, <1>1 DEF L, Least
    <3> QED BY <2>2, <3>2, <3>3, <3>5, <1>9
  <2> QED BY <2>1, <2>2, <1>4
<1>13. /\ P \in Seq(Seq(Nat)) /\ Len(P) \in Nat /\ DOMAIN P = 1..Len(P)
       /\ \A i \in 1..Len(P) : P[i] # <<>>
       /\ Len(BC!FlattenSeq(P)) = n
  BY <1>4, <1>7, <1>8, <1>12
<1> QED BY <1>13 DEF P

\* The segments allocated are free ones and new ones; the free ones are the
\* last of the free list.
LEMMA AllocatedFree ==
    ASSUME ChainTyped, Owned, NEW n \in Nat, BC!CanAllocate(n)
    PROVE  LET t == BC!Allocated(n)
               k == Len(free_list) - BC!FromPool(n)
           IN  /\ t \in Seq(Segments) /\ Len(t) = n /\ Distinct(t)
               /\ k \in 0..Len(free_list) /\ Apart(In(t), In(Cut(free_list, 0, k)))
               /\ \A c \in Chains : Apart(In(t), In(chain[c].segments))
               /\ \A h \in held : h.segment \notin In(t)
<1> DEFINE m == Len(free_list)
           p == BC!FromPool(n)
           k == m - p
           pooled == [i \in 1..p |-> free_list[m + 1 - i]]
           fresh == CHOOSE f \in BC!Fresh(n - p) : TRUE
           t == BC!Allocated(n)
<1>1. free_list \in Seq(Segments) /\ Distinct(free_list) /\ \A h \in held : h.segment \notin In(free_list)
  BY DEF Owned, Free
<1>2. m \in Nat /\ p \in 0..m /\ p <= n /\ k \in 0..m
  BY <1>1, LenProperties DEF BC!FromPool
<1>3. t = pooled \o fresh
  BY DEF BC!Allocated
<1>4. fresh \in BC!Fresh(n - p)
  BY DEF BC!CanAllocate
<1> HIDE DEF fresh, t, p
<1>5. /\ fresh \in Seq(Segments) /\ Len(fresh) = n - p /\ Distinct(fresh)
      /\ \A x \in In(fresh) : x \in Segments /\ x \notin BC!InUse
  <2>1. fresh \in [1..(n - p) -> Segments \ BC!InUse] /\ BC!IsInjective(fresh)
    BY <1>4 DEF BC!Fresh
  <2>2. n - p \in Nat
    BY <1>2
  <2>3. fresh \in Seq(Segments \ BC!InUse) /\ Len(fresh) = n - p
    BY <2>1, <2>2
  <2>4. DOMAIN fresh = 1..Len(fresh) /\ DOMAIN fresh = 1..(n - p)
    BY <2>1, <2>3
  <2>5. Distinct(fresh)
    BY <2>1, <2>4 DEF Distinct, BC!IsInjective
  <2>6. In(fresh) \subseteq Segments \ BC!InUse
    BY <2>3, InTyped
  <2>7. fresh \in Seq(Segments)
    BY <2>3
  <2> QED BY <2>3, <2>5, <2>6, <2>7
<1>6. /\ \A x \in In(fresh) : /\ \A c \in Chains : x \notin In(chain[c].segments)
                              /\ x \notin In(free_list)
                              /\ \A h \in held : h.segment # x
  BY <1>5, NotInUse
<1>7. \A i \in 1..p : /\ m + 1 - i \in 1..m /\ ~(m + 1 - i <= k)
                      /\ free_list[m + 1 - i] \in Segments /\ free_list[m + 1 - i] \in In(free_list)
  <2>1. \A i \in 1..m : free_list[i] \in Segments /\ free_list[i] \in In(free_list)
    BY <1>1, ElementOfSeq DEF In
  <2>2. \A i \in 1..p : m + 1 - i \in 1..m /\ ~(m + 1 - i <= k)
    BY <1>2
  <2> QED BY <2>1, <2>2
<1>8. /\ pooled \in Seq(Segments) /\ Len(pooled) = p
      /\ \A i \in 1..p : pooled[i] = free_list[m + 1 - i]
  BY <1>2, <1>7
<1> HIDE DEF pooled
<1>9. In(pooled) \subseteq In(free_list)
  BY <1>7, <1>8 DEF In
<1>10. Distinct(pooled)
  <2>1. ASSUME NEW i \in 1..p, NEW j \in 1..p, pooled[i] = pooled[j] PROVE i = j
    <3>1. m + 1 - i = m + 1 - j
      <4> DEFINE a == m + 1 - i
                 b == m + 1 - j
      <4>1. a \in 1..m /\ b \in 1..m /\ free_list[a] = free_list[b]
        BY <2>1, <1>7, <1>8
      <4> HIDE DEF a, b
      <4>2. a = b
        BY <4>1, <1>1 DEF Distinct
      <4> QED BY <4>2 DEF a, b
    <3> QED BY <3>1, <1>2
  <2> QED BY <2>1, <1>8 DEF Distinct
<1>11. Apart(In(pooled), In(Cut(free_list, 0, k)))
  <2>1. Len(Cut(free_list, 0, k)) = k /\ \A i \in 1..k : Cut(free_list, 0, k)[i] = free_list[i]
    BY <1>1, <1>2, InCut
  <2>2. ASSUME NEW i \in 1..p, NEW j \in 1..k, pooled[i] = free_list[j] PROVE FALSE
    <3>1. m + 1 - i = j
      <4>1. j \in 1..m
        BY <1>2
      <4> QED BY <4>1, <2>2, <1>1, <1>7, <1>8 DEF Distinct
    <3> QED BY <3>1, <1>2, <1>7
  <2> DEFINE kept == Cut(free_list, 0, k)
  <2>3. \A y \in In(kept) : \E j \in 1..k : y = free_list[j]
    <3>1. Len(kept) = k /\ \A i \in 1..k : kept[i] = free_list[i]
      BY <2>1
    <3> HIDE DEF kept
    <3> QED BY <3>1 DEF In
  <2>4. \A y \in In(pooled) : \E i \in 1..p : y = pooled[i]
    BY <1>8 DEF In
  <2> HIDE DEF kept
  <2> QED BY <2>2, <2>3, <2>4 DEF Apart, kept
<1>12. In(Cut(free_list, 0, k)) \subseteq In(free_list)
  BY <1>1, <1>2, InCut
<1>13. Apart(In(pooled), In(fresh))
  BY <1>6, <1>9 DEF Apart
<1>14. t \in Seq(Segments) /\ Len(t) = p + (n - p) /\ In(t) = In(pooled) \cup In(fresh) /\ Distinct(t)
  <2>1. pooled \in Seq(Segments) /\ fresh \in Seq(Segments) /\ Distinct(pooled) /\ Distinct(fresh)
    BY <1>5, <1>8, <1>10
  <2>2. In(t) = In(pooled) \cup In(fresh) /\ Distinct(t)
    BY <2>1, <1>3, <1>13, InConcat
  <2>3. t \in Seq(Segments) /\ Len(t) = Len(pooled) + Len(fresh)
    BY <2>1, <1>3, ConcatProperties
  <2> QED BY <2>2, <2>3, <1>5, <1>8
<1>15. Apart(In(t), In(Cut(free_list, 0, k)))
  BY <1>6, <1>11, <1>12, <1>14 DEF Apart
<1>16. \A c \in Chains : Apart(In(t), In(chain[c].segments))
  BY <1>6, <1>9, <1>14 DEF Owned, Apart
<1>17. \A h \in held : h.segment \notin In(t)
  BY <1>1, <1>6, <1>9, <1>14
<1>18. Len(t) = n
  BY <1>2, <1>14
<1> QED BY <1>2, <1>14, <1>15, <1>16, <1>17, <1>18 DEF t, k, p

-----------------------------------------------------------------------------
(***************************************************************************)
(* One lemma per operation: it keeps the invariant, and does to the        *)
(* contents of the chains what the queue does.                             *)
(***************************************************************************)
LEMMA OthersKept ==
    ASSUME ChainInv, NEW C \in SUBSET Chains, data' \in Contents,
           \A e \in Chains \ C : chain'[e] = chain[e],
           \A e \in Chains \ C : \A s \in In(chain[e].segments) : data'[s] = data[s]
    PROVE  \A e \in Chains \ C : ChainOK(data', chain'[e]) /\ BC!Content(e)' = BC!Content(e)
<1> SUFFICES ASSUME NEW e \in Chains \ C
             PROVE  ChainOK(data', chain'[e]) /\ BC!Content(e)' = BC!Content(e)
  OBVIOUS
<1>1. chain[e] \in ChainRecord /\ data \in Contents /\ ChainOK(data, chain[e]) /\ chain'[e] = chain[e]
  BY DEF ChainInv, ChainTyped
<1>2. chain[e].segments \in Seq(Segments) /\ chain'[e].segments \in Seq(Segments)
  BY <1>1 DEF ChainRecord
<1> DEFINE r == chain[e]
           d == data
           f == data'
<1>3. d \in Contents /\ f \in Contents /\ r \in ChainRecord /\ \A s \in In(r.segments) : d[s] = f[s]
  BY <1>1
<1>4. ChainOK(d, r)
  BY <1>1
<1> HIDE DEF r, d, f
<1>5. Bytes(f, r) = Bytes(d, r) /\ ChainOK(f, r)
  BY <1>3, <1>4, BytesSame
<1>6. BC!Content(e) = Bytes(data, chain[e])
  BY <1>2, ContentBytes
<1>7. BC!Content(e)' = Bytes(data', chain'[e])
  BY <1>2, ContentBytesAfter
<1> QED BY <1>1, <1>5, <1>6, <1>7 DEF r, d, f

LEMMA SeenKept ==
    ASSUME ChainInv, UNCHANGED held, \A h \in held : data'[h.segment] = data[h.segment]
    PROVE  Seen'
  BY DEF ChainInv, Seen

LEMMA DropKeeps ==
    ASSUME ChainInv, NEW h \in held, BC!Drop(h)
    PROVE  ChainInv' /\ \A e \in Chains : BC!Content(e)' = BC!Content(e)
<1>1. held' = held \ {h} /\ UNCHANGED <<data, chain, free_list, arrived>>
  BY DEF BC!Drop
<1>2. ChainTyped' /\ Owned' /\ Seen'
  BY <1>1 DEF ChainInv, ChainTyped, Owned, Free, Seen
<1>3. \A e \in Chains : ChainOK(data', chain'[e])
  BY <1>1 DEF ChainInv
<1>4. \A e \in Chains : BC!Content(e)' = BC!Content(e)
  BY <1>1 DEF BC!Content
<1> QED BY <1>2, <1>3, <1>4 DEF ChainInv

LEMMA HoldKeeps ==
    ASSUME ChainInv, NEW c \in Chains, NEW offset \in Nat, NEW len \in Nat, len > 0,
           BC!Hold(c, offset, len)
    PROVE  ChainInv' /\ \A e \in Chains : BC!Content(e)' = BC!Content(e)
<1> DEFINE l == BC!Locate(c, offset)
           seg == chain[c].segments[l.index]
           bytes == SubSeq(BC!DataAt(c, offset), 1, len)
           h == [segment |-> seg, pos |-> l.pos, bytes |-> bytes]
<1>1. Readable(c) /\ ChainTyped /\ Owned /\ Seen
  BY DEF ChainInv, ChainTyped, Readable
<1>2. offset + len <= chain[c].total_size /\ BC!IsContiguous(c, offset, len)
  BY DEF BC!Hold
<1>3. /\ seg \in Segments /\ BC!GetSegmentAt(c, offset) = seg
      /\ \E i \in 1..Len(chain[c].segments) : seg = chain[c].segments[i]
      /\ l.pos \in Nat /\ l.pos + len <= Len(data[seg])
      /\ bytes = Cut(data[seg], l.pos, l.pos + len)
  BY <1>1, <1>2, ReadInPlace
<1>4. held' = held \cup {h} /\ UNCHANGED <<data, chain, free_list, arrived>>
  BY <1>3 DEF BC!Hold
<1> DEFINE p == l.pos
<1> HIDE DEF l, seg, bytes
<1>5. seg \in In(chain[c].segments)
  BY <1>3 DEF In
<1>6. data[seg] \in Seq(Nat)
  BY <1>1, <1>3 DEF ChainTyped, Contents
<1>7. bytes \in Seq(Nat) /\ Len(bytes) = len
  <2>1. p \in Nat /\ p + len \in Nat /\ p <= p + len /\ p + len <= Len(data[seg])
        /\ (p + len) - p = len
    BY <1>3
  <2>2. Cut(data[seg], p, p + len) \in Seq(Nat) /\ Len(Cut(data[seg], p, p + len)) = (p + len) - p
    BY <2>1, <1>6, CutBytes
  <2> QED BY <2>1, <2>2, <1>3
<1>8. h \in Reader /\ h.segment = seg /\ h.pos = p /\ h.bytes = bytes
  BY <1>3, <1>7 DEF Reader
<1> HIDE DEF h
<1>9. ChainTyped'
  BY <1>1, <1>4, <1>8 DEF ChainTyped
<1>10. Owned'
  <2>1. seg \notin In(free_list)
    BY <1>1, <1>5 DEF Owned, Apart
  <2> QED BY <2>1, <1>1, <1>4, <1>8 DEF Owned, Free
<1>11. Seen'
  <2>1. h.pos + Len(h.bytes) <= Len(data[h.segment])
        /\ Cut(data[h.segment], h.pos, h.pos + Len(h.bytes)) = h.bytes
    BY <1>3, <1>7, <1>8
  <2> QED BY <2>1, <1>1, <1>4 DEF Seen
<1>12. \A e \in Chains : ChainOK(data', chain'[e])
  BY <1>4 DEF ChainInv
<1>13. \A e \in Chains : BC!Content(e)' = BC!Content(e)
  BY <1>4 DEF BC!Content
<1> QED BY <1>9, <1>10, <1>11, <1>12, <1>13 DEF ChainInv

LEMMA ClearKeeps ==
    ASSUME ChainInv, NEW c \in Chains, BC!Clear(c)
    PROVE  /\ ChainInv' /\ BC!Content(c)' = <<>>
           /\ \A e \in Chains \ {c} : BC!Content(e)' = BC!Content(e)
<1>1. chain \in [Chains -> ChainRecord] /\ ChainTyped /\ Owned /\ data \in Contents
  BY DEF ChainInv, ChainTyped
<1>2. /\ chain' = [chain EXCEPT ![c].segments = <<>>, ![c].consumed_offset = 0, ![c].total_size = 0]
      /\ free_list' = BC!Recycled(c, chain[c].segments)
      /\ UNCHANGED <<data, held, arrived>>
  BY DEF BC!Clear
<1>3. /\ chain' \in [Chains -> ChainRecord]
      /\ chain'[c].segments = <<>> /\ chain'[c].consumed_offset = 0 /\ chain'[c].total_size = 0
      /\ \A e \in Chains \ {c} : chain'[e] = chain[e]
  <2>1. <<>> \in Seq(Segments)
    BY EmptySeq
  <2> QED BY <2>1, <1>1, <1>2 DEF ChainRecord
<1>4. chain[c].segments \in Seq(Segments) /\ Distinct(chain[c].segments)
      /\ Apart(In(chain[c].segments), In(free_list)) /\ Free(free_list)
  BY <1>1 DEF Owned, ChainRecord
<1>5. Free(free_list') /\ In(free_list') \subseteq In(free_list) \cup In(chain[c].segments)
  BY <1>2, <1>4, RecycledFree
<1>6. ChainTyped'
  BY <1>1, <1>2, <1>3 DEF ChainTyped
<1>7. Owned'
  <2>1. Free(free_list)'
    BY <1>2, <1>5 DEF Free
  <2>2. \A e \in Chains \ {c} : Apart(In(chain[e].segments), In(free_list'))
    BY <1>1, <1>5 DEF Owned, Apart
  <2>3. \A e \in Chains : /\ Distinct(chain'[e].segments)
                          /\ Apart(In(chain'[e].segments), In(free_list'))
    BY <2>2, <1>1, <1>3, InEmpty DEF Owned, Apart
  <2>4. \A a, b \in Chains : a # b => Apart(In(chain'[a].segments), In(chain'[b].segments))
    BY <1>1, <1>3, InEmpty DEF Owned, Apart
  <2> QED BY <2>1, <2>3, <2>4 DEF Owned
<1>8. Seen'
  BY <1>2, SeenKept
<1>9. ChainOK(data', chain'[c]) /\ Bytes(data', chain'[c]) = <<>>
  <2> DEFINE q == chain'[c]
  <2>1. q \in ChainRecord /\ q.segments = <<>> /\ q.consumed_offset = 0 /\ q.total_size = 0
        /\ data' = data
    BY <1>2, <1>3
  <2> HIDE DEF q
  <2>2. ChainOK(data, q) /\ Bytes(data, q) = <<>>
    BY <2>1, <1>1, Emptied
  <2> QED BY <2>1, <2>2 DEF q
<1>10. \A e \in Chains \ {c} : ChainOK(data', chain'[e]) /\ BC!Content(e)' = BC!Content(e)
  <2>1. {c} \in SUBSET Chains /\ data' \in Contents
    BY <1>1, <1>2
  <2>2. \A e \in Chains \ {c} : \A s \in In(chain[e].segments) : data'[s] = data[s]
    BY <1>2
  <2> QED BY <2>1, <2>2, <1>3, OthersKept
<1>11. BC!Content(c)' = <<>>
  <2>1. chain'[c].segments \in Seq(Segments)
    BY <1>3 DEF ChainRecord
  <2> QED BY <2>1, <1>9, ContentBytesAfter
<1> QED BY <1>6, <1>7, <1>8, <1>9, <1>10, <1>11 DEF ChainInv

LEMMA ConsumeKeeps ==
    ASSUME ChainInv, NEW c \in Chains, NEW n \in Nat, BC!Consume(c, n)
    PROVE  /\ ChainInv'
           /\ BC!Content(c)' = Cut(BC!Content(c), n, Len(BC!Content(c)))
           /\ n \in 1..Len(BC!Content(c))
           /\ \A e \in Chains \ {c} : BC!Content(e)' = BC!Content(e)
<1> DEFINE segs == chain[c].segments
           m == Len(segs)
           p == Turn(c, n)[m]
           k == p.gone
           gone == Cut(segs, 0, k)
           left == Cut(segs, k, m)
<1>1. /\ chain \in [Chains -> ChainRecord] /\ ChainTyped /\ Owned /\ data \in Contents /\ Readable(c)
      /\ segs \in Seq(Segments) /\ Distinct(segs) /\ Free(free_list) /\ Apart(In(segs), In(free_list))
  <2>1. /\ chain \in [Chains -> ChainRecord] /\ ChainTyped /\ Owned /\ data \in Contents
        /\ ChainOK(data, chain[c]) /\ Distinct(segs) /\ Free(free_list) /\ Apart(In(segs), In(free_list))
    BY Zenon DEF ChainInv, ChainTyped, Owned
  <2>2. chain[c] \in ChainRecord
    BY <2>1, Zenon
  <2>3. Readable(c)
    BY <2>1, <2>2, Zenon DEF Readable
  <2> QED BY <2>1, <2>2, <2>3 DEF ChainRecord
<1>2. /\ n \in 1..chain[c].total_size
      /\ chain' = [chain EXCEPT ![c].segments = SubSeq(segs, p.gone + 1, Len(segs)),
                                ![c].consumed_offset = p.consumed_offset,
                                ![c].total_size = p.total_size]
      /\ free_list' = BC!Recycled(c, SubSeq(segs, 1, p.gone))
      /\ UNCHANGED <<data, held, arrived>>
  BY Zenon DEF BC!Consume, Turn
<1>3. /\ chain[c].total_size \in Nat /\ n <= chain[c].total_size
      /\ Len(BC!Content(c)) = chain[c].total_size
  BY <1>1, <1>2, ContentIsCut
<1>4. /\ k \in 0..m /\ p.consumed_offset \in Nat
      /\ p.total_size = chain[c].total_size - n
      /\ Len(Upto(Joined(data, segs))[k]) + p.consumed_offset = chain[c].consumed_offset + n
      /\ k < m => p.consumed_offset < Len(data[segs[k + 1]])
      /\ k = m => p.consumed_offset = 0
  BY <1>1, <1>3, TurnsConsume
<1> HIDE DEF p
<1>5. /\ gone \in Seq(Segments) /\ left \in Seq(Segments) /\ In(gone) \subseteq In(segs)
      /\ In(left) \subseteq In(segs) /\ Distinct(gone) /\ Distinct(left) /\ Apart(In(gone), In(left))
  BY <1>1, <1>4, InCut
<1>6. SubSeq(segs, k + 1, m) = left /\ SubSeq(segs, 1, k) = gone
  <2>1. 0 + 1 = 1
    OBVIOUS
  <2> QED BY <2>1 DEF Cut
<1> DEFINE o == p.consumed_offset
           t == p.total_size
<1>7. o \in Nat /\ t \in Nat /\ t = chain[c].total_size - n
  BY <1>3, <1>4
<1> HIDE DEF gone, left, o, t
<1>8. /\ chain' \in [Chains -> ChainRecord]
      /\ chain'[c].segments = left /\ chain'[c].consumed_offset = o /\ chain'[c].total_size = t
      /\ \A e \in Chains \ {c} : chain'[e] = chain[e]
  <2>1. chain' = [chain EXCEPT ![c].segments = left, ![c].consumed_offset = o, ![c].total_size = t]
    BY <1>2, <1>6 DEF o, t
  <2> QED BY <2>1, <1>1, <1>5, <1>7 DEF ChainRecord
<1>9. Free(free_list') /\ In(free_list') \subseteq In(free_list) \cup In(gone)
  <2>1. free_list' = BC!Recycled(c, gone)
    BY <1>2, <1>6
  <2>2. Apart(In(gone), In(free_list))
    BY <1>1, <1>5 DEF Apart
  <2> QED BY <2>1, <2>2, <1>1, <1>5, RecycledFree
<1>10. ChainTyped'
  BY <1>1, <1>2, <1>8 DEF ChainTyped
<1>11. Owned'
  <2>1. Free(free_list)'
    BY <1>2, <1>9 DEF Free
  <2>2. \A e \in Chains \ {c} : /\ Apart(In(chain[e].segments), In(free_list))
                                /\ Apart(In(chain[e].segments), In(segs))
                                /\ Distinct(chain[e].segments)
    BY <1>1 DEF Owned
  <2>3. \A e \in Chains \ {c} : Apart(In(chain[e].segments), In(free_list'))
    BY <2>2, <1>5, <1>9 DEF Apart
  <2>4. Apart(In(left), In(free_list'))
    BY <1>1, <1>5, <1>9 DEF Apart
  <2>5. \A e \in Chains : /\ Distinct(chain'[e].segments)
                          /\ Apart(In(chain'[e].segments), In(free_list'))
    BY <2>2, <2>3, <2>4, <1>5, <1>8
  <2>6. \A e \in Chains \ {c} : Apart(In(chain[e].segments), In(left))
    BY <2>2, <1>5 DEF Apart
  <2>7. \A a, b \in Chains : a # b => Apart(In(chain'[a].segments), In(chain'[b].segments))
    BY <2>6, <1>1, <1>8 DEF Owned, Apart
  <2> QED BY <2>1, <2>5, <2>7 DEF Owned
<1>12. Seen'
  BY <1>2, SeenKept
<1>13. ChainOK(data', chain'[c]) /\ Bytes(data', chain'[c]) = Cut(Bytes(data, chain[c]), n, Len(Bytes(data, chain[c])))
  <2> DEFINE r == chain[c]
             q == chain'[c]
  <2>1. /\ r \in ChainRecord /\ q \in ChainRecord /\ ChainOK(data, r) /\ data' = data
        /\ r.segments = segs /\ q.segments = left /\ q.consumed_offset = o /\ q.total_size = t
    BY <1>1, <1>2, <1>8 DEF ChainInv
  <2>2. t = r.total_size - n /\ n <= r.total_size
    BY <1>3, <1>7
  <2>3. /\ k \in 0..Len(r.segments) /\ q.segments = Cut(r.segments, k, Len(r.segments))
        /\ q.total_size = r.total_size - n
        /\ Len(Upto(Joined(data, r.segments))[k]) + q.consumed_offset = r.consumed_offset + n
        /\ k < Len(r.segments) => q.consumed_offset < Len(data[r.segments[k + 1]])
        /\ k = Len(r.segments) => q.consumed_offset = 0
    BY <2>1, <2>2, <1>4 DEF left, o
  <2> HIDE DEF r, q, segs, m, k
  <2>4. ChainOK(data, q) /\ Bytes(data, q) = Cut(Bytes(data, r), n, Len(Bytes(data, r)))
    BY <2>1, <2>2, <2>3, <1>1, Shed
  <2> QED BY <2>1, <2>4 DEF r, q
<1>14. \A e \in Chains \ {c} : ChainOK(data', chain'[e]) /\ BC!Content(e)' = BC!Content(e)
  <2>1. {c} \in SUBSET Chains /\ data' \in Contents
    BY <1>1, <1>2
  <2>2. \A e \in Chains \ {c} : \A s \in In(chain[e].segments) : data'[s] = data[s]
    BY <1>2
  <2> QED BY <2>1, <2>2, <1>8, OthersKept
<1>15. BC!Content(c)' = Bytes(data', chain'[c]) /\ BC!Content(c) = Bytes(data, chain[c])
  <2>1. chain'[c].segments \in Seq(Segments)
    BY <1>5, <1>8
  <2> QED BY <2>1, <1>1, ContentBytes, ContentBytesAfter
<1>16. n \in 1..Len(BC!Content(c))
  BY <1>2, <1>3
<1>17. BC!Content(c)' = Cut(BC!Content(c), n, Len(BC!Content(c)))
  BY <1>13, <1>15
<1>18. \A e \in Chains : ChainOK(data', chain'[e])
  BY <1>13, <1>14
<1> QED BY <1>10, <1>11, <1>12, <1>14, <1>16, <1>17, <1>18 DEF ChainInv

LEMMA AppendKeeps ==
    ASSUME ChainInv, NEW c \in Chains, NEW n \in 1..(SegmentSize + 1), BC!AppendBytes(c, n)
    PROVE  /\ ChainInv'
           /\ \E more \in Seq(Nat) : Len(more) = n /\ BC!Content(c)' = BC!Content(c) \o more
           /\ BC!Content(c) \in Seq(Nat)
           /\ \A e \in Chains \ {c} : BC!Content(e)' = BC!Content(e)
<1> DEFINE P == BC!Pieces(n)
           t == BC!Allocated(Len(P))
           k == Len(free_list) - BC!FromPool(Len(P))
           f == data'
           r == chain[c]
           q == chain'[c]
<1>1. /\ chain \in [Chains -> ChainRecord] /\ ChainTyped /\ Owned /\ data \in Contents
      /\ r \in ChainRecord /\ ChainOK(data, r) /\ r.segments \in Seq(Segments)
      /\ Distinct(r.segments) /\ Free(free_list) /\ arrived \in Nat /\ r.total_size \in Nat
      /\ r.consumed_offset \in Nat
  BY DEF ChainInv, ChainTyped, Owned, ChainRecord
<1>2. /\ P \in Seq(Seq(Nat)) /\ Len(P) \in Nat /\ DOMAIN P = 1..Len(P)
      /\ \A i \in 1..Len(P) : P[i] # <<>>
      /\ Len(BC!FlattenSeq(P)) = n
  BY <1>1, PiecesJoin
<1>3. /\ BC!CanAllocate(Len(P)) /\ arrived' = arrived + n /\ UNCHANGED held
      /\ data' = [s \in Segments |-> IF s \in BC!ToSet(t)
                                     THEN P[CHOOSE i \in DOMAIN t : t[i] = s] ELSE data[s]]
      /\ free_list' = SubSeq(free_list, 1, Len(free_list) - BC!FromPool(Len(t)))
      /\ chain' = [chain EXCEPT ![c].segments = @ \o t, ![c].total_size = @ + n]
  BY DEF BC!AppendBytes
<1>4. /\ t \in Seq(Segments) /\ Len(t) = Len(P) /\ Distinct(t)
      /\ k \in 0..Len(free_list) /\ Apart(In(t), In(Cut(free_list, 0, k)))
      /\ \A e \in Chains : Apart(In(t), In(chain[e].segments))
      /\ \A h \in held : h.segment \notin In(t)
  BY <1>1, <1>2, <1>3, AllocatedFree
<1>5. BC!ToSet(t) = In(t) /\ DOMAIN t = 1..Len(t)
  BY <1>4, InIsToSet, LenProperties
<1>6. free_list' = Cut(free_list, 0, k)
  <2>1. Len(t) = Len(P) /\ 0 + 1 = 1
    BY <1>4
  <2> QED BY <2>1, <1>3 DEF Cut
<1> HIDE DEF P, t, k
<1>7. ASSUME NEW i \in 1..Len(t) PROVE t[i] \in Segments /\ f[t[i]] = P[i]
  <2>1. t[i] \in Segments /\ t[i] \in In(t)
    BY <1>4, ElementOfSeq DEF In
  <2>2. \A j \in 1..Len(t) : t[j] = t[i] => j = i
    BY <1>4 DEF Distinct
  <2>3. (CHOOSE j \in DOMAIN t : t[j] = t[i]) = i
    BY <2>2, <1>5
  <2>4. f[t[i]] = P[CHOOSE j \in DOMAIN t : t[j] = t[i]]
    BY <2>1, <1>3, <1>5
  <2> QED BY <2>1, <2>3, <2>4
<1>8. \A s \in Segments : s \notin In(t) => f[s] = data[s]
  BY <1>3, <1>5
<1>9. f \in Contents
  <2>1. ASSUME NEW s \in Segments PROVE f[s] \in Seq(Nat)
    <3>1. CASE s \in In(t)
      <4>1. PICK i \in 1..Len(t) : s = t[i]
        BY <3>1 DEF In
      <4>2. P[i] \in Seq(Nat)
        BY <1>2, <1>4, ElementOfSeq
      <4> QED BY <4>1, <4>2, <1>7
    <3>2. CASE s \notin In(t)
      BY <3>2, <1>1, <1>8 DEF Contents
    <3> QED BY <3>1, <3>2
  <2>2. f = [s \in Segments |-> f[s]]
    BY <1>3
  <2> HIDE DEF f
  <2> QED BY <2>1, <2>2 DEF Contents
<1>a. f = data'
  OBVIOUS
<1> HIDE DEF f
<1>10. /\ chain' \in [Chains -> ChainRecord]
       /\ q.segments = r.segments \o t /\ q.total_size = r.total_size + n
       /\ q.consumed_offset = r.consumed_offset
       /\ \A e \in Chains \ {c} : chain'[e] = chain[e]
  <2>1. r.segments \o t \in Seq(Segments)
    BY <1>1, <1>4, ConcatProperties
  <2>2. r.total_size + n \in Nat
    BY <1>1, BufferAssumption
  <2> DEFINE w == r.segments \o t
             v == r.total_size + n
  <2>3. chain' = [chain EXCEPT ![c].segments = w, ![c].total_size = v]
    BY <1>3
  <2>4. w \in Seq(Segments) /\ v \in Nat
    BY <2>1, <2>2
  <2> HIDE DEF w, v
  <2>5. /\ chain' \in [Chains -> ChainRecord]
        /\ q.segments = w /\ q.total_size = v
        /\ q.consumed_offset = r.consumed_offset
        /\ \A e \in Chains \ {c} : chain'[e] = chain[e]
    BY <2>3, <2>4, <1>1 DEF ChainRecord
  <2> QED BY <2>5 DEF w, v
<1>11. \A i \in 1..Len(t) : f[t[i]] # <<>>
  BY <1>2, <1>4, <1>7
<1>12. All(f, t) \in Seq(Nat) /\ Len(All(f, t)) = n
  <2>1. Joined(f, t) \in Seq(Seq(Nat)) /\ Len(Joined(f, t)) = Len(t)
        /\ \A i \in 1..Len(t) : Joined(f, t)[i] = f[t[i]]
    BY <1>4, <1>9, JoinedTyped
  <2>2. ASSUME NEW i \in 1..Len(Joined(f, t)) PROVE Joined(f, t)[i] = P[i]
    BY <2>1, <1>7
  <2>3. Joined(f, t) = P
    <3> DEFINE j == Joined(f, t)
    <3> HIDE DEF j
    <3>1. j \in Seq(Seq(Nat)) /\ P \in Seq(Seq(Nat)) /\ Len(j) = Len(P)
          /\ \A i \in 1..Len(j) : j[i] = P[i]
      BY <2>1, <2>2, <1>2, <1>4 DEF j
    <3>2. j = P
      BY <3>1, SeqEqual
    <3> QED BY <3>2 DEF j
  <2>4. All(f, t) \in Seq(Nat)
    BY <1>4, <1>9, JoinedTyped
  <2> QED BY <2>3, <2>4, <1>2 DEF All
<1>13. \A e \in Chains : \A s \in In(chain[e].segments) : f[s] = data[s]
  <2>1. ASSUME NEW e \in Chains, NEW s \in In(chain[e].segments) PROVE f[s] = data[s]
    <3>1. chain[e].segments \in Seq(Segments)
      BY <1>1 DEF ChainRecord
    <3>2. s \in Segments /\ s \notin In(t)
      BY <2>1, <3>1, <1>4, InTyped DEF Apart
    <3> QED BY <3>2, <1>8
  <2> QED BY <2>1
<1>14. \A h \in held : f[h.segment] = data[h.segment]
  BY <1>1, <1>4, <1>8 DEF ChainTyped, Reader
<1>15. ChainTyped'
  <2>1. arrived + n \in Nat
    BY <1>1, BufferAssumption
  <2> QED BY <2>1, <1>1, <1>3, <1>9, <1>10, <1>a DEF ChainTyped
<1> DEFINE kept == Cut(free_list, 0, k)
<1>16. /\ kept \in Seq(Segments) /\ Distinct(kept) /\ In(kept) \subseteq In(free_list)
       /\ Free(kept)
  <2>1. free_list \in Seq(Segments) /\ Distinct(free_list) /\ \A h \in held : h.segment \notin In(free_list)
    BY <1>1 DEF Free
  <2>2. kept \in Seq(Segments) /\ Distinct(kept) /\ In(kept) \subseteq In(free_list)
    BY <2>1, <1>4, InCut
  <2> HIDE DEF kept
  <2> QED BY <2>1, <2>2 DEF Free
<1>b. Apart(In(t), In(kept)) /\ free_list' = kept
  BY <1>4, <1>6
<1> HIDE DEF kept
<1>17. In(q.segments) = In(r.segments) \cup In(t) /\ Distinct(q.segments)
  <2>1. Apart(In(r.segments), In(t))
    BY <1>4 DEF Apart
  <2>2. In(r.segments \o t) = In(r.segments) \cup In(t) /\ Distinct(r.segments \o t)
    <3> DEFINE s == r.segments
    <3>1. s \in Seq(Segments) /\ t \in Seq(Segments) /\ Distinct(s) /\ Distinct(t) /\ Apart(In(s), In(t))
      BY <2>1, <1>1, <1>4
    <3> HIDE DEF s
    <3>2. In(s \o t) = In(s) \cup In(t) /\ Distinct(s \o t)
      BY <3>1, InConcat
    <3> QED BY <3>2 DEF s
  <2> QED BY <2>2, <1>10
<1>18. Owned'
  <2>1. Free(free_list)'
    BY <1>3, <1>16, <1>b DEF Free
  <2>2. \A e \in Chains : /\ Apart(In(chain[e].segments), In(free_list))
                          /\ Distinct(chain[e].segments)
    BY <1>1 DEF Owned
  <2>3. \A e \in Chains : Apart(In(chain[e].segments), In(kept))
    BY <2>2, <1>16 DEF Apart
  <2>4. Apart(In(q.segments), In(kept))
    BY <2>3, <1>17, <1>b DEF Apart
  <2>5. \A e \in Chains : Distinct(chain'[e].segments) /\ Apart(In(chain'[e].segments), In(free_list'))
    BY <2>2, <2>3, <2>4, <1>10, <1>17, <1>b
  <2>6. \A e \in Chains \ {c} : Apart(In(chain[e].segments), In(r.segments))
    BY <1>1 DEF Owned
  <2>7. \A e \in Chains \ {c} : Apart(In(chain[e].segments), In(q.segments))
    BY <2>6, <1>4, <1>17 DEF Apart
  <2>8. \A a, b \in Chains : a # b => Apart(In(chain'[a].segments), In(chain'[b].segments))
    BY <2>7, <1>1, <1>10 DEF Owned, Apart
  <2> QED BY <2>1, <2>5, <2>8 DEF Owned
<1>19. Seen'
  BY <1>3, <1>14, <1>a, SeenKept
<1>20. /\ ChainOK(f, q) /\ Bytes(f, q) = Bytes(f, r) \o All(f, t) /\ Bytes(f, r) = Bytes(data, r)
       /\ Bytes(f, r) \in Seq(Nat)
  <2>0. q \in ChainRecord
    BY <1>10
  <2> HIDE DEF r, q
  <2>1. \A s \in In(r.segments) : data[s] = f[s]
    BY <1>13 DEF r
  <2>2. Bytes(f, r) = Bytes(data, r) /\ ChainOK(f, r)
    BY <2>1, <1>1, <1>9, BytesSame
  <2>3. q.total_size = r.total_size + Len(All(f, t))
    BY <1>10, <1>12
  <2>4. /\ ChainOK(f, q) /\ Bytes(f, q) = Bytes(f, r) \o All(f, t) /\ Bytes(f, r) \in Seq(Nat)
    BY <2>0, <2>2, <2>3, <1>1, <1>4, <1>9, <1>10, <1>11, Extended
  <2> QED BY <2>2, <2>4
<1>21. \A e \in Chains \ {c} : ChainOK(data', chain'[e]) /\ BC!Content(e)' = BC!Content(e)
  <2>1. {c} \in SUBSET Chains /\ data' \in Contents
    BY <1>9, <1>a
  <2> QED BY <2>1, <1>10, <1>13, <1>a, OthersKept
<1>22. BC!Content(c)' = Bytes(f, q) /\ BC!Content(c) = Bytes(data, r)
  <2>1. chain'[c].segments \in Seq(Segments)
    BY <1>10 DEF ChainRecord
  <2> QED BY <2>1, <1>1, <1>a, ContentBytes, ContentBytesAfter
<1>23. \A e \in Chains : ChainOK(data', chain'[e])
  BY <1>20, <1>21, <1>a
<1>24. BC!Content(c)' = BC!Content(c) \o All(f, t) /\ BC!Content(c) \in Seq(Nat)
  BY <1>20, <1>22
<1> QED BY <1>12, <1>15, <1>18, <1>19, <1>21, <1>23, <1>24 DEF ChainInv

LEMMA CompactKeeps ==
    ASSUME ChainInv, NEW c \in Chains, BC!Compact(c)
    PROVE  ChainInv' /\ \A e \in Chains : BC!Content(e)' = BC!Content(e)
<1> DEFINE e == BC!Compacted(c).data
           t == BC!Compacted(c).segments
           r == chain[c]
           q == chain'[c]
<1>1. /\ chain \in [Chains -> ChainRecord] /\ ChainTyped /\ Owned /\ data \in Contents
      /\ r \in ChainRecord /\ ChainOK(data, r) /\ Readable(c) /\ r.segments \in Seq(Segments)
  BY DEF ChainInv, ChainTyped, ChainRecord, Readable
<1>2. /\ chain[c].consumed_offset > 0 /\ BC!CanCompact(c) /\ data' = e
      /\ chain' = [chain EXCEPT ![c].segments = t, ![c].consumed_offset = 0]
      /\ UNCHANGED <<free_list, held, arrived>>
  BY DEF BC!Compact
<1>3. Rewritten(c, e, t)
  BY <1>2, CompactedKeeps
<1> HIDE DEF e, t
<1>4. /\ e \in Contents /\ t \in Seq(Segments) /\ Distinct(t)
      /\ All(e, t) = Bytes(data, r)
      /\ \A i \in 1..Len(t) : e[t[i]] # <<>>
      /\ Apart(In(t), In(free_list))
      /\ \A d \in Chains \ {c} : /\ Apart(In(t), In(chain[d].segments))
                                 /\ \A s \in In(chain[d].segments) : e[s] = data[s]
      /\ \A h \in held : e[h.segment] = data[h.segment]
  BY <1>3 DEF Rewritten
<1>5. /\ chain' \in [Chains -> ChainRecord]
      /\ q.segments = t /\ q.consumed_offset = 0 /\ q.total_size = r.total_size
      /\ \A d \in Chains \ {c} : chain'[d] = chain[d]
  BY <1>1, <1>2, <1>4 DEF ChainRecord
<1>6. BC!Content(c) = Bytes(data, r) /\ BC!Content(c)' = Bytes(data', q)
  <2>1. chain'[c].segments \in Seq(Segments)
    BY <1>4, <1>5
  <2> QED BY <2>1, <1>1, ContentBytes, ContentBytesAfter
<1>7. Len(All(e, t)) = r.total_size
  <2>1. Len(BC!Content(c)) = chain[c].total_size
    BY <1>1, ContentIsCut
  <2> QED BY <2>1, <1>4, <1>6
<1>8. ChainOK(e, q) /\ Bytes(e, q) = All(e, t)
  <2>0. q \in ChainRecord
    BY <1>5
  <2> HIDE DEF r, q
  <2> QED BY <2>0, <1>4, <1>5, <1>7, WholeChain
<1>9. \A d \in Chains \ {c} : ChainOK(data', chain'[d]) /\ BC!Content(d)' = BC!Content(d)
  <2>1. {c} \in SUBSET Chains /\ data' \in Contents
    BY <1>2, <1>4
  <2>2. \A d \in Chains \ {c} : \A s \in In(chain[d].segments) : data'[s] = data[s]
    BY <1>2, <1>4
  <2> QED BY <2>1, <2>2, <1>5, OthersKept
<1>10. BC!Content(c)' = BC!Content(c)
  BY <1>2, <1>4, <1>6, <1>8
<1>11. ChainTyped'
  BY <1>1, <1>2, <1>4, <1>5 DEF ChainTyped
<1>12. Seen'
  <2>1. \A h \in held : data'[h.segment] = data[h.segment]
    BY <1>2, <1>4
  <2> QED BY <2>1, <1>2, SeenKept
<1>13. Owned'
  <2>1. Free(free_list)'
    BY <1>1, <1>2 DEF Owned, Free
  <2>2. \A d \in Chains \ {c} : /\ Distinct(chain[d].segments)
                                /\ Apart(In(chain[d].segments), In(free_list))
                                /\ Apart(In(chain[d].segments), In(t))
    BY <1>1, <1>4 DEF Owned, Apart
  <2>3. \A d \in Chains : Distinct(chain'[d].segments) /\ Apart(In(chain'[d].segments), In(free_list'))
    BY <2>2, <1>2, <1>4, <1>5
  <2>4. \A a, b \in Chains : a # b => Apart(In(chain'[a].segments), In(chain'[b].segments))
    BY <2>2, <1>1, <1>4, <1>5 DEF Owned
  <2> QED BY <2>1, <2>3, <2>4 DEF Owned
<1>14. \A d \in Chains : ChainOK(data', chain'[d])
  BY <1>2, <1>8, <1>9
<1>15. \A d \in Chains : BC!Content(d)' = BC!Content(d)
  BY <1>9, <1>10
<1> QED BY <1>11, <1>12, <1>13, <1>14, <1>15 DEF ChainInv

LEMMA SpliceKeeps ==
    ASSUME ChainInv, NEW c \in Chains, NEW d \in Chains, BC!Splice(c, d)
    PROVE  /\ ChainInv' /\ c # d
           /\ BC!Content(c)' = BC!Content(c) \o BC!Content(d) /\ BC!Content(d)' = <<>>
           /\ \A e \in Chains \ {c, d} : BC!Content(e)' = BC!Content(e)
<1> DEFINE f == BC!Source(d).data
           t == BC!Source(d).segments
           r == chain[c]
           q == chain'[c]
           x == chain'[d]
<1>1. /\ chain \in [Chains -> ChainRecord] /\ ChainTyped /\ Owned /\ data \in Contents
      /\ r \in ChainRecord /\ ChainOK(data, r) /\ Readable(d) /\ r.segments \in Seq(Segments)
      /\ Distinct(r.segments) /\ r.total_size \in Nat /\ chain[d].segments \in Seq(Segments)
      /\ chain[d].total_size \in Nat /\ r.recycles \in BOOLEAN /\ chain[d].recycles \in BOOLEAN
      /\ chain[d].consumed_offset \in Nat
  <2>1. /\ chain \in [Chains -> ChainRecord] /\ ChainTyped /\ Owned /\ data \in Contents
        /\ ChainOK(data, r) /\ ChainOK(data, chain[d]) /\ Distinct(r.segments)
    BY Zenon DEF ChainInv, ChainTyped, Owned
  <2>2. r \in ChainRecord /\ chain[d] \in ChainRecord
    BY <2>1, Zenon
  <2>3. Readable(d)
    BY <2>1, <2>2, Zenon DEF Readable
  <2> QED BY <2>1, <2>2, <2>3 DEF ChainRecord
<1>2. /\ c # d /\ (chain[d].consumed_offset > 0 => BC!CanCompact(d)) /\ data' = f
      /\ chain' = [chain EXCEPT
                     ![c].segments = @ \o t,
                     ![c].total_size = @ + chain[d].total_size,
                     ![c].recycles = @ \/ chain[d].recycles,
                     ![d].segments = <<>>, ![d].consumed_offset = 0, ![d].total_size = 0]
      /\ UNCHANGED <<free_list, held, arrived>>
  BY Zenon DEF BC!Splice
<1>3. Rewritten(d, f, t)
  <2>1. CASE chain[d].consumed_offset > 0
    <3>1. f = BC!Compacted(d).data /\ t = BC!Compacted(d).segments
      BY <2>1 DEF BC!Source
    <3> HIDE DEF f, t
    <3> QED BY <3>1, <2>1, <1>2, CompactedKeeps, Zenon
  <2>2. CASE ~(chain[d].consumed_offset > 0)
    <3>1. f = data /\ t = chain[d].segments
      BY <2>2 DEF BC!Source, BC!NotCompacted
    <3>2. chain[d].consumed_offset = 0
      BY <2>2, <1>1
    <3> HIDE DEF f, t
    <3> QED BY <3>1, <3>2, NotCompactedKeeps
  <2> QED BY <2>1, <2>2, Zenon
<1> HIDE DEF f, t
<1>4. /\ f \in Contents /\ t \in Seq(Segments) /\ Distinct(t)
      /\ All(f, t) = Bytes(data, chain[d])
      /\ \A i \in 1..Len(t) : f[t[i]] # <<>>
      /\ Apart(In(t), In(free_list))
      /\ \A e \in Chains \ {d} : /\ Apart(In(t), In(chain[e].segments))
                                 /\ \A s \in In(chain[e].segments) : f[s] = data[s]
      /\ \A h \in held : f[h.segment] = data[h.segment]
  BY <1>3 DEF Rewritten
<1>5. /\ chain' \in [Chains -> ChainRecord]
      /\ q.segments = r.segments \o t /\ q.consumed_offset = r.consumed_offset
      /\ q.total_size = r.total_size + chain[d].total_size
      /\ x.segments = <<>> /\ x.consumed_offset = 0 /\ x.total_size = 0
      /\ \A e \in Chains \ {c, d} : chain'[e] = chain[e]
  <2> DEFINE w == r.segments \o t
             v == r.total_size + chain[d].total_size
             y == r.recycles \/ chain[d].recycles
  <2>1. w \in Seq(Segments) /\ v \in Nat /\ y \in BOOLEAN /\ <<>> \in Seq(Segments)
    <3>1. w \in Seq(Segments)
      BY <1>1, <1>4, ConcatProperties, Zenon
    <3>2. v \in Nat /\ y \in BOOLEAN
      BY <1>1
    <3> QED BY <3>1, <3>2, EmptySeq
  <2>2. chain' = [chain EXCEPT ![c].segments = w, ![c].total_size = v, ![c].recycles = y,
                     ![d].segments = <<>>, ![d].consumed_offset = 0, ![d].total_size = 0]
    BY <1>2, Zenon
  <2> HIDE DEF w, v, y
  <2>3. /\ chain' \in [Chains -> ChainRecord]
        /\ q.segments = w /\ q.consumed_offset = r.consumed_offset
        /\ q.total_size = v
        /\ x.segments = <<>> /\ x.consumed_offset = 0 /\ x.total_size = 0
        /\ \A e \in Chains \ {c, d} : chain'[e] = chain[e]
    <3> DEFINE mid == [chain EXCEPT ![c].segments = w, ![c].total_size = v, ![c].recycles = y]
    <3>1. chain' = [mid EXCEPT ![d].segments = <<>>, ![d].consumed_offset = 0, ![d].total_size = 0]
      BY <2>2
    <3>2. /\ mid \in [Chains -> ChainRecord]
          /\ mid[c].segments = w /\ mid[c].consumed_offset = r.consumed_offset
          /\ mid[c].total_size = v
          /\ \A e \in Chains \ {c} : mid[e] = chain[e]
      BY <2>1, <1>1 DEF ChainRecord
    <3> HIDE DEF mid
    <3>3. /\ chain' \in [Chains -> ChainRecord]
          /\ x.segments = <<>> /\ x.consumed_offset = 0 /\ x.total_size = 0
          /\ \A e \in Chains \ {d} : chain'[e] = mid[e]
      BY <2>1, <3>1, <3>2, ZenonT(40) DEF ChainRecord
    <3>4. q = mid[c]
      BY <3>3, <1>2, Zenon
    <3>5. \A e \in Chains \ {c, d} : chain'[e] = chain[e]
      BY <3>2, <3>3
    <3> HIDE DEF q, x, r
    <3> QED BY <3>2, <3>3, <3>4, <3>5
  <2> QED BY <2>3 DEF w, v
<1>b. c # d /\ data' = f /\ UNCHANGED <<free_list, held, arrived>>
  BY <1>2, Zenon
<1>6. /\ BC!Content(c) = Bytes(data, r) /\ BC!Content(c)' = Bytes(data', q)
      /\ BC!Content(d) = Bytes(data, chain[d]) /\ BC!Content(d)' = Bytes(data', x)
  <2>1. chain'[c].segments \in Seq(Segments) /\ chain'[d].segments \in Seq(Segments)
    BY <1>5 DEF ChainRecord
  <2> QED BY <2>1, <1>1, ContentBytes, ContentBytesAfter
<1>7. Len(All(f, t)) = chain[d].total_size
  <2>1. Len(BC!Content(d)) = chain[d].total_size
    BY <1>1, ContentIsCut
  <2> QED BY <2>1, <1>4, <1>6
<1>8. ChainOK(f, q) /\ Bytes(f, q) = Bytes(data, r) \o All(f, t)
  <2>0. q \in ChainRecord
    BY <1>5
  <2>1. \A s \in In(r.segments) : data[s] = f[s]
    BY <1>b, <1>4, Zenon
  <2> HIDE DEF r, q
  <2>2. Bytes(f, r) = Bytes(data, r) /\ ChainOK(f, r)
    BY <2>1, <1>1, <1>4, BytesSame
  <2>3. q.total_size = r.total_size + Len(All(f, t))
    BY <1>5, <1>7
  <2>4. ChainOK(f, q) /\ Bytes(f, q) = Bytes(f, r) \o All(f, t)
    BY <2>0, <2>2, <2>3, <1>1, <1>4, <1>5, Extended
  <2> QED BY <2>2, <2>4
<1>9. ChainOK(f, x) /\ Bytes(f, x) = <<>>
  <2>0. x \in ChainRecord
    BY <1>5
  <2> HIDE DEF x
  <2> QED BY <2>0, <1>4, <1>5, Emptied
<1>10. \A e \in Chains \ {c, d} : ChainOK(data', chain'[e]) /\ BC!Content(e)' = BC!Content(e)
  <2>1. {c, d} \in SUBSET Chains /\ data' \in Contents
    BY <1>b, <1>4
  <2>2. \A e \in Chains \ {c, d} : \A s \in In(chain[e].segments) : data'[s] = data[s]
    BY <1>b, <1>4, ZenonT(40)
  <2> QED BY <2>1, <2>2, <1>5, OthersKept
<1>11. ChainTyped'
  BY <1>1, <1>b, <1>4, <1>5, ZenonT(40) DEF ChainTyped
<1>12. Seen'
  <2>1. \A h \in held : data'[h.segment] = data[h.segment]
    BY <1>b, <1>4, Zenon
  <2> QED BY <2>1, <1>b, SeenKept, ZenonT(40)
<1>13. In(q.segments) = In(r.segments) \cup In(t) /\ Distinct(q.segments)
  <2>1. Apart(In(r.segments), In(t))
    BY <1>b, <1>4, Zenon DEF Apart
  <2> DEFINE s == r.segments
  <2>2. s \in Seq(Segments) /\ t \in Seq(Segments) /\ Distinct(s) /\ Distinct(t) /\ Apart(In(s), In(t))
    BY <2>1, <1>1, <1>4
  <2>3. q.segments = s \o t
    BY <1>5
  <2> HIDE DEF s, q
  <2>4. In(s \o t) = In(s) \cup In(t) /\ Distinct(s \o t)
    BY <2>2, InConcat
  <2> QED BY <2>3, <2>4, Zenon DEF s
<1>14. Owned'
  <2>1. Free(free_list)'
    BY <1>1, <1>b DEF Owned, Free
  <2>2. \A e \in Chains : /\ Distinct(chain[e].segments)
                          /\ Apart(In(chain[e].segments), In(free_list))
    BY <1>1 DEF Owned
  <2>3. Apart(In(q.segments), In(free_list))
    BY <2>2, <1>4, <1>13 DEF Apart
  <2>4. Distinct(x.segments) /\ Apart(In(x.segments), In(free_list))
    <3>1. x.segments = <<>>
      BY <1>5
    <3> HIDE DEF x
    <3> QED BY <3>1, InEmpty DEF Apart
  <2>5. \A e \in Chains : Distinct(chain'[e].segments) /\ Apart(In(chain'[e].segments), In(free_list'))
    BY <2>2, <2>3, <2>4, <1>b, <1>5, <1>13, Zenon
  <2>6. \A e \in Chains \ {c, d} : Apart(In(chain[e].segments), In(q.segments))
    BY <1>1, <1>4, <1>13 DEF Owned, Apart
  <2>7. \A e \in Chains : Apart(In(chain'[e].segments), In(x.segments))
    BY <1>5, InEmpty DEF Apart
  <2>8. \A a, b \in Chains : a # b => Apart(In(chain'[a].segments), In(chain'[b].segments))
    <3>1. SUFFICES ASSUME NEW a \in Chains, NEW b \in Chains, a # b
                   PROVE  Apart(In(chain'[a].segments), In(chain'[b].segments))
      OBVIOUS
    <3>2. CASE a = d \/ b = d
      BY <3>2, <2>7 DEF Apart
    <3>3. CASE a # d /\ b # d /\ a # c /\ b # c
      BY <3>1, <3>3, <1>1, <1>5 DEF Owned
    <3>4. CASE a # d /\ b # d /\ (a = c \/ b = c)
      BY <3>1, <3>4, <2>6, <1>5, ZenonT(40) DEF Apart
    <3> QED BY <3>2, <3>3, <3>4
  <2> QED BY <2>1, <2>5, <2>8 DEF Owned
<1>15. \A e \in Chains : ChainOK(data', chain'[e])
  BY <1>b, <1>8, <1>9, <1>10, Zenon
<1>16. BC!Content(c)' = BC!Content(c) \o BC!Content(d) /\ BC!Content(d)' = <<>>
  BY <1>b, <1>4, <1>6, <1>8, <1>9, Zenon
<1> QED BY <1>b, <1>10, <1>11, <1>12, <1>14, <1>15, <1>16, Zenon DEF ChainInv

-----------------------------------------------------------------------------
(***************************************************************************)
(* The invariant holds always, and every step is one of the queues.        *)
(***************************************************************************)
LEMMA ChainInitEstablishes ==
    ASSUME BC!Init
    PROVE  ChainInv /\ BC!Q!Init
<1>1. /\ data = [s \in Segments |-> <<>>]
      /\ chain = [c \in Chains |-> [segments |-> <<>>, consumed_offset |-> 0,
                                    total_size |-> 0, recycles |-> c \in Recycling]]
      /\ free_list = <<>> /\ held = {} /\ arrived = 0
  BY DEF BC!Init
<1>2. <<>> \in Seq(Nat) /\ <<>> \in Seq(Segments)
  BY EmptySeq
<1>3. ChainTyped
  BY <1>1, <1>2 DEF ChainTyped, Contents, ChainRecord, Reader
<1>4. Owned
  BY <1>1, <1>2, InEmpty DEF Owned, Free, Apart
<1>5. Seen
  BY <1>1 DEF Seen
<1>6. ASSUME NEW c \in Chains PROVE ChainOK(data, chain[c]) /\ BC!Content(c) = <<>>
  <2> DEFINE q == chain[c]
             d == data
  <2>1. q \in ChainRecord /\ d \in Contents
    BY <1>3 DEF ChainTyped
  <2>2. q.segments = <<>> /\ q.consumed_offset = 0 /\ q.total_size = 0
    BY <1>1
  <2>3. BC!Content(c) = Bytes(d, q)
    BY <1>2, <2>2, ContentBytes
  <2> HIDE DEF q, d
  <2>4. ChainOK(d, q) /\ Bytes(d, q) = <<>>
    BY <2>1, <2>2, Emptied
  <2> QED BY <2>3, <2>4 DEF q, d
<1>7. ChainInv
  BY <1>3, <1>4, <1>5, <1>6 DEF ChainInv
<1>8. BC!Q!Init
  BY <1>6 DEF BC!Q!Init
<1> QED BY <1>7, <1>8

\* The chains as queues.
Queues == [c \in Chains |-> BC!Content(c)]

LEMMA ChainNextKeeps ==
    ASSUME ChainInv, [BC!Next]_chainvars
    PROVE  ChainInv' /\ [BC!Q!Next]_Queues
<1>1. CASE UNCHANGED chainvars
  <2>1. ChainInv'
    BY <1>1 DEF chainvars, ChainInv, ChainTyped, Owned, Free, Seen
  <2>2. Queues' = Queues
    BY <1>1 DEF chainvars, Queues, BC!Content
  <2> QED BY <2>1, <2>2
<1>2. ASSUME \A e \in Chains : BC!Content(e)' = BC!Content(e)
      PROVE  Queues' = Queues
  BY <1>2 DEF Queues
<1>3. ASSUME NEW c \in Chains, NEW n \in 1..(SegmentSize + 1), BC!AppendBytes(c, n)
      PROVE  ChainInv' /\ [BC!Q!Next]_Queues
  <2>1. /\ ChainInv' /\ BC!Content(c) \in Seq(Nat)
        /\ \A e \in Chains \ {c} : BC!Content(e)' = BC!Content(e)
        /\ \E more \in Seq(Nat) : Len(more) = n /\ BC!Content(c)' = BC!Content(c) \o more
    BY <1>3, AppendKeeps
  <2>2. PICK more \in Seq(Nat) : Len(more) = n /\ BC!Content(c)' = BC!Content(c) \o more
    BY <2>1
  <2> DEFINE old == BC!Content(c)
             new == BC!Content(c)'
  <2>3. old \in Seq(Nat) /\ new = old \o more
    BY <2>1, <2>2
  <2> HIDE DEF old, new
  <2>4. Len(new) = Len(old) + n /\ Len(old) \in Nat
    BY <2>2, <2>3, ConcatProperties, LenProperties
  <2>5. Len(new) > Len(old)
    <3> DEFINE a == Len(new)
               b == Len(old)
    <3>1. a = b + n /\ b \in Nat
      BY <2>4
    <3> HIDE DEF a, b
    <3>2. a > b
      BY <3>1
    <3> QED BY <3>2 DEF a, b
  <2>6. SubSeq(new, 1, Len(old)) = old
    <3>1. Cut(old \o more, 0, Len(old)) = Cut(old, 0, Len(old))
      <4>1. 0 \in Nat /\ Len(old) \in Nat /\ 0 <= Len(old) /\ Len(old) <= Len(old)
        BY <2>4
      <4> QED BY <4>1, <2>3, CutFirst
    <3>2. Cut(old, 0, Len(old)) = old
      BY <2>3, CutAll
    <3>3. 0 + 1 = 1
      OBVIOUS
    <3> QED BY <2>3, <3>1, <3>2, <3>3 DEF Cut
  <2>7. BC!Q!Put(c)
    BY <2>1, <2>5, <2>6 DEF BC!Q!Put, old, new
  <2> QED BY <2>1, <2>7 DEF BC!Q!Next
<1>4. ASSUME NEW c \in Chains, NEW n \in Nat, BC!Consume(c, n)
      PROVE  ChainInv' /\ [BC!Q!Next]_Queues
  <2>1. /\ ChainInv' /\ n \in 1..Len(BC!Content(c))
        /\ BC!Content(c)' = Cut(BC!Content(c), n, Len(BC!Content(c)))
        /\ \A e \in Chains \ {c} : BC!Content(e)' = BC!Content(e)
    BY <1>4, ConsumeKeeps
  <2>2. BC!Q!Take(c)
    BY <2>1 DEF BC!Q!Take, Cut
  <2> QED BY <2>1, <2>2 DEF BC!Q!Next
<1>5. ASSUME NEW c \in Chains, NEW offset \in Nat, NEW len \in Nat, len > 0, BC!Hold(c, offset, len)
      PROVE  ChainInv' /\ [BC!Q!Next]_Queues
  BY <1>2, <1>5, HoldKeeps
<1>6. ASSUME NEW c \in Chains, BC!Clear(c) PROVE ChainInv' /\ [BC!Q!Next]_Queues
  <2>1. /\ ChainInv' /\ BC!Content(c)' = <<>>
        /\ \A e \in Chains \ {c} : BC!Content(e)' = BC!Content(e)
    BY <1>6, ClearKeeps
  <2>2. BC!Content(c) \in Seq(Nat)
    BY ContentIsCut DEF ChainInv, ChainTyped, Readable
  <2> DEFINE old == BC!Content(c)
             n == Len(old)
  <2>3. n \in Nat
    BY <2>2, LenProperties
  <2>4. CASE n = 0
    <3>1. old = <<>>
      <4> HIDE DEF old
      <4>1. old \in Seq(Nat)
        BY <2>2 DEF old
      <4> QED BY <4>1, <2>4, EmptySeq
    <3>2. Queues' = Queues
      BY <2>1, <3>1 DEF Queues
    <3> QED BY <2>1, <3>2
  <2>5. CASE n # 0
    <3>1. n \in 1..Len(BC!Content(c))
      BY <2>3, <2>5
    <3>2. SubSeq(BC!Content(c), n + 1, Len(BC!Content(c))) = <<>>
      <4> HIDE DEF old
      <4>1. old \in Seq(Nat) /\ n \in Nat /\ n <= n
        BY <2>2, <2>3 DEF old
      <4>2. Cut(old, n, n) \in Seq(Nat) /\ Len(Cut(old, n, n)) = n - n
        BY <4>1, CutBytes
      <4>3. Cut(old, n, n) = <<>>
        <5> DEFINE s == Cut(old, n, n)
        <5>1. s \in Seq(Nat) /\ Len(s) = 0
          BY <4>1, <4>2
        <5> HIDE DEF s
        <5>2. s = <<>>
          BY <5>1, EmptySeq
        <5> QED BY <5>2 DEF s
      <4> QED BY <4>3 DEF Cut, old
    <3>3. BC!Q!Take(c)
      <4> HIDE DEF n
      <4> QED BY <2>1, <3>1, <3>2 DEF BC!Q!Take
    <3> QED BY <2>1, <3>3 DEF BC!Q!Next
  <2> QED BY <2>4, <2>5
<1>7. ASSUME NEW c \in Chains, BC!Compact(c) PROVE ChainInv' /\ [BC!Q!Next]_Queues
  BY <1>2, <1>7, CompactKeeps
<1>8. ASSUME NEW c \in Chains, NEW d \in Chains, BC!Splice(c, d)
      PROVE  ChainInv' /\ [BC!Q!Next]_Queues
  <2>1. /\ ChainInv' /\ c # d
        /\ BC!Content(c)' = BC!Content(c) \o BC!Content(d) /\ BC!Content(d)' = <<>>
        /\ \A e \in Chains \ {c, d} : BC!Content(e)' = BC!Content(e)
    BY <1>8, SpliceKeeps
  <2>2. BC!Q!Move(c, d)
    BY <2>1 DEF BC!Q!Move
  <2> QED BY <2>1, <2>2 DEF BC!Q!Next
<1>9. ASSUME NEW h \in held, BC!Drop(h) PROVE ChainInv' /\ [BC!Q!Next]_Queues
  BY <1>2, <1>9, DropKeeps
<1>10. CASE BC!Next
  <2>1. \A c \in Chains : chain[c].total_size \in Nat
    BY DEF ChainInv, ChainTyped, ChainRecord
  <2>2. ASSUME NEW c \in Chains, NEW n \in 1..chain[c].total_size, BC!Consume(c, n)
        PROVE  ChainInv' /\ [BC!Q!Next]_Queues
    BY <2>1, <2>2, <1>4
  <2>3. ASSUME NEW c \in Chains, NEW offset \in 0..chain[c].total_size, NEW len \in 1..SegmentSize,
               BC!Hold(c, offset, len)
        PROVE  ChainInv' /\ [BC!Q!Next]_Queues
    <3>1. offset \in Nat /\ len \in Nat /\ len > 0
      BY <2>1, BufferAssumption
    <3> QED BY <3>1, <2>3, <1>5
  <2> QED BY <1>10, <2>2, <2>3, <1>3, <1>6, <1>7, <1>8, <1>9 DEF BC!Next
<1> QED BY <1>1, <1>10

LEMMA ChainReads ==
    ASSUME ChainInv
    PROVE  ReadsStable
<1>1. ASSUME NEW h \in held
      PROVE  SubSeq(data[h.segment], h.pos + 1, h.pos + Len(h.bytes)) = h.bytes
  BY DEF ChainInv, Seen, Cut
<1>2. ASSUME NEW c \in Chains PROVE chain[c].total_size = Len(BC!Content(c)) /\ chain[c].total_size \in Nat
  BY <1>2, ContentIsCut DEF ChainInv, ChainTyped, Readable
<1>3. ASSUME NEW c \in Chains, NEW offset \in 0..(chain[c].total_size - 1),
             NEW len \in 1..(chain[c].total_size - offset)
      PROVE  LET bytes == SubSeq(BC!Content(c), offset + 1, offset + len)
             IN  /\ BC!CopyTo(c, offset, len) = bytes
                 /\ BC!IsContiguous(c, offset, len) => SubSeq(BC!DataAt(c, offset), 1, len) = bytes
  <2>1. Readable(c)
    BY DEF ChainInv, ChainTyped, Readable
  <2>2. offset \in Nat /\ len \in Nat /\ len > 0 /\ offset + len <= chain[c].total_size
    BY <1>2
  <2>3. BC!CopyTo(c, offset, len) = Cut(BC!Content(c), offset, offset + len)
    BY <2>1, <2>2, CopyReads
  <2>4. ASSUME BC!IsContiguous(c, offset, len)
        PROVE  SubSeq(BC!DataAt(c, offset), 1, len) = Cut(BC!Content(c), offset, offset + len)
    BY <2>1, <2>2, <2>4, ReadInPlace
  <2> QED BY <2>3, <2>4 DEF Cut
<1> QED BY <1>1, <1>2, <1>3 DEF ReadsStable, BC!ReadsStable

\* The bytes a reader sees do not change under it while their segment is
\* consumed, compacted, spliced, recycled and given out again, and a read of a
\* chain, in place or by CopyTo, gives its unconsumed bytes (ReadsStable), for
\* any number of chains, segments and readers.
THEOREM ReadsStableAlways == MCSpec => []ReadsStable
<1>1. MCInit => ChainInv
  BY ChainInitEstablishes DEF MCInit
<1>2. ChainInv /\ [MCNext]_<<part, vars, chainvars, mapvars>> => ChainInv'
  <2> SUFFICES ASSUME ChainInv, [MCNext]_<<part, vars, chainvars, mapvars>> PROVE ChainInv'
    OBVIOUS
  <2>1. [BC!Next]_chainvars
    BY DEF MCNext
  <2> QED BY <2>1, ChainNextKeeps
<1>3. ChainInv => ReadsStable
  BY ChainReads
<1> QED BY <1>1, <1>2, <1>3, PTL DEF MCSpec

\* BufferChain implements ByteQueue: AppendBytes adds bytes at the end, Consume
\* and Clear take them from the front, Splice moves them, and Compact and the
\* readers change nothing (ImplementsQueue).
THEOREM QueueImplemented == MCSpec => ImplementsQueue
<1>1. MCInit => ChainInv /\ BC!Q!Init
  BY ChainInitEstablishes DEF MCInit
<1>2. ChainInv /\ [MCNext]_<<part, vars, chainvars, mapvars>> => ChainInv' /\ [BC!Q!Next]_Queues
  <2> SUFFICES ASSUME ChainInv, [MCNext]_<<part, vars, chainvars, mapvars>>
               PROVE  ChainInv' /\ [BC!Q!Next]_Queues
    OBVIOUS
  <2>1. [BC!Next]_chainvars
    BY DEF MCNext
  <2> QED BY <2>1, ChainNextKeeps
<1> QED BY <1>1, <1>2, PTL DEF MCSpec, ImplementsQueue, BC!ImplementsQueue, BC!Q!Spec, Queues

-----------------------------------------------------------------------------
(***************************************************************************)
(* A request to the HTTP API.                                              *)
(***************************************************************************)
PipeFields == {"st", "doc", "got", "completed"}

\* The pipelines made so far, in order; what a document is does not matter.
PipesTyped ==
    \E n \in Nat : /\ pipes = [a \in 1..n |-> pipes[a]]
                   /\ \A a \in 1..n : DOMAIN pipes[a] = PipeFields

NoneOpen == \A a \in DOMAIN pipes : ~A!Open(a)
AtMostOneOpen == \E b : \A a \in DOMAIN pipes : A!Open(a) => a = b

\* The request is in one place: not made, in an attempt, waiting for a retry
\* timer, or answered.
Idle == NoneOpen /\ timers = <<>> /\ told = <<>>
InAttempt == AtMostOneOpen /\ timers = <<>> /\ told = <<>>
Waiting == NoneOpen /\ (\E delay : timers = <<delay>>) /\ told = <<>>
Answered == NoneOpen /\ timers = <<>> /\ \E r : told = <<r>>

OneToken ==
    /\ Idle \/ InAttempt \/ Waiting \/ Answered
    /\ builder = A!None => Idle

ApiInv == PipesTyped /\ OneToken

-----------------------------------------------------------------------------
\* Facts about the short sequences of timers and answers.
LEMMA ShortSequences ==
    /\ Len(<<>>) = 0 /\ DOMAIN <<>> = {}
    /\ \A d : /\ Append(<<>>, d) = <<d>>
              /\ Len(<<d>>) = 1 /\ DOMAIN <<d>> = {1}
              /\ A!RemoveAt(<<d>>, 1) = <<>>
  BY DEF A!RemoveAt

\* One more pipeline, the others as they were.
LEMMA PipeAppended ==
    ASSUME NEW n \in Nat, NEW ps, ps = [a \in 1..n |-> ps[a]], NEW p,
           NEW qs, qs = Append(ps, p)
    PROVE  /\ qs = [a \in 1..(n + 1) |-> qs[a]]
           /\ qs[n + 1] = p
           /\ \A a \in 1..n : qs[a] = ps[a]
<1>1. Append(ps, p) = [a \in 1..(n + 1) |-> IF a = n + 1 THEN p ELSE ps[a]]
  OBVIOUS
<1> QED BY <1>1

\* A step that only changes one pipeline, to one with the same fields.
LEMMA PipeChanged ==
    ASSUME PipesTyped, NEW a \in DOMAIN pipes, NEW q, DOMAIN q = PipeFields,
           pipes' = [pipes EXCEPT ![a] = q]
    PROVE  /\ PipesTyped'
           /\ DOMAIN pipes' = DOMAIN pipes
           /\ pipes'[a] = q
           /\ \A b \in DOMAIN pipes : b # a => pipes'[b] = pipes[b]
<1>1. PICK n \in Nat : /\ pipes = [b \in 1..n |-> pipes[b]]
                       /\ \A b \in 1..n : DOMAIN pipes[b] = PipeFields
  BY DEF PipesTyped
<1>2. DOMAIN pipes = 1..n /\ DOMAIN pipes' = 1..n
  BY <1>1
<1>3. pipes'[a] = q /\ \A b \in 1..n : b # a => pipes'[b] = pipes[b]
  BY <1>1, <1>2
<1>4. pipes' = [b \in 1..n |-> pipes'[b]]
  BY <1>1, <1>2
<1>5. \A b \in 1..n : DOMAIN pipes'[b] = PipeFields
  BY <1>1, <1>2, <1>3
<1> QED BY <1>2, <1>3, <1>4, <1>5 DEF PipesTyped

\* The end of an attempt schedules one retry or gives one answer.
LEMMA EndedOnce ==
    ASSUME told = <<>>, NEW a, NEW result,
           A!RetryOrAnswer(a, result, <<>>), NoneOpen'
    PROVE  Waiting' \/ Answered'
<1>1. CASE client = "retry" /\ ~result.ok /\ A!ShouldRetry(result)
  <2>1. told' = <<>> /\ \E delay : timers' = Append(<<>>, delay)
    BY <1>1 DEF A!RetryOrAnswer, A!Schedule
  <2> QED BY <2>1, ShortSequences DEF Waiting
<1>2. CASE ~(client = "retry" /\ ~result.ok /\ A!ShouldRetry(result))
  <2>1. timers' = <<>> /\ \E r : told' = Append(<<>>, r)
    BY <1>2 DEF A!RetryOrAnswer, A!Answer
  <2> QED BY <2>1, ShortSequences DEF Answered
<1> QED BY <1>1, <1>2

-----------------------------------------------------------------------------
\* An open attempt ends: the parser completes and the sink is called.
LEMMA CompleteKeeps ==
    ASSUME ApiInv, NEW a \in DOMAIN pipes, A!Open(a),
           NEW result, A!CompleteOnce(a, result)
    PROVE  ApiInv'
<1> DEFINE q == [pipes[a] EXCEPT !.completed = TRUE]
<1>1. DOMAIN pipes[a] = PipeFields
  BY DEF ApiInv, PipesTyped
<1>2. pipes' = [pipes EXCEPT ![a] = q]
  BY DEF A!CompleteOnce
<1>3. DOMAIN q = PipeFields /\ q.completed = TRUE
  BY <1>1 DEF PipeFields
<1> HIDE DEF q
<1>4. /\ PipesTyped' /\ DOMAIN pipes' = DOMAIN pipes /\ pipes'[a].completed = TRUE
      /\ \A b \in DOMAIN pipes : b # a => pipes'[b] = pipes[b]
  BY <1>2, <1>3, PipeChanged DEF ApiInv
<1>5. InAttempt /\ builder # A!None
  BY DEF ApiInv, OneToken, Idle, Waiting, Answered, NoneOpen
<1>6. NoneOpen'
  <2> SUFFICES ASSUME NEW b \in DOMAIN pipes', A!Open(b)' PROVE FALSE
    BY DEF NoneOpen
  <2>1. b # a
    BY <1>4 DEF A!Open
  <2>2. pipes'[b] = pipes[b] /\ b \in DOMAIN pipes
    BY <1>4, <2>1
  <2>3. A!Open(b)
    BY <2>2 DEF A!Open, A!Alive
  <2> QED BY <1>5, <2>1, <2>2, <2>3 DEF InAttempt, AtMostOneOpen
<1>7. A!RetryOrAnswer(a, result, <<>>) /\ UNCHANGED builder /\ timers = <<>> /\ told = <<>>
  BY <1>5 DEF A!CompleteOnce, A!OnSinkResult, InAttempt
<1>8. Waiting' \/ Answered'
  BY <1>6, <1>7, EndedOnce
<1> QED BY <1>4, <1>5, <1>7, <1>8 DEF ApiInv, OneToken

\* A retry timer is the only one, and nothing else of the request is under way.
LEMMA TimerTaken ==
    ASSUME ApiInv, NEW i \in DOMAIN timers
    PROVE  Waiting /\ builder # A!None /\ timers # <<>> /\ A!RemoveAt(timers, i) = <<>>
<1>1. timers # <<>>
  BY ShortSequences
<1>2. Waiting /\ builder # A!None
  BY <1>1 DEF ApiInv, OneToken, Idle, InAttempt, Answered
<1>3. PICK delay : timers = <<delay>>
  BY <1>2 DEF Waiting
<1>4. i = 1
  BY <1>3, ShortSequences
<1> QED BY <1>1, <1>2, <1>3, <1>4, ShortSequences

\* A step that keeps the timers and the answers, and opens no attempt.
LEMMA NothingOpened ==
    ASSUME ApiInv, PipesTyped', UNCHANGED <<builder, timers, told>>,
           DOMAIN pipes' = DOMAIN pipes,
           \A b \in DOMAIN pipes : A!Open(b)' => A!Open(b)
    PROVE  ApiInv'
<1>1. NoneOpen => NoneOpen'
  BY DEF NoneOpen
<1>2. AtMostOneOpen => AtMostOneOpen'
  BY DEF AtMostOneOpen
<1> QED BY <1>1, <1>2 DEF ApiInv, OneToken, Idle, InAttempt, Waiting, Answered

\* A step that rewrites one pipeline and leaves `completed' as it is, opens
\* nothing if the pipeline was open or is taken down.
LEMMA RewriteKeeps ==
    ASSUME ApiInv, NEW a \in DOMAIN pipes, NEW q, DOMAIN q = PipeFields,
           pipes' = [pipes EXCEPT ![a] = q],
           q.st = "TornDown" \/ (q.completed = pipes[a].completed /\ A!Alive(a)),
           UNCHANGED <<builder, timers, told>>
    PROVE  ApiInv'
<1>1. /\ PipesTyped' /\ DOMAIN pipes' = DOMAIN pipes /\ pipes'[a] = q
      /\ \A b \in DOMAIN pipes : b # a => pipes'[b] = pipes[b]
  BY PipeChanged DEF ApiInv
<1>2. ASSUME NEW b \in DOMAIN pipes, A!Open(b)' PROVE A!Open(b)
  <2>1. CASE b = a
    BY <1>1, <1>2, <2>1 DEF A!Open, A!Alive
  <2>2. CASE b # a
    BY <1>1, <1>2, <2>2 DEF A!Open, A!Alive
  <2> QED BY <2>1, <2>2
<1> QED BY <1>1, <1>2, NothingOpened

\* CallApiWithRetry's body, entered with nothing under way.
LEMMA AttemptKeeps ==
    ASSUME PipesTyped, NoneOpen, told = <<>>, NEW pending, pending = <<>>, A!Attempt(pending),
           builder' # A!None
    PROVE  ApiInv'
<1>1. CASE A!RetryOrAnswer(0, A!Error("DnsResolutionFailed", A!NoDelay), pending) /\ UNCHANGED pipes
  <2>1. NoneOpen' /\ PipesTyped'
    BY <1>1 DEF NoneOpen, A!Open, A!Alive, PipesTyped
  <2>2. Waiting' \/ Answered'
    BY <1>1, <2>1, EndedOnce
  <2> QED BY <2>1, <2>2 DEF ApiInv, OneToken
<1>2. CASE /\ \E doc \in DOMAIN Documents[builder'] : pipes' = Append(pipes, A!NewPipe(doc))
           /\ timers' = pending /\ UNCHANGED told
  <2>1. PICK doc : pipes' = Append(pipes, A!NewPipe(doc))
    BY <1>2
  <2>2. PICK n \in Nat : /\ pipes = [b \in 1..n |-> pipes[b]]
                         /\ \A b \in 1..n : DOMAIN pipes[b] = PipeFields
    BY DEF PipesTyped
  <2>3. /\ pipes' = [b \in 1..(n + 1) |-> pipes'[b]]
        /\ pipes'[n + 1] = A!NewPipe(doc)
        /\ \A b \in 1..n : pipes'[b] = pipes[b]
    BY <2>1, <2>2, PipeAppended
  <2>4. DOMAIN pipes' = 1..(n + 1) /\ DOMAIN pipes = 1..n
    BY <2>2, <2>3
  <2>5. DOMAIN pipes'[n + 1] = PipeFields
    BY <2>3 DEF A!NewPipe, PipeFields
  <2>6. PipesTyped'
    <3>1. \A b \in 1..(n + 1) : DOMAIN pipes'[b] = PipeFields
      BY <2>2, <2>3, <2>5
    <3>2. n + 1 \in Nat
      BY <2>2
    <3> QED BY <2>3, <3>1, <3>2 DEF PipesTyped
  <2>7. ASSUME NEW b \in DOMAIN pipes', A!Open(b)' PROVE b = n + 1
    <3> SUFFICES ASSUME b # n + 1 PROVE FALSE
      OBVIOUS
    <3>1. b \in DOMAIN pipes /\ pipes'[b] = pipes[b]
      BY <2>3, <2>4
    <3>2. A!Open(b)
      BY <2>7, <3>1 DEF A!Open, A!Alive
    <3> QED BY <3>1, <3>2 DEF NoneOpen
  <2>8. InAttempt'
    BY <1>2, <2>7 DEF InAttempt, AtMostOneOpen
  <2> QED BY <2>6, <2>8 DEF ApiInv, OneToken
<1> QED BY <1>1, <1>2 DEF A!Attempt

-----------------------------------------------------------------------------
\* Nothing is under way before the request.
LEMMA ApiInitEstablishes == A!Init => ApiInv
<1> SUFFICES ASSUME A!Init PROVE ApiInv
  OBVIOUS
<1>1. pipes = <<>> /\ timers = <<>> /\ told = <<>>
  BY DEF A!Init
<1>2. DOMAIN pipes = {} /\ pipes = [a \in 1..0 |-> pipes[a]]
  BY <1>1
<1>3. PipesTyped
  BY <1>2 DEF PipesTyped
<1>4. Idle
  BY <1>1, <1>2 DEF Idle, NoneOpen
<1> QED BY <1>3, <1>4 DEF ApiInv, OneToken

\* A signal from the connection keeps the request in one place.
LEMMA SignalKeeps ==
    ASSUME ApiInv, NEW a \in DOMAIN pipes, A!Signal(a)
    PROVE  ApiInv'
<1>0. DOMAIN pipes[a] = PipeFields
  BY DEF ApiInv, PipesTyped
<1>1. CASE A!Ready(a)
  <2> DEFINE q == [pipes[a] EXCEPT !.st = "Started"]
  <2>1. pipes' = [pipes EXCEPT ![a] = q] /\ UNCHANGED <<builder, timers, told>> /\ A!Alive(a)
    BY <1>1 DEF A!Ready, A!Alive
  <2>2. DOMAIN q = PipeFields /\ q.completed = pipes[a].completed
    BY <1>0 DEF PipeFields
  <2> HIDE DEF q
  <2> QED BY <2>1, <2>2, RewriteKeeps
<1>2. ASSUME NEW n, A!Data(a, n), A!Alive(a) PROVE ApiInv'
  <2>0. A!Open(a)
    BY <1>2 DEF A!Data, A!Open
  <2>1. CASE pipes[a].got + n > MaxBuffer
    BY <1>2, <2>0, <2>1, CompleteKeeps DEF A!Data
  <2>2. CASE ~(pipes[a].got + n > MaxBuffer)
    <3> DEFINE q == [pipes[a] EXCEPT !.got = @ + n]
    <3>1. pipes' = [pipes EXCEPT ![a] = q] /\ UNCHANGED <<builder, timers, told>>
      BY <1>2, <2>2 DEF A!Data
    <3>2. DOMAIN q = PipeFields /\ q.completed = pipes[a].completed
      BY <1>0 DEF PipeFields
    <3> HIDE DEF q
    <3> QED BY <1>2, <3>1, <3>2, RewriteKeeps
  <2> QED BY <2>1, <2>2
<1>3. ASSUME NEW code, NEW retry_after, A!HttpError(a, code, retry_after) PROVE ApiInv'
  <2>1. A!Open(a)
    BY <1>3 DEF A!HttpError, A!CompleteOnce, A!Open, A!Alive
  <2> QED BY <1>3, <2>1, CompleteKeeps DEF A!HttpError
<1>4. ASSUME NEW code, A!NetError(a, code) PROVE ApiInv'
  <2>1. A!Open(a)
    BY <1>4 DEF A!NetError, A!CompleteOnce, A!Open
  <2> QED BY <1>4, <2>1, CompleteKeeps DEF A!NetError
<1>5. CASE A!Done(a)
  <2>1. A!Open(a)
    BY <1>5 DEF A!Done, A!CompleteOnce, A!Open
  <2> QED BY <1>5, <2>1, CompleteKeeps DEF A!Done
<1> QED BY <1>1, <1>2, <1>3, <1>4, <1>5 DEF A!Signal

\* Every step keeps the request in one place.
LEMMA ApiNextKeeps ==
    ASSUME ApiInv, [A!Next]_(A!vars)
    PROVE  ApiInv'
<1>1. CASE A!Request
  <2>1. builder = A!None /\ builder' # A!None /\ A!Attempt(timers)
    BY <1>1, ApiAssumption DEF A!Request, A!None
  <2>2. PipesTyped /\ NoneOpen /\ timers = <<>> /\ told = <<>>
    BY <2>1 DEF ApiInv, OneToken, Idle
  <2> QED BY <2>1, <2>2, AttemptKeeps
<1>2. CASE A!RetryTimer
  <2>1. PICK i \in DOMAIN timers : UNCHANGED builder /\ A!Attempt(A!RemoveAt(timers, i))
    BY <1>2 DEF A!RetryTimer
  <2>2. Waiting /\ builder # A!None /\ timers # <<>> /\ A!RemoveAt(timers, i) = <<>>
    BY TimerTaken
  <2> QED BY <2>1, <2>2, AttemptKeeps DEF ApiInv, Waiting
<1>3. CASE A!Destroy
  <2>1. /\ pipes' = [a \in DOMAIN pipes |-> A!TornDown(pipes[a])]
        /\ UNCHANGED <<builder, timers, told>>
    BY <1>3 DEF A!Destroy
  <2>2. PICK n \in Nat : /\ pipes = [b \in 1..n |-> pipes[b]]
                         /\ \A b \in 1..n : DOMAIN pipes[b] = PipeFields
    BY DEF ApiInv, PipesTyped
  <2>3. DOMAIN pipes = 1..n /\ DOMAIN pipes' = 1..n
    BY <2>1, <2>2
  <2>4. ASSUME NEW b \in 1..n
        PROVE  DOMAIN pipes'[b] = PipeFields /\ pipes'[b].st = "TornDown"
    <3>1. pipes'[b] = A!TornDown(pipes[b]) /\ DOMAIN pipes[b] = PipeFields
      BY <2>1, <2>2, <2>3
    <3> QED BY <3>1 DEF A!TornDown, PipeFields
  <2>5. pipes' = [b \in 1..n |-> pipes'[b]]
    BY <2>1, <2>3
  <2>6. PipesTyped'
    BY <2>4, <2>5 DEF PipesTyped
  <2>7. \A b \in DOMAIN pipes : ~A!Open(b)'
    BY <2>3, <2>4 DEF A!Open, A!Alive
  <2> QED BY <2>1, <2>3, <2>6, <2>7, NothingOpened
<1>4. ASSUME NEW a \in DOMAIN pipes, A!Release(a) PROVE ApiInv'
  <2>1. DOMAIN pipes[a] = PipeFields
    BY DEF ApiInv, PipesTyped
  <2>2. DOMAIN A!TornDown(pipes[a]) = PipeFields /\ A!TornDown(pipes[a]).st = "TornDown"
    BY <2>1 DEF A!TornDown, PipeFields
  <2>3. pipes' = [pipes EXCEPT ![a] = A!TornDown(pipes[a])] /\ UNCHANGED <<builder, timers, told>>
    BY <1>4 DEF A!Release
  <2> QED BY <2>2, <2>3, RewriteKeeps
<1>5. CASE UNCHANGED A!vars
  BY <1>5 DEF A!vars, ApiInv, PipesTyped, OneToken, Idle, InAttempt, Waiting, Answered,
              NoneOpen, AtMostOneOpen, A!Open, A!Alive
<1> QED BY <1>1, <1>2, <1>3, <1>4, <1>5, SignalKeeps DEF A!Next

\* However attempts fail, time out, are retried or torn down, the callback is
\* called at most once, and when it has been called no retry is pending and no
\* attempt is open.
THEOREM AnsweredAtMostOnce == ApiSpec => []AnsweredOnce
<1>1. ApiInv => AnsweredOnce
  <2> SUFFICES ASSUME ApiInv PROVE A!AnsweredOnce
    BY DEF AnsweredOnce
  <2> DEFINE O == {a \in DOMAIN pipes : A!Open(a)}
  <2>1. CASE NoneOpen
    <3>1. O = {}
      BY <2>1 DEF NoneOpen
    <3>2. Cardinality(O) \in Nat /\ Cardinality(O) <= 0
      BY <3>1, FS_EmptySet
    <3> HIDE DEF O
    <3>3. /\ Len(told) \in {0, 1} /\ Len(timers) \in {0, 1}
          /\ Len(told) = 0 \/ Len(timers) = 0
      BY ShortSequences DEF ApiInv, OneToken, Idle, InAttempt, Waiting, Answered
    <3>4. Len(told) <= 1 /\ Cardinality(O) + Len(timers) + Len(told) <= 1
      <4> SUFFICES ASSUME NEW o \in Nat, o <= 0, NEW t \in {0, 1}, NEW n \in {0, 1}, n = 0 \/ t = 0
                   PROVE  n <= 1 /\ o + t + n <= 1
        BY <3>2, <3>3, Zenon
      <4> QED OBVIOUS
    <3> QED BY <3>4 DEF A!AnsweredOnce, O, A!Cardinality, Cardinality
  <2>2. CASE InAttempt
    <3>1. PICK b : \A a \in DOMAIN pipes : A!Open(a) => a = b
      BY <2>2 DEF InAttempt, AtMostOneOpen
    <3>2. O \in SUBSET {b}
      BY <3>1
    <3> HIDE DEF O
    <3>3. Cardinality(O) \in Nat /\ Cardinality(O) <= 1
      <4>1. IsFiniteSet({b}) /\ Cardinality({b}) = 1
        BY FS_Singleton
      <4>2. IsFiniteSet(O) /\ Cardinality(O) <= Cardinality({b})
        BY <3>2, <4>1, FS_Subset
      <4> QED BY <4>1, <4>2, FS_CardinalityType
    <3>4. Len(told) = 0 /\ Len(timers) = 0
      BY <2>2, ShortSequences DEF InAttempt
    <3> QED BY <3>3, <3>4 DEF A!AnsweredOnce, O, A!Cardinality, Cardinality
  <2> QED BY <2>1, <2>2 DEF ApiInv, OneToken, Idle, Waiting, Answered
<1> QED BY ApiInitEstablishes, ApiNextKeeps, <1>1, PTL DEF ApiSpec, A!FairSpec, A!Spec

-----------------------------------------------------------------------------
\* The policy allows MaxRetries retries, so a request connects at most one
\* time more.
RetryBudget == attempts \in 0..MaxRetries /\ DOMAIN pipes \subseteq 1..(MaxRetries + 1)

\* Every pipeline after the first, and the one a retry timer will make, was
\* paid for by a retry.
Paid ==
    /\ attempts \in 0..MaxRetries
    /\ \A a \in DOMAIN pipes : a \in Nat \ {0} /\ a <= attempts + 1
                               /\ (timers # <<>> => a <= attempts)
    /\ builder = A!None => DOMAIN pipes = {} /\ attempts = 0

\* The end of an attempt spends a retry for the timer that it starts.
LEMMA EndPaid ==
    ASSUME Paid, builder' # A!None, DOMAIN pipes' = DOMAIN pipes, NEW a, NEW result,
           A!RetryOrAnswer(a, result, <<>>)
    PROVE  Paid'
<1>1. MaxRetries \in Nat
  BY ApiAssumption
<1>2. CASE client = "retry" /\ ~result.ok /\ A!ShouldRetry(result)
  <2>1. attempts' = attempts + 1 /\ attempts < MaxRetries
    BY <1>2 DEF A!RetryOrAnswer, A!ShouldRetry
  <2>2. attempts' \in 0..MaxRetries
    BY <1>1, <2>1 DEF Paid
  <2>3. \A b \in DOMAIN pipes : b \in Nat \ {0} /\ b <= attempts' /\ b <= attempts' + 1
    BY <1>1, <2>1 DEF Paid
  <2> QED BY <2>2, <2>3 DEF Paid
<1>3. CASE ~(client = "retry" /\ ~result.ok /\ A!ShouldRetry(result))
  <2>1. timers' = <<>> /\ UNCHANGED attempts
    BY <1>3 DEF A!RetryOrAnswer
  <2> QED BY <2>1 DEF Paid
<1> QED BY <1>2, <1>3

\* A pipeline is made by the request itself or for a retry that was paid for.
LEMMA AttemptPaid ==
    ASSUME PipesTyped, Paid, \A a \in DOMAIN pipes : a <= attempts, builder' # A!None,
           A!Attempt(<<>>)
    PROVE  Paid'
<1>1. CASE A!RetryOrAnswer(0, A!Error("DnsResolutionFailed", A!NoDelay), <<>>) /\ UNCHANGED pipes
  BY <1>1, EndPaid
<1>2. CASE /\ \E doc \in DOMAIN Documents[builder'] : pipes' = Append(pipes, A!NewPipe(doc))
           /\ timers' = <<>> /\ UNCHANGED <<attempts, told>>
  <2>1. PICK doc : pipes' = Append(pipes, A!NewPipe(doc))
    BY <1>2
  <2>2. PICK n \in Nat : pipes = [b \in 1..n |-> pipes[b]]
    BY DEF PipesTyped
  <2>3. pipes' = [b \in 1..(n + 1) |-> pipes'[b]]
    BY <2>1, <2>2, PipeAppended
  <2>4. DOMAIN pipes = 1..n /\ DOMAIN pipes' = 1..(n + 1)
    BY <2>2, <2>3
  <2>5. attempts \in Nat
    BY ApiAssumption DEF Paid
  <2>6. n <= attempts
    BY <2>2, <2>4, <2>5
  <2>7. \A a \in DOMAIN pipes' : a \in Nat \ {0} /\ a <= attempts + 1
    BY <2>2, <2>4, <2>5, <2>6
  <2> QED BY <1>2, <2>7 DEF Paid
<1> QED BY <1>1, <1>2 DEF A!Attempt

\* A step that makes no pipeline, no timer and no attempt.
LEMMA NothingSpent ==
    ASSUME Paid, DOMAIN pipes' = DOMAIN pipes, UNCHANGED <<builder, attempts, timers>>
    PROVE  Paid'
  BY DEF Paid

\* A completed attempt.
LEMMA CompletePaid ==
    ASSUME ApiInv, Paid, NEW a \in DOMAIN pipes, A!Open(a),
           NEW result, A!CompleteOnce(a, result)
    PROVE  Paid'
<1>1. timers = <<>> /\ builder # A!None
  BY DEF ApiInv, OneToken, Idle, InAttempt, Waiting, Answered, NoneOpen
<1>2. DOMAIN pipes' = DOMAIN pipes /\ UNCHANGED builder
  BY DEF A!CompleteOnce
<1>3. A!RetryOrAnswer(a, result, <<>>)
  BY <1>1 DEF A!CompleteOnce, A!OnSinkResult
<1> QED BY <1>1, <1>2, <1>3, EndPaid

\* Every step stays within the retries it has paid for.
LEMMA PaidKept ==
    ASSUME ApiInv, Paid, [A!Next]_(A!vars)
    PROVE  Paid'
<1>1. CASE A!Request
  <2>1. builder = A!None /\ builder' # A!None /\ A!Attempt(timers)
    BY <1>1, ApiAssumption DEF A!Request, A!None
  <2>2. timers = <<>> /\ PipesTyped /\ DOMAIN pipes = {}
    BY <2>1 DEF ApiInv, OneToken, Idle, Paid
  <2> QED BY <2>1, <2>2, AttemptPaid
<1>2. CASE A!RetryTimer
  <2>1. PICK i \in DOMAIN timers : UNCHANGED builder /\ A!Attempt(A!RemoveAt(timers, i))
    BY <1>2 DEF A!RetryTimer
  <2>2. Waiting /\ builder # A!None /\ timers # <<>> /\ A!RemoveAt(timers, i) = <<>>
    BY TimerTaken
  <2>3. \A a \in DOMAIN pipes : a <= attempts
    BY <2>2 DEF Paid
  <2> QED BY <2>1, <2>2, <2>3, AttemptPaid DEF ApiInv
<1>3. CASE A!Destroy
  BY <1>3, NothingSpent DEF A!Destroy
<1>4. ASSUME NEW a \in DOMAIN pipes, A!Signal(a) PROVE Paid'
  <2>1. CASE A!Ready(a)
    BY <2>1, NothingSpent DEF A!Ready
  <2>2. ASSUME NEW n, A!Data(a, n), A!Alive(a) PROVE Paid'
    <3>1. CASE pipes[a].got + n > MaxBuffer
      BY <2>2, <3>1, CompletePaid DEF A!Data, A!Open
    <3>2. CASE ~(pipes[a].got + n > MaxBuffer)
      BY <2>2, <3>2, NothingSpent DEF A!Data
    <3> QED BY <3>1, <3>2
  <2>3. ASSUME NEW code, NEW retry_after, A!HttpError(a, code, retry_after) PROVE Paid'
    <3>1. A!Open(a)
      BY <2>3 DEF A!HttpError, A!CompleteOnce, A!Open, A!Alive
    <3> QED BY <2>3, <3>1, CompletePaid DEF A!HttpError
  <2>4. ASSUME NEW code, A!NetError(a, code) PROVE Paid'
    <3>1. A!Open(a)
      BY <2>4 DEF A!NetError, A!CompleteOnce, A!Open
    <3> QED BY <2>4, <3>1, CompletePaid DEF A!NetError
  <2>5. CASE A!Done(a)
    <3>1. A!Open(a)
      BY <2>5 DEF A!Done, A!CompleteOnce, A!Open
    <3> QED BY <2>5, <3>1, CompletePaid DEF A!Done
  <2> QED BY <1>4, <2>1, <2>2, <2>3, <2>4, <2>5 DEF A!Signal
<1>5. ASSUME NEW a \in DOMAIN pipes, A!Release(a) PROVE Paid'
  BY <1>5, NothingSpent DEF A!Release
<1>6. CASE UNCHANGED A!vars
  BY <1>6, NothingSpent DEF A!vars
<1> QED BY <1>1, <1>2, <1>3, <1>4, <1>5, <1>6 DEF A!Next

\* A request makes at most MaxRetries retries and MaxRetries + 1 pipelines,
\* whatever ends the attempts (the range of FairSpec and of AttemptsEnd).
THEOREM RetriesBounded == ApiSpec => []RetryBudget
<1>1. A!Init => Paid
  <2> SUFFICES ASSUME A!Init PROVE Paid
    OBVIOUS
  <2>1. attempts \in 0..MaxRetries
    BY ApiAssumption DEF A!Init
  <2> QED BY <2>1, ShortSequences DEF A!Init, Paid
<1>2. Paid => RetryBudget
  BY ApiAssumption DEF Paid, RetryBudget
<1> QED BY ApiInitEstablishes, ApiNextKeeps, PaidKept, <1>1, <1>2, PTL DEF ApiSpec, A!FairSpec, A!Spec
=============================================================================
