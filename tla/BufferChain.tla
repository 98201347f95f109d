----------------------------- MODULE BufferChain -----------------------------
(***************************************************************************)
(* BufferChain and SegmentAllocator: chains of shared segments, a free     *)
(* list the consumed ones go back to, and readers that keep a segment      *)
(* alive while they use bytes in it (RecordBatch).  A segment is shared    *)
(* when a reader holds it; a chain owns its segments alone.  Bytes are     *)
(* numbered in the order in which they arrive.                             *)
(***************************************************************************)
EXTENDS Integers, Sequences, SequencesExt, FiniteSets

CONSTANTS
    Chains,        \* the chains
    Recycling,     \* those made with a recycle callback
    Segments,      \* bound: addresses of segments
    SegmentSize,   \* Segment::kSize
    MaxPool,       \* max_pool_size_
    MaxBytes,      \* bound on the bytes that arrive
    MaxHeld        \* bound on the readers

VARIABLES
    data,       \* per segment: the bytes written, data[0..size)
    chain,      \* per chain: segments_, consumed_offset_, total_size_, and
                \* whether recycle_callback_ is set
    free_list,  \* free_list_
    held,       \* readers: a segment and the bytes they saw in it
    arrived     \* bytes that have arrived

vars == <<data, chain, free_list, held, arrived>>

Init ==
    /\ data = [s \in Segments |-> <<>>]
    /\ chain = [c \in Chains |-> [segments |-> <<>>, consumed_offset |-> 0,
                                  total_size |-> 0, recycles |-> c \in Recycling]]
    /\ free_list = <<>>
    /\ held = {}
    /\ arrived = 0

-----------------------------------------------------------------------------
(***************************************************************************)
(* Segments                                                                *)
(***************************************************************************)
Holders(s) == {h \in held : h.segment = s}
InUse == (UNION {ToSet(chain[c].segments) : c \in Chains})
            \cup ToSet(free_list) \cup {h.segment : h \in held}

\* Mutant: the use count is not looked at.
ReleaseShared(pool, s) == IF Len(pool) < MaxPool THEN Append(pool, s) ELSE pool

\* Only the last reference is recycled (use_count() == 1).
Release(pool, s) ==
    IF Holders(s) = {} /\ Len(pool) < MaxPool THEN Append(pool, s) ELSE pool

\* What recycle_callback_ makes of the free list, called for each segment.
Recycled(c, segments) ==
    LET pool[i \in 0..Len(segments)] ==
          IF i = 0 THEN free_list ELSE Release(pool[i - 1], segments[i])
    IN  IF chain[c].recycles THEN pool[Len(segments)] ELSE free_list

\* Allocate() n segments: from the back of the free list, then new ones.
FromPool(n) == IF n < Len(free_list) THEN n ELSE Len(free_list)

Fresh(n) == {f \in [1..n -> Segments \ InUse] : IsInjective(f)}

CanAllocate(n) == Fresh(n - FromPool(n)) # {}

Allocated(n) ==
    LET pooled == [i \in 1..FromPool(n) |-> free_list[Len(free_list) + 1 - i]]
    IN  pooled \o CHOOSE f \in Fresh(n - FromPool(n)) : TRUE

-----------------------------------------------------------------------------
(***************************************************************************)
(* Reading.  Locate finds the segment and the position of an offset.       *)
(***************************************************************************)
Size(s) == Len(data[s])

Locate(c, offset) ==
    LET segs == chain[c].segments
        pos[i \in 0..Len(segs)] ==
          IF i = 0 THEN chain[c].consumed_offset + offset ELSE pos[i - 1] - Size(segs[i])
        passed == Min({i \in 0..Len(segs) : i < Len(segs) => pos[i] < Size(segs[i + 1])})
    IN  [index |-> passed + 1, pos |-> pos[passed], found |-> passed < Len(segs)]

GetSegmentAt(c, offset) == chain[c].segments[Locate(c, offset).index]

IsContiguous(c, offset, len) ==
    IF len = 0 THEN chain[c].segments # <<>> /\ offset <= chain[c].total_size
    ELSE LET l == Locate(c, offset)
         IN  l.found /\ l.pos + len <= Size(chain[c].segments[l.index])

\* The bytes DataAt(offset) points at, as far as its segment goes.
DataAt(c, offset) ==
    LET l == Locate(c, offset)
    IN  SubSeq(data[chain[c].segments[l.index]], l.pos + 1, Size(chain[c].segments[l.index]))

\* From that segment on, from each as much as it has and is still asked for.
CopyTo(c, offset, len) ==
    LET segs == chain[c].segments
        l == Locate(c, offset)
        copied[i \in 0..Len(segs)] ==
          IF i < l.index THEN <<>>
          ELSE LET bytes == IF i = l.index THEN DataAt(c, offset) ELSE data[segs[i]]
                   left == len - Len(copied[i - 1])
               IN  copied[i - 1] \o SubSeq(bytes, 1, IF Len(bytes) < left THEN Len(bytes) ELSE left)
    IN  copied[Len(segs)]

-----------------------------------------------------------------------------
(***************************************************************************)
(* Writing                                                                 *)
(***************************************************************************)
\* The bytes n more than have arrived, cut into segments.
Pieces(n) ==
    [i \in 1..((n + SegmentSize - 1) \div SegmentSize) |->
        [j \in 1..Min({SegmentSize, n - (i - 1) * SegmentSize}) |->
            arrived + (i - 1) * SegmentSize + j]]

\* AppendBytes(), and Append() of a segment the socket has filled.
AppendBytes(c, n) ==
    /\ arrived + n <= MaxBytes
    /\ CanAllocate(Len(Pieces(n)))
    /\ LET segs == Allocated(Len(Pieces(n)))
       IN  /\ data' = [s \in Segments |->
                         IF s \in ToSet(segs)
                         THEN Pieces(n)[CHOOSE i \in DOMAIN segs : segs[i] = s] ELSE data[s]]
           /\ free_list' = SubSeq(free_list, 1, Len(free_list) - FromPool(Len(segs)))
           /\ chain' = [chain EXCEPT ![c].segments = @ \o segs, ![c].total_size = @ + n]
    /\ arrived' = arrived + n
    /\ UNCHANGED held

\* One turn of the loop of Consume, on the segment in front.
ConsumeStep(p, s) ==
    LET available == Size(s) - p.consumed_offset
    IN  CASE p.bytes = 0 -> p
          [] p.bytes >= available /\ p.bytes > 0 ->
                [p EXCEPT !.bytes = @ - available, !.total_size = @ - available,
                          !.consumed_offset = 0, !.gone = @ + 1]
          [] OTHER ->
                [p EXCEPT !.bytes = 0, !.total_size = @ - p.bytes, !.consumed_offset = @ + p.bytes]

Consume(c, n) ==
    /\ n \in 1..chain[c].total_size
    /\ LET segs == chain[c].segments
           turn[i \in 0..Len(segs)] ==
             IF i = 0
             THEN [bytes |-> n, gone |-> 0, consumed_offset |-> chain[c].consumed_offset,
                   total_size |-> chain[c].total_size]
             ELSE ConsumeStep(turn[i - 1], segs[i])
           p == turn[Len(segs)]
       IN  /\ chain' = [chain EXCEPT ![c].segments = SubSeq(segs, p.gone + 1, Len(segs)),
                                     ![c].consumed_offset = p.consumed_offset,
                                     ![c].total_size = p.total_size]
           /\ free_list' = Recycled(c, SubSeq(segs, 1, p.gone))
    /\ UNCHANGED <<data, held, arrived>>

Clear(c) ==
    /\ chain[c].segments # <<>>
    /\ chain' = [chain EXCEPT ![c].segments = <<>>, ![c].consumed_offset = 0, ![c].total_size = 0]
    /\ free_list' = Recycled(c, chain[c].segments)
    /\ UNCHANGED <<data, held, arrived>>

\* Compact(): the consumed bytes of the segment in front go.  A shared
\* segment is left as it is and a new one takes its place.
CanCompact(c) == Holders(Head(chain[c].segments)) = {} \/ Segments \ InUse # {}

Compacted(c) ==
    LET first == Head(chain[c].segments)
        seg == IF Holders(first) = {} THEN first ELSE CHOOSE s \in Segments : s \notin InUse
    IN  [data |-> [data EXCEPT ![seg] = SubSeq(data[first], chain[c].consumed_offset + 1, Size(first))],
         segments |-> <<seg>> \o Tail(chain[c].segments)]

NotCompacted(c) == [data |-> data, segments |-> chain[c].segments]

Compact(c) ==
    /\ chain[c].consumed_offset > 0
    /\ CanCompact(c)
    /\ data' = Compacted(c).data
    /\ chain' = [chain EXCEPT ![c].segments = Compacted(c).segments, ![c].consumed_offset = 0]
    /\ UNCHANGED <<free_list, held, arrived>>

\* Mutant: a source that is partly consumed is spliced as it is.
SourceAsIs(d) == NotCompacted(d)

\* The source of Splice, compacted when it is partly consumed.
Source(d) == IF chain[d].consumed_offset > 0 THEN Compacted(d) ELSE NotCompacted(d)

\* CompactAndSplice is Compact, then Splice.
Splice(c, d) ==
    /\ c # d
    /\ chain[d].total_size > 0
    /\ chain[d].consumed_offset > 0 => CanCompact(d)
    /\ data' = Source(d).data
    /\ chain' = [chain EXCEPT
                   ![c].segments = @ \o Source(d).segments,
                   ![c].total_size = @ + chain[d].total_size,
                   ![c].recycles = @ \/ chain[d].recycles,
                   ![d].segments = <<>>, ![d].consumed_offset = 0, ![d].total_size = 0]
    /\ UNCHANGED <<free_list, held, arrived>>

-----------------------------------------------------------------------------
(***************************************************************************)
(* Readers.  A record that lies in one segment is handed out where it is,  *)
(* with GetSegmentAt to keep it alive; a reader drops it when it is done.  *)
(***************************************************************************)
Hold(c, offset, len) ==
    /\ Cardinality(held) < MaxHeld
    /\ offset + len <= chain[c].total_size
    /\ IsContiguous(c, offset, len)
    /\ held' = held \cup {[segment |-> GetSegmentAt(c, offset), pos |-> Locate(c, offset).pos,
                           bytes |-> SubSeq(DataAt(c, offset), 1, len)]}
    /\ UNCHANGED <<data, chain, free_list, arrived>>

\* The last reference frees the segment; nothing goes back to the pool.
Drop(h) ==
    /\ held' = held \ {h}
    /\ UNCHANGED <<data, chain, free_list, arrived>>

Next ==
    \/ \E c \in Chains :
        \/ \E n \in 1..(SegmentSize + 1) : AppendBytes(c, n)
        \/ \E n \in 1..chain[c].total_size : Consume(c, n)
        \/ \E offset \in 0..chain[c].total_size, len \in 1..SegmentSize : Hold(c, offset, len)
        \/ Clear(c)
        \/ Compact(c)
        \/ \E d \in Chains : Splice(c, d)
    \/ \E h \in held : Drop(h)

Spec == Init /\ [][Next]_vars

-----------------------------------------------------------------------------
(***************************************************************************)
(* Properties                                                              *)
(***************************************************************************)
\* The unconsumed bytes of a chain.
Content(c) ==
    LET all == FlattenSeq([i \in DOMAIN chain[c].segments |-> data[chain[c].segments[i]]])
    IN  SubSeq(all, chain[c].consumed_offset + 1, Len(all))

Q == INSTANCE ByteQueue WITH queue <- [c \in Chains |-> Content(c)]

\* However segments are cut, consumed, compacted, spliced and recycled, the
\* chains are queues of bytes: bytes leave in the order in which they came,
\* none is lost, repeated or overwritten (Splice, Consume, Compact, Clear).
ImplementsQueue == Q!Spec

\* What a reader holds does not change under it while its segment is
\* consumed, compacted or recycled and reused, and every read of a chain,
\* in place or by CopyTo, gives its unconsumed bytes.
ReadsStable ==
    /\ \A h \in held : SubSeq(data[h.segment], h.pos + 1, h.pos + Len(h.bytes)) = h.bytes
    /\ \A c \in Chains :
        /\ chain[c].total_size = Len(Content(c))
        /\ \A offset \in 0..(chain[c].total_size - 1) :
            \A len \in 1..(chain[c].total_size - offset) :
                LET bytes == SubSeq(Content(c), offset + 1, offset + len)
                IN  /\ CopyTo(c, offset, len) = bytes
                    /\ IsContiguous(c, offset, len) => SubSeq(DataAt(c, offset), 1, len) = bytes
=============================================================================
