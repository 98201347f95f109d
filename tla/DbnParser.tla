------------------------------- MODULE DbnParser -------------------------------
(***************************************************************************)
(* DbnParserComponent<S>, the last stage of every record chain: it cuts the*)
(* byte stream into records and hands them to the sink in batches.  The    *)
(* chain of bytes belongs to the stage above, which keeps what the parser  *)
(* leaves, offers it again with the next chunk, and flushes it when its    *)
(* own input ends (CompleteWithFlush of PipelineComponent).                *)
(*                                                                         *)
(* A stream is what the server sends: an optional metadata prefix, then    *)
(* records.  Sizes are counted in units; the parser sees how many units    *)
(* have arrived, never where the server's records or chunks end.  One call *)
(* of OnData is one step: the sink is called once, at its end.             *)
(***************************************************************************)
EXTENDS Integers, Sequences, FiniteSets, SequencesExt

CONSTANTS
    DbnHeaderSize,      \* sizeof(DbnHeader)
    RecordHeaderSize,   \* sizeof(databento::RecordHeader)
    MaxRecordSize,      \* kMaxRecordSize
    MaxMetadataSize,    \* kMaxMetadataSize
    FrameSizes,         \* values of DbnHeader::frame_size
    Versions,           \* values of DbnHeader::version
    RecordSizes,        \* sizes in record headers
    RTypes,             \* record types
    MaxRecords          \* bound on the records of a stream

ASSUME ParserAssumption ==
    /\ DbnHeaderSize \in Nat \ {0} /\ RecordHeaderSize \in Nat
    /\ DbnHeaderSize <= RecordHeaderSize /\ RecordHeaderSize <= MaxRecordSize
    /\ MaxRecordSize \in Nat /\ MaxMetadataSize \in Nat /\ MaxRecords \in Nat
    /\ FrameSizes \subseteq Nat /\ RecordSizes \subseteq Nat
    /\ Versions \subseteq Nat

Records == [size : RecordSizes, rtype : RTypes]

\* Raw records, without metadata, are of version 3.
Streams ==
    LET records == BoundedSeq(Records, MaxRecords)
    IN  [prefix : {TRUE}, version : Versions, frame_size : FrameSizes, records : records]
        \cup [prefix : {FALSE}, version : {3}, frame_size : {0}, records : records]

VARIABLES
    stream,           \* what the server sends
    received,         \* units that have reached the chain
    upstream,         \* "open", or "ended" once the stage above is done
    metadata_parsed,  \* metadata_parsed_
    dbn_version,      \* dbn_version_
    next,             \* records consumed from the chain
    finalized,        \* finalized_
    delivered,        \* records the sink has got
    signals,          \* terminal signals the sink has got
    clean             \* history: units that had arrived when the parser last
                      \* returned without having failed

parser == <<metadata_parsed, dbn_version, next, finalized, delivered, signals>>
vars == <<stream, received, upstream, parser, clean>>

Init ==
    /\ stream \in Streams
    /\ received = 0 /\ upstream = "open"
    /\ metadata_parsed = FALSE /\ dbn_version = 3
    /\ next = 0 /\ finalized = FALSE
    /\ delivered = <<>> /\ signals = <<>>
    /\ clean = 0

-----------------------------------------------------------------------------
(***************************************************************************)
(* Where things are in the stream.                                         *)
(***************************************************************************)
Count == Len(stream.records)

SizeOK(k) == stream.records[k].size \in RecordHeaderSize..MaxRecordSize

\* A record whose header is wrong is the last thing of a stream that matters.
Extent(k) == IF SizeOK(k) THEN stream.records[k].size ELSE RecordHeaderSize

MetadataSize == IF stream.prefix THEN DbnHeaderSize + stream.frame_size ELSE 0

\* The first unit of record k, counted from 0.
Offset(k) ==
    LET off[i \in Nat] ==
          IF i <= 1 THEN MetadataSize ELSE off[i - 1] + Extent(i - 1)
    IN  off[k]

Total == Offset(Count + 1)

\* What the parser has consumed of the chain.
Consumed == IF metadata_parsed THEN Offset(next + 1) ELSE 0

-----------------------------------------------------------------------------
(***************************************************************************)
(* SkipMetadataIfNeeded, with `avail' units in the chain.                  *)
(***************************************************************************)
SkipMetadata(avail) ==
    CASE metadata_parsed -> "ready"
      [] ~metadata_parsed /\ avail < DbnHeaderSize -> "wait"
      [] ~metadata_parsed /\ avail >= DbnHeaderSize /\ ~stream.prefix -> "ready"
      [] ~metadata_parsed /\ avail >= DbnHeaderSize /\ stream.prefix ->
            IF stream.frame_size > MaxMetadataSize THEN "error"
            ELSE IF avail < MetadataSize THEN "wait"
            ELSE "ready"

\* dbn_version_ once the metadata has been skipped.
VersionRead ==
    IF ~metadata_parsed /\ stream.prefix THEN stream.version ELSE dbn_version

(***************************************************************************)
(* The loop of OnData, with the stream received up to `upto' and records   *)
(* of the version given.                                                   *)
(***************************************************************************)
\* The whole record is in the chain.
IsComplete(k, upto) == Offset(k) + Extent(k) <= upto

\* What the loop does with record k when it gets there.
Verdict(k, upto, version) ==
    CASE k > Count \/ Offset(k) + RecordHeaderSize > upto -> "wait"
      [] k <= Count /\ Offset(k) + RecordHeaderSize <= upto ->
            CASE ~SizeOK(k) -> "error"
              [] SizeOK(k) /\ ~IsComplete(k, upto) -> "wait"
              [] SizeOK(k) /\ IsComplete(k, upto) ->
                    IF version > 3 THEN "error" ELSE "take"

\* The record at which the loop stops.
Stop(upto, version) ==
    CHOOSE k \in (next + 1)..(Count + 1) :
        /\ Verdict(k, upto, version) # "take"
        /\ \A j \in (next + 1)..(k - 1) : Verdict(j, upto, version) = "take"

\* The types whose layout changed with version 3 (GetV3SizeForConversion).
V3Types == {"InstrumentDef", "Statistics", "Error", "System", "SymbolMapping"}

\* The version whose layout a converter reads the record in, 0 if it leaves the
\* record zeroed.
ConvertInstrumentDef(version) == IF version \in {1, 2} THEN version ELSE 0

\* The other converters are not told the version: they read databento::v1.
ConvertSingleLayout == 1

ConvertRecordToV3(rtype, version) ==
    IF rtype = "InstrumentDef" THEN ConvertInstrumentDef(version) ELSE ConvertSingleLayout

\* The record the sink gets for record k, and the layout it was read in; one
\* that is not converted is given on as it is.  The result of the conversion
\* is not looked at.
Ref(k, version) ==
    [index |-> k,
     read_as |-> LET rtype == stream.records[k].rtype
                 IN  IF version = 3 \/ rtype \notin V3Types THEN 3
                     ELSE ConvertRecordToV3(rtype, version)]

\* ReportTerminalError and OnError.
ReportError(why) ==
    IF finalized
    THEN UNCHANGED <<finalized, signals>>
    ELSE finalized' = TRUE /\ signals' = Append(signals, why)

\* Mutant: what was parsed stays in the chain.
ConsumeForgotten(upto, version) ==
    LET stop == Stop(upto, version)
        batch == [i \in 1..(stop - 1 - next) |-> Ref(next + i, version)]
    IN  /\ metadata_parsed' = TRUE
        /\ dbn_version' = version
        /\ UNCHANGED next
        /\ IF Verdict(stop, upto, version) = "error"
           THEN ReportError("parse") /\ UNCHANGED delivered
           ELSE delivered' = delivered \o batch /\ UNCHANGED <<finalized, signals>>

\* OnData on the chain of units up to `upto'.  A bad record ends the call
\* before the batch of the records in front of it is delivered.
ParseRecords(upto, version) ==
    LET stop == Stop(upto, version)
        batch == [i \in 1..(stop - 1 - next) |-> Ref(next + i, version)]
    IN  /\ metadata_parsed' = TRUE
        /\ dbn_version' = version
        /\ next' = stop - 1
        /\ IF Verdict(stop, upto, version) = "error"
           THEN ReportError("parse") /\ UNCHANGED delivered
           ELSE delivered' = delivered \o batch /\ UNCHANGED <<finalized, signals>>

Parse(upto) ==
    LET found == SkipMetadata(upto - Consumed)
    IN  \/ finalized /\ UNCHANGED parser
        \/ /\ ~finalized /\ found = "wait"
           /\ UNCHANGED parser
        \/ /\ ~finalized /\ found = "error"
           /\ ReportError("parse")
           /\ UNCHANGED <<metadata_parsed, dbn_version, next, delivered>>
        \/ /\ ~finalized /\ found = "ready"
           /\ ParseRecords(upto, VersionRead)

-----------------------------------------------------------------------------
(***************************************************************************)
(* The stage above.                                                        *)
(***************************************************************************)

\* A chunk of any size joins the chain, and the parser is offered all of it.
OnData(n) ==
    /\ upstream = "open"
    /\ received + n <= Total
    /\ received' = received + n
    /\ Parse(received')
    /\ clean' = IF finalized' THEN clean ELSE received'
    /\ UNCHANGED <<stream, upstream>>

\* OnDone -> OnComplete().
OnDone ==
    /\ signals' = IF finalized THEN signals ELSE Append(signals, "complete")
    /\ UNCHANGED <<metadata_parsed, dbn_version, next, finalized, delivered>>

\* The input of the stage above has ended, early or not.  FlushPendingData has
\* offered the chain once more (an OnData step, or one that changes nothing);
\* what the parser leaves is an error, else it is told of the end.
CompleteWithFlush ==
    /\ upstream = "open"
    /\ upstream' = "ended"
    /\ IF received > Consumed
       THEN /\ ReportError("leftover")
            /\ UNCHANGED <<metadata_parsed, dbn_version, next, delivered>>
       ELSE OnDone
    /\ UNCHANGED <<stream, received, clean>>

\* The stage above has failed.
OnError ==
    /\ upstream = "open"
    /\ upstream' = "ended"
    /\ ReportError("upstream")
    /\ UNCHANGED <<stream, received, metadata_parsed, dbn_version, next, delivered, clean>>

Next ==
    \/ \E n \in 1..Total : OnData(n)
    \/ CompleteWithFlush
    \/ OnError

Spec == Init /\ [][Next]_vars

-----------------------------------------------------------------------------
(***************************************************************************)
(* Properties.  The reference is the stream, not the parser's state.       *)
(***************************************************************************)
\* Records of the stream that are in its first `upto' units in full.
ArrivedBy(upto) == {k \in 1..Count : Offset(k) + Extent(k) <= upto}

\* The stream, as far as it has arrived, breaks a rule of the format.
Malformed ==
    \/ /\ stream.prefix /\ received >= DbnHeaderSize
       /\ stream.frame_size > MaxMetadataSize
    \/ \E k \in 1..Count : Offset(k) + RecordHeaderSize <= received /\ ~SizeOK(k)
    \/ stream.prefix /\ stream.version > 3 /\ ArrivedBy(received) # {}

\* The version whose layout a record of that type and version is written in.
WrittenAs(rtype, version) ==
    CASE rtype \notin V3Types -> 3
      [] rtype = "InstrumentDef" -> version
      [] rtype = "Statistics" -> IF version = 3 THEN 3 ELSE 1
      [] rtype \in {"Error", "System", "SymbolMapping"} -> IF version = 1 THEN 1 ELSE 3

\* The sink has got the records that were there in full when the parser last
\* returned without having failed, in order and once, each read in a layout
\* that the stream decides.  Where the chunks were cut matters only for a
\* malformed stream: the records that came with the chunk in which the bad
\* piece was found are dropped with it.
CutsDoNotMatter ==
    /\ delivered = [k \in 1..Cardinality(ArrivedBy(clean)) |-> Ref(k, stream.version)]
    /\ "parse" \notin Range(signals) => clean = received

\* "Automatic v1/v2-to-v3 record conversion": a record is read in the layout it
\* was written in, but errors, system messages and symbol mappings of version
\* 2 are not, nor is a stream that claims version 0.
ReadAsWritten ==
    \A k \in DOMAIN delivered :
        LET rtype == stream.records[k].rtype
        IN  \/ delivered[k].read_as = WrittenAs(rtype, stream.version)
            \/ stream.version = 2 /\ rtype \in {"Error", "System", "SymbolMapping"}
            \/ stream.version = 0

\* No cut of a good stream makes the parser report an error, and no cut of a
\* bad one hides it; the sink is told once.
ErrorMeansBad ==
    /\ "parse" \in Range(signals) <=> Malformed
    /\ Len(signals) <= 1

\* Completion is reported only for a stream that ended where a record ended
\* and whose records have all been delivered.
CompleteMeansWhole ==
    "complete" \in Range(signals) =>
        /\ received \in {0, MetadataSize} \cup {Offset(k) + Extent(k) : k \in ArrivedBy(received)}
        /\ Len(delivered) = Cardinality(ArrivedBy(received))

\* What the sink of DbnParserComponent gets of a stream that keeps to the
\* format depends on the stream alone, never on the way it was cut into
\* chunks; of a malformed one it gets an error, and the records of the chunks
\* in front of the one with the bad piece.
StreamDecides == CutsDoNotMatter /\ ReadAsWritten /\ ErrorMeansBad /\ CompleteMeansWhole
=============================================================================
