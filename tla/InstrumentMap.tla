----------------------------- MODULE InstrumentMap -----------------------------
(***************************************************************************)
(* InstrumentMap over DuckDbStorage: symbol intervals by instrument id,    *)
(* in memory and in a table with a limit on its rows.  The rows are kept   *)
(* in the order of last_accessed, the least recently used first: the       *)
(* counter behind it never repeats, and only its order is ever used.       *)
(***************************************************************************)
EXTENDS Integers, Sequences, SequencesExt, FiniteSets

CONSTANTS
    Market,        \* the intervals of the data provider: id, start, end, symbol
    Dates,         \* trading dates, numbers
    MaxMappings,   \* max_mappings_, 0 for no limit
    MaxIntervals   \* bound on the intervals in memory per id

VARIABLES
    mappings,   \* mappings_: id -> intervals; an id is absent until inserted
    rows        \* table symbol_mappings

vars == <<mappings, rows>>

Ids == {m.id : m \in Market}

None == "nullopt"

Init == mappings = << >> /\ rows = <<>>

-----------------------------------------------------------------------------
(***************************************************************************)
(* DuckDbStorage                                                           *)
(***************************************************************************)
\* EvictIfNeeded(): at the limit, the least recently used rows go until 90%
\* of the limit is left.
EvictIfNeeded ==
    IF MaxMappings = 0 \/ Len(rows) < MaxMappings THEN rows
    ELSE SubSeq(rows, Len(rows) - (MaxMappings * 9) \div 10 + 1, Len(rows))

\* INSERT ... ON CONFLICT (instrument_id, start_date) DO UPDATE; the two
\* columns are the primary key.
Upsert(table, m) ==
    LET old == SelectInSeq(table, LAMBDA r : r.id = m.id /\ r.start = m.start)
    IN  Append(IF old = 0 THEN table ELSE RemoveAt(table, old), m)

\* What StoreMapping leaves when its INSERT succeeds, and when it fails:
\* the eviction is a statement of its own.
StoreMapping(m, ok) == IF ok THEN Upsert(EvictIfNeeded, m) ELSE EvictIfNeeded

\* The rows LookupSymbol may take its one row from.
Matches(id, date) == {r \in ToSet(rows) : r.id = id /\ r.start <= date /\ r.end >= date}

-----------------------------------------------------------------------------
(***************************************************************************)
(* InstrumentMap                                                           *)
(***************************************************************************)
Intervals(id) == IF id \in DOMAIN mappings THEN mappings[id] ELSE <<>>

\* Mutant: the intervals stay in the order in which they came.
Unsorted(intervals) == intervals

SortedByStart(intervals) ==
    LET order == CHOOSE p \in Bijection(DOMAIN intervals, DOMAIN intervals) :
                    \A i, j \in DOMAIN intervals :
                        i < j => intervals[p[i]].start <= intervals[p[j]].start
    IN  [i \in DOMAIN intervals |-> intervals[order[i]]]

\* Insert(); a failed INSERT throws once the map has the interval.
Insert(m, ok) ==
    /\ Len(Intervals(m.id)) < MaxIntervals
    /\ mappings' = [id \in DOMAIN mappings \cup {m.id} |->
                      IF id = m.id THEN SortedByStart(Append(Intervals(id), m)) ELSE mappings[id]]
    /\ rows' = StoreMapping(m, ok)

\* Resolve() of an id in memory: the interval in front of the first one that
\* starts after the date (std::upper_bound), if it contains the date.
ResolveCached(id, date) ==
    LET after == SelectInSeq(mappings[id], LAMBDA m : m.start > date)
        last == IF after = 0 THEN Len(mappings[id]) ELSE after - 1
    IN  IF last > 0 /\ mappings[id][last].start <= date /\ date < mappings[id][last].end
        THEN mappings[id][last].symbol ELSE None

\* Resolve() of an id that is not in memory reads the table, and the row it
\* takes becomes the most recently used.
ResolveStored(id, date) ==
    /\ id \notin DOMAIN mappings
    /\ \E r \in Matches(id, date) : rows' = Upsert(rows, r)
    /\ UNCHANGED mappings

\* Clear(), or a restart on a database file; in the middle of Insert too,
\* after the eviction.
Clear == mappings # << >> /\ mappings' = << >> /\ UNCHANGED rows

Next ==
    \/ \E m \in Market, ok \in BOOLEAN : Insert(m, ok)
    \/ \E id \in Ids, date \in Dates : ResolveStored(id, date)
    \/ Clear

Spec == Init /\ [][Next]_vars

-----------------------------------------------------------------------------
\* Every symbol Resolve can answer with.
Answers(id, date) ==
    IF id \in DOMAIN mappings THEN {ResolveCached(id, date)}
    ELSE IF Matches(id, date) = {} THEN {None} ELSE {r.symbol : r \in Matches(id, date)}

\* In every order of insertions, failed insertions, evictions, lookups and
\* restarts, Resolve answers with the symbol the id had on that date or says
\* that it does not know; it does know every interval in memory, and every
\* stored one when the id is not in memory.  On one day a stored answer may be
\* another: LookupSymbol takes the end date of an interval as part of it, so
\* the day on which a stored interval ends can bring the symbol it had until
\* then, also where a stored interval with the right one begins.  What is in
\* memory never does.  The table keeps to its limit.
ResolveFaithful ==
    /\ MaxMappings > 0 => Len(rows) <= MaxMappings
    /\ \A id \in Ids, date \in Dates :
        LET known == IF id \in DOMAIN mappings THEN ToSet(mappings[id]) ELSE ToSet(rows)
            right == {m \in Market \cap known : m.id = id /\ m.start <= date /\ date < m.end}
            ended == IF id \in DOMAIN mappings THEN {}
                     ELSE {m \in Market \cap known : m.id = id /\ m.end = date}
        IN  Answers(id, date) =
                IF right \cup ended = {} THEN {None} ELSE {m.symbol : m \in right \cup ended}
=============================================================================
