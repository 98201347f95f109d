------------------------------ MODULE MCDataPath ------------------------------
(***************************************************************************)
(* What happens to the bytes of a chain once a stage has delivered them:   *)
(* the chain of segments they lie in, the parser that makes records of     *)
(* them and the map that resolves their instruments.  The parts share no   *)
(* state in the models, so a behaviour is one of a single part.            *)
(***************************************************************************)
EXTENDS DbnParser

CONSTANTS
    Chains, Recycling, Segments, SegmentSize, MaxPool, MaxBytes, MaxHeld,
    Market, Dates, MaxMappings, MaxIntervals

\* The intervals of an instrument do not overlap (the comment on InstrumentMap:
\* "Overlapping intervals: Not supported").
ASSUME MarketAssumption ==
    /\ MaxMappings \in Nat /\ Dates \subseteq Int
    /\ \A m \in Market : m.start \in Int /\ m.end \in Int /\ m.start < m.end
    /\ \A m, n \in Market :
         m.id = n.id /\ m # n => m.end <= n.start \/ n.end <= m.start

\* Two instruments, each with a symbol that changes.
MCMarket ==
    {[id |-> 1, start |-> 0, end |-> 2, symbol |-> "A"],
     [id |-> 1, start |-> 2, end |-> 4, symbol |-> "B"],
     [id |-> 2, start |-> 1, end |-> 3, symbol |-> "A"],
     [id |-> 2, start |-> 3, end |-> 4, symbol |-> "C"]}

ASSUME BufferAssumption == SegmentSize \in Nat \ {0}

VARIABLES part, data, chain, free_list, held, arrived, mappings, rows

chainvars == <<data, chain, free_list, held, arrived>>
mapvars == <<mappings, rows>>

BC == INSTANCE BufferChain
IM == INSTANCE InstrumentMap

MCInit ==
    /\ part \in {"parser", "chain", "map"}
    /\ Init
    /\ part # "parser" => stream = CHOOSE s \in Streams : TRUE
    /\ BC!Init
    /\ IM!Init

MCNext ==
    \/ part = "parser" /\ Next /\ UNCHANGED <<part, chainvars, mapvars>>
    \/ part = "chain" /\ BC!Next /\ UNCHANGED <<part, vars, mapvars>>
    \/ part = "map" /\ IM!Next /\ UNCHANGED <<part, vars, chainvars>>

MCSpec == MCInit /\ [][MCNext]_<<part, vars, chainvars, mapvars>>

ImplementsQueue == BC!ImplementsQueue
ReadsStable == BC!ReadsStable
ResolveFaithful == IM!ResolveFaithful
=============================================================================
