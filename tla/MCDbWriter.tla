----------------------------- MODULE MCDbWriter -----------------------------
(***************************************************************************)
(* The two halves of the dbwriter example in one run: a behaviour is one   *)
(* of BatchWriter, with the database external, or one of Postgres.  The    *)
(* half that is not chosen stays in its initial state.                     *)
(***************************************************************************)
EXTENDS BatchWriter

CONSTANTS Writers, MaxRows, MaxQueries

\* The caller of query/execute and the "nobody" of running are no copy writers.
ASSUME DbAssumption == "db" \notin Writers /\ "none" \notin Writers

VARIABLES
    half,
    conn, valid, copy_in_flight, operation_in_flight, writer, task, running,
    queries, async, wire, reply, stored, freed_use

pgvars == <<conn, valid, copy_in_flight, operation_in_flight, writer, task, running,
            queries, async, wire, reply, stored, freed_use>>

PG == INSTANCE Postgres

MCInit == half \in {"queue", "database"} /\ Init /\ PG!Init

MCNext ==
    /\ \/ half = "queue" /\ Next /\ UNCHANGED pgvars
       \/ half = "database" /\ PG!Next /\ UNCHANGED vars
    /\ UNCHANGED half

MCSpec == MCInit /\ [][MCNext]_<<half, vars, pgvars>> /\ Fairness

FreedUseConfined == PG!FreedUseConfined
ConnectionUsable == PG!ConnectionUsable
CopyAtomic == PG!CopyAtomic
=============================================================================
