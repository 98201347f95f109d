------------------------------ MODULE MCApiCall ------------------------------
(***************************************************************************)
(* ApiCall with a few documents per builder.  The intervals lack fields,   *)
(* repeat symbols, name symbols like root fields and give ids as numbers.  *)
(***************************************************************************)
EXTENDS Integers, Sequences

CONSTANTS
    Documents, MaxRetries, InitialDelay, Multiplier, MaxDelay, Jitter,
    RetryAfters, MaxBuffer, CutEvery

ASSUME ApiAssumption ==
    /\ MaxRetries \in Nat /\ MaxBuffer \in Nat /\ CutEvery \in Nat \ {0}
    /\ InitialDelay > 0 /\ Multiplier > 0 /\ MaxDelay > 0 /\ Jitter \in 0..99
    /\ "none" \notin DOMAIN Documents

VARIABLES client, builder, attempts, pipes, timers, deferred, told

A == INSTANCE ApiCall

ApiSpec == A!FairSpec

AnsweredOnce == A!AnsweredOnce
ResultFaithful == A!ResultFaithful
AttemptsEnd == A!AttemptsEnd
TransientIsRetried == A!TransientIsRetried

-----------------------------------------------------------------------------
Name(key, v) == [key |-> key, v |-> v, number |-> FALSE]
Id(n) == [key |-> "s", v |-> n, number |-> TRUE]

Whole == <<Name("d0", "D0"), Name("d1", "D1"), Id(7)>>
Partial == <<Name("d1", "D1"), Name("s", "S")>>

\* The second symbology document is longer than the run's MaxBuffer.
MCDocuments ==
    [number |-> <<<<1, 2>>, <<3>>>>,
     range |-> <<<<Name("start", "A"), Name("end", "B")>>>>,
     symbology |->
       <<[result |-> <<[symbol |-> "partial", intervals |-> <<Whole, Partial>>],
                       [symbol |-> "result", intervals |-> <<Whole>>]>>,
          message |-> <<"ok">>, partial |-> <<"P">>, not_found |-> <<"N">>],
         [result |-> <<>>, message |-> <<>>, partial |-> <<>>,
          not_found |-> [i \in 1..40 |-> "N"]]>>]
=============================================================================
