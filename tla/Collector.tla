------------------------------ MODULE Collector ------------------------------
(***************************************************************************)
(* What collection relies on when it calls the collector of a source       *)
(* (apps/api/src/sources/collectors/collector.types.ts): a call is         *)
(* answered once, and an outcome accounts for every row the source showed. *)
(* A call that throws because of one row of many is none of its steps.     *)
(* Crawler.tla, AppApi.tla, Mqtt.tla and Database.tla are held against     *)
(* this specification; CollectorReturns, CollectorThrows and Crash of      *)
(* Collection.tla are what its caller sees of it.                          *)
(***************************************************************************)
EXTENDS Naturals

VARIABLE outcome    \* of one call of collect

\* An outcome by what it counts: the rows that the source showed the collector, the
\* records that carry a parse error, those that normalization can use as they are,
\* and the errors reported with them.
Outcome == [state : {"returned"}, shown : Nat, rejected : Nat, usable : Nat, errors : Nat]

Init == outcome.state \in {"uncalled", "pending"}

Call ==
    /\ outcome.state = "uncalled"
    /\ outcome' = [state |-> "pending"]

\* Every row shown is a record, usable or rejected, and none is rejected without an
\* error.
Returns ==
    /\ outcome.state = "pending"
    /\ outcome' \in Outcome
    /\ outcome'.shown = outcome'.usable + outcome'.rejected
    /\ outcome'.rejected <= outcome'.errors

\* The source as a whole could not be read.  (An exception over a single row leaves
\* the call "spoilt".)
Throws ==
    /\ outcome.state = "pending"
    /\ outcome' = [state |-> "thrown"]

\* The process that made the call has died, and nobody is answered.
Lost ==
    /\ outcome.state = "pending"
    /\ outcome' = [state |-> "lost"]

Next == Call \/ Returns \/ Throws \/ Lost

IsAnswered == outcome.state = "pending" ~> outcome.state # "pending"

Spec == Init /\ [][Next]_outcome /\ IsAnswered
=============================================================================
