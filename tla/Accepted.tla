------------------------------ MODULE Accepted ------------------------------
(***************************************************************************)
(* What the production view relies on: which events are accepted and which *)
(* batches are linked to a line.  Collection and normalization provide it  *)
(* (Ledger.tla implements this specification), the board is drawn from it. *)
(***************************************************************************)
CONSTANTS Batch,
          Station,
          Event,   \* what is accepted of a batch at a station
          Line,    \* what a batch is linked to
          Null

VARIABLES canonical,  \* the accepted event of a batch at a station, or Null
          link        \* the line a batch is linked to, or Null

AcceptedInit ==
    /\ canonical = [b \in Batch |-> [s \in Station |-> Null]]
    /\ link = [b \in Batch |-> Null]

\* One transaction of rebuildBatch: events are added or replaced, of one batch.
EventsOf(b) ==
    /\ canonical' \in [Batch -> [Station -> Event \cup {Null}]]
    /\ \A c \in Batch \ {b} : canonical'[c] = canonical[c]
    /\ \A s \in Station : canonical[b][s] # Null => canonical'[b][s] # Null
    /\ UNCHANGED link

\* One upsert of applyMasterData.
LinkOf(b) ==
    /\ \E l \in Line : link' = [link EXCEPT ![b] = l]
    /\ UNCHANGED canonical

AcceptedNext == \E b \in Batch : EventsOf(b) \/ LinkOf(b)

\* What is accepted is never withdrawn, and changes one batch at a time.
AcceptedSpec == AcceptedInit /\ [][AcceptedNext]_<<canonical, link>>
=============================================================================
