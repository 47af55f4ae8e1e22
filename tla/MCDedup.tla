------------------------------ MODULE MCDedup -------------------------------
(***************************************************************************)
(* Seven observations of one batch at one station that meet every tier of  *)
(* the policy: a repeat with an earlier sighting, a repeat seen at the     *)
(* same instant, the same table registered twice, a second row of one      *)
(* source, a source whose kind most stations do not list.                  *)
(***************************************************************************)
EXTENDS DedupArrays

Obs(id, source, type, srid, qty, occurred, observed) ==
    [recordId |-> id, sourceId |-> source, sourceType |-> type,
     sourceRecordId |-> srid, quantity |-> qty,
     occurredAt |-> occurred, observedAt |-> observed]

MCSourceId == {"db", "copy", "app", "mqtt"}
MCQuantity == {10, 12}

MCReportable ==
    {Obs(3, "db",   "DATABASE",        1, 10,   2, 2),
     Obs(2, "db",   "DATABASE",        1, 12,   2, 2),
     Obs(5, "db",   "DATABASE",        1, 10,   1, 1),
     Obs(4, "db",   "DATABASE",        2, 12,   2, 3),
     Obs(1, "copy", "DATABASE",        1, Null, 2, 2),
     Obs(6, "app",  "APPLICATION_API", 1, 12,   1, 3),
     Obs(7, "mqtt", "MQTT",            1, 12,   1, 1)}
=============================================================================
