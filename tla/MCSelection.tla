----------------------------- MODULE MCSelection -----------------------------
(***************************************************************************)
(* One tab, whose requests a configuration names, and a database with the  *)
(* seeded table, whose time column may go, and with one of the same name   *)
(* in "public", which is where a bare name is looked for.                  *)
(***************************************************************************)
EXTENDS Selection

CONSTANTS t1,           \* model value: the tab
          MCRequest     \* of "test", "discover", "collect" and "select"

\* A request goes by what it asks for.
MCOpOf == [q \in MCRequest |-> q]
MCTabOf == [q \in MCRequest |-> t1]

MCSchema == {"factory", "public"}
MCName == {"events"}
MCColumn == {"id", "at"}

MCColumnsOf == [t \in MCSchema \X MCName |->
    IF t[1] = "factory" THEN {MCColumn, {"id"}} ELSE {{"id"}}]

Recorded == [sourceRecordId |-> "id", batchId |-> "id", station |-> "id", occurredAt |-> "id",
             quantity |-> Null, recordedAt |-> "at"]
Partial == [Recorded EXCEPT !.occurredAt = Null]
MCMapping == {Recorded, Partial}
MCSeed == [table |-> <<"factory", "events">>, mapping |-> Recorded]

Readable == [id |-> {"present", "text", "station", "time"}, at |-> {"present", "time"}]
Untimed == [Readable EXCEPT !["id"] = {"present", "text", "station"}, !["at"] = {}]
MCContents == {<<Readable, Untimed>>, <<>>}
=============================================================================
