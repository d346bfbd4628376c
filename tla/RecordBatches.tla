---------------------------- MODULE RecordBatches ----------------------------
(***************************************************************************)
(* The data of record transactions: the store as a function from record    *)
(* ids to contents, and the batches put_records is called with.            *)
(***************************************************************************)
CONSTANTS
  Records,    \* record ids: STATE-current, FACT-..., DEC-...
  Values,     \* contents a record file can have
  Absent,     \* "no such file"
  Legal,      \* the contents of the whole store that the audit accepts
  Requests,   \* the batches callers submit
  NoRequest   \* "no request retained under this id"

Contents == Values \cup {Absent}
Stores == [Records -> Contents]

(***************************************************************************)
(* A request writes some records (Absent: leave this one alone), may       *)
(* overwrite existing ones, and may be guarded by the revision its caller  *)
(* expects of each record it writes (Absent: expects no file).             *)
(***************************************************************************)
RequestType ==
  [writes : Stores, overwrite : BOOLEAN, guarded : BOOLEAN, expected : Stores]

Touched(rq) == {r \in Records : rq.writes[r] # Absent}

ASSUME BatchAssumption ==
  /\ Absent \notin Values
  /\ Legal \subseteq Stores
  /\ Requests \subseteq RequestType
  /\ NoRequest \notin Requests
=============================================================================
