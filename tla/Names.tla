-------------------------------- MODULE Names -------------------------------
(* The names of schedule_configs and of system_configs. Both services ask the *)
(* database whether a name is taken before they write it (_unique_constraints,*)
(* called by a hook before POST, PUT and PATCH); only system_configs also has *)
(* a unique constraint. A request is one transaction under READ COMMITTED:    *)
(* it checks, writes, and commits, and others come in between.                *)
(*                                                                            *)
(* Only requests that give a name are modelled: a PATCH without one neither   *)
(* checks nor writes names. PUT stands for both.                              *)
EXTENDS FiniteSets

CONSTANTS
  Tables,    \* the tables considered
  Ids,       \* ids of rows
  NameSet,   \* names, the empty one among them
  Empty,     \* "", which Python's truth test takes for no name at all
  NoRow,     \* no row has this id
  Requests   \* one use of each bounds the behaviour

ASSUME NamesAssumption ==
  /\ Tables \subseteq {"schedule_configs", "system_configs"}
  /\ NoRow \notin NameSet /\ NoRow \notin Ids

VARIABLES
  table,      \* the table at hand; it never changes
  rows,       \* the committed name of every row
  req,        \* the requests: where each is, and what it asks for
  overlapped  \* history: two requests have been under way at once

vars == <<table, rows, req, overlapped>>

Kinds == {"post", "put", "delete"}
UnderWay == {"check", "write", "commit"}

\* 409 for a taken name, 404 for no row; "conflict" and "lost" are the database
\* errors of a write against the constraint or to a row that is gone.
Answers == {"done", "refused", "notFound", "conflict", "lost"}

Idle == [pc |-> "idle", kind |-> "post", id |-> NoRow, name |-> NoRow, seen |-> NoRow]

Request ==
  [pc : {"idle"} \cup UnderWay \cup Answers, kind : Kinds, id : Ids \cup {NoRow},
   name : NameSet \cup {NoRow}, seen : NameSet \cup {NoRow}]

\* Seeded fault: the migration leaves the constraint out.
ConstrainedByModel(t) == FALSE
Constrained(t) == t = "system_configs"

Init ==
  /\ table \in Tables
  /\ rows \in {f \in [Ids -> NameSet \cup {NoRow}] :
                 \A i, k \in Ids : i # k /\ f[i] = f[k] => f[i] = NoRow}
  /\ req = [r \in Requests |-> Idle]
  /\ overlapped = FALSE

-----------------------------------------------------------------------------
(* A request *)

Active(r) == req[r].pc \in UnderWay

Begin(r, kind, id, name) ==
  /\ req[r].pc = "idle"
  /\ req' = [req EXCEPT ![r] = [pc |-> "check", kind |-> kind, id |-> id,
                                name |-> name, seen |-> rows[id]]]
  /\ overlapped' = (overlapped \/ \E u \in Requests : Active(u))
  /\ UNCHANGED <<table, rows>>

\* A new row has an id of its own.
Post(r) ==
  \E id \in Ids, name \in NameSet :
    /\ rows[id] = NoRow
    /\ \A u \in Requests : Active(u) => req[u].id # id
    /\ Begin(r, "post", id, name)
Put(r)    == \E id \in Ids, name \in NameSet : Begin(r, "put", id, name)
Delete(r) == \E id \in Ids : Begin(r, "delete", id, NoRow)

\* Seeded fault: the hook is left out when a row is updated.
TakenByPost(r) ==
  /\ req[r].kind = "post" /\ req[r].name # Empty
  /\ \E i \in Ids : rows[i] = req[r].name

\* The row itself may keep its name.
Taken(r) ==
  /\ req[r].kind # "delete" /\ req[r].name # Empty
  /\ \E i \in Ids \ {req[r].id} : rows[i] = req[r].name

Check(r) ==
  /\ req[r].pc = "check"
  /\ LET missing == req[r].kind # "post" /\ rows[req[r].id] = NoRow
     IN  req' = [req EXCEPT ![r] =
                   [@ EXCEPT !.pc = IF missing THEN "notFound"
                                    ELSE IF Taken(r) THEN "refused" ELSE "write",
                             !.seen = rows[req[r].id]]]
  /\ UNCHANGED <<table, rows, overlapped>>

\* The ORM leaves a column out whose value it has read.
Sets(r) ==
  req[r].kind = "post" \/ (req[r].kind = "put" /\ req[r].name # req[r].seen)

\* Another transaction has written this row, or a row whose old or new name
\* this one wants under the constraint: the write waits for its end.
Waits(r) ==
  \E u \in Requests \ {r} :
    /\ req[u].pc = "commit"
    /\ \/ req[u].id = req[r].id
       \/ /\ Constrained(table) /\ Sets(r)
          /\ (Sets(u) /\ req[u].name = req[r].name) \/ rows[req[u].id] = req[r].name

Clashes(r) ==
  /\ Constrained(table) /\ Sets(r)
  /\ \E i \in Ids \ {req[r].id} : rows[i] = req[r].name

Write(r) ==
  /\ req[r].pc = "write"
  /\ ~Waits(r)
  /\ LET gone == req[r].kind # "post" /\ rows[req[r].id] = NoRow
     IN  req' = [req EXCEPT ![r].pc = IF gone THEN "lost"
                                      ELSE IF Clashes(r) THEN "conflict"
                                      ELSE "commit"]
  /\ UNCHANGED <<table, rows, overlapped>>

Commit(r) ==
  /\ req[r].pc = "commit"
  /\ rows' = [rows EXCEPT ![req[r].id] =
                IF req[r].kind = "delete" THEN NoRow
                ELSE IF Sets(r) THEN req[r].name ELSE @]
  /\ req' = [req EXCEPT ![r].pc = "done"]
  /\ UNCHANGED <<table, overlapped>>

\* Seeded fault: an answer no client knows.
FailWithoutAnswer(r) ==
  /\ Active(r)
  /\ req' = [req EXCEPT ![r].pc = "rolledBack"]
  /\ UNCHANGED <<table, rows, overlapped>>

\* Any other error of the database, the end of a deadlock among them.
Fail(r) ==
  /\ Active(r)
  /\ req' = [req EXCEPT ![r].pc = "lost"]
  /\ UNCHANGED <<table, rows, overlapped>>

AllAnswered ==
  /\ \A r \in Requests : req[r].pc \in Answers
  /\ UNCHANGED vars

Next ==
  \/ \E r \in Requests : \/ Post(r) \/ Put(r) \/ Delete(r)
                         \/ Check(r) \/ Write(r) \/ Commit(r) \/ Fail(r)
  \/ AllAnswered

Spec == Init /\ [][Next]_vars

-----------------------------------------------------------------------------
(* Properties *)

Distinct(names) ==
  \A i, k \in Ids : i # k /\ rows[i] \in names => rows[i] # rows[k]

\* Types of the table and of the requests.
TypeOK ==
  /\ table \in Tables
  /\ rows \in [Ids -> NameSet \cup {NoRow}]
  /\ req \in [Requests -> Request]
  /\ overlapped \in BOOLEAN

\* system_configs/models.py:8: no two rows ever have one name, however POST,
\* PUT, PATCH and DELETE requests pass between each other's check and write.
UniqueNames == table = "system_configs" => Distinct(NameSet)

\* schedule_configs/services.py:50-56: with the check alone names are unique as
\* long as requests come one after the other; the empty name is not checked.
SerialNamesUnique == ~overlapped => Distinct(NameSet \ {Empty})

\* system_configs/services.py:51-52: a request that has the table to itself is
\* told of a taken name by the check, with 409; the database's own error only
\* reaches clients whose requests overlapped, or who ask for an empty name.
ConflictNeedsOverlap ==
  \A r \in Requests :
    req[r].pc = "conflict" => overlapped \/ req[r].name = Empty

-----------------------------------------------------------------------------
(* What documents and comments say and the code does not do *)

\* schedule_configs/services.py:56: "ScheduleConfig name must be unique."
ScheduleNamesUnique == table = "schedule_configs" => Distinct(NameSet \ {Empty})

=============================================================================
