----------------------------- MODULE NamesProofs ----------------------------
(* The names of a table with a unique constraint are unique, for any number  *)
(* of requests, rows and names. That no two rows share a name is not         *)
(* inductive: a commit would break it if another request could hold the same *)
(* name, or commit it to another row, in the meantime.                       *)
EXTENDS Names, TLAPS

Pending(r) == req[r].pc = "commit" /\ Sets(r)

\* A request that writes a name has one, and writers keep out of each other's
\* way: their rows and names differ, and no other row bears a pending name.
Named ==
  \A r \in Requests :
    Active(r) => req[r].id \in Ids /\ (req[r].kind # "delete" => req[r].name \in NameSet)
RowsApart ==
  \A r, u \in Requests : r # u /\ req[r].pc = "commit" /\ req[u].pc = "commit" =>
    req[r].id # req[u].id
NamesApart ==
  \A r, u \in Requests : r # u /\ Pending(r) /\ Pending(u) => req[r].name # req[u].name
NamesFree ==
  \A r \in Requests : Pending(r) => \A i \in Ids \ {req[r].id} : rows[i] # req[r].name

Inv ==
  /\ TypeOK
  /\ Named
  /\ Constrained(table) => Distinct(NameSet) /\ RowsApart /\ NamesApart /\ NamesFree

LEMMA InitInv == Init => Inv
<1> SUFFICES ASSUME Init PROVE Inv
  OBVIOUS
<1>1. TypeOK
  BY NamesAssumption DEF Init, TypeOK, Idle, Request, Kinds
<1>2. \A r \in Requests : req[r].pc = "idle"
  BY DEF Init, Idle
<1>3. Named /\ RowsApart /\ NamesApart /\ NamesFree
  BY <1>2 DEF Named, RowsApart, NamesApart, NamesFree, Active, UnderWay, Pending
<1>4. Distinct(NameSet)
  BY NamesAssumption DEF Init, Distinct
<1> QED
  BY <1>1, <1>3, <1>4 DEF Inv

\* A step that changes one request, to one that holds no row, and no row.
LEMMA QuietInv ==
  ASSUME Inv, NEW r \in Requests, NEW q \in Request,
         req' = [req EXCEPT ![r] = q], UNCHANGED <<table, rows>>,
         overlapped' \in BOOLEAN, q.pc # "commit",
         q.pc \in UnderWay => q.id \in Ids /\ (q.kind # "delete" => q.name \in NameSet)
  PROVE  Inv'
<1>1. TypeOK'
  BY DEF Inv, TypeOK
<1>2. req'[r] = q /\ \A u \in Requests \ {r} : req'[u] = req[u]
  BY DEF Inv, TypeOK
<1>3. Named'
  BY <1>2 DEF Inv, Named, Active
<1>4. \A u \in Requests : req'[u].pc = "commit" => u # r /\ req'[u] = req[u]
  BY <1>2
<1>5. ASSUME Constrained(table)
      PROVE  (Distinct(NameSet) /\ RowsApart /\ NamesApart /\ NamesFree)'
  <2>1. Distinct(NameSet) /\ RowsApart /\ NamesApart /\ NamesFree
    BY <1>5 DEF Inv
  <2>2. Distinct(NameSet)'
    BY <2>1 DEF Distinct
  <2>3. RowsApart'
    BY <2>1, <1>4 DEF RowsApart
  <2>4. \A u \in Requests : Pending(u)' => Pending(u) /\ req'[u] = req[u]
    BY <1>4 DEF Pending, Sets
  <2>5. NamesApart'
    BY <2>1, <2>4 DEF NamesApart
  <2>6. NamesFree'
    BY <2>1, <2>4 DEF NamesFree
  <2> QED
    BY <2>2, <2>3, <2>5, <2>6
<1> QED
  BY <1>1, <1>3, <1>5 DEF Inv, Constrained

LEMMA BeginInv ==
  ASSUME Inv, NEW r \in Requests, Post(r) \/ Put(r) \/ Delete(r)
  PROVE  Inv'
<1>1. PICK kind \in Kinds, id \in Ids, name \in NameSet \cup {NoRow} :
        Begin(r, kind, id, name) /\ (kind # "delete" => name \in NameSet)
  BY DEF Post, Put, Delete, Kinds
<1> DEFINE q == [pc |-> "check", kind |-> kind, id |-> id, name |-> name,
                 seen |-> rows[id]]
<1>2. q \in Request
  BY DEF Inv, TypeOK, Request, UnderWay
<1>3. req' = [req EXCEPT ![r] = q] /\ UNCHANGED <<table, rows>> /\ overlapped' \in BOOLEAN
  BY <1>1 DEF Begin, Inv, TypeOK
<1> QED
  BY <1>1, <1>2, <1>3, QuietInv

LEMMA CheckInv ==
  ASSUME Inv, NEW r \in Requests, Check(r)
  PROVE  Inv'
<1> DEFINE q == req'[r]
<1>1. req[r] \in Request /\ req[r].pc = "check" /\ rows[req[r].id] \in NameSet \cup {NoRow}
  BY DEF Check, Inv, TypeOK, Named, Active, UnderWay
<1>2. PICK p \in {"notFound", "refused", "write"} :
        req' = [req EXCEPT ![r] = [@ EXCEPT !.pc = p, !.seen = rows[req[r].id]]]
  BY DEF Check
<1>3. q = [req[r] EXCEPT !.pc = p, !.seen = rows[req[r].id]]
  BY <1>2 DEF Inv, TypeOK
<1>4. q \in Request
  BY <1>1, <1>3 DEF Request, UnderWay, Answers
<1>5. q.pc \in UnderWay => q.id \in Ids /\ (q.kind # "delete" => q.name \in NameSet)
  BY <1>1, <1>3 DEF Inv, Named, Active, UnderWay, Request
<1>6. req' = [req EXCEPT ![r] = q] /\ UNCHANGED <<table, rows, overlapped>> /\ q.pc # "commit"
  BY <1>1, <1>2, <1>3 DEF Check, Inv, TypeOK, Request
<1> QED
  BY <1>4, <1>5, <1>6, QuietInv DEF Inv, TypeOK

LEMMA FailInv ==
  ASSUME Inv, NEW r \in Requests, NEW p \in Answers,
         req' = [req EXCEPT ![r].pc = p], UNCHANGED <<table, rows, overlapped>>
  PROVE  Inv'
<1> DEFINE q == [req[r] EXCEPT !.pc = p]
<1>1. req[r] \in Request
  BY DEF Inv, TypeOK
<1>2. q \in Request /\ q.pc # "commit" /\ q.pc \notin UnderWay
  BY <1>1 DEF Request, Answers, UnderWay
<1>3. req' = [req EXCEPT ![r] = q]
  BY DEF Inv, TypeOK
<1> QED
  BY <1>2, <1>3, QuietInv DEF Inv, TypeOK

\* The only way into "commit": nothing pending is in the way.
LEMMA WriteInv ==
  ASSUME Inv, NEW r \in Requests, Write(r)
  PROVE  Inv'
<1>1. req[r] \in Request /\ req[r].pc = "write" /\ ~Waits(r) /\ UNCHANGED <<table, rows, overlapped>>
  BY DEF Write, Inv, TypeOK
<1>2. PICK p \in {"lost", "conflict", "commit"} :
        req' = [req EXCEPT ![r].pc = p] /\ (p = "commit" => ~Clashes(r))
  BY DEF Write
<1>3. CASE p # "commit"
  BY <1>1, <1>2, <1>3, FailInv DEF Answers
<1>4. CASE p = "commit"
  <2>1. /\ req'[r] = [req[r] EXCEPT !.pc = "commit"]
        /\ \A u \in Requests \ {r} : req'[u] = req[u]
    BY <1>2, <1>4 DEF Inv, TypeOK
  <2>2. /\ req'[r].pc = "commit" /\ req'[r].id = req[r].id /\ req'[r].kind = req[r].kind
        /\ req'[r].name = req[r].name /\ req'[r].seen = req[r].seen
    BY <1>1, <2>1 DEF Request
  <2>3. \A u \in Requests : Sets(u)' <=> Sets(u)
    BY <2>1, <2>2 DEF Sets
  <2>4. TypeOK'
    <3>1. req'[r] \in Request
      BY <1>1, <2>1 DEF Request, UnderWay
    <3> QED
      BY <1>1, <1>2, <2>1, <3>1 DEF Inv, TypeOK
  <2>5. Named'
    BY <1>1, <2>1, <2>2 DEF Inv, Named, Active, UnderWay
  <2>6. ASSUME Constrained(table)
        PROVE  (Distinct(NameSet) /\ RowsApart /\ NamesApart /\ NamesFree)'
    <3>1. Distinct(NameSet) /\ RowsApart /\ NamesApart /\ NamesFree
      BY <2>6 DEF Inv
    <3>2. Distinct(NameSet)'
      BY <3>1, <1>1 DEF Distinct
    <3>6. ASSUME NEW u \in Requests \ {r}, req[u].pc = "commit"
         PROVE  /\ req[u].id # req[r].id
                /\ Sets(r) /\ Sets(u) => req[u].name # req[r].name
      <4>1. ~(\E v \in Requests \ {r} :
               /\ req[v].pc = "commit"
               /\ \/ req[v].id = req[r].id
                  \/ /\ Constrained(table) /\ Sets(r)
                     /\ \/ Sets(v) /\ req[v].name = req[r].name
                        \/ rows[req[v].id] = req[r].name)
        BY <1>1, Zenon DEF Waits
      <4> QED
        BY <2>6, <3>6, <4>1
    <3>3. RowsApart'
      <4>1. \A v, w \in Requests \ {r} :
              v # w /\ req'[v].pc = "commit" /\ req'[w].pc = "commit" =>
                req'[v].id # req'[w].id
        BY <3>1, <2>1 DEF RowsApart
      <4>2. \A v \in Requests \ {r} :
              req'[v].pc = "commit" => req'[v].id # req'[r].id
        BY <3>6, <2>1, <2>2
      <4> QED
        BY <4>1, <4>2 DEF RowsApart
    <3>4. NamesApart'
      <4>1. \A v, w \in Requests \ {r} :
              v # w /\ Pending(v)' /\ Pending(w)' => req'[v].name # req'[w].name
        BY <3>1, <2>1, <2>3 DEF NamesApart, Pending
      <4>2. \A v \in Requests \ {r} :
              Pending(v)' /\ Pending(r)' => req'[v].name # req'[r].name
        BY <3>6, <2>1, <2>2, <2>3 DEF Pending
      <4> QED
        BY <4>1, <4>2 DEF NamesApart
    <3>5. NamesFree'
      BY <3>1, <1>1, <1>2, <1>4, <2>1, <2>2, <2>3, <2>6 DEF NamesFree, Pending, Clashes
    <3> QED
      BY <3>2, <3>3, <3>4, <3>5
  <2> QED
    BY <1>1, <2>4, <2>5, <2>6 DEF Inv, Constrained
<1> QED
  BY <1>2, <1>3, <1>4

LEMMA CommitInv ==
  ASSUME Inv, NEW r \in Requests, Commit(r)
  PROVE  Inv'
<1> DEFINE id == req[r].id
<1>1. /\ req[r] \in Request /\ req[r].pc = "commit" /\ id \in Ids
      /\ req[r].kind # "delete" => req[r].name \in NameSet
      /\ UNCHANGED <<table, overlapped>>
  BY DEF Commit, Inv, TypeOK, Named, Active, UnderWay
<1>2. /\ req'[r] = [req[r] EXCEPT !.pc = "done"]
      /\ \A u \in Requests \ {r} : req'[u] = req[u]
      /\ req' \in [Requests -> Request]
  <2>1. [req[r] EXCEPT !.pc = "done"] \in Request
    BY <1>1 DEF Request, Answers
  <2> QED
    BY <2>1 DEF Commit, Inv, TypeOK
<1>3. \A u \in Requests : req'[u].pc \in UnderWay => u # r /\ req'[u] = req[u]
  BY <1>1, <1>2 DEF UnderWay, Request
<1>4. /\ rows' \in [Ids -> NameSet \cup {NoRow}]
      /\ \A i \in Ids \ {id} : rows'[i] = rows[i]
      /\ \/ rows'[id] = NoRow
         \/ Pending(r) /\ rows'[id] = req[r].name
         \/ rows'[id] = rows[id]
  BY <1>1 DEF Commit, Inv, TypeOK, Pending, Sets
<1>5. TypeOK'
  BY <1>1, <1>2, <1>4 DEF Inv, TypeOK
<1>6. Named'
  BY <1>3 DEF Inv, Named, Active
<1>7. ASSUME Constrained(table)
      PROVE  (Distinct(NameSet) /\ RowsApart /\ NamesApart /\ NamesFree)'
  <2>1. Distinct(NameSet) /\ RowsApart /\ NamesApart /\ NamesFree
    BY <1>7 DEF Inv
  <2>2. \A u \in Requests : Pending(u)' => u # r /\ Pending(u) /\ req'[u] = req[u]
    BY <1>3 DEF Pending, Sets, UnderWay
  <2>3. Distinct(NameSet)'
    BY <2>1, <1>1, <1>4, NamesAssumption DEF Distinct, NamesFree
  <2>4. RowsApart'
    BY <2>1, <1>3 DEF RowsApart, UnderWay
  <2>5. NamesApart'
    BY <2>1, <2>2 DEF NamesApart
  <2>6. NamesFree'
    <3> SUFFICES ASSUME NEW u \in Requests, Pending(u)', NEW i \in Ids \ {req'[u].id}
                 PROVE  rows'[i] # req'[u].name
      BY DEF NamesFree
    <3>1. u # r /\ Pending(u) /\ req'[u] = req[u] /\ rows[i] # req[u].name
      BY <2>1, <2>2 DEF NamesFree
    <3>2. req[u].name \in NameSet
      BY <3>1 DEF Inv, Named, Active, Pending, Sets, UnderWay
    <3>3. Pending(r) => req[r].name # req[u].name
      BY <2>1, <3>1 DEF NamesApart
    <3> QED
      BY <1>4, <3>1, <3>2, <3>3, NamesAssumption
  <2> QED
    BY <2>3, <2>4, <2>5, <2>6
<1> QED
  BY <1>1, <1>5, <1>6, <1>7 DEF Inv, Constrained

LEMMA NextInv == Inv /\ [Next]_vars => Inv'
<1> SUFFICES ASSUME Inv, [Next]_vars PROVE Inv'
  OBVIOUS
<1>1. ASSUME NEW r \in Requests, Post(r) \/ Put(r) \/ Delete(r) PROVE Inv'
  BY <1>1, BeginInv
<1>2. ASSUME NEW r \in Requests, Check(r) PROVE Inv'
  BY <1>2, CheckInv
<1>3. ASSUME NEW r \in Requests, Write(r) PROVE Inv'
  BY <1>3, WriteInv
<1>4. ASSUME NEW r \in Requests, Commit(r) PROVE Inv'
  BY <1>4, CommitInv
<1>5. ASSUME NEW r \in Requests, Fail(r) PROVE Inv'
  BY <1>5, FailInv DEF Fail, Answers
<1>6. ASSUME UNCHANGED vars PROVE Inv'
  BY <1>6 DEF vars, Inv, TypeOK, Named, Active, Distinct, RowsApart, NamesApart,
    NamesFree, Pending, Sets
<1> QED
  BY <1>1, <1>2, <1>3, <1>4, <1>5, <1>6 DEF Next, AllAnswered

\* Types are kept, for any tables, rows, names and requests.
THEOREM NamesTyped == Spec => []TypeOK
<1>1. Inv => TypeOK
  BY DEF Inv
<1> QED
  BY <1>1, InitInv, NextInv, PTL DEF Spec

\* system_configs never holds one name twice, whatever requests overlap.
THEOREM NamesUnique == Spec => []UniqueNames
<1>1. Inv => UniqueNames
  BY DEF Inv, UniqueNames, Constrained
<1> QED
  BY <1>1, InitInv, NextInv, PTL DEF Spec

-----------------------------------------------------------------------------
(* Without the constraint: requests that come one after the other *)

\* As long as no two requests have been under way at once, the one that is
\* finds at its write, and at its commit, what its check has found.
Alone == ~overlapped => \A r, u \in Requests : Active(r) /\ Active(u) => r = u
Checked ==
  ~overlapped => \A r \in Requests : req[r].pc \in {"write", "commit"} => ~Taken(r)

SerialInv == Alone /\ Checked /\ SerialNamesUnique /\ ConflictNeedsOverlap

LEMMA SerialInit == Init => SerialInv
<1> SUFFICES ASSUME Init PROVE SerialInv
  OBVIOUS
<1>1. \A r \in Requests : req[r].pc = "idle"
  BY DEF Init, Idle
<1>2. Distinct(NameSet \ {Empty})
  BY NamesAssumption DEF Init, Distinct
<1> QED
  BY <1>1, <1>2 DEF SerialInv, Alone, Checked, SerialNamesUnique, ConflictNeedsOverlap,
    Active, UnderWay

\* A request that goes on, or ends, and leaves the rows alone.
LEMMA SerialMove ==
  ASSUME Inv, SerialInv, NEW r \in Requests, NEW q \in Request, Active(r),
         req' = [req EXCEPT ![r] = q], UNCHANGED <<rows, overlapped>>,
         q.id = req[r].id, q.kind = req[r].kind, q.name = req[r].name,
         ~overlapped /\ q.pc \in {"write", "commit"} => ~Taken(r),
         q.pc = "conflict" => overlapped \/ q.name = Empty
  PROVE  SerialInv'
<1>1. req'[r] = q /\ \A u \in Requests \ {r} : req'[u] = req[u]
  BY DEF Inv, TypeOK
<1>2. \A u \in Requests : Taken(u)' <=> Taken(u)
  BY <1>1 DEF Taken
<1>3. Alone'
  BY <1>1 DEF SerialInv, Alone, Active
<1>4. Checked'
  BY <1>1, <1>2 DEF SerialInv, Checked
<1>5. SerialNamesUnique' /\ ConflictNeedsOverlap'
  BY <1>1 DEF SerialInv, SerialNamesUnique, ConflictNeedsOverlap, Distinct
<1> QED
  BY <1>3, <1>4, <1>5 DEF SerialInv

LEMMA SerialBegin ==
  ASSUME Inv, SerialInv, NEW r \in Requests, Post(r) \/ Put(r) \/ Delete(r)
  PROVE  SerialInv'
<1>1. PICK kind \in Kinds, id \in Ids, name \in NameSet \cup {NoRow} :
        Begin(r, kind, id, name)
  BY DEF Post, Put, Delete, Kinds
<1>2. /\ req[r].pc = "idle" /\ req'[r].pc = "check" /\ UNCHANGED rows
      /\ \A u \in Requests \ {r} : req'[u] = req[u]
      /\ overlapped' = (overlapped \/ \E u \in Requests : Active(u))
  BY <1>1 DEF Begin, Inv, TypeOK
<1>3. CASE overlapped'
  BY <1>3 DEF SerialInv, Alone, Checked, SerialNamesUnique, ConflictNeedsOverlap
<1>4. CASE ~overlapped'
  <2>1. ~overlapped /\ \A u \in Requests : ~Active(u)
    BY <1>2, <1>4 DEF Inv, TypeOK
  <2>2. \A u \in Requests \ {r} : ~Active(u)'
    BY <1>2, <2>1 DEF Active
  <2>3. Alone' /\ Checked'
    BY <1>2, <2>2 DEF Alone, Checked, Active, UnderWay
  <2>4. SerialNamesUnique' /\ ConflictNeedsOverlap'
    BY <1>2, <2>1 DEF SerialInv, SerialNamesUnique, ConflictNeedsOverlap, Distinct
  <2> QED
    BY <2>3, <2>4 DEF SerialInv
<1> QED
  BY <1>3, <1>4

LEMMA SerialCheck ==
  ASSUME Inv, SerialInv, NEW r \in Requests, Check(r)
  PROVE  SerialInv'
<1> DEFINE p == req'[r].pc
           q == [req[r] EXCEPT !.pc = p, !.seen = rows[req[r].id]]
<1>1. req[r] \in Request /\ Active(r) /\ rows[req[r].id] \in NameSet \cup {NoRow}
  BY DEF Check, Inv, TypeOK, Named, Active, UnderWay
<1>2. /\ p \in {"notFound", "refused", "write"} /\ (p = "write" => ~Taken(r))
      /\ req' = [req EXCEPT ![r] = q] /\ UNCHANGED <<rows, overlapped>>
  <2>1. req'[r] = [req[r] EXCEPT !.pc = IF req[r].kind # "post" /\ rows[req[r].id] = NoRow
                                         THEN "notFound"
                                         ELSE IF Taken(r) THEN "refused" ELSE "write",
                                 !.seen = rows[req[r].id]]
    BY DEF Check, Inv, TypeOK
  <2>2. p = IF req[r].kind # "post" /\ rows[req[r].id] = NoRow
            THEN "notFound" ELSE IF Taken(r) THEN "refused" ELSE "write"
    BY <1>1, <2>1 DEF Request
  <2>3. req' = [req EXCEPT ![r] = req'[r]] /\ UNCHANGED <<rows, overlapped>>
    BY DEF Check, Inv, TypeOK
  <2> QED
    BY <2>1, <2>2, <2>3
<1>3. q \in Request /\ q.pc = p /\ q.id = req[r].id /\ q.kind = req[r].kind
      /\ q.name = req[r].name
  BY <1>1, <1>2 DEF Request, UnderWay, Answers
<1> HIDE DEF p, q
<1> QED
  BY <1>1, <1>2, <1>3, SerialMove

LEMMA SerialWrite ==
  ASSUME Inv, SerialInv, NEW r \in Requests, Write(r) \/ Fail(r)
  PROVE  SerialInv'
<1>1. req[r] \in Request /\ Active(r) /\ UNCHANGED <<rows, overlapped>>
  BY DEF Write, Fail, Inv, TypeOK, Active, UnderWay
<1>2. PICK p \in {"lost", "conflict", "commit"} :
        /\ req' = [req EXCEPT ![r].pc = p]
        /\ p \in {"conflict", "commit"} => req[r].pc = "write"
        /\ p = "conflict" => Clashes(r)
  BY DEF Write, Fail
<1> DEFINE q == [req[r] EXCEPT !.pc = p]
<1>3. /\ q \in Request /\ q.pc = p /\ q.id = req[r].id /\ q.kind = req[r].kind
      /\ q.name = req[r].name
  BY <1>1 DEF Request, UnderWay, Answers
<1>4. req' = [req EXCEPT ![r] = q]
  BY <1>2 DEF Inv, TypeOK
<1>5. ~overlapped /\ p \in {"conflict", "commit"} => ~Taken(r)
  BY <1>2 DEF SerialInv, Checked
<1>6. p = "conflict" => overlapped \/ req[r].name = Empty
  <2> SUFFICES ASSUME p = "conflict", ~overlapped, req[r].name # Empty PROVE FALSE
    OBVIOUS
  <2> QED
    BY <1>2, <1>5 DEF Clashes, Sets, Taken
<1> HIDE DEF q
<1> QED
  BY <1>1, <1>3, <1>4, <1>5, <1>6, SerialMove

LEMMA SerialCommit ==
  ASSUME Inv, SerialInv, NEW r \in Requests, Commit(r)
  PROVE  SerialInv'
<1> DEFINE id == req[r].id
<1>1. /\ req[r] \in Request /\ req[r].pc = "commit" /\ Active(r) /\ id \in Ids
      /\ UNCHANGED overlapped
  BY DEF Commit, Inv, TypeOK, Named, Active, UnderWay
<1>2. /\ req'[r] = [req[r] EXCEPT !.pc = "done"] /\ req'[r].pc = "done"
      /\ \A u \in Requests \ {r} : req'[u] = req[u]
  BY <1>1 DEF Commit, Inv, TypeOK, Request
<1>3. /\ rows' \in [Ids -> NameSet \cup {NoRow}]
      /\ \A i \in Ids \ {id} : rows'[i] = rows[i]
      /\ rows'[id] = NoRow \/ rows'[id] = rows[id]
           \/ (req[r].kind # "delete" /\ rows'[id] = req[r].name)
  BY <1>1 DEF Commit, Inv, TypeOK, Named
<1>4. ConflictNeedsOverlap'
  BY <1>1, <1>2 DEF SerialInv, ConflictNeedsOverlap
<1>5. CASE overlapped
  BY <1>1, <1>4, <1>5 DEF SerialInv, Alone, Checked, SerialNamesUnique
<1>6. CASE ~overlapped
  <2>1. \A u \in Requests : ~Active(u)'
    BY <1>1, <1>2, <1>6 DEF SerialInv, Alone, Active, UnderWay
  <2>2. Alone' /\ Checked'
    BY <2>1 DEF Alone, Checked, Active, UnderWay
  <2>3. Distinct(NameSet \ {Empty}) /\ ~Taken(r)
    BY <1>1, <1>6 DEF SerialInv, SerialNamesUnique, Checked
  <2>4. Distinct(NameSet \ {Empty})'
    BY <1>1, <1>3, <2>3, NamesAssumption DEF Distinct, Taken
  <2> QED
    BY <1>4, <2>2, <2>4 DEF SerialInv, SerialNamesUnique
<1> QED
  BY <1>5, <1>6

LEMMA SerialInvariance == Spec => []SerialInv
<1>1. ASSUME Inv, SerialInv, [Next]_vars PROVE SerialInv'
  <2>1. ASSUME UNCHANGED vars PROVE SerialInv'
    BY <1>1, <2>1 DEF vars, SerialInv, Alone, Checked, SerialNamesUnique,
      ConflictNeedsOverlap, Active, Taken, Distinct
  <2> QED
    BY <1>1, <2>1, SerialBegin, SerialCheck, SerialWrite, SerialCommit DEF Next, AllAnswered
<1> QED
  BY <1>1, InitInv, NextInv, SerialInit, PTL DEF Spec

\* With the check alone, requests that never overlap keep names unique.
THEOREM SerialRequests == Spec => []SerialNamesUnique
<1>1. SerialInv => SerialNamesUnique
  BY DEF SerialInv
<1> QED
  BY <1>1, SerialInvariance, PTL

\* A client that is alone hears of a taken name from the check.
THEOREM ConflictsOverlap == Spec => []ConflictNeedsOverlap
<1>1. SerialInv => ConflictNeedsOverlap
  BY DEF SerialInv
<1> QED
  BY <1>1, SerialInvariance, PTL

=============================================================================
