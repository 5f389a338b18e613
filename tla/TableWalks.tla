----------------------------- MODULE TableWalks -----------------------------
(***************************************************************************)
(* The other answers of the kernel that are walked record by record:       *)
(* ObjectTypeTable::build (core/handle), which HandleManager::snapshot     *)
(* calls for the names of the types of the handles it lists, and           *)
(* fillPagefiles and fillTopology of core/system.                          *)
(*                                                                         *)
(* The kernel lays a table out as it should: records of varying size, one  *)
(* behind the other.  A record is known by its position in the table, and  *)
(* what a walk finds where no record begins is zero.  Handles, types and   *)
(* processors come and go between one query and the next; a type that was  *)
(* registered stays.                                                       *)
(*                                                                         *)
(* The variables are those of SnapshotWalk, which starts to move only when *)
(* no table was asked for, and those of the tables.                        *)
(***************************************************************************)
EXTENDS SnapshotWalk, FiniteSets

CONSTANTS
  RecordSize,  \* sizeof of the record of each table
  Tails,       \* what a record of each table can have behind its struct; of the
               \* topology the size of the whole record
  Terminator,  \* what MaximumLength of a type's name has more than Length
  WordSize,    \* types begin at multiples of it
  Unwritten,   \* size of a buffer nothing was written to
  MaxRecords,  \* bound: records of a table
  None         \* no name

Tables == {"types", "pagefiles", "topology"}

ASSUME TableAssumption ==
  /\ RecordSize \in [Tables -> Nat \ {0}]
  /\ DOMAIN Tails = Tables /\ \A t \in Tables : Tails[t] \subseteq Nat \ {0}
  /\ \A m \in Tails["types"] : m > Terminator
  \* Any two records of the topology are longer than the union of them all.
  /\ \A m \in Tails["topology"] : 2 * m >= RecordSize["topology"]
  /\ Terminator \in Nat /\ WordSize \in Nat \ {0}
  /\ Unwritten \in Nat /\ MaxRecords \in Nat \ {0}
  /\ None \notin Nat

VARIABLES
  registered,  \* object types the system has
  indexed,     \* the system reports the index of a type with it
  handles,     \* the entries that lie whole in the answer that lists the system's handles
  declared,    \* NumberOfHandles of that answer
  ofPid,       \* the process whose handles are wanted
  stage,       \* "idle", "types" (to be asked), "answer" (of the topology), "walk",
               \* "filter", "done" or "failed"
  table,       \* the table that is walked
  laid,        \* its records: the tail of each
  room,        \* size of the buffer
  cursor,      \* offset of the record that is read next
  visited,     \* the records a row was made of
  names,       \* ObjectTypeTable::indexToName_
  rows         \* HandleInfo: the handle, and the name of its type

tableVars == <<registered, indexed, handles, declared, ofPid, stage, table, laid, room, cursor,
               visited, names, rows>>
walkVars  == <<vars, tableVars>>

NoNames == [index \in {} |-> 0]

\* Types; a record that is visited is one of the table, or none, and a type is
\* known by the position of its record.
TablesTypeOK ==
  /\ registered \in 1 .. MaxRecords /\ indexed \in BOOLEAN
  /\ handles \in Seq([owner : Pids, index : 1 .. MaxRecords + 1])
  /\ declared \in 0 .. MaxRecords + 1 /\ ofPid \in Pids \cup {Everybody}
  /\ stage \in {"idle", "types", "answer", "walk", "filter", "done", "failed"}
  /\ table \in Tables /\ laid \in Seq(Tails[table])
  /\ room \in Nat /\ cursor \in Nat
  /\ visited \in Seq(0 .. Len(laid))
  /\ DOMAIN names \subseteq 1 .. MaxRecords + 1
  /\ \A index \in DOMAIN names : names[index] \in 1 .. Len(laid)
  /\ rows \in Seq([handle : [owner : Pids, index : 1 .. MaxRecords + 1],
                   typeName : 1 .. MaxRecords \cup {None}])

TablesInit ==
  /\ registered = 1 /\ indexed \in BOOLEAN
  /\ handles = <<>> /\ declared = 0 /\ ofPid = Everybody
  /\ stage = "idle" /\ table = "types"
  /\ laid = <<>> /\ room = 0 /\ cursor = 0 /\ visited = <<>>
  /\ names = NoNames /\ rows = <<>>

-----------------------------------------------------------------------------
(* The kernel's side.                                                      *)

Up(n) == ((n + WordSize - 1) \div WordSize) * WordSize

\* Where the record after a record begins.
Behind(t, at, tail) ==
  CASE t = "types"     -> Up(at + RecordSize[t] + tail)
    [] t = "pagefiles" -> at + RecordSize[t] + tail
    [] t = "topology"  -> at + tail

Start(t) == IF t = "types" THEN Up(1) ELSE 0

\* Where the records of a table begin, and where the last one ends.
Begins(t, records) ==
  LET at[i \in 1 .. Len(records) + 1] ==
        IF i = 1 THEN Start(t) ELSE Behind(t, at[i - 1], records[i - 1])
  IN at

End(t, records) ==
  LET n == Len(records) IN
  IF n = 0 THEN 0
  ELSE IF t = "types" THEN Begins(t, records)[n] + RecordSize[t] + records[n]
  ELSE Begins(t, records)[n + 1]

TablesOf(t) == UNION {[1 .. n -> Tails[t]] : n \in 0 .. MaxRecords}

\* The record that begins at the cursor, if one does.
Here == {i \in 1 .. Len(laid) : Begins(table, laid)[i] = cursor}

TypeIndex(i) == IF indexed THEN i + 1 ELSE i

RegisterType ==
  /\ stage \in {"idle", "types"} /\ registered < MaxRecords
  /\ registered' = registered + 1
  /\ UNCHANGED <<indexed, handles, declared, ofPid, stage, table, laid, room, cursor, visited,
                 names, rows>>

-----------------------------------------------------------------------------
(* The answers.                                                            *)

Answer(t, records, bytes) ==
  /\ table' = t /\ laid' = records /\ room' = bytes
  /\ cursor' = Start(t) /\ visited' = <<>>
  /\ stage' = "walk"

\* HandleManager::snapshot.  The header and one entry is the least it accepts.
\* What the header counts need not be what lies in the buffer.
QueryHandles(p, entries, count) ==
  /\ stage = "idle"
  /\ ofPid' = p /\ handles' = entries /\ declared' = count
  /\ stage' = IF entries = <<>> THEN "failed" ELSE "types"
  /\ UNCHANGED <<registered, indexed, table, laid, room, cursor, visited, names, rows>>

\* ObjectTypeTable::build begins.
QueryTypes(records) ==
  /\ stage = "types" /\ Len(records) = registered
  /\ Answer("types", records, End("types", records))
  /\ UNCHANGED <<registered, indexed, handles, declared, ofPid, names, rows>>

\* Without the table the names are left blank.
TypesFail ==
  /\ stage = "types"
  /\ stage' = "filter"
  /\ UNCHANGED <<registered, indexed, handles, declared, ofPid, table, laid, room, cursor,
                 visited, names, rows>>

\* fillPagefiles.  Of nothing a whole buffer of zeros is made, see QueryBuffer.
QueryPagefiles(records) ==
  /\ stage = "idle"
  /\ Answer("pagefiles", records,
            IF records = <<>> THEN Unwritten ELSE End("pagefiles", records))
  /\ UNCHANGED <<registered, indexed, handles, declared, ofPid, names, rows>>

\* fillTopology: the length first.
QueryLength(records) ==
  /\ stage = "idle" /\ records # <<>>
  /\ room' = End("topology", records)
  /\ stage' = "answer"
  /\ UNCHANGED <<registered, indexed, handles, declared, ofPid, table, laid, cursor, visited,
                 names, rows>>

\* Then the answer, which may have become shorter.
QueryTopology(records) ==
  /\ stage = "answer" /\ End("topology", records) <= room
  /\ Answer("topology", records, room)
  /\ UNCHANGED <<registered, indexed, handles, declared, ofPid, names, rows>>

\* A query fails, or the topology has become longer.
QueryFails ==
  /\ stage \in {"idle", "answer"}
  /\ stage' = "failed"
  /\ UNCHANGED <<registered, indexed, handles, declared, ofPid, table, laid, room, cursor,
                 visited, names, rows>>

-----------------------------------------------------------------------------
(* The walks.                                                              *)

RecordFits == cursor + RecordSize[table] <= room

\* Position and tail of the record at the cursor, zero if none begins there.
Record0 == IF Here = {} THEN [at |-> 0, tail |-> 0]
           ELSE LET i == CHOOSE i \in Here : TRUE IN [at |-> i, tail |-> laid[i]]

\* The step over a name by its length.
PastName(tail) == Up(cursor + RecordSize["types"] + tail - Terminator)

PastRecord(tail) == Up(cursor + RecordSize["types"] + tail)

\* A loop that leaves out a record that ends the buffer.
MoreAndRoom == cursor + RecordSize["topology"] < room

\* The loop of the topology ends where not even the largest record would fit.
More == cursor + RecordSize["topology"] <= room

Listing == stage = "walk" /\ UNCHANGED <<registered, indexed, handles, declared, ofPid, table,
                                         laid, room, rows>>

\* A type without a name is not entered; emplace keeps the first of an index.
\* The one of a system that does not report it is the position.
NameType ==
  LET r == Record0  i == Len(visited) + 1  index == IF r.at = 0 THEN i ELSE TypeIndex(r.at) IN
  /\ Listing /\ table = "types" /\ i <= registered /\ RecordFits
  /\ names' = IF r.tail <= Terminator \/ cursor + RecordSize[table] + r.tail - Terminator > room
                 \/ index \in DOMAIN names
              THEN names
              ELSE [k \in DOMAIN names \cup {index} |-> IF k = index THEN r.at ELSE names[k]]
  /\ visited' = Append(visited, r.at)
  /\ cursor' = PastRecord(r.tail)
  /\ UNCHANGED stage

EndOfTypes ==
  /\ Listing /\ table = "types"
  /\ Len(visited) = registered \/ ~RecordFits
  /\ stage' = "filter"
  /\ UNCHANGED <<cursor, visited, names>>

\* The offset to the next page file is 0 in the last record.
NextPagefile(r) ==
  IF r.at \in 1 .. Len(laid) - 1 THEN cursor + RecordSize["pagefiles"] + r.tail ELSE cursor

ListPagefile ==
  LET next == NextPagefile(Record0) IN
  /\ Listing /\ table = "pagefiles" /\ RecordFits
  /\ visited' = Append(visited, Record0.at)
  /\ IF next > cursor /\ next < room
     THEN cursor' = next /\ UNCHANGED stage
     ELSE stage' = "done" /\ UNCHANGED cursor
  /\ UNCHANGED names

CountRecord ==
  /\ Listing /\ table = "topology" /\ More
  /\ Record0.tail # 0 /\ cursor + Record0.tail <= room
  /\ visited' = Append(visited, Record0.at)
  /\ cursor' = cursor + Record0.tail
  /\ UNCHANGED <<stage, names>>

EndOfRecords ==
  /\ Listing
  /\ \/ table = "pagefiles" /\ ~RecordFits
     \/ table = "topology" /\ (~More \/ Record0.tail = 0 \/ cursor + Record0.tail > room)
  /\ stage' = "done"
  /\ UNCHANGED <<cursor, visited, names>>

NameFor(index) == IF index \in DOMAIN names THEN names[index] ELSE None

\* The declared count is checked against the buffer after the types were asked for.
CountFits == declared <= Len(handles)

CountExceeds ==
  /\ stage = "filter" /\ ~CountFits
  /\ stage' = "failed"
  /\ UNCHANGED <<registered, indexed, handles, declared, ofPid, table, laid, room, cursor,
                 visited, names, rows>>

\* The rows of the process, in the order of the system's table.
RowsOfHandles ==
  LET upTo[n \in 0 .. declared] ==
        IF n = 0 THEN <<>>
        ELSE IF handles[n].owner # ofPid THEN upTo[n - 1]
        ELSE Append(upTo[n - 1], [handle   |-> handles[n],
                                  typeName |-> NameFor(handles[n].index)])
  IN upTo[declared]

FilterHandles ==
  /\ stage = "filter" /\ CountFits
  /\ rows' = RowsOfHandles
  /\ stage' = "done"
  /\ UNCHANGED <<registered, indexed, handles, declared, ofPid, table, laid, room, cursor,
                 visited, names>>

-----------------------------------------------------------------------------

Entry == [owner : Pids, index : {TypeIndex(i) : i \in 1 .. registered}]

Listings == UNION {[1 .. n -> Entry] : n \in 0 .. MaxRecords}

\* One fewer than the entries, their number, and one more than lies in the buffer.
\* A count that makes the product of HandleManager.cpp:55 wrap is not considered.
Counts(entries) == {n \in 0 .. MaxRecords + 1 : n + 1 >= Len(entries) /\ n <= Len(entries) + 1}

Query ==
  \/ \E p \in Pids, entries \in Listings :
       \E count \in Counts(entries) : QueryHandles(p, entries, count)
  \/ \E records \in TablesOf("types") : QueryTypes(records)
  \/ TypesFail
  \/ \E records \in TablesOf("pagefiles") : QueryPagefiles(records)
  \/ \E records \in TablesOf("topology") : QueryLength(records) \/ QueryTopology(records)
  \/ QueryFails

WalksInit == Init /\ TablesInit

\* Either walk alone: they share nothing, and one start of the other is enough.
RecordsMove == stage = "idle" /\ registered = 1 /\ UNCHANGED tableVars
TablesMove  == /\ chain = <<>> /\ outcome = "pending"
               /\ target = Everybody /\ total = CHOOSE n \in Totals : TRUE
               /\ UNCHANGED vars

WalksNext ==
  \/ RecordsMove /\ Next
  \/ TablesMove /\ RegisterType
  \/ TablesMove /\ stage # "walk" /\ Query
  \/ TablesMove /\ NameType
  \/ TablesMove /\ EndOfTypes
  \/ TablesMove /\ ListPagefile
  \/ TablesMove /\ CountRecord
  \/ TablesMove /\ EndOfRecords
  \/ TablesMove /\ CountExceeds
  \/ TablesMove /\ FilterHandles

WalksSpec == WalksInit /\ [][WalksNext]_walkVars

-----------------------------------------------------------------------------
(* Properties.                                                             *)

InOrder(n) == [i \in 1 .. n |-> i]

\* SystemInfoProvider.cpp:72-73 and NtTypes.hpp:439: a table is listed whole,
\* each record once and in order, however tightly it fills the buffer, when the
\* topology shrinks between the two calls and when the buffer is longer than the
\* answer.  A last record of the topology for which the largest
\* one would not fit may be left out, and nothing is said of a system without a
\* page file.
TablesAreListedWhole ==
  stage = "done" =>
    /\ table = "pagefiles" /\ laid # <<>> => visited = InOrder(Len(laid))
    /\ table = "topology" =>
         LET n == Len(laid)
             cutOff == n > 0 /\ Begins(table, laid)[n] + RecordSize[table] > room
         IN visited = InOrder(n) \/ (cutOff /\ visited = InOrder(n - 1))

\* HandleManager.cpp:41-42: the handles listed are those of the process, all of
\* them, and each has the name of its own type: also of one that was registered
\* after the handles were asked for, whose index a name must not be lost to.
\* Only without a table of types the names are blank, and then all of them.  What
\* is listed was declared by the header, and lay whole in the buffer.
HandlesHaveTheirTypes ==
  stage = "done" /\ handles # <<>> =>
    LET own      == {k \in 1 .. declared : handles[k].owner = ofPid}
        place(k) == Cardinality({j \in own : j <= k})
    IN /\ declared <= Len(handles)
       /\ Len(rows) = Cardinality(own)
       /\ \A k \in own : rows[place(k)].handle = handles[k]
       /\ \/ \A i \in 1 .. Len(rows) : /\ rows[i].typeName # None
                                        /\ TypeIndex(rows[i].typeName) = rows[i].handle.index
          \/ laid = <<>> /\ \A i \in 1 .. Len(rows) : rows[i].typeName = None

=============================================================================
