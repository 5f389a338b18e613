----------------------------- MODULE Inspection -----------------------------
(***************************************************************************)
(* The queries that look into one process or thread through handles:       *)
(* PebTebReader::readPeb and readTeb, TokenInspector::inspect,             *)
(* ProcessManager::queryDetails, ThreadManager::queryDetails and           *)
(* HeapInspector::snapshot; and SystemInfoProvider::collect, which looks   *)
(* at the system.                                                          *)
(*                                                                         *)
(* Each is a list of steps.  A step opens something or fills a field; when *)
(* it fails the call ends with an error or goes on without the field,      *)
(* which then keeps its default.  What a field holds is known by whose it  *)
(* is, and by whether all of it was read.                                  *)
(*                                                                         *)
(* Ids are reused, by processes and threads alike, but not while a handle  *)
(* keeps the object, and a handle to a thread keeps its process too.       *)
(*                                                                         *)
(* The variables are those of ModuleSnapshot, the query of modules, and    *)
(* those of these calls; a behaviour is of one or of the other.            *)
(***************************************************************************)
EXTENDS ModuleSnapshot

CONSTANTS
  ObjectIds,   \* ids of processes and threads
  MaxObjects,  \* bound: processes and threads ever created
  CanDestroy   \* ntdll exports the function that destroys a debug buffer

ASSUME InspectionAssumption == MaxObjects \in Nat /\ CanDestroy \in BOOLEAN

VARIABLES
  objects,  \* kernel: processes and threads in the order of their creation
  call,     \* the query that runs or ran last
  wanted,   \* its arguments
  stepNo,   \* the step that is next
  held,     \* the open handles: what each refers to
  fields,   \* what was filled so far
  verdict,  \* "idle", "running", "ok" or "error"
  leaked    \* a debug buffer was given up that nobody destroyed

callVars    == <<objects, call, wanted, stepNo, held, fields, verdict, leaked>>
inspectVars == <<moduleVars, callVars>>

NoHandles == [h \in {} |-> 0]
NoFields  == [f \in {} |-> 0]
Nobody    == 0

InspectInit ==
  /\ ModulesInit
  /\ objects = <<>>
  /\ call = "none" /\ wanted = [pid |-> Nobody, tid |-> Nobody]
  /\ stepNo = 1 /\ held = NoHandles /\ fields = NoFields /\ verdict = "idle"
  /\ leaked = FALSE

-----------------------------------------------------------------------------
(* What the calls report.                                                  *)

PebFields == {"peb", "parameters", "imagePathName", "commandLine", "currentDirectory",
              "loaderData"}
TebFields == {"teb", "tlsSlots"}
TokenFields == {"userSid", "userName", "integrityLevel", "sessionId", "isElevated",
                "elevationType", "privileges", "groups"}
SystemFields == {"topology", "memory", "pageSize", "os", "pagefiles"}

\* With those that only lead to others.
FieldsOf ==
  [none |-> {}, peb |-> PebFields \cup {"basic"}, teb |-> TebFields \cup {"basic"},
   token |-> TokenFields \cup {"user"},
   process |-> {"fullImagePath", "architecture", "commandLine"},
   thread |-> {"win32StartAddress", "tebBaseAddress"},
   heaps |-> {"heaps"}, system |-> SystemFields]

\* With the types of the module snapshot: a call fills only its own fields, and
\* no field is of an object that never was.
InspectTypeOK ==
  /\ ModulesTypeOK
  /\ \A i \in DOMAIN objects :
       objects[i] \in [id : ObjectIds, of : 1 .. Len(objects), alive : BOOLEAN]
  /\ Len(objects) <= MaxObjects
  /\ call \in DOMAIN FieldsOf /\ verdict \in {"idle", "running", "ok", "error"}
  /\ leaked \in BOOLEAN
  /\ DOMAIN fields \subseteq FieldsOf[call]
  /\ \A f \in DOMAIN fields : fields[f] \in [of : 0 .. Len(objects), whole : BOOLEAN]
  /\ DOMAIN held \subseteq {"process", "thread", "token", "buffer"}
  /\ \A h \in DOMAIN held : held[h] \in 0 .. Len(objects)

-----------------------------------------------------------------------------
(* The kernel.  A process belongs to itself, a thread to the process `of`. *)

\* A handle keeps its object, and that of a thread the process too.
Kept == UNION {{held[h], objects[held[h]].of} : h \in DOMAIN held \cap {"process", "thread"}}

Exists(i) == objects[i].alive \/ i \in Kept

IsProcess(i) == objects[i].of = i

\* Who has an id now, Nobody if it is free.
HolderOf(id) ==
  LET H == {i \in DOMAIN objects : Exists(i) /\ objects[i].id = id}
  IN IF H = {} THEN Nobody ELSE CHOOSE i \in H : TRUE

Create(id, of) ==
  /\ Len(objects) < MaxObjects /\ HolderOf(id) = Nobody
  /\ objects' = Append(objects, [id |-> id, of |-> of, alive |-> TRUE])
  /\ UNCHANGED <<call, wanted, stepNo, held, fields, verdict, leaked>>

\* With a process its threads exit.
Exit(i) ==
  /\ objects[i].alive
  /\ objects' = [j \in DOMAIN objects |->
                   [objects[j] EXCEPT !.alive = @ /\ ~(j = i \/ objects[j].of = i)]]
  /\ UNCHANGED <<call, wanted, stepNo, held, fields, verdict, leaked>>

World ==
  \/ \E id \in ObjectIds : Create(id, Len(objects) + 1)
  \/ \E id \in ObjectIds, p \in DOMAIN objects :
       IsProcess(p) /\ objects[p].alive /\ Create(id, p)
  \/ \E i \in DOMAIN objects : Exit(i)

-----------------------------------------------------------------------------
(* Steps.  A handle is opened; or a field is filled by a query of a handle *)
(* or of an id, or from memory, all of it or as much as can be read, and   *)
(* that is gone with the process.                                          *)

\* The step is left out unless the field `after` was filled.
Step(way, field, from, must, after) ==
  [way |-> way, field |-> field, from |-> from, must |-> must, after |-> after]

OpenOf(h)                    == Step("open", h, h, TRUE, {})
Needed(way, field, h)        == Step(way, field, h, TRUE, {})
Optional(way, field, h)      == Step(way, field, h, FALSE, {})
Nested(way, field, h, after) == Step(way, field, h, FALSE, {after})

ProcessBasic == Needed("query", "basic", "process")
ThreadBasic  == Needed("query", "basic", "thread")

ParameterSteps ==
  <<Optional("memory", "parameters", "process"),
    Nested("string", "imagePathName", "process", "parameters"),
    Nested("string", "commandLine", "process", "parameters"),
    Nested("string", "currentDirectory", "process", "parameters")>>

LoaderSteps == <<Optional("memory", "loaderData", "process")>>

PebSteps ==
  <<OpenOf("process"), ProcessBasic, Needed("memory", "peb", "process")>>
    \o ParameterSteps \o LoaderSteps

TebSteps ==
  <<OpenOf("thread"), ThreadBasic, OpenOf("process"), Needed("memory", "teb", "process"),
    Optional("memory", "tlsSlots", "process")>>

TokenQuery(field) == Optional("query", field, "token")

\* Of a SID come its text and its name, each if it can.
SidSteps(sid, text, name) ==
  <<Nested("query", text, "token", sid), Nested("query", name, "token", sid)>>

UserSteps      == <<TokenQuery("user")>> \o SidSteps("user", "userSid", "userName")
IntegritySteps == <<TokenQuery("integrityLevel")>>
PrivilegeSteps == <<TokenQuery("privileges")>>
GroupSteps     == <<TokenQuery("groups")>>
SessionSteps   ==
  <<TokenQuery("sessionId"), TokenQuery("isElevated"), TokenQuery("elevationType")>>

TokenSteps ==
  <<OpenOf("process"), OpenOf("token")>> \o UserSteps
    \o IntegritySteps \o PrivilegeSteps \o GroupSteps \o SessionSteps

ImageSteps ==
  <<Optional("query", "fullImagePath", "process"), Optional("query", "architecture", "process")>>

CommandLineStep == Optional("query", "commandLine", "process")

ProcessSteps == <<OpenOf("process")>> \o ImageSteps \o <<CommandLineStep>>

StartAddressStep == Optional("query", "win32StartAddress", "thread")

ThreadSteps ==
  <<OpenOf("thread"), StartAddressStep, Optional("query", "tebBaseAddress", "thread")>>

\* The process is named by its id; what is opened is the debug buffer.
HeapsStep == Needed("id", "heaps", "buffer")
HeapSteps == <<OpenOf("buffer"), HeapsStep>>

MemorySteps == <<Optional("query", "memory", "system"), Optional("query", "pageSize", "system")>>
OsStep      == Optional("query", "os", "system")

SystemSteps ==
  <<Optional("query", "topology", "system")>> \o MemorySteps
    \o <<OsStep, Optional("query", "pagefiles", "system")>>

Plan == [peb |-> PebSteps, teb |-> TebSteps, token |-> TokenSteps, process |-> ProcessSteps,
         thread |-> ThreadSteps, heaps |-> HeapSteps, system |-> SystemSteps]

-----------------------------------------------------------------------------
(* Calls.                                                                  *)

Running  == verdict = "running" /\ stepNo <= Len(Plan[call])
Returned == verdict \in {"ok", "error"}
NextStep == Plan[call][stepNo]

Ask(c, pid, tid) ==
  /\ verdict # "running" /\ held = NoHandles
  /\ call' = c /\ wanted' = [pid |-> pid, tid |-> tid]
  /\ stepNo' = 1 /\ fields' = NoFields /\ verdict' = "running"
  /\ UNCHANGED <<objects, held, leaked>>

\* What an open would find: the holder of the id, if it is of the right sort.
\* A token is that of the process, a buffer nobody's.
Target(h) ==
  CASE h = "process" -> {i \in {HolderOf(wanted.pid)} : i # Nobody /\ IsProcess(i)}
    [] h = "thread"  -> {i \in {HolderOf(wanted.tid)} : i # Nobody /\ ~IsProcess(i)}
    [] h = "token"   -> {held["process"]}
    [] h = "buffer"  -> {Nobody}

OpenStep ==
  /\ Running /\ NextStep.way = "open"
  /\ \E i \in Target(NextStep.field) :
       held' = [x \in DOMAIN held \cup {NextStep.field} |->
                  IF x = NextStep.field THEN i ELSE held[x]]
  /\ stepNo' = stepNo + 1
  /\ UNCHANGED <<objects, call, wanted, fields, verdict, leaked>>

\* Whose a field is that can be filled now.
Source(s) ==
  CASE s.from = "system"                    -> {Nobody}
    [] s.from # "system" /\ s.way = "query" -> {held[s.from]}
    [] s.way = "id"                         -> Target("process")
    [] OTHER                                -> {i \in {held[s.from]} : objects[i].alive}

Applies(s) == s.after \subseteq DOMAIN fields

\* readRemote takes all or nothing, readRemoteUnicodeString what there is.
GoodEnough(s, whole) == whole \/ s.way = "string"

\* Only memory can be read in part.
Sizes(s) == IF s.way \in {"memory", "string"} THEN BOOLEAN ELSE {TRUE}

\* A handle is closed after the last step that uses it.
ClosedAfterUse ==
  [h \in {x \in DOMAIN held : \E k \in stepNo + 1 .. Len(Plan[call]) : Plan[call][k].from = x}
     |-> held[h]]

\* Handles are locals of the call, so they stay open to its end.
StillHeld == held

FillStep ==
  /\ Running /\ NextStep.way # "open" /\ Applies(NextStep)
  /\ \E i \in Source(NextStep), whole \in Sizes(NextStep) :
       /\ GoodEnough(NextStep, whole)
       /\ fields' = [f \in DOMAIN fields \cup {NextStep.field} |->
                       IF f = NextStep.field THEN [of |-> i, whole |-> whole] ELSE fields[f]]
  /\ stepNo' = stepNo + 1
  /\ held' = StillHeld
  /\ UNCHANGED <<objects, call, wanted, verdict, leaked>>

\* Every step may fail.
GoesOnAnyway(s) == TRUE

GoesOnWithout(s) == ~s.must

\* A step fails, or does not apply, and the call does without it.
SkipStep ==
  /\ Running /\ NextStep.way # "open" /\ GoesOnWithout(NextStep)
  /\ stepNo' = stepNo + 1
  /\ UNCHANGED <<objects, call, wanted, held, fields, verdict, leaked>>

\* What is returned is settled before the locals of the call go.
Return(v) ==
  /\ verdict' = v
  /\ UNCHANGED <<objects, call, wanted, stepNo, held, fields, leaked>>

FailStep == Running /\ NextStep.must /\ Return("error")

\* Without processors, memory and version the system is as good as unknown.
Unavailable == call = "system" /\ DOMAIN fields \cap {"topology", "memory", "os"} = {}

Complete ==
  /\ verdict = "running" /\ stepNo > Len(Plan[call])
  /\ Return(IF Unavailable THEN "error" ELSE "ok")

\* The k-th step of the call opened a handle that is still open.
OpenedBy(k) == Plan[call][k].way = "open" /\ Plan[call][k].field \in DOMAIN held

\* The locals go one after the other, the youngest first, and each closes what
\* it holds.  A debug buffer is let go of also when it cannot be destroyed.
CloseYoungest ==
  /\ Returned
  /\ \E k \in DOMAIN Plan[call] :
       LET h == Plan[call][k].field IN
       /\ OpenedBy(k) /\ \A j \in k + 1 .. Len(Plan[call]) : ~OpenedBy(j)
       /\ held' = [x \in DOMAIN held \ {h} |-> held[x]]
       /\ leaked' = (leaked \/ (h = "buffer" /\ ~CanDestroy))
  /\ UNCHANGED <<objects, call, wanted, stepNo, fields, verdict>>

\* One of the two runs, from the start.
ModulesMove == objects = <<>> /\ verdict = "idle" /\ UNCHANGED callVars
CallsMove   == pc = "open" /\ loads = 0 /\ UNCHANGED moduleVars

InspectNext ==
  \/ ModulesNext /\ ModulesMove
  \/ CallsMove /\ World
  \/ CallsMove /\ \E c \in DOMAIN Plan, pid, tid \in ObjectIds : Ask(c, pid, tid)
  \/ CallsMove /\ OpenStep
  \/ CallsMove /\ FillStep
  \/ CallsMove /\ SkipStep
  \/ CallsMove /\ FailStep
  \/ CallsMove /\ Complete
  \/ CallsMove /\ CloseYoungest

InspectSpec == InspectInit /\ [][InspectNext]_inspectVars

-----------------------------------------------------------------------------
(* Properties.                                                             *)

\* PebTebReader.cpp:141-142: what a call reports is of one process, however ids
\* are reused while it reads, and nothing of it is a part of what it should be
\* but strings.  For readTeb this takes that the process asked for owned the
\* thread, which the code does not look at; then the open thread keeps the id of
\* its process from being reused before that is opened.
ReportsAreOfOne ==
  Returned =>
    LET owners == {objects[fields[f].of].of : f \in {g \in DOMAIN fields : fields[g].of # Nobody}}
        asked  == call = "teb" => \A i \in DOMAIN objects :
                    "basic" \in DOMAIN fields /\ i = objects[fields["basic"].of].of
                      => objects[i].id = wanted.pid
    IN /\ asked => \A i, j \in owners : i = j
       /\ \A f \in DOMAIN fields :
            fields[f].whole \/ f \in {"imagePathName", "commandLine", "currentDirectory"}

\* PebTebReader.cpp:128, TokenInspector.cpp:233-234 and SystemInfoProvider.cpp:246:
\* a call is successful only with all it cannot do without, and one that fails
\* throws nothing away that is of use without the rest.  The size of a page and
\* the page files are not: collect gives up without processors, memory and version
\* although one of these two was read.
FailsForGoodReason ==
  Returned =>
    LET S == {Plan[call][k] : k \in DOMAIN Plan[call]}
        useful == {s.field : s \in {x \in S : ~x.must}} \ {"pageSize", "pagefiles"}
    IN IF verdict = "ok"
       THEN \A s \in S : s.must /\ s.way # "open" => s.field \in DOMAIN fields
       ELSE DOMAIN fields \cap useful = {}

=============================================================================
