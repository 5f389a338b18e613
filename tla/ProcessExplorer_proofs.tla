----------------------- MODULE ProcessExplorer_proofs -----------------------
(***************************************************************************)
(* Proofs about ProcessExplorer for any set of pids, any number of         *)
(* processes and any bounds.  What the view model shows is right because   *)
(* of what holds of the processes themselves (OsInv, Genealogy): the rows  *)
(* are a copy of them taken by the last good refresh, so the same holds of *)
(* the rows (RowsInv), and the tree is always the one rebuilt from the     *)
(* rows (TreeInv).  The baseline of the sampler is that copy too           *)
(* (BaselineInv), so what it says of a pid is of the process in its row.   *)
(***************************************************************************)
EXTENDS ProcessExplorer, CpuSampler_proofs, WellFoundedInduction

\* Instances are unique and numbered by creation; a process is younger than
\* the one that created it.
OsInv ==
  /\ 0 \in DOMAIN live
  /\ live[0].inst = 0 /\ live[0].parentId = 0 /\ live[0].parentInst = 0
  /\ \A p \in DOMAIN live :
       /\ live[p].parentId \in AllPids
       /\ live[p].inst <= created
       /\ live[p].createTime <= clock
       /\ p # 0 => live[p].inst > 0 /\ live[p].parentInst < live[p].inst
  /\ \A p, q \in DOMAIN live : live[p].inst = live[q].inst => p = q

\* A process that holds the parent pid of p and is no younger than p created p,
\* or was created in the same tick; a creator that still runs holds that pid
\* and is no younger.
Genealogy ==
  \A p, q \in DOMAIN live :
    p # 0 =>
      /\ live[p].parentId = q /\ live[q].createTime <= live[p].createTime =>
           live[q].inst = live[p].parentInst \/ live[q].createTime = live[p].createTime
      /\ live[q].inst = live[p].parentInst =>
           live[p].parentId = q /\ live[q].createTime <= live[p].createTime

RowsGenealogy ==
  \A p, q \in DOMAIN rows :
    p # 0 =>
      /\ rows[p].parentPid = q /\ rows[q].createTime <= rows[p].createTime =>
           rows[q].inst = rows[p].parentInst \/ rows[q].createTime = rows[p].createTime
      /\ rows[q].inst = rows[p].parentInst =>
           rows[p].parentPid = q /\ rows[q].createTime <= rows[p].createTime

RowsInv ==
  /\ \A p \in DOMAIN rows :
       /\ rows[p].inst <= created
       /\ p = 0 => rows[p].inst = 0 /\ rows[p].parentPid = 0 /\ rows[p].parentInst = 0
       /\ p # 0 => rows[p].inst > 0 /\ rows[p].parentInst < rows[p].inst
  /\ \A p, q \in DOMAIN rows : rows[p].inst = rows[q].inst => p = q
  \* A row and a process are the same instance only under the same pid.
  /\ \A p \in DOMAIN rows, q \in DOMAIN live : rows[p].inst = live[q].inst => p = q

TreeInv == tree = RebuildTree(rows)

DetailsInv ==
  details.loaded =>
    /\ selectedPid # None
    /\ details.inst <= created
    /\ \A p \in DOMAIN live : live[p].inst = details.inst => p = selectedPid
    /\ \A p \in DOMAIN rows : rows[p].inst = details.inst => p = selectedPid

-----------------------------------------------------------------------------
(* The processes.                                                          *)

LEMMA CreateStep ==
  ASSUME OsTypeOK, OsInv, NEW pid \in Ids, NEW parentPid \in AllPids,
         CreateProcess(pid, parentPid)
  PROVE  OsTypeOK' /\ OsInv'
<1> USE OsAssumption DEF AllPids
<1>1. PICK gap \in CreateGap :
        /\ clock' = clock + gap
        /\ live' = Put(live, pid, [inst |-> created + 1, parentId |-> parentPid,
                                   parentInst |-> live[parentPid].inst,
                                   createTime |-> clock + gap, cpu |-> 0])
  BY DEF CreateProcess, OsCreate
<1>2. /\ pid \notin DOMAIN live /\ pid # 0 /\ parentPid \in DOMAIN live
      /\ created' = created + 1 /\ created < MaxInstances
  BY DEF CreateProcess, OsCreate
<1>3. DOMAIN live' = DOMAIN live \cup {pid}
  BY <1>1 DEF Put
<1>4. /\ live'[pid] = [inst |-> created + 1, parentId |-> parentPid,
                       parentInst |-> live[parentPid].inst,
                       createTime |-> clock + gap, cpu |-> 0]
      /\ \A q \in DOMAIN live : live'[q] = live[q]
  BY <1>1, <1>2 DEF Put
<1>5. gap \in Nat /\ created \in Nat /\ clock \in Nat /\ MaxInstances \in Nat
  BY DEF OsTypeOK
<1>6. OsTypeOK'
  <2>1. live'[pid] \in Object
    BY <1>2, <1>4, <1>5 DEF Object, OsTypeOK
  <2>2. \A id \in DOMAIN live' : live'[id] \in Object
    BY <1>3, <1>4, <2>1 DEF OsTypeOK
  <2>3. live' = [id \in DOMAIN live' |-> live'[id]]
    BY <1>1 DEF Put
  <2> QED
    BY <1>1, <1>2, <1>3, <1>5, <2>2, <2>3 DEF OsTypeOK
<1>7. OsInv'
  <2>1. \A q \in DOMAIN live : live[q].inst \in Nat /\ live[q].createTime \in Nat
    BY DEF OsTypeOK, Object
  <2> QED
    BY <1>1, <1>2, <1>3, <1>4, <1>5, <2>1 DEF OsInv
<1> QED
  BY <1>6, <1>7

LEMMA ExitStep ==
  ASSUME OsTypeOK, OsInv, NEW pid, ExitProcess(pid)
  PROVE  OsTypeOK' /\ OsInv'
<1>1. /\ DOMAIN live' = DOMAIN live \ {pid} /\ pid # 0
      /\ \A q \in DOMAIN live \ {pid} : live'[q] = live[q]
      /\ live' = [id \in DOMAIN live' |-> live'[id]]
      /\ UNCHANGED <<clock, created>>
  BY DEF ExitProcess, OsExit, Drop
<1> QED
  BY <1>1 DEF OsTypeOK, OsInv

LEMMA RunStep ==
  ASSUME OsTypeOK, OsInv, NEW pid, RunProcess(pid)
  PROVE  /\ OsTypeOK' /\ OsInv'
         /\ DOMAIN live' = DOMAIN live
         /\ \A q \in DOMAIN live :
              /\ live'[q].inst = live[q].inst /\ live'[q].parentInst = live[q].parentInst
              /\ live'[q].parentId = live[q].parentId
              /\ live'[q].createTime = live[q].createTime
              /\ live[q].cpu <= live'[q].cpu
<1>1. /\ pid \in DOMAIN live /\ live[pid].cpu < MaxCpu
      /\ live' = [live EXCEPT ![pid].cpu = @ + 1]
      /\ UNCHANGED <<clock, created>>
  BY DEF RunProcess, OsRun
<1>2. \A q \in DOMAIN live : live[q] \in Object
  BY DEF OsTypeOK
<1>3. live'[pid] = [live[pid] EXCEPT !.cpu = @ + 1] /\ \A q \in DOMAIN live \ {pid} : live'[q] = live[q]
  BY <1>1 DEF OsTypeOK
<1>4. live'[pid] \in Object /\ live[pid].cpu <= live'[pid].cpu
  BY <1>1, <1>2, <1>3, OsAssumption DEF Object
<1>5. DOMAIN live' = DOMAIN live /\ live' = [id \in DOMAIN live' |-> live'[id]]
  BY <1>1
<1>6. \A q \in DOMAIN live :
              /\ live'[q].inst = live[q].inst /\ live'[q].parentInst = live[q].parentInst
              /\ live'[q].parentId = live[q].parentId
              /\ live'[q].createTime = live[q].createTime
              /\ live[q].cpu <= live'[q].cpu
  <2>1. \A q \in DOMAIN live : live[q].cpu \in Nat
    BY <1>2, OsAssumption DEF Object
  <2> QED
    BY <1>1, <1>2, <1>3, <1>4, <2>1 DEF Object
<1> QED
  BY <1>1, <1>2, <1>3, <1>4, <1>5, <1>6 DEF OsTypeOK, OsInv

LEMMA GenealogyStep ==
  ASSUME OsTypeOK, OsInv, Genealogy, World
  PROVE  Genealogy'
<1>1. ASSUME NEW pid \in Ids, NEW parentPid \in AllPids, CreateProcess(pid, parentPid)
      PROVE  Genealogy'
  <2>1. PICK gap \in CreateGap :
        live' = Put(live, pid, [inst |-> created + 1, parentId |-> parentPid,
                                parentInst |-> live[parentPid].inst,
                                createTime |-> clock + gap, cpu |-> 0])
    BY <1>1 DEF CreateProcess, OsCreate
  <2>2. pid \notin DOMAIN live /\ parentPid \in DOMAIN live /\ parentPid # pid
    BY <1>1 DEF CreateProcess, OsCreate
  <2>3. DOMAIN live' = DOMAIN live \cup {pid}
    BY <2>1 DEF Put
  <2>4. /\ live'[pid].inst = created + 1 /\ live'[pid].parentId = parentPid
        /\ live'[pid].parentInst = live[parentPid].inst /\ live'[pid].createTime = clock + gap
        /\ \A q \in DOMAIN live : live'[q] = live[q]
    BY <2>1, <2>2 DEF Put
  <2>5. /\ gap \in Nat /\ clock \in Nat /\ created \in Nat
        /\ \A q \in DOMAIN live : /\ live[q].inst \in Nat /\ live[q].parentInst \in Nat
                                  /\ live[q].createTime \in Nat
    BY OsAssumption DEF OsTypeOK, Object
  <2> SUFFICES ASSUME NEW p \in DOMAIN live', NEW q \in DOMAIN live', p # 0
               PROVE  /\ live'[p].parentId = q /\ live'[q].createTime <= live'[p].createTime =>
                           \/ live'[q].inst = live'[p].parentInst
                           \/ live'[q].createTime = live'[p].createTime
                      /\ live'[q].inst = live'[p].parentInst =>
                           live'[p].parentId = q /\ live'[q].createTime <= live'[p].createTime
    BY DEF Genealogy
  <2>6. CASE p = pid
    BY <2>2, <2>3, <2>4, <2>5, <2>6 DEF OsInv
  <2>7. CASE p # pid /\ q = pid
    BY <2>2, <2>3, <2>4, <2>5, <2>7 DEF OsInv
  <2>8. CASE p # pid /\ q # pid
    BY <2>3, <2>4, <2>8 DEF Genealogy
  <2> QED
    BY <2>6, <2>7, <2>8
<1>2. ASSUME NEW pid \in Ids, ExitProcess(pid) PROVE Genealogy'
  BY <1>2 DEF ExitProcess, OsExit, Drop, Genealogy
<1>3. ASSUME NEW pid \in Ids, RunProcess(pid) PROVE Genealogy'
  BY <1>3, RunStep DEF Genealogy
<1> QED
  BY <1>1, <1>2, <1>3 DEF World

-----------------------------------------------------------------------------
(* The rows and the tree.                                                  *)

\* What a good refresh shows of each process.
LEMMA RefreshRows ==
  ASSUME TypeOK, OsInv, NEW now \in 0 .. MaxNow, RefreshAt(now)
  PROVE  /\ DOMAIN rows' = DOMAIN live
         /\ \A p \in DOMAIN live :
              /\ rows'[p] \in Row
              /\ rows'[p].inst = live[p].inst /\ rows'[p].parentInst = live[p].parentInst
              /\ rows'[p].parentPid = live[p].parentId
              /\ rows'[p].createTime = live[p].createTime
<1> DEFINE elapsed == Elapsed(sampler, now)
<1>1. rows' = [pid \in DOMAIN live |-> RowOf(live, pid, elapsed)]
  BY DEF RefreshAt
<1>2. elapsed \in Nat
  BY ElapsedType, MaxNowAssumption DEF TypeOK, SamplerTypeOK
<1>3. ASSUME NEW p \in DOMAIN live
      PROVE  /\ rows'[p] \in Row
             /\ rows'[p].inst = live[p].inst /\ rows'[p].parentInst = live[p].parentInst
             /\ rows'[p].parentPid = live[p].parentId
             /\ rows'[p].createTime = live[p].createTime
  <2> DEFINE usage == Usage(sampler, elapsed, p, live[p].cpu, live[p].createTime)
  <2>1. /\ live[p].inst \in Nat /\ live[p].parentInst \in Nat /\ live[p].parentId \in AllPids
        /\ live[p].createTime \in Nat /\ live[p].cpu \in Nat
    BY OsAssumption, <1>3 DEF TypeOK, OsTypeOK, Object, OsInv
  <2>2. usage \in [measured : BOOLEAN, percent : 0 .. 100]
    BY <1>2, <2>1, UsageType DEF TypeOK
  <2>3. rows'[p] = [parentPid |-> live[p].parentId, createTime |-> live[p].createTime,
                    measured |-> usage.measured, percent |-> usage.percent,
                    inst |-> live[p].inst, parentInst |-> live[p].parentInst]
    BY <1>1, <1>3 DEF RowOf
  <2> HIDE DEF usage
  <2> QED
    BY <2>1, <2>2, <2>3 DEF Row
<1> QED
  BY <1>1, <1>3

\* The tree of any rows is made of pids of those rows.
LEMMA RebuiltTree ==
  ASSUME NEW r, NEW S, DOMAIN r \subseteq S
  PROVE  /\ RebuildTree(r).roots \subseteq S
         /\ \A q \in DOMAIN RebuildTree(r).children : RebuildTree(r).children[q] \subseteq S
         /\ DOMAIN RebuildTree(r).children = {r[pid].parentPid : pid \in {pid \in DOMAIN r : ParentIsReal(r, pid)}}
         /\ \A q \in DOMAIN RebuildTree(r).children :
              RebuildTree(r).children[q] = {pid \in DOMAIN r : ParentIsReal(r, pid) /\ r[pid].parentPid = q}
         /\ RebuildTree(r).roots = {pid \in DOMAIN r : ~ParentIsReal(r, pid)}
BY DEF RebuildTree

LEMMA NoDetailsType == NoDetails \in [loaded : BOOLEAN, inst : Nat]
BY DEF NoDetails

LEMMA RefreshType ==
  ASSUME TypeOK, OsInv, NEW now \in 0 .. MaxNow, RefreshAt(now)
  PROVE  TypeOK'
<1>1. DOMAIN rows' \subseteq AllPids /\ \A pid \in DOMAIN rows' : rows'[pid] \in Row
  BY RefreshRows DEF TypeOK, OsTypeOK, AllPids
<1>2. tree'.roots \subseteq AllPids /\ \A pid \in DOMAIN tree'.children : tree'.children[pid] \subseteq AllPids
  BY <1>1, RebuiltTree DEF RefreshAt
<1>3. SamplerTypeOK(sampler', AllPids)
  <2>1. now \in Nat /\ \A id \in DOMAIN live : live[id].cpu \in Nat /\ live[id].createTime \in Nat
    BY OsAssumption, MaxNowAssumption DEF TypeOK, OsTypeOK, Object
  <2>2. DOMAIN live \subseteq AllPids
    BY DEF TypeOK, OsTypeOK, AllPids
  <2>3. sampler' = EndRound(live, now)
    BY DEF RefreshAt
  <2> QED
    BY <2>1, <2>2, <2>3 DEF EndRound, SamplerTypeOK
<1>4. OsTypeOK'
  BY DEF RefreshAt, osVars, TypeOK, OsTypeOK
<1>5. /\ lastError' \in {"none", "snapshot", "queryDetails"}
      /\ selectedPid' \in AllPids \cup {None}
      /\ details' \in [loaded : BOOLEAN, inst : Nat]
  <2>1. \/ selectedPid' = None /\ details' = NoDetails
        \/ selectedPid' = selectedPid /\ details' = details
    BY DEF RefreshAt, DropStaleSelection
  <2>2. lastError' = "none"
    BY DEF RefreshAt
  <2>3. selectedPid \in AllPids \cup {None} /\ details \in [loaded : BOOLEAN, inst : Nat]
    BY DEF TypeOK
  <2> QED
    BY <2>1, <2>2, <2>3, NoDetailsType
<1> QED
  BY <1>1, <1>2, <1>3, <1>4, <1>5 DEF TypeOK

LEMMA TypeStep == ASSUME TypeOK, OsInv, [Next]_vars PROVE TypeOK' /\ OsInv'
<1>1. CASE UNCHANGED vars
  BY <1>1 DEF vars, osVars, vmVars, TypeOK, OsTypeOK, OsInv
<1>2. CASE World
  <2>1. UNCHANGED vmVars /\ OsTypeOK' /\ OsInv'
    BY <1>2, CreateStep, ExitStep, RunStep DEF World, CreateProcess, ExitProcess, RunProcess, TypeOK
  <2> QED
    BY <2>1 DEF vmVars, TypeOK
<1>3. CASE \E now \in 0 .. MaxNow : RefreshAt(now)
  BY <1>3, RefreshType DEF RefreshAt, osVars, OsInv
<1>4. ASSUME ViewModel, ~ \E now \in 0 .. MaxNow : RefreshAt(now)
      PROVE  TypeOK' /\ OsInv'
  <2>1. UNCHANGED <<osVars, sampler, rows, tree>>
    BY <1>4 DEF ViewModel, RefreshFails, Select, ClearSelection, LoadDetails, LoadDetailsFails
  <2>2. OsTypeOK' /\ OsInv'
    BY <2>1 DEF osVars, TypeOK, OsTypeOK, OsInv
  <2>3. /\ lastError' \in {"none", "snapshot", "queryDetails"}
        /\ selectedPid' \in AllPids \cup {None}
        /\ details' \in [loaded : BOOLEAN, inst : Nat]
    <3>1. CASE LoadDetails
      <4>1. live[selectedPid].inst \in Nat
        BY <3>1 DEF LoadDetails, TypeOK, OsTypeOK, Object
      <4> QED
        BY <3>1, <4>1 DEF LoadDetails, TypeOK
    <3>2. CASE ~LoadDetails
      <4>1. /\ details' \in {details, NoDetails}
            /\ lastError' \in {lastError, "snapshot", "queryDetails"}
            /\ selectedPid' \in Ids \cup {selectedPid, None}
        BY <1>4, <3>2 DEF ViewModel, RefreshFails, Select, ClearSelection, LoadDetailsFails
      <4>2. /\ selectedPid \in AllPids \cup {None} /\ details \in [loaded : BOOLEAN, inst : Nat]
            /\ lastError \in {"none", "snapshot", "queryDetails"}
        BY DEF TypeOK
      <4> QED
        BY <4>1, <4>2, NoDetailsType DEF AllPids
    <3> QED
      BY <3>1, <3>2
  <2> QED
    BY <2>1, <2>2, <2>3 DEF TypeOK
<1> QED
  BY <1>1, <1>2, <1>3, <1>4 DEF Next, ViewModel

LEMMA RowsStep == ASSUME TypeOK, OsInv, RowsInv, [Next]_vars PROVE RowsInv'
<1>0. /\ created \in Nat /\ \A p \in DOMAIN live : live[p].inst \in Nat
      /\ \A p \in DOMAIN rows : rows[p].inst \in Nat
  BY DEF TypeOK, OsTypeOK, Object, Row
<1>1. ASSUME NEW now \in 0 .. MaxNow, RefreshAt(now) PROVE RowsInv'
  <2>1. UNCHANGED <<live, created>>
    BY <1>1 DEF RefreshAt, osVars
  <2> QED
    BY <1>1, <2>1, RefreshRows DEF RowsInv, OsInv
<1>2. ASSUME NEW pid \in Ids, NEW parentPid \in AllPids, CreateProcess(pid, parentPid)
      PROVE  RowsInv'
  <2>1. /\ created' = created + 1 /\ rows' = rows
        /\ DOMAIN live' = DOMAIN live \cup {pid}
        /\ live'[pid].inst = created + 1
        /\ \A q \in DOMAIN live : live'[q].inst = live[q].inst
    BY <1>2 DEF CreateProcess, OsCreate, Put, vmVars
  <2> QED
    BY <1>0, <2>1 DEF RowsInv
<1>3. ASSUME NEW pid \in Ids, ExitProcess(pid) PROVE RowsInv'
  <2>1. /\ created' = created /\ rows' = rows
        /\ DOMAIN live' \subseteq DOMAIN live
        /\ \A q \in DOMAIN live' : live'[q].inst = live[q].inst
    BY <1>3 DEF ExitProcess, OsExit, Drop, vmVars
  <2> QED
    BY <2>1 DEF RowsInv
<1>4. ASSUME NEW pid \in Ids, RunProcess(pid) PROVE RowsInv'
  <2>1. created' = created /\ rows' = rows
    BY <1>4 DEF RunProcess, OsRun, vmVars
  <2>2. DOMAIN live' = DOMAIN live /\ \A q \in DOMAIN live : live'[q].inst = live[q].inst
    BY <1>4, RunStep DEF TypeOK
  <2> QED
    BY <2>1, <2>2 DEF RowsInv
<1>5. CASE UNCHANGED <<osVars, rows>>
  BY <1>5 DEF osVars, RowsInv
<1>6. CASE UNCHANGED vars
  BY <1>5, <1>6 DEF vars, vmVars
<1>7. ASSUME ViewModel, ~ \E now \in 0 .. MaxNow : RefreshAt(now)
      PROVE  UNCHANGED <<osVars, rows>>
  BY <1>7 DEF ViewModel, RefreshFails, Select, ClearSelection, LoadDetails, LoadDetailsFails
<1> QED
  BY <1>1, <1>2, <1>3, <1>4, <1>5, <1>6, <1>7 DEF Next, World

LEMMA TreeStep == ASSUME TreeInv, [Next]_vars PROVE TreeInv'
<1>1. CASE UNCHANGED <<rows, tree>>
  BY <1>1 DEF TreeInv, RebuildTree, ParentIsReal
<1>2. ASSUME NEW now \in 0 .. MaxNow, RefreshAt(now) PROVE TreeInv'
  BY <1>2 DEF RefreshAt, TreeInv, RebuildTree, ParentIsReal
<1>3. CASE UNCHANGED vars \/ World
  BY <1>1, <1>3 DEF vars, vmVars, World, CreateProcess, ExitProcess, RunProcess
<1>4. ASSUME ViewModel, ~ \E now \in 0 .. MaxNow : RefreshAt(now)
      PROVE  UNCHANGED <<rows, tree>>
  BY <1>4 DEF ViewModel, RefreshFails, Select, ClearSelection, LoadDetails, LoadDetailsFails
<1> QED
  BY <1>1, <1>2, <1>3, <1>4 DEF Next

LEMMA RowsGenealogyStep ==
  ASSUME TypeOK, OsInv, Genealogy, RowsGenealogy, [Next]_vars
  PROVE  RowsGenealogy'
<1>1. ASSUME NEW now \in 0 .. MaxNow, RefreshAt(now) PROVE RowsGenealogy'
  BY <1>1, RefreshRows DEF Genealogy, RowsGenealogy
<1>2. CASE rows' = rows
  BY <1>2 DEF RowsGenealogy
<1>3. CASE UNCHANGED vars \/ World
  BY <1>2, <1>3 DEF vars, vmVars, World, CreateProcess, ExitProcess, RunProcess
<1>4. ASSUME ViewModel, ~ \E now \in 0 .. MaxNow : RefreshAt(now) PROVE rows' = rows
  BY <1>4 DEF ViewModel, RefreshFails, Select, ClearSelection, LoadDetails, LoadDetailsFails
<1> QED
  BY <1>1, <1>2, <1>3, <1>4 DEF Next

LEMMA DetailsStep ==
  ASSUME TypeOK, OsInv, RowsInv, DetailsInv, [Next]_vars
  PROVE  DetailsInv'
<1>0. created \in Nat /\ details.inst \in Nat
  BY DEF TypeOK, OsTypeOK
<1>1. ASSUME NEW now \in 0 .. MaxNow, RefreshAt(now) PROVE DetailsInv'
  <2>1. UNCHANGED <<live, created>>
    BY <1>1 DEF RefreshAt, osVars
  <2>2. details' = NoDetails \/ UNCHANGED <<selectedPid, details>>
    BY <1>1 DEF RefreshAt, DropStaleSelection
  <2> QED
    BY <1>1, <2>1, <2>2, RefreshRows DEF DetailsInv, NoDetails
<1>2. ASSUME NEW pid \in Ids, NEW parentPid \in AllPids, CreateProcess(pid, parentPid)
      PROVE  DetailsInv'
  <2>1. /\ created' = created + 1 /\ UNCHANGED <<rows, selectedPid, details>>
        /\ DOMAIN live' = DOMAIN live \cup {pid}
        /\ live'[pid].inst = created + 1
        /\ \A q \in DOMAIN live : live'[q].inst = live[q].inst
    BY <1>2 DEF CreateProcess, OsCreate, Put, vmVars
  <2> QED
    BY <1>0, <2>1 DEF DetailsInv
<1>3. ASSUME NEW pid \in Ids, ExitProcess(pid) PROVE DetailsInv'
  <2>1. /\ created' = created /\ UNCHANGED <<rows, selectedPid, details>>
        /\ DOMAIN live' \subseteq DOMAIN live
        /\ \A q \in DOMAIN live' : live'[q].inst = live[q].inst
    BY <1>3 DEF ExitProcess, OsExit, Drop, vmVars
  <2> QED
    BY <2>1 DEF DetailsInv
<1>4. ASSUME NEW pid \in Ids, RunProcess(pid) PROVE DetailsInv'
  <2>1. created' = created /\ UNCHANGED <<rows, selectedPid, details>>
    BY <1>4 DEF RunProcess, OsRun, vmVars
  <2>2. DOMAIN live' = DOMAIN live /\ \A q \in DOMAIN live : live'[q].inst = live[q].inst
    BY <1>4, RunStep DEF TypeOK
  <2> QED
    BY <2>1, <2>2 DEF DetailsInv
<1>5. CASE LoadDetails
  <2>1. /\ selectedPid \in DOMAIN live \ {0} /\ details'.inst = live[selectedPid].inst
        /\ UNCHANGED <<live, created, rows, selectedPid>>
    BY <1>5 DEF LoadDetails, osVars
  <2>2. selectedPid # None
    BY <2>1, SamplerAssumption, OsAssumption DEF TypeOK, OsTypeOK
  <2> QED
    BY <2>1, <2>2 DEF DetailsInv, OsInv, RowsInv
<1>6. ASSUME ViewModel, ~LoadDetails, ~ \E now \in 0 .. MaxNow : RefreshAt(now)
      PROVE  DetailsInv'
  <2>1. UNCHANGED <<live, created, rows>>
    BY <1>6 DEF ViewModel, RefreshFails, Select, ClearSelection, LoadDetailsFails, osVars
  <2>2. details' = NoDetails \/ UNCHANGED <<selectedPid, details>>
    BY <1>6 DEF ViewModel, RefreshFails, Select, ClearSelection, LoadDetailsFails
  <2> QED
    BY <2>1, <2>2 DEF DetailsInv, NoDetails
<1>7. CASE UNCHANGED vars
  BY <1>7 DEF vars, osVars, vmVars, DetailsInv
<1> QED
  BY <1>1, <1>2, <1>3, <1>4, <1>5, <1>6, <1>7 DEF Next, World

-----------------------------------------------------------------------------
(* The theorems.                                                           *)

LEMMA Initially ==
  Init => TypeOK /\ OsInv /\ RowsInv /\ TreeInv /\ DetailsInv
            /\ Genealogy /\ RowsGenealogy
<1> SUFFICES ASSUME Init
             PROVE  TypeOK /\ OsInv /\ RowsInv /\ TreeInv /\ DetailsInv
                      /\ Genealogy /\ RowsGenealogy
  OBVIOUS
<1>1. /\ DOMAIN live = {0} /\ live[0] = Idle /\ live = [id \in DOMAIN live |-> live[id]]
      /\ clock = 0 /\ created = 0 /\ DOMAIN rows = {}
      /\ details = NoDetails /\ selectedPid = None /\ lastError = "none"
      /\ tree = EmptyTree /\ sampler = FreshSampler
  BY DEF Init, NoRows
<1>2. Idle \in Object /\ Idle.inst = 0 /\ Idle.parentId = 0 /\ Idle.parentInst = 0
      /\ Idle.createTime = 0
  BY OsAssumption DEF Idle, Object
<1>3. OsTypeOK
  BY <1>1, <1>2, OsAssumption DEF OsTypeOK
<1>4. SamplerTypeOK(sampler, AllPids)
  BY <1>1 DEF SamplerTypeOK, FreshSampler
<1>5. tree.roots = {} /\ DOMAIN tree.children = {}
  BY <1>1 DEF EmptyTree
<1>6. TypeOK
  BY <1>1, <1>3, <1>4, <1>5, NoDetailsType DEF TypeOK
<1>7. OsInv /\ Genealogy
  BY <1>1, <1>2 DEF OsInv, Genealogy, AllPids
<1>8. RowsInv /\ RowsGenealogy /\ DetailsInv
  BY <1>1 DEF RowsInv, RowsGenealogy, DetailsInv, NoDetails
<1>9. TreeInv
  BY <1>1 DEF TreeInv, RebuildTree, EmptyTree
<1> QED
  BY <1>6, <1>7, <1>8, <1>9

\* Every state has its type: rows and details are of listed pids, percentages
\* are percentages and the sampler's baseline is well formed.
THEOREM TypeCorrect == Spec => []TypeOK
<1>1. Init => TypeOK /\ OsInv
  BY Initially
<1>2. TypeOK /\ OsInv /\ [Next]_vars => TypeOK' /\ OsInv'
  BY TypeStep
<1> QED
  BY <1>1, <1>2, PTL DEF Spec

\* Loaded details never belong to a process that another pid than the selected
\* one stands for, whatever exits and whichever pid is reused in between.
THEOREM DetailsMatchSelection == Spec => []DetailsAreOfSelectedPid
<1> DEFINE IInv == TypeOK /\ OsInv /\ RowsInv /\ DetailsInv
<1>1. Init => IInv
  BY Initially
<1>2. IInv /\ [Next]_vars => IInv'
  BY TypeStep, RowsStep, DetailsStep
<1>3. IInv => DetailsAreOfSelectedPid
  BY DEF DetailsInv, DetailsAreOfSelectedPid
<1> QED
  BY <1>1, <1>2, <1>3, PTL DEF Spec

-----------------------------------------------------------------------------
(* What rebuildTree decides right, two processes of one tick apart.        *)

TreeIInv == TypeOK /\ OsInv /\ RowsInv /\ TreeInv /\ Genealogy /\ RowsGenealogy

LEMMA TreeInvariance == Spec => []TreeIInv
<1>1. Init => TreeIInv
  BY Initially DEF TreeIInv
<1>2. TreeIInv /\ [Next]_vars => TreeIInv'
  <2> SUFFICES ASSUME TreeIInv, [Next]_vars PROVE TreeIInv'
    OBVIOUS
  <2>1. Genealogy'
    <3>1. CASE UNCHANGED live
      BY <3>1 DEF TreeIInv, Genealogy
    <3>2. CASE World
      BY <3>2, GenealogyStep DEF TreeIInv, TypeOK
    <3>3. CASE ViewModel
      BY <3>1, <3>3 DEF ViewModel, RefreshAt, RefreshFails, Select, ClearSelection, LoadDetails,
           LoadDetailsFails, osVars
    <3> QED
      BY <3>1, <3>2, <3>3 DEF Next, vars, osVars
  <2> QED
    BY <2>1, TypeStep, RowsStep, TreeStep, RowsGenealogyStep DEF TreeIInv
<1> QED
  BY <1>1, <1>2, PTL DEF Spec

LEMMA TreeShape ==
  ASSUME TreeInv
  PROVE  /\ \A q, p : q \in DOMAIN tree.children /\ p \in tree.children[q]
                        <=> p \in DOMAIN rows /\ ParentIsReal(rows, p) /\ rows[p].parentPid = q
         /\ tree.roots = {p \in DOMAIN rows : ~ParentIsReal(rows, p)}
BY DEF TreeInv, RebuildTree

LEMMA HasLeast ==
  ASSUME NEW T, T \subseteq Nat, T # {} PROVE \E m \in T : \A i \in T : m <= i
<1> DEFINE R == OpToRel(<, Nat)
<1>1. \A i, m \in Nat : i < m => <<i, m>> \in R
  BY Zenon DEF OpToRel
<1>2. IsWellFoundedOn(R, Nat)
  BY NatLessThanWellFounded
<1> HIDE DEF R
<1>3. PICK m \in T : \A i \in T : <<i, m>> \notin R
  BY <1>2, WFMin
<1>4. ASSUME NEW i \in T PROVE m <= i
  <2>1. i \in Nat /\ m \in Nat
    OBVIOUS
  <2>2. ~(i < m)
    BY <1>1, <1>3, <2>1
  <2> QED
    BY <2>1, <2>2
<1> QED
  BY <1>4

\* The parent of an adopted row created it, unless both are of one tick.
LEMMA AdoptedByCreator ==
  ASSUME TreeIInv, NEW p \in DOMAIN rows, ParentIsReal(rows, p)
  PROVE  /\ rows[p].parentPid \in DOMAIN rows /\ rows[p].parentPid # p
         /\ rows[rows[p].parentPid].createTime # rows[p].createTime =>
              /\ rows[rows[p].parentPid].inst = rows[p].parentInst
              /\ rows[rows[p].parentPid].inst < rows[p].inst
<1>1. /\ rows[p].parentPid \in DOMAIN rows
      /\ rows[p].parentPid # 0 /\ rows[p].parentPid # p
  BY DEF ParentIsReal
<1>2. p # 0
  BY <1>1 DEF TreeIInv, RowsInv
<1>3. rows[rows[p].parentPid].createTime <= rows[p].createTime
  BY DEF ParentIsReal
<1> QED
  BY <1>1, <1>2, <1>3 DEF TreeIInv, RowsInv, RowsGenealogy

\* Every edge of the tree joins a process to the one that created it, although
\* rebuildTree sees reusable pids, or to one that was created in the same tick.
THEOREM TreeEdgesAreReal == Spec => []EdgesAreReal
<1>1. TreeIInv => EdgesAreReal
  <2> SUFFICES ASSUME TreeIInv, NEW q \in DOMAIN tree.children, NEW p \in tree.children[q]
               PROVE  /\ q \in DOMAIN rows
                      /\ \/ rows[q].inst = rows[p].parentInst
                         \/ rows[q].createTime = rows[p].createTime
    BY DEF EdgesAreReal
  <2>1. p \in DOMAIN rows /\ ParentIsReal(rows, p) /\ rows[p].parentPid = q
    BY TreeShape DEF TreeIInv
  <2> QED
    BY <2>1, AdoptedByCreator
<1> QED
  BY <1>1, TreeInvariance, PTL

\* And the other way round: a creator that is still listed has the rows it
\* created below it.
THEOREM CreatorsKeepTheirChildren == Spec => []LiveParentsAreShown
<1>1. TreeIInv => LiveParentsAreShown
  <2> SUFFICES ASSUME TreeIInv, NEW p \in DOMAIN rows, NEW q \in DOMAIN rows \ {0},
                      rows[q].inst = rows[p].parentInst
               PROVE  q \in DOMAIN tree.children /\ p \in tree.children[q]
    BY DEF LiveParentsAreShown
  <2>1. p # 0
    BY DEF TreeIInv, RowsInv
  <2>2. rows[p].parentPid = q /\ rows[q].createTime <= rows[p].createTime
    BY <2>1 DEF TreeIInv, RowsGenealogy
  <2>3. q # p
    <3>1. rows[p].parentInst < rows[p].inst
      BY <2>1 DEF TreeIInv, RowsInv
    <3>2. rows[p].inst \in Nat /\ rows[p].parentInst \in Nat
      BY DEF TreeIInv, TypeOK, Row
    <3> QED
      BY <3>1, <3>2
  <2>4. ParentIsReal(rows, p)
    BY <2>2, <2>3 DEF ParentIsReal
  <2> QED
    BY <2>2, <2>4, TreeShape DEF TreeIInv
<1> QED
  BY <1>1, TreeInvariance, PTL

\* The tree is a forest over all rows: each row is a root or below one other
\* row, and no group of rows of different ticks hangs on itself: its oldest
\* member does not.
THEOREM TreeIsAForest == Spec => []TreeShowsEveryRow
<1>1. TreeIInv => TreeShowsEveryRow
  <2> SUFFICES ASSUME TreeIInv PROVE TreeShowsEveryRow
    OBVIOUS
  <2>1. /\ \A q, p : q \in DOMAIN tree.children /\ p \in tree.children[q]
                       <=> p \in DOMAIN rows /\ ParentIsReal(rows, p) /\ rows[p].parentPid = q
        /\ tree.roots = {p \in DOMAIN rows : ~ParentIsReal(rows, p)}
    BY TreeShape DEF TreeIInv
  <2>2. \A p \in DOMAIN rows :
          (p \in tree.roots) # (\E q \in DOMAIN tree.children : p \in tree.children[q])
    BY <2>1
  <2>3. \A p, q \in DOMAIN tree.children :
          p # q => tree.children[p] \cap tree.children[q] = {}
    BY <2>1
  <2>4. ASSUME NEW group \in (SUBSET DOMAIN rows) \ {{}}
        PROVE  SameTick(group) \/ \E p \in group : \A q \in group :
                 q \in DOMAIN tree.children => p \notin tree.children[q]
    <3> SUFFICES ASSUME ~SameTick(group)
                 PROVE  \E p \in group : \A q \in group :
                          q \in DOMAIN tree.children => p \notin tree.children[q]
      OBVIOUS
    <3> DEFINE insts == {rows[p].inst : p \in group}
    <3>1. insts \subseteq Nat /\ insts # {}
      <4>1. \A p \in DOMAIN rows : rows[p] \in Row
        BY DEF TreeIInv, TypeOK
      <4>2. \A p \in DOMAIN rows : rows[p].inst \in Nat
        BY <4>1 DEF Row
      <4> QED
        BY <4>2
    <3>2. PICK m \in insts : \A i \in insts : m <= i
      <4> HIDE DEF insts
      <4> QED
        BY <3>1, HasLeast
    <3>4. PICK p \in group : rows[p].inst = m
      OBVIOUS
    <3>5. ASSUME NEW q \in group, q \in DOMAIN tree.children, p \in tree.children[q]
          PROVE  FALSE
      <4>1. p \in DOMAIN rows /\ ParentIsReal(rows, p) /\ rows[p].parentPid = q
        BY <2>1, <3>5
      <4>2. q # p
        BY <4>1, AdoptedByCreator
      <4>3. rows[q].createTime # rows[p].createTime
        BY <3>4, <3>5, <4>2 DEF SameTick
      <4>4. rows[q].inst < m
        BY <3>4, <4>1, <4>3, AdoptedByCreator
      <4>5. rows[q].inst \in insts /\ rows[q].inst \in Nat /\ m \in Nat
        BY <3>1
      <4> QED
        BY <3>2, <4>4, <4>5
    <3> QED
      BY <3>5
  <2> QED
    BY <2>2, <2>3, <2>4 DEF TreeShowsEveryRow
<1> QED
  BY <1>1, TreeInvariance, PTL

-----------------------------------------------------------------------------
(* Measurements.                                                           *)

\* The baseline of the sampler is what the rows were made of, and a process
\* that is still the one of its row has used no less since.
BaselineInv ==
  /\ sampler.previousTime = observed.at
  /\ DOMAIN sampler.previous = DOMAIN rows
  /\ DOMAIN observed.cpu = {rows[p].inst : p \in DOMAIN rows}
  /\ \A p \in DOMAIN rows : /\ sampler.previous[p].createTime = rows[p].createTime
                            /\ observed.cpu[rows[p].inst] = sampler.previous[p].cpu
  /\ \A p \in DOMAIN rows \cap DOMAIN live :
       rows[p].inst = live[p].inst =>
         rows[p].createTime = live[p].createTime /\ sampler.previous[p].cpu <= live[p].cpu

LEMMA RefreshBaseline ==
  ASSUME TypeOK, OsInv, NEW now \in 0 .. MaxNow, RefreshAt(now)
  PROVE  /\ BaselineInv' /\ observed'.at = now /\ UNCHANGED live
         /\ \A p \in DOMAIN live : observed'.cpu[live[p].inst] = live[p].cpu
<1>1. /\ UNCHANGED osVars /\ sampler' = EndRound(live, now)
      /\ observed' = [cpu |-> [i \in {live[p].inst : p \in DOMAIN live} |->
                                 (CHOOSE x \in {live[p] : p \in DOMAIN live} : x.inst = i).cpu],
                      at  |-> now]
  BY DEF RefreshAt
<1>2. live' = live
  BY <1>1 DEF osVars
<1>3. /\ DOMAIN rows' = DOMAIN live
      /\ \A p \in DOMAIN live : /\ rows'[p].inst = live[p].inst
                                /\ rows'[p].createTime = live[p].createTime
  BY RefreshRows
<1>4. /\ sampler'.previousTime = now /\ DOMAIN sampler'.previous = DOMAIN live
      /\ \A p \in DOMAIN live : /\ sampler'.previous[p].cpu = live[p].cpu
                                /\ sampler'.previous[p].createTime = live[p].createTime
  BY <1>1 DEF EndRound
<1>5. ASSUME NEW p \in DOMAIN live PROVE observed'.cpu[live[p].inst] = live[p].cpu
  <2>1. \A x \in {live[q] : q \in DOMAIN live} : x.inst = live[p].inst => x = live[p]
    BY DEF OsInv
  <2>2. (CHOOSE x \in {live[q] : q \in DOMAIN live} : x.inst = live[p].inst) = live[p]
    BY <2>1
  <2>3. live[p].inst \in {live[q].inst : q \in DOMAIN live}
    OBVIOUS
  <2> QED
    BY <1>1, <2>2, <2>3
<1>6. /\ DOMAIN observed'.cpu = {live[p].inst : p \in DOMAIN live} /\ observed'.at = now
  BY <1>1
<1>7. \A p \in DOMAIN live : live[p].cpu \in Nat
  BY OsAssumption DEF TypeOK, OsTypeOK, Object
<1>8. {live[p].inst : p \in DOMAIN live} = {rows'[p].inst : p \in DOMAIN rows'}
  BY <1>3
<1>9. \A p \in DOMAIN rows' : /\ sampler'.previous[p].createTime = rows'[p].createTime
                              /\ observed'.cpu[rows'[p].inst] = sampler'.previous[p].cpu
  BY <1>3, <1>4, <1>5
<1>10. \A p \in DOMAIN rows' \cap DOMAIN live' :
         rows'[p].inst = live'[p].inst =>
           rows'[p].createTime = live'[p].createTime /\ sampler'.previous[p].cpu <= live'[p].cpu
  <2>1. \A p \in DOMAIN live : live[p].cpu <= live[p].cpu
    BY <1>7
  <2> QED
    BY <1>2, <1>3, <1>4, <2>1
<1> QED
  BY <1>2, <1>3, <1>4, <1>5, <1>6, <1>8, <1>9, <1>10 DEF BaselineInv

LEMMA BaselineStep ==
  ASSUME TypeOK, OsInv, RowsInv, BaselineInv, [Next]_vars
  PROVE  BaselineInv'
<1>0. /\ created \in Nat
      /\ \A p \in DOMAIN live : live[p].inst \in Nat /\ live[p].cpu \in Nat
      /\ \A p \in DOMAIN rows : rows[p].inst \in Nat /\ rows[p].inst <= created
      /\ \A p \in DOMAIN sampler.previous : sampler.previous[p].cpu \in Nat
  BY OsAssumption DEF TypeOK, OsTypeOK, Object, Row, RowsInv, SamplerTypeOK
<1>1. ASSUME UNCHANGED <<sampler, rows, observed>>,
             \A p \in DOMAIN live' :
               \/ p \in DOMAIN live /\ live'[p].inst = live[p].inst
                    /\ live'[p].createTime = live[p].createTime /\ live[p].cpu <= live'[p].cpu
                    /\ live'[p].cpu \in Nat
               \/ live'[p].inst = created + 1
      PROVE  BaselineInv'
  <2>1. ASSUME NEW p \in DOMAIN rows \cap DOMAIN live', rows[p].inst = live'[p].inst
        PROVE  rows[p].createTime = live'[p].createTime /\ sampler.previous[p].cpu <= live'[p].cpu
    <3>1. live'[p].inst # created + 1
      BY <1>0, <2>1
    <3>2. /\ p \in DOMAIN live /\ live'[p].inst = live[p].inst
          /\ live'[p].createTime = live[p].createTime /\ live[p].cpu <= live'[p].cpu
          /\ live'[p].cpu \in Nat
      BY <1>1, <3>1
    <3>3. rows[p].createTime = live[p].createTime /\ sampler.previous[p].cpu <= live[p].cpu
      BY <2>1, <3>2 DEF BaselineInv
    <3>4. live[p].cpu \in Nat /\ sampler.previous[p].cpu \in Nat
      BY <1>0, <3>2 DEF BaselineInv
    <3> QED
      BY <3>2, <3>3, <3>4
  <2> QED
    BY <1>1, <2>1 DEF BaselineInv
<1>2. ASSUME NEW pid \in Ids, NEW parentPid \in AllPids, CreateProcess(pid, parentPid)
      PROVE  BaselineInv'
  <2>1. /\ UNCHANGED <<sampler, rows, observed>>
        /\ DOMAIN live' = DOMAIN live \cup {pid} /\ live'[pid].inst = created + 1
        /\ \A q \in DOMAIN live : live'[q] = live[q]
    BY <1>2 DEF CreateProcess, OsCreate, Put, vmVars
  <2>2. \A p \in DOMAIN live : live[p].cpu <= live'[p].cpu /\ live'[p].cpu \in Nat
    BY <1>0, <2>1
  <2> QED
    BY <1>1, <2>1, <2>2
<1>3. ASSUME NEW pid \in Ids, ExitProcess(pid) PROVE BaselineInv'
  <2>1. /\ UNCHANGED <<sampler, rows, observed>> /\ DOMAIN live' \subseteq DOMAIN live
        /\ \A q \in DOMAIN live' : live'[q] = live[q]
    BY <1>3 DEF ExitProcess, OsExit, Drop, vmVars
  <2>2. \A p \in DOMAIN live' : live[p].cpu <= live'[p].cpu /\ live'[p].cpu \in Nat
    BY <1>0, <2>1
  <2> QED
    BY <1>1, <2>1, <2>2
<1>4. ASSUME NEW pid \in Ids, RunProcess(pid) PROVE BaselineInv'
  <2>1. /\ UNCHANGED <<sampler, rows, observed>>
    BY <1>4 DEF RunProcess, vmVars
  <2>2. /\ OsTypeOK' /\ DOMAIN live' = DOMAIN live
        /\ \A q \in DOMAIN live : /\ live'[q].inst = live[q].inst
                                  /\ live'[q].createTime = live[q].createTime
                                  /\ live[q].cpu <= live'[q].cpu
    BY <1>4, RunStep DEF TypeOK
  <2>3. \A q \in DOMAIN live' : live'[q].cpu \in Nat
    BY <2>2, OsAssumption DEF OsTypeOK, Object
  <2> QED
    BY <1>1, <2>1, <2>2, <2>3
<1>5. ASSUME NEW now \in 0 .. MaxNow, RefreshAt(now) PROVE BaselineInv'
  BY <1>5, RefreshBaseline
<1>6. CASE UNCHANGED <<live, sampler, rows, observed>>
  BY <1>6 DEF BaselineInv
<1>7. ASSUME ViewModel, ~ \E now \in 0 .. MaxNow : RefreshAt(now)
      PROVE  UNCHANGED <<live, sampler, rows, observed>>
  BY <1>7 DEF ViewModel, RefreshFails, Select, ClearSelection, LoadDetails, LoadDetailsFails, osVars
<1>8. CASE UNCHANGED vars
  BY <1>6, <1>8 DEF vars, vmVars, osVars
<1> QED
  BY <1>2, <1>3, <1>4, <1>5, <1>6, <1>7, <1>8 DEF Next, World

LEMMA TruthfulRefresh ==
  ASSUME TypeOK, OsInv, RowsInv, BaselineInv, NEW now \in 0 .. MaxNow, RefreshAt(now),
         NEW pid \in DOMAIN rows', NEW row, row = rows'[pid], ~ReusedInTick(pid),
         NEW elapsed, elapsed = IF observed.at = None \/ observed'.at = None THEN 0
                                ELSE (observed'.at - observed.at) \div Quantum
  PROVE  IF row.inst \in DOMAIN observed.cpu /\ elapsed > 0
         THEN LET used  == observed'.cpu[row.inst] - observed.cpu[row.inst]
                  share == (100 * used) \div (elapsed * processorCount)
              IN row.measured /\ row.percent = (IF share > 100 THEN 100 ELSE share)
         ELSE ~row.measured /\ row.percent = 0
<1> DEFINE p == live[pid]
           e == Elapsed(sampler, now)
           usage == Usage(sampler, e, pid, p.cpu, p.createTime)
<1>1. /\ pid \in DOMAIN live
      /\ row = [parentPid |-> p.parentId, createTime |-> p.createTime,
                measured |-> usage.measured, percent |-> usage.percent,
                inst |-> p.inst, parentInst |-> p.parentInst]
  BY DEF RefreshAt, RowOf
<1>2. e = IF elapsed > 0 THEN elapsed ELSE 0
  <2>1. now \in Nat /\ observed'.at = now /\ now # None
    BY MaxNowAssumption, SamplerAssumption DEF RefreshAt
  <2>2. elapsed = IF sampler.previousTime = None THEN 0
                  ELSE (now - sampler.previousTime) \div Quantum
    BY <2>1 DEF BaselineInv
  <2>3. sampler.previousTime \in Nat \cup {None}
    BY DEF TypeOK, SamplerTypeOK
  <2> QED
    BY <2>1, <2>2, <2>3, ElapsedIsDifference
<1> DEFINE matches == /\ pid \in DOMAIN sampler.previous
                      /\ sampler.previous[pid].createTime = p.createTime
<1>3. /\ matches <=> p.inst \in DOMAIN observed.cpu
      /\ matches => /\ observed.cpu[p.inst] = sampler.previous[pid].cpu
                    /\ sampler.previous[pid].cpu <= p.cpu
  <2>1. p.inst \in DOMAIN observed.cpu <=> pid \in DOMAIN rows /\ rows[pid].inst = p.inst
    <3>1. \A q \in DOMAIN rows : rows[q].inst = p.inst => q = pid
      BY <1>1 DEF RowsInv
    <3> QED
      BY <3>1 DEF BaselineInv
  <2>2. pid \in DOMAIN rows /\ rows[pid].inst = p.inst => matches
    BY <1>1 DEF BaselineInv
  <2>3. matches => pid \in DOMAIN rows /\ rows[pid].inst = p.inst
    <3> SUFFICES ASSUME matches PROVE pid \in DOMAIN rows /\ rows[pid].inst = p.inst
      OBVIOUS
    <3>1. pid \in DOMAIN rows /\ rows[pid].createTime = p.createTime
      BY DEF BaselineInv
    <3>2. rows'[pid].inst = p.inst /\ rows'[pid].createTime = p.createTime
      BY <1>1
    <3> QED
      BY <3>1, <3>2 DEF ReusedInTick
  <2>4. pid \in DOMAIN rows /\ rows[pid].inst = p.inst =>
          /\ observed.cpu[p.inst] = sampler.previous[pid].cpu
          /\ sampler.previous[pid].cpu <= p.cpu
    BY <1>1 DEF BaselineInv
  <2> HIDE DEF matches
  <2> QED
    BY <2>1, <2>2, <2>3, <2>4
<1>4. observed'.cpu[p.inst] = p.cpu
  BY <1>1, RefreshBaseline
<1> DEFINE used == p.cpu - sampler.previous[pid].cpu
<1>5. usage = IF elapsed > 0 /\ p.inst \in DOMAIN observed.cpu
              THEN [measured |-> TRUE, percent |-> Percent(used, elapsed)]
              ELSE Unmeasured
  <2>1. CASE elapsed > 0 /\ matches
    <3>1. e = elapsed /\ e # 0
      BY <1>2, <2>1
    <3> HIDE DEF e
    <3> QED
      BY <1>3, <2>1, <3>1 DEF Usage
  <2>2. CASE ~(elapsed > 0)
    <3>1. e = 0
      BY <1>2, <2>2
    <3> HIDE DEF e
    <3> QED
      BY <2>2, <3>1 DEF Usage
  <2>3. CASE ~matches
    BY <1>3, <2>3 DEF Usage
  <2> QED
    BY <1>3, <2>1, <2>2, <2>3
<1> HIDE DEF usage
<1>6. CASE row.inst \in DOMAIN observed.cpu /\ elapsed > 0
  <2>1. row.inst = p.inst /\ row.measured = usage.measured /\ row.percent = usage.percent
    BY <1>1
  <2>2. usage = [measured |-> TRUE, percent |-> Percent(used, elapsed)]
    BY <1>5, <1>6, <2>1
  <2>3. observed'.cpu[row.inst] - observed.cpu[row.inst] = used
    BY <1>3, <1>4, <1>6, <2>1
  <2> DEFINE share == (100 * used) \div (elapsed * processorCount)
  <2>4. Percent(used, elapsed) = IF share > 100 THEN 100 ELSE share
    BY DEF Percent, PercentUnclamped
  <2>5. row.measured /\ row.percent = (IF share > 100 THEN 100 ELSE share)
    BY <2>1, <2>2, <2>4
  <2> QED
    BY <1>6, <2>3, <2>5
<1>7. CASE ~(row.inst \in DOMAIN observed.cpu /\ elapsed > 0)
  <2>1. usage = Unmeasured
    BY <1>1, <1>5, <1>7
  <2>2. ~row.measured /\ row.percent = 0
    BY <1>1, <2>1 DEF Unmeasured
  <2> QED
    BY <1>7, <2>2
<1> QED
  BY <1>6, <1>7

\* CpuSampler.hpp: a percentage is the CPU use of that very process since the
\* last good snapshot, for every clock and every reuse of pids but one within
\* a tick of the clock.
THEOREM UsageIsAlwaysTruthful == Spec => UsageIsTruthful
<1>1. Init => TypeOK /\ OsInv /\ RowsInv /\ BaselineInv
  <2>1. Init => BaselineInv
    BY DEF Init, BaselineInv, FreshSampler, NoRows
  <2> QED
    BY <2>1, Initially
<1>2. Spec => [](TypeOK /\ OsInv /\ RowsInv /\ BaselineInv)
  <2>1. TypeOK /\ OsInv /\ RowsInv /\ BaselineInv /\ [Next]_vars =>
          (TypeOK /\ OsInv /\ RowsInv /\ BaselineInv)'
    BY TypeStep, RowsStep, BaselineStep
  <2> QED
    BY <1>1, <2>1, PTL DEF Spec
<1> DEFINE Truth ==
      \A pid \in DOMAIN rows' :
       LET row     == rows'[pid]
           seen    == row.inst \in DOMAIN observed.cpu
           elapsed == IF observed.at = None \/ observed'.at = None THEN 0
                      ELSE (observed'.at - observed.at) \div Quantum
           used    == observed'.cpu[row.inst] - observed.cpu[row.inst]
           share   == (100 * used) \div (elapsed * processorCount)
       IN \/ ReusedInTick(pid)
          \/ /\ seen /\ elapsed > 0
             /\ row.measured
             /\ row.percent = (IF share > 100 THEN 100 ELSE share)
          \/ /\ ~seen \/ elapsed <= 0
             /\ ~row.measured /\ row.percent = 0
<1>3. ASSUME TypeOK, OsInv, RowsInv, BaselineInv, [Next]_vars PROVE [Truth]_<<rows, observed>>
  <2>1. ASSUME NEW now \in 0 .. MaxNow, RefreshAt(now) PROVE Truth
    <3> SUFFICES ASSUME NEW pid \in DOMAIN rows', ~ReusedInTick(pid)
                 PROVE  LET row     == rows'[pid]
                            seen    == row.inst \in DOMAIN observed.cpu
                            elapsed == IF observed.at = None \/ observed'.at = None THEN 0
                                       ELSE (observed'.at - observed.at) \div Quantum
                            used    == observed'.cpu[row.inst] - observed.cpu[row.inst]
                            share   == (100 * used) \div (elapsed * processorCount)
                        IN \/ /\ seen /\ elapsed > 0
                              /\ row.measured
                              /\ row.percent = (IF share > 100 THEN 100 ELSE share)
                           \/ /\ ~seen \/ elapsed <= 0
                              /\ ~row.measured /\ row.percent = 0
      OBVIOUS
    <3> DEFINE row     == rows'[pid]
               elapsed == IF observed.at = None \/ observed'.at = None THEN 0
                          ELSE (observed'.at - observed.at) \div Quantum
               used    == observed'.cpu[row.inst] - observed.cpu[row.inst]
               share   == (100 * used) \div (elapsed * processorCount)
    <3>1. IF row.inst \in DOMAIN observed.cpu /\ elapsed > 0
          THEN row.measured /\ row.percent = (IF share > 100 THEN 100 ELSE share)
          ELSE ~row.measured /\ row.percent = 0
      BY <1>3, <2>1, TruthfulRefresh
    <3>2. ~(elapsed > 0) => elapsed <= 0
      <4>1. elapsed \in Int
        <5>1. observed'.at \in Int
          BY <2>1, MaxNowAssumption DEF RefreshAt
        <5>2. observed.at \in Int \cup {None}
          BY <1>3 DEF TypeOK, SamplerTypeOK, BaselineInv
        <5>3. Quantum \in Nat /\ Quantum > 0
          BY SamplerAssumption
        <5> QED
          BY <5>1, <5>2, <5>3
      <4> HIDE DEF elapsed
      <4> QED
        BY <4>1
    <3> HIDE DEF elapsed, row
    <3> QED
      BY <3>1, <3>2 DEF elapsed, row
  <2>2. ASSUME ~(\E now \in 0 .. MaxNow : RefreshAt(now)) PROVE UNCHANGED <<rows, observed>>
    BY <1>3, <2>2 DEF Next, World, ViewModel, CreateProcess, ExitProcess, RunProcess, RefreshFails,
       Select, ClearSelection, LoadDetails, LoadDetailsFails, vars, vmVars
  <2> HIDE DEF Truth
  <2> QED
    BY <2>1, <2>2
<1>4. Spec => [][Truth]_<<rows, observed>>
  <2> HIDE DEF Truth
  <2> QED
    BY <1>2, <1>3, PTL DEF Spec
<1> QED
  BY <1>4 DEF UsageIsTruthful

=============================================================================
