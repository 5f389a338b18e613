--------------------------- MODULE ProcessExplorer ---------------------------
(***************************************************************************)
(* ui/viewmodels/ProcessExplorerVM over the processes of OsObjects: a      *)
(* cached list and tree, and a selection with details that are loaded on   *)
(* demand.  The handlers run to completion on the UI thread; processes     *)
(* come and go between any two of them.  The callback that a handler ends  *)
(* with only reads what the handler left, and is left out.                 *)
(*                                                                         *)
(* rows_ is a function of the pid (a snapshot lists a pid once) and the    *)
(* sorted vectors of the tree are sets.  Names, sizes and formatted texts  *)
(* carry no control and are left out.  A row and the details carry the     *)
(* instance they were read from; the code has no such field and no action  *)
(* reads it.                                                               *)
(***************************************************************************)
EXTENDS OsObjects, CpuSampler

CONSTANT MaxNow  \* bound: sampling instants are 0 .. MaxNow

ASSUME MaxNowAssumption == MaxNow \in Nat

VARIABLES
  sampler,      \* cpuSampler_
  rows,         \* rows_
  tree,         \* tree_
  selectedPid,  \* selectedPid_
  details,      \* details_
  lastError,    \* IViewModel::lastError_, by the call that failed
  observed      \* history: what the last successful snapshot saw, by instance

vmVars == <<sampler, rows, tree, selectedPid, details, lastError, observed>>
vars   == <<osVars, vmVars>>

AllPids == Ids \cup {0}

Row       == [parentPid : AllPids, createTime : Nat, measured : BOOLEAN,
              percent : 0 .. 100, inst : Nat, parentInst : Nat]
NoRows    == [pid \in {} |-> 0]
EmptyTree == [roots |-> {}, children |-> [pid \in {} |-> {}]]
NoDetails == [loaded |-> FALSE, inst |-> 0]

TypeOK ==
  /\ OsTypeOK
  /\ SamplerTypeOK(sampler, AllPids)
  /\ DOMAIN rows \subseteq AllPids
  /\ \A pid \in DOMAIN rows : rows[pid] \in Row
  /\ tree.roots \subseteq AllPids
  /\ \A pid \in DOMAIN tree.children : tree.children[pid] \subseteq AllPids
  /\ selectedPid \in AllPids \cup {None}
  /\ details \in [loaded : BOOLEAN, inst : Nat]
  /\ lastError \in {"none", "snapshot", "queryDetails"}

Init ==
  /\ live = [pid \in {0} |-> Idle]
  /\ clock = 0
  /\ created = 0
  /\ sampler = FreshSampler
  /\ rows = NoRows
  /\ tree = EmptyTree
  /\ selectedPid = None
  /\ details = NoDetails
  /\ lastError = "none"
  /\ observed = [cpu |-> [i \in {} |-> 0], at |-> None]

-----------------------------------------------------------------------------
(* The world.                                                              *)

\* A process is created by a running one, or by the system without a parent.
CreateProcess(pid, parentPid) ==
  /\ parentPid \in DOMAIN live
  /\ OsCreate(pid, parentPid, live[parentPid].inst)
  /\ UNCHANGED vmVars

ExitProcess(pid) == OsExit(pid) /\ UNCHANGED vmVars
RunProcess(pid)  == OsRun(pid) /\ UNCHANGED vmVars

-----------------------------------------------------------------------------
(* refreshAt                                                               *)

\* The recorded parent is listed but may be a later holder of its pid.
ParentIsListed(r, pid) ==
  /\ r[pid].parentPid # 0
  /\ r[pid].parentPid # pid
  /\ r[pid].parentPid \in DOMAIN r

\* The comparison of creation times the wrong way round.
ParentIsYounger(r, pid) ==
  /\ r[pid].parentPid # 0
  /\ r[pid].parentPid # pid
  /\ r[pid].parentPid \in DOMAIN r
  /\ r[r[pid].parentPid].createTime >= r[pid].createTime

\* parentIsReal of rebuildTree.
ParentIsReal(r, pid) ==
  /\ r[pid].parentPid # 0
  /\ r[pid].parentPid # pid
  /\ r[pid].parentPid \in DOMAIN r
  /\ r[r[pid].parentPid].createTime <= r[pid].createTime

RebuildTree(r) ==
  LET adopted == {pid \in DOMAIN r : ParentIsReal(r, pid)} IN
  [roots    |-> DOMAIN r \ adopted,
   children |-> [parent \in {r[pid].parentPid : pid \in adopted} |->
                   {pid \in adopted : r[pid].parentPid = parent}]]

RowOf(snapshot, pid, elapsed) ==
  LET p     == snapshot[pid]
      usage == Usage(sampler, elapsed, pid, p.cpu, p.createTime)
  IN [parentPid |-> p.parentId, createTime |-> p.createTime,
      measured |-> usage.measured, percent |-> usage.percent,
      inst |-> p.inst, parentInst |-> p.parentInst]

\* A listed selection is kept, one that vanished is dropped with its details.
DropStaleSelection(r) ==
  IF selectedPid # None /\ selectedPid \notin DOMAIN r
  THEN /\ selectedPid' = None
       /\ details' = NoDetails
  ELSE UNCHANGED <<selectedPid, details>>

RefreshAt(now) ==
  /\ lastError' = "none"
  /\ rows' = LET elapsed == Elapsed(sampler, now)
             IN [pid \in DOMAIN live |-> RowOf(live, pid, elapsed)]
  /\ sampler' = EndRound(live, now)
  /\ tree' = RebuildTree(rows')
  /\ DropStaleSelection(rows')
  /\ observed' = [cpu |-> [i \in {live[pid].inst : pid \in DOMAIN live} |->
                             (CHOOSE p \in {live[pid] : pid \in DOMAIN live} : p.inst = i).cpu],
                  at  |-> now]
  /\ UNCHANGED osVars

\* The snapshot failed: the list shown stays the last good one.
RefreshFails ==
  /\ lastError' = "snapshot"
  /\ UNCHANGED <<sampler, rows, tree, selectedPid, details, observed, osVars>>

-----------------------------------------------------------------------------
(* Selection and details.                                                  *)

\* select() that keeps the details of the previous selection.
SelectKeepingDetails(pid) ==
  /\ selectedPid # pid
  /\ selectedPid' = pid
  /\ UNCHANGED <<sampler, rows, tree, details, lastError, observed, osVars>>

\* select() of another pid; selecting the selected pid returns early.
Select(pid) ==
  /\ selectedPid # pid
  /\ selectedPid' = pid
  /\ details' = NoDetails
  /\ UNCHANGED <<sampler, rows, tree, lastError, observed, osVars>>

ClearSelection ==
  /\ selectedPid' = None
  /\ details' = NoDetails
  /\ UNCHANGED <<sampler, rows, tree, lastError, observed, osVars>>

\* loadDetails(): queryDetails opens whichever process holds the pid now.
LoadDetails ==
  /\ selectedPid \in DOMAIN live \ {0}
  /\ lastError' = "none"
  /\ details' = [loaded |-> TRUE, inst |-> live[selectedPid].inst]
  /\ UNCHANGED <<sampler, rows, tree, selectedPid, observed, osVars>>

\* The pid is gone, or access is denied.
LoadDetailsFails ==
  /\ selectedPid # None
  /\ details' = NoDetails
  /\ lastError' = "queryDetails"
  /\ UNCHANGED <<sampler, rows, tree, selectedPid, observed, osVars>>

-----------------------------------------------------------------------------

World == \E pid \in Ids :
           \/ \E parentPid \in AllPids : CreateProcess(pid, parentPid)
           \/ ExitProcess(pid)
           \/ RunProcess(pid)

ViewModel ==
  \/ \E now \in 0 .. MaxNow : RefreshAt(now)
  \/ RefreshFails
  \/ \E pid \in Ids : Select(pid)
  \/ ClearSelection
  \/ LoadDetails
  \/ LoadDetailsFails

Next == World \/ ViewModel

Spec == Init /\ [][Next]_vars

-----------------------------------------------------------------------------
(* Properties.                                                             *)

\* A pid listed before is listed again for a process that was created in the
\* same clock tick as the one before: update() sees no difference.
ReusedInTick(pid) ==
  /\ pid \in DOMAIN rows
  /\ rows'[pid].inst # rows[pid].inst
  /\ rows'[pid].createTime = rows[pid].createTime

\* Whenever a refresh replaces the rows, a row is measured exactly when its
\* own process - the instance, whatever its pid - was in the previous good
\* snapshot and the clock advanced, and its percentage is the CPU time that
\* process used since then over the capacity of the interval.  A reused pid,
\* a failed refresh in between or a clock that went back never leaks into it,
\* unless the pid was reused in one clock tick.
UsageIsTruthful ==
  [][\A pid \in DOMAIN rows' :
       LET row     == rows'[pid]
           seen    == row.inst \in DOMAIN observed.cpu
           elapsed == IF observed.at = None \/ observed'.at = None THEN 0
                      ELSE (observed'.at - observed.at) \div Quantum
           used    == observed'.cpu[row.inst] - observed.cpu[row.inst]
           share   == (100 * used) \div (elapsed * processorCount)
       IN \/ ReusedInTick(pid)
          \/ /\ seen /\ elapsed > 0
             /\ row.measured
             /\ row.percent = (IF share > 100 THEN 100 ELSE share)
          \/ /\ ~seen \/ elapsed <= 0
             /\ ~row.measured /\ row.percent = 0]_<<rows, observed>>

\* Every edge of the tree joins a process to the process that created it, or
\* to a later holder of the pid that was created in the same clock tick:
\* rebuildTree has only pids and creation times to decide that.
EdgesAreReal ==
  \A parent \in DOMAIN tree.children : \A pid \in tree.children[parent] :
    /\ parent \in DOMAIN rows
    /\ \/ rows[parent].inst = rows[pid].parentInst
       \/ rows[parent].createTime = rows[pid].createTime

\* A creator that is still listed is never lost: its children hang below it,
\* in one clock tick too.
LiveParentsAreShown ==
  \A pid \in DOMAIN rows, parent \in DOMAIN rows \ {0} :
    rows[parent].inst = rows[pid].parentInst =>
      parent \in DOMAIN tree.children /\ pid \in tree.children[parent]

SameTick(group) ==
  \E p, q \in group : p # q /\ rows[p].createTime = rows[q].createTime

\* The tree shows every row once and below a root: it partitions the rows, and
\* no group of rows is cut off by pointing at each other only, unless two of
\* them were created in one clock tick.
TreeShowsEveryRow ==
  /\ \A pid \in DOMAIN rows :
       (pid \in tree.roots) # (\E q \in DOMAIN tree.children : pid \in tree.children[q])
  /\ \A p, q \in DOMAIN tree.children :
       p # q => tree.children[p] \cap tree.children[q] = {}
  /\ \A group \in (SUBSET DOMAIN rows) \ {{}} :
       SameTick(group) \/ \E pid \in group : \A q \in group :
         q \in DOMAIN tree.children => pid \notin tree.children[q]

\* Loaded details never belong to a pid other than the selected one, however
\* selecting, refreshing and loading interleave with processes that exit.
DetailsAreOfSelectedPid ==
  details.loaded =>
    /\ selectedPid # None
    /\ \A pid \in DOMAIN live \ {selectedPid} : live[pid].inst # details.inst
    /\ \A pid \in DOMAIN rows \ {selectedPid} : rows[pid].inst # details.inst

=============================================================================
