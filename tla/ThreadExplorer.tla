--------------------------- MODULE ThreadExplorer ---------------------------
(***************************************************************************)
(* ui/viewmodels/ThreadExplorerVM: the threads of one bound process, read  *)
(* from the threads of OsObjects, whose parentId is here the pid of the    *)
(* owning process.  Tids are unique in the system while their threads      *)
(* live, and are reused, by threads of any process.                        *)
(*                                                                         *)
(* Same reading as ProcessExplorer: a row and the details carry the        *)
(* instance they come from, which no action reads.  The symbolised and     *)
(* formatted texts are left out.                                           *)
(***************************************************************************)
EXTENDS OsObjects, CpuSampler

CONSTANTS
  Pids,    \* the processes the view can be bound to
  MaxNow   \* bound: sampling instants are 0 .. MaxNow

ASSUME ThreadExplorerAssumption ==
  /\ Pids \subseteq Nat
  /\ MaxNow \in Nat

VARIABLES
  sampler,      \* cpuSampler_
  pid,          \* pid_
  rows,         \* rows_, a function of the tid
  selectedTid,  \* selectedTid_
  details,      \* details_
  lastError,    \* IViewModel::lastError_, by the call that failed
  observed      \* history: what the last good snapshot of this subject saw

vmVars == <<sampler, pid, rows, selectedTid, details, lastError, observed>>
vars   == <<osVars, vmVars>>

Row       == [createTime : Nat, measured : BOOLEAN, percent : 0 .. 100,
              inst : Nat, owner : Pids]
NoRows    == [tid \in {} |-> 0]
NoDetails == [loaded |-> FALSE, inst |-> 0]
Unseen    == [threads |-> NoRows, at |-> None]

TypeOK ==
  /\ OsTypeOK
  /\ SamplerTypeOK(sampler, Ids)
  /\ pid \in Pids \cup {None}
  /\ DOMAIN rows \subseteq Ids
  /\ \A tid \in DOMAIN rows : rows[tid] \in Row
  /\ selectedTid \in Ids \cup {None}
  /\ details \in [loaded : BOOLEAN, inst : Nat]
  /\ lastError \in {"none", "snapshot", "queryDetails"}

Init ==
  /\ live = [tid \in {} |-> Idle]
  /\ clock = 0
  /\ created = 0
  /\ sampler = FreshSampler
  /\ pid = None
  /\ rows = NoRows
  /\ selectedTid = None
  /\ details = NoDetails
  /\ lastError = "none"
  /\ observed = Unseen

-----------------------------------------------------------------------------
(* The world.                                                              *)

CreateThread(tid, owner) == OsCreate(tid, owner, 0) /\ UNCHANGED vmVars
ExitThread(tid)          == OsExit(tid) /\ UNCHANGED vmVars
RunThread(tid)           == OsRun(tid) /\ UNCHANGED vmVars

-----------------------------------------------------------------------------
(* The view model.                                                         *)

\* setProcess() without the reset of the sampler.
SetProcessKeepingBaseline(newPid) ==
  /\ pid # newPid
  /\ pid' = newPid
  /\ rows' = NoRows
  /\ selectedTid' = None
  /\ details' = NoDetails
  /\ observed' = Unseen
  /\ UNCHANGED <<sampler, lastError, osVars>>

\* setProcess() without rows_.clear().
SetProcessKeepingRows(newPid) ==
  /\ pid # newPid
  /\ pid' = newPid
  /\ sampler' = FreshSampler
  /\ selectedTid' = None
  /\ details' = NoDetails
  /\ observed' = Unseen
  /\ UNCHANGED <<rows, lastError, osVars>>

\* setProcess() of another pid; binding the bound pid again returns early.
SetProcess(newPid) ==
  /\ pid # newPid
  /\ pid' = newPid
  /\ sampler' = FreshSampler
  /\ rows' = NoRows
  /\ selectedTid' = None
  /\ details' = NoDetails
  /\ observed' = Unseen
  /\ UNCHANGED <<lastError, osVars>>

\* The threads manager_.snapshot(pid) lists: none once the process is gone.
Listed == {tid \in DOMAIN live : live[tid].parentId = pid}
Snapshot == [tid \in Listed |-> live[tid]]

RowOf(t, tid, elapsed) ==
  LET usage == Usage(sampler, elapsed, tid, t.cpu, t.createTime)
  IN [createTime |-> t.createTime, measured |-> usage.measured,
      percent |-> usage.percent, inst |-> t.inst, owner |-> t.parentId]

\* A listed selection is kept, one that vanished is dropped with its details.
DropStaleSelection(r) ==
  IF selectedTid # None /\ selectedTid \notin DOMAIN r
  THEN /\ selectedTid' = None
       /\ details' = NoDetails
  ELSE UNCHANGED <<selectedTid, details>>

RefreshAt(now) ==
  /\ pid # None
  /\ lastError' = "none"
  /\ rows' = LET elapsed == Elapsed(sampler, now)
             IN [tid \in Listed |-> RowOf(live[tid], tid, elapsed)]
  /\ sampler' = EndRound(Snapshot, now)
  /\ DropStaleSelection(rows')
  /\ observed' = [threads |-> Snapshot, at |-> now]
  /\ UNCHANGED <<pid, osVars>>

\* refreshAt() without a bound process: nothing to list.
RefreshUnbound ==
  /\ pid = None
  /\ rows' = NoRows
  /\ UNCHANGED <<sampler, pid, selectedTid, details, lastError, observed, osVars>>

\* The snapshot failed: the rows go, the selection and its details stay.
RefreshFails ==
  /\ pid # None
  /\ lastError' = "snapshot"
  /\ rows' = NoRows
  /\ UNCHANGED <<sampler, pid, selectedTid, details, observed, osVars>>

Select(tid) ==
  /\ selectedTid # tid
  /\ selectedTid' = tid
  /\ details' = NoDetails
  /\ UNCHANGED <<sampler, pid, rows, lastError, observed, osVars>>

ClearSelection ==
  /\ selectedTid' = None
  /\ details' = NoDetails
  /\ UNCHANGED <<sampler, pid, rows, lastError, observed, osVars>>

\* queryDetails opens whichever thread, of any process, holds the tid now.
LoadDetails ==
  /\ selectedTid \in DOMAIN live
  /\ lastError' = "none"
  /\ details' = [loaded |-> TRUE, inst |-> live[selectedTid].inst]
  /\ UNCHANGED <<sampler, pid, rows, selectedTid, observed, osVars>>

LoadDetailsFails ==
  /\ selectedTid # None
  /\ details' = NoDetails
  /\ lastError' = "queryDetails"
  /\ UNCHANGED <<sampler, pid, rows, selectedTid, observed, osVars>>

-----------------------------------------------------------------------------

World == \E tid \in Ids :
           \/ \E owner \in Pids : CreateThread(tid, owner)
           \/ ExitThread(tid)
           \/ RunThread(tid)

ViewModel ==
  \/ \E newPid \in Pids : SetProcess(newPid)
  \/ \E now \in 0 .. MaxNow : RefreshAt(now)
  \/ RefreshUnbound
  \/ RefreshFails
  \/ \E tid \in Ids : Select(tid)
  \/ ClearSelection
  \/ LoadDetails
  \/ LoadDetailsFails

Next == World \/ ViewModel

Spec == Init /\ [][Next]_vars

-----------------------------------------------------------------------------
(* Properties.                                                             *)

\* The thread of a row took its tid from one that the last good snapshot saw
\* and that was created in the same clock tick: update() sees no difference.
ReusedInTick(tid) ==
  /\ tid \in DOMAIN observed.threads
  /\ observed.threads[tid].inst # rows'[tid].inst
  /\ observed.threads[tid].createTime = rows'[tid].createTime

\* Whenever rows are replaced, a thread is measured exactly when that very
\* thread was in the previous good snapshot taken for this subject and the
\* clock advanced since, and its share is the CPU time it used in between,
\* unless the tid was reused in one clock tick.  Changing the subject and coming
\* back counts as having no snapshot.
UsageIsTruthful ==
  [][\A tid \in DOMAIN rows' :
       LET row     == rows'[tid]
           seen    == tid \in DOMAIN observed.threads /\ observed.threads[tid].inst = row.inst
           elapsed == IF observed.at = None \/ observed'.at = None THEN 0
                      ELSE (observed'.at - observed.at) \div Quantum
           used    == observed'.threads[tid].cpu - observed.threads[tid].cpu
           share   == (100 * used) \div (elapsed * processorCount)
       IN \/ ReusedInTick(tid)
          \/ /\ seen /\ elapsed > 0
             /\ row.measured
             /\ row.percent = (IF share > 100 THEN 100 ELSE share)
          \/ /\ ~seen \/ elapsed <= 0
             /\ ~row.measured /\ row.percent = 0]_<<rows, observed>>

\* The list only ever shows threads of the process the view is bound to: a
\* change of subject leaves nothing of the previous one behind.
RowsAreOfBoundProcess == \A tid \in DOMAIN rows : rows[tid].owner = pid

=============================================================================
