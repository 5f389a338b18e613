----------------------- MODULE ThreadExplorer_proofs -----------------------
(***************************************************************************)
(* Proofs about ThreadExplorer for any sets of pids and tids, any number   *)
(* of threads and any bounds.  A measurement is right because the baseline *)
(* of the sampler is what the last good snapshot of this subject saw       *)
(* (BaselineInv), so what it says of a tid is of the thread seen there.    *)
(***************************************************************************)
EXTENDS ThreadExplorer, CpuSampler_proofs

\* Instances are unique and numbered by creation.
OsInv ==
  /\ DOMAIN live \subseteq Ids
  /\ \A t \in DOMAIN live : /\ live[t].inst \in 1 .. created
                            /\ live[t].createTime <= clock
                            /\ live[t].parentId \in Pids
  /\ \A t, u \in DOMAIN live : live[t].inst = live[u].inst => t = u

\* The baseline is the last snapshot, and a thread of it that still lives has
\* used no less CPU time since.
BaselineInv ==
  /\ sampler.previousTime = observed.at
  /\ DOMAIN sampler.previous = DOMAIN observed.threads
  /\ \A t \in DOMAIN observed.threads :
       /\ observed.threads[t].inst \in 1 .. created
       /\ sampler.previous[t].cpu = observed.threads[t].cpu
       /\ sampler.previous[t].createTime = observed.threads[t].createTime
       /\ t \in DOMAIN live /\ live[t].inst = observed.threads[t].inst =>
            /\ live[t].createTime = observed.threads[t].createTime
            /\ observed.threads[t].cpu <= live[t].cpu

TypeInv == TypeOK /\ OsInv

-----------------------------------------------------------------------------
(* The threads of the system.                                              *)

LEMMA CreateStep ==
  ASSUME TypeInv, NEW tid \in Ids, NEW owner \in Pids, CreateThread(tid, owner)
  PROVE  /\ OsTypeOK' /\ OsInv'
         /\ tid \notin DOMAIN live /\ DOMAIN live' = DOMAIN live \cup {tid}
         /\ \A u \in DOMAIN live : live'[u] = live[u]
         /\ live'[tid].inst = created + 1 /\ created' = created + 1
         /\ \E gap \in CreateGap : clock' = clock + gap /\ live'[tid].createTime = clock + gap
<1> USE OsAssumption, ThreadExplorerAssumption
<1>1. PICK gap \in CreateGap :
        /\ clock' = clock + gap
        /\ live' = Put(live, tid, [inst |-> created + 1, parentId |-> owner, parentInst |-> 0,
                                   createTime |-> clock + gap, cpu |-> 0])
  BY DEF CreateThread, OsCreate
<1>2. tid \notin DOMAIN live /\ created' = created + 1 /\ created < MaxInstances
  BY DEF CreateThread, OsCreate
<1>3. DOMAIN live' = DOMAIN live \cup {tid}
  BY <1>1 DEF Put
<1>4. /\ live'[tid] = [inst |-> created + 1, parentId |-> owner, parentInst |-> 0,
                       createTime |-> clock + gap, cpu |-> 0]
      /\ \A u \in DOMAIN live : live'[u] = live[u]
  BY <1>1, <1>2 DEF Put
<1>5. gap \in Nat /\ created \in Nat /\ clock \in Nat /\ MaxInstances \in Nat /\ owner \in Nat
  BY DEF TypeInv, TypeOK, OsTypeOK
<1>6. OsTypeOK'
  <2>1. live'[tid] \in Object
    BY <1>4, <1>5 DEF Object
  <2>2. \A id \in DOMAIN live' : live'[id] \in Object
    BY <1>3, <1>4, <2>1 DEF TypeInv, TypeOK, OsTypeOK
  <2>3. live' = [id \in DOMAIN live' |-> live'[id]]
    BY <1>1 DEF Put
  <2> QED
    BY <1>1, <1>2, <1>3, <1>5, <2>2, <2>3 DEF TypeInv, TypeOK, OsTypeOK
<1>7. OsInv'
  <2>1. \A u \in DOMAIN live : live[u].inst \in Nat /\ live[u].createTime \in Nat
    BY DEF TypeInv, TypeOK, OsTypeOK, Object
  <2> QED
    BY <1>1, <1>2, <1>3, <1>4, <1>5, <2>1 DEF TypeInv, OsInv
<1> QED
  BY <1>1, <1>2, <1>3, <1>4, <1>6, <1>7

LEMMA ExitStep ==
  ASSUME TypeInv, NEW tid \in Ids, ExitThread(tid)
  PROVE  /\ OsTypeOK' /\ OsInv'
         /\ DOMAIN live' = DOMAIN live \ {tid}
         /\ \A u \in DOMAIN live \ {tid} : live'[u] = live[u]
         /\ UNCHANGED <<clock, created>>
<1>1. /\ DOMAIN live' = DOMAIN live \ {tid}
      /\ \A u \in DOMAIN live \ {tid} : live'[u] = live[u]
      /\ live' = [id \in DOMAIN live' |-> live'[id]]
      /\ UNCHANGED <<clock, created>>
  BY DEF ExitThread, OsExit, Drop
<1> QED
  BY <1>1 DEF TypeInv, TypeOK, OsTypeOK, OsInv

LEMMA RunStep ==
  ASSUME TypeInv, NEW tid \in Ids, RunThread(tid)
  PROVE  /\ OsTypeOK' /\ OsInv'
         /\ DOMAIN live' = DOMAIN live
         /\ \A u \in DOMAIN live :
              /\ live'[u].inst = live[u].inst /\ live'[u].createTime = live[u].createTime
              /\ live[u].cpu <= live'[u].cpu
         /\ UNCHANGED <<clock, created>>
<1>1. /\ tid \in DOMAIN live /\ live[tid].cpu < MaxCpu
      /\ live' = [live EXCEPT ![tid].cpu = @ + 1]
      /\ UNCHANGED <<clock, created>>
  BY DEF RunThread, OsRun
<1>2. \A u \in DOMAIN live : live[u] \in Object
  BY DEF TypeInv, TypeOK, OsTypeOK
<1>3. /\ live'[tid] = [live[tid] EXCEPT !.cpu = @ + 1]
      /\ \A u \in DOMAIN live \ {tid} : live'[u] = live[u]
  BY <1>1 DEF TypeInv, TypeOK, OsTypeOK
<1>4. live'[tid] \in Object /\ live[tid].cpu <= live'[tid].cpu
  BY <1>1, <1>2, <1>3, OsAssumption DEF Object
<1>5. DOMAIN live' = DOMAIN live /\ live' = [id \in DOMAIN live' |-> live'[id]]
  BY <1>1
<1>6. \A u \in DOMAIN live :
        /\ live'[u].inst = live[u].inst /\ live'[u].parentId = live[u].parentId
        /\ live'[u].createTime = live[u].createTime /\ live[u].cpu <= live'[u].cpu
  <2>1. \A u \in DOMAIN live : live[u].cpu \in Nat
    BY <1>2, OsAssumption DEF Object
  <2> QED
    BY <1>1, <1>2, <1>3, <1>4, <2>1 DEF Object
<1> QED
  BY <1>1, <1>2, <1>3, <1>4, <1>5, <1>6 DEF TypeInv, TypeOK, OsTypeOK, OsInv

-----------------------------------------------------------------------------
(* Types and rows.                                                         *)

\* What a good refresh shows of each thread.
LEMMA RefreshRows ==
  ASSUME TypeInv, NEW now \in 0 .. MaxNow, RefreshAt(now)
  PROVE  /\ DOMAIN rows' = Listed /\ Listed \subseteq DOMAIN live
         /\ \A t \in Listed :
              LET usage == Usage(sampler, Elapsed(sampler, now), t, live[t].cpu,
                                 live[t].createTime)
              IN /\ rows'[t] = [createTime |-> live[t].createTime, measured |-> usage.measured,
                                percent |-> usage.percent, inst |-> live[t].inst,
                                owner |-> pid]
                 /\ rows'[t] \in Row
<1> DEFINE elapsed == Elapsed(sampler, now)
<1>1. rows' = [t \in Listed |-> RowOf(live[t], t, elapsed)] /\ pid # None
  BY DEF RefreshAt
<1>2. elapsed \in Nat
  BY ElapsedType, ThreadExplorerAssumption DEF TypeInv, TypeOK, SamplerTypeOK
<1> HIDE DEF elapsed
<1>3. ASSUME NEW t \in Listed
      PROVE  LET usage == Usage(sampler, elapsed, t, live[t].cpu, live[t].createTime)
             IN /\ rows'[t] = [createTime |-> live[t].createTime, measured |-> usage.measured,
                               percent |-> usage.percent, inst |-> live[t].inst, owner |-> pid]
                /\ rows'[t] \in Row
  <2> DEFINE usage == Usage(sampler, elapsed, t, live[t].cpu, live[t].createTime)
  <2>1. /\ t \in DOMAIN live /\ live[t].inst \in Nat /\ live[t].createTime \in Nat
        /\ live[t].cpu \in Nat /\ live[t].parentId = pid /\ pid \in Pids
    BY <1>1, OsAssumption DEF Listed, TypeInv, TypeOK, OsTypeOK, Object
  <2>2. usage \in [measured : BOOLEAN, percent : 0 .. 100]
    BY <1>2, <2>1, UsageType DEF TypeInv, TypeOK
  <2>3. rows'[t] = [createTime |-> live[t].createTime, measured |-> usage.measured,
                    percent |-> usage.percent, inst |-> live[t].inst, owner |-> pid]
    BY <1>1, <1>3, <2>1 DEF RowOf
  <2> HIDE DEF usage
  <2>4. rows'[t] \in Row
    BY <2>1, <2>2, <2>3 DEF Row
  <2> QED
    BY <2>3, <2>4 DEF usage
<1> QED
  BY <1>1, <1>3 DEF elapsed, Listed

LEMMA RefreshSampler ==
  ASSUME TypeInv, NEW now \in 0 .. MaxNow, RefreshAt(now)
  PROVE  /\ SamplerTypeOK(sampler', Ids)
         /\ sampler'.previousTime = now /\ DOMAIN sampler'.previous = Listed
         /\ \A t \in Listed : sampler'.previous[t] = [cpu |-> live[t].cpu,
                                                      createTime |-> live[t].createTime]
<1>1. sampler' = EndRound(Snapshot, now)
  BY DEF RefreshAt
<1>2. /\ sampler'.previousTime = now /\ DOMAIN sampler'.previous = Listed
      /\ \A t \in Listed : sampler'.previous[t] = [cpu |-> live[t].cpu,
                                                   createTime |-> live[t].createTime]
  BY <1>1 DEF EndRound, Snapshot
<1>3. \A t \in Listed : t \in Ids /\ live[t].cpu \in Nat /\ live[t].createTime \in Nat
  BY OsAssumption DEF Listed, TypeInv, TypeOK, OsInv, OsTypeOK, Object
<1>4. now \in Nat
  BY ThreadExplorerAssumption
<1>5. ASSUME NEW t \in Listed PROVE sampler'.previous[t] \in [cpu : Nat, createTime : Nat]
  <2>1. live[t].cpu \in Nat /\ live[t].createTime \in Nat
    BY <1>3
  <2>2. sampler'.previous[t] = [cpu |-> live[t].cpu, createTime |-> live[t].createTime]
    BY <1>2
  <2> QED
    BY <2>1, <2>2
<1>6. DOMAIN sampler'.previous \subseteq Ids
  BY <1>2, <1>3
<1>7. SamplerTypeOK(sampler', Ids)
  BY <1>2, <1>4, <1>5, <1>6 DEF SamplerTypeOK
<1> QED
  BY <1>2, <1>7

LEMMA TypeStep ==
  ASSUME TypeInv, [Next]_vars
  PROVE  TypeInv'
<1> USE DEF TypeInv
<1>1. ASSUME NEW tid \in Ids, NEW owner \in Pids, CreateThread(tid, owner) PROVE TypeInv'
  BY <1>1, CreateStep DEF CreateThread, vmVars, TypeOK
<1>2. ASSUME NEW tid \in Ids, ExitThread(tid) PROVE TypeInv'
  BY <1>2, ExitStep DEF ExitThread, vmVars, TypeOK
<1>3. ASSUME NEW tid \in Ids, RunThread(tid) PROVE TypeInv'
  BY <1>3, RunStep DEF RunThread, vmVars, TypeOK
<1>4. ASSUME UNCHANGED osVars PROVE OsTypeOK' /\ OsInv'
  BY <1>4 DEF osVars, TypeOK, OsTypeOK, OsInv
<1>5. ASSUME NEW newPid \in Pids, SetProcess(newPid) PROVE TypeInv'
  BY <1>4, <1>5 DEF SetProcess, TypeOK, NoRows, NoDetails, FreshSampler, SamplerTypeOK
<1>6. ASSUME NEW now \in 0 .. MaxNow, RefreshAt(now) PROVE TypeInv'
  <2>1. DOMAIN rows' \subseteq Ids /\ \A t \in DOMAIN rows' : rows'[t] \in Row
    BY <1>6, RefreshRows DEF OsInv
  <2>2. selectedTid' \in Ids \cup {None} /\ details' \in [loaded : BOOLEAN, inst : Nat]
    <3>1. NoDetails \in [loaded : BOOLEAN, inst : Nat]
      BY DEF NoDetails
    <3>2. \/ selectedTid' = None /\ details' = NoDetails
          \/ UNCHANGED <<selectedTid, details>>
      BY <1>6 DEF RefreshAt, DropStaleSelection
    <3> QED
      BY <3>1, <3>2 DEF TypeOK
  <2> QED
    BY <1>4, <1>6, <2>1, <2>2, RefreshSampler DEF RefreshAt, TypeOK
<1>7. ASSUME RefreshUnbound \/ RefreshFails PROVE TypeInv'
  BY <1>4, <1>7 DEF RefreshUnbound, RefreshFails, TypeOK, NoRows
<1>8. ASSUME NEW tid \in Ids, Select(tid) PROVE TypeInv'
  BY <1>4, <1>8 DEF Select, TypeOK, NoDetails
<1>9. ASSUME ClearSelection \/ LoadDetailsFails PROVE TypeInv'
  <2>1. CASE ClearSelection
    BY <1>4, <2>1 DEF ClearSelection, TypeOK, NoDetails
  <2>2. CASE LoadDetailsFails
    BY <1>4, <2>2 DEF LoadDetailsFails, TypeOK, NoDetails
  <2> QED
    BY <1>9, <2>1, <2>2
<1>10. ASSUME LoadDetails PROVE TypeInv'
  BY <1>4, <1>10 DEF LoadDetails, TypeOK, OsInv
<1>11. ASSUME UNCHANGED vars PROVE TypeInv'
  BY <1>4, <1>11 DEF vars, vmVars, TypeOK
<1> QED
  BY <1>1, <1>2, <1>3, <1>5, <1>6, <1>7, <1>8, <1>9, <1>10, <1>11
     DEF Next, World, ViewModel

\* ThreadExplorerVM keeps its types, and so do the threads.
THEOREM TypeCorrect == Spec => []TypeInv
<1>1. Init => TypeInv
  BY OsAssumption
     DEF Init, TypeInv, TypeOK, OsTypeOK, OsInv, FreshSampler, SamplerTypeOK, NoRows, NoDetails
<1> QED
  BY <1>1, TypeStep, PTL DEF Spec

\* ThreadExplorerVM.cpp:15-30: whatever happens, the rows are threads of the
\* process that the view is bound to.
THEOREM RowsAreAlwaysOfBoundProcess == Spec => []RowsAreOfBoundProcess
<1>1. Init => RowsAreOfBoundProcess
  BY DEF Init, RowsAreOfBoundProcess, NoRows
<1>2. ASSUME TypeInv, RowsAreOfBoundProcess, [Next]_vars PROVE RowsAreOfBoundProcess'
  <2>1. ASSUME NEW newPid \in Pids, SetProcess(newPid) PROVE RowsAreOfBoundProcess'
    BY <2>1 DEF SetProcess, RowsAreOfBoundProcess, NoRows
  <2>2. ASSUME NEW now \in 0 .. MaxNow, RefreshAt(now) PROVE RowsAreOfBoundProcess'
    <3>1. pid' = pid
      BY <2>2 DEF RefreshAt
    <3>2. \A t \in DOMAIN rows' : rows'[t].owner = pid
      <4> SUFFICES ASSUME NEW t \in DOMAIN rows' PROVE rows'[t].owner = pid
        OBVIOUS
      <4> DEFINE usage == Usage(sampler, Elapsed(sampler, now), t, live[t].cpu,
                                live[t].createTime)
      <4>1. rows'[t] = [createTime |-> live[t].createTime, measured |-> usage.measured,
                        percent |-> usage.percent, inst |-> live[t].inst, owner |-> pid]
        BY <1>2, <2>2, RefreshRows
      <4> QED
        BY <4>1
    <3> QED
      BY <3>1, <3>2 DEF RowsAreOfBoundProcess
  <2>3. ASSUME RefreshUnbound \/ RefreshFails PROVE RowsAreOfBoundProcess'
    BY <2>3 DEF RefreshUnbound, RefreshFails, RowsAreOfBoundProcess, NoRows
  <2>4. ASSUME UNCHANGED <<rows, pid>> PROVE RowsAreOfBoundProcess'
    BY <1>2, <2>4 DEF RowsAreOfBoundProcess
  <2>5. ASSUME World \/ UNCHANGED vars PROVE UNCHANGED <<rows, pid>>
    BY <2>5 DEF World, CreateThread, ExitThread, RunThread, vars, vmVars
  <2>6. ASSUME \/ \E tid \in Ids : Select(tid)
               \/ ClearSelection \/ LoadDetails \/ LoadDetailsFails
         PROVE  UNCHANGED <<rows, pid>>
    BY <2>6 DEF Select, ClearSelection, LoadDetails, LoadDetailsFails
  <2> QED
    BY <1>2, <2>1, <2>2, <2>3, <2>4, <2>5, <2>6 DEF Next, ViewModel
<1> QED
  BY <1>1, <1>2, TypeCorrect, PTL DEF Spec

-----------------------------------------------------------------------------
(* Measurements.                                                           *)

LEMMA BaselineStep ==
  ASSUME TypeInv, BaselineInv, [Next]_vars
  PROVE  BaselineInv'
<1> USE DEF TypeInv
<1>1. /\ created \in Nat
      /\ \A t \in DOMAIN live : live[t].inst \in 1 .. created /\ live[t].cpu \in Nat
      /\ \A t \in DOMAIN observed.threads : observed.threads[t].cpu \in Nat
  BY OsAssumption DEF TypeOK, OsTypeOK, OsInv, Object, SamplerTypeOK, BaselineInv
<1> DEFINE Inv(t) == t \in DOMAIN live /\ live[t].inst = observed.threads[t].inst =>
                       /\ live[t].createTime = observed.threads[t].createTime
                       /\ observed.threads[t].cpu <= live[t].cpu
<1>2. ASSUME UNCHANGED <<sampler, observed>>, created' \in Nat, created' >= created,
             \A t \in DOMAIN observed.threads : Inv(t)'
      PROVE  BaselineInv'
  <2>1. \A t \in DOMAIN observed.threads : observed.threads[t].inst \in 1 .. created'
    BY <1>1, <1>2 DEF BaselineInv
  <2> QED
    BY <1>2, <2>1 DEF BaselineInv
<1>3. ASSUME NEW tid \in Ids, NEW owner \in Pids, CreateThread(tid, owner)
      PROVE  BaselineInv'
  <2>1. /\ UNCHANGED <<sampler, observed>>
        /\ tid \notin DOMAIN live /\ DOMAIN live' = DOMAIN live \cup {tid}
        /\ \A u \in DOMAIN live : live'[u] = live[u]
        /\ live'[tid].inst = created + 1 /\ created' = created + 1
    BY <1>3, CreateStep DEF CreateThread, vmVars
  <2>2. ASSUME NEW t \in DOMAIN observed.threads PROVE Inv(t)'
    <3>1. Inv(t) /\ observed.threads[t].inst # created + 1
      BY <1>1 DEF BaselineInv
    <3> QED
      BY <2>1, <3>1
  <2> QED
    BY <1>1, <1>2, <2>1, <2>2
<1>4. ASSUME NEW tid \in Ids, ExitThread(tid) PROVE BaselineInv'
  <2>1. /\ UNCHANGED <<sampler, observed, created>> /\ DOMAIN live' \subseteq DOMAIN live
        /\ \A u \in DOMAIN live' : live'[u] = live[u]
    BY <1>4, ExitStep DEF ExitThread, vmVars
  <2>2. \A t \in DOMAIN observed.threads : Inv(t)'
    BY <2>1 DEF BaselineInv
  <2> QED
    BY <1>1, <1>2, <2>1, <2>2
<1>5. ASSUME NEW tid \in Ids, RunThread(tid) PROVE BaselineInv'
  <2>1. /\ UNCHANGED <<sampler, observed, created>> /\ DOMAIN live' = DOMAIN live
        /\ \A u \in DOMAIN live : /\ live'[u].inst = live[u].inst
                                  /\ live'[u].createTime = live[u].createTime
                                  /\ live[u].cpu <= live'[u].cpu /\ live'[u].cpu \in Nat
    BY <1>5, RunStep, OsAssumption DEF RunThread, vmVars, OsTypeOK, Object
  <2>2. ASSUME NEW t \in DOMAIN observed.threads PROVE Inv(t)'
    <3>1. Inv(t)
      BY DEF BaselineInv
    <3> QED
      BY <1>1, <2>1, <3>1
  <2> QED
    BY <1>1, <1>2, <2>1, <2>2
<1>6. ASSUME NEW newPid \in Pids, SetProcess(newPid) PROVE BaselineInv'
  BY <1>6 DEF SetProcess, BaselineInv, FreshSampler, Unseen, NoRows
<1>7. ASSUME NEW now \in 0 .. MaxNow, RefreshAt(now) PROVE BaselineInv'
  <2>1. /\ live' = live /\ created' = created /\ Listed \subseteq DOMAIN live
        /\ observed'.at = now /\ DOMAIN observed'.threads = Listed
        /\ \A t \in Listed : observed'.threads[t] = live[t]
    BY <1>7 DEF RefreshAt, Listed, Snapshot, osVars
  <2>2. /\ sampler'.previousTime = now /\ DOMAIN sampler'.previous = Listed
        /\ \A t \in Listed : sampler'.previous[t] = [cpu |-> live[t].cpu,
                                                     createTime |-> live[t].createTime]
    BY <1>7, RefreshSampler
  <2>3. ASSUME NEW t \in Listed
        PROVE  /\ sampler'.previous[t].cpu = live[t].cpu
               /\ sampler'.previous[t].createTime = live[t].createTime
    <3>1. sampler'.previous[t] = [cpu |-> live[t].cpu, createTime |-> live[t].createTime]
      BY <2>2
    <3> QED
      BY <3>1
  <2>4. ASSUME NEW t \in Listed
        PROVE  observed'.threads[t].inst \in 1 .. created' /\ Inv(t)'
    BY <1>1, <2>1
  <2> QED
    BY <2>1, <2>2, <2>3, <2>4 DEF BaselineInv
<1>8. ASSUME UNCHANGED <<sampler, observed, osVars>> PROVE BaselineInv'
  BY <1>8 DEF BaselineInv, osVars
<1>9. ASSUME \/ RefreshUnbound \/ RefreshFails
             \/ \E tid \in Ids : Select(tid)
             \/ ClearSelection \/ LoadDetails \/ LoadDetailsFails
             \/ UNCHANGED vars
      PROVE  UNCHANGED <<sampler, observed, osVars>>
  BY <1>9 DEF RefreshUnbound, RefreshFails, Select, ClearSelection, LoadDetails,
              LoadDetailsFails, vars, vmVars, osVars
<1> QED
  BY <1>3, <1>4, <1>5, <1>6, <1>7, <1>8, <1>9 DEF Next, World, ViewModel

\* What the property demands of the row of a thread, given how much time went by.
Truthful(tid, elapsed) ==
  LET row   == rows'[tid]
      seen  == tid \in DOMAIN observed.threads /\ observed.threads[tid].inst = row.inst
      used  == observed'.threads[tid].cpu - observed.threads[tid].cpu
      share == (100 * used) \div (elapsed * processorCount)
  IN \/ ReusedInTick(tid)
     \/ /\ seen /\ elapsed > 0
        /\ row.measured
        /\ row.percent = (IF share > 100 THEN 100 ELSE share)
     \/ /\ ~seen \/ elapsed <= 0
        /\ ~row.measured /\ row.percent = 0

LEMMA TruthfulRefresh ==
  ASSUME TypeInv, BaselineInv, NEW now \in 0 .. MaxNow, RefreshAt(now), NEW tid \in DOMAIN rows',
         NEW elapsed, elapsed = IF observed.at = None \/ observed'.at = None THEN 0
                                ELSE (observed'.at - observed.at) \div Quantum
  PROVE  Truthful(tid, elapsed)
<1> USE DEF TypeInv
<1> DEFINE t == live[tid]
           e == Elapsed(sampler, now)
           usage == Usage(sampler, e, tid, t.cpu, t.createTime)
           row == rows'[tid]
           seen == tid \in DOMAIN observed.threads /\ observed.threads[tid].inst = row.inst
<1>1. /\ tid \in Listed /\ tid \in DOMAIN live
      /\ row = [createTime |-> t.createTime, measured |-> usage.measured,
                percent |-> usage.percent, inst |-> t.inst, owner |-> pid]
  BY RefreshRows
<1>2. e = IF elapsed > 0 THEN elapsed ELSE 0
  <2>1. now \in Nat /\ observed'.at = now /\ now # None
    BY ThreadExplorerAssumption, SamplerAssumption DEF RefreshAt
  <2>2. elapsed = IF sampler.previousTime = None THEN 0
                  ELSE (now - sampler.previousTime) \div Quantum
    BY <2>1 DEF BaselineInv
  <2>3. sampler.previousTime \in Nat \cup {None}
    BY DEF TypeOK, SamplerTypeOK
  <2> QED
    BY <2>1, <2>2, <2>3, ElapsedIsDifference
<1>3. observed'.threads[tid] = t
  BY <1>1 DEF RefreshAt, Snapshot
<1>4. /\ tid \in DOMAIN sampler.previous <=> tid \in DOMAIN observed.threads
      /\ tid \in DOMAIN observed.threads =>
           /\ sampler.previous[tid].cpu = observed.threads[tid].cpu
           /\ sampler.previous[tid].createTime = observed.threads[tid].createTime
      /\ seen => /\ observed.threads[tid].createTime = t.createTime
                 /\ observed.threads[tid].cpu <= t.cpu
  <2>1. row.inst = t.inst
    BY <1>1
  <2> QED
    BY <1>1, <2>1 DEF BaselineInv
<1> DEFINE used == t.cpu - observed.threads[tid].cpu
<1>5. CASE ReusedInTick(tid)
  BY <1>5 DEF Truthful
<1>6. CASE seen /\ elapsed > 0
  <2>1. e = elapsed /\ e # 0
    BY <1>2, <1>6
  <2> HIDE DEF e
  <2>2. usage = [measured |-> TRUE, percent |-> Percent(used, elapsed)]
    BY <1>4, <1>6, <2>1 DEF Usage
  <2> HIDE DEF usage
  <2>3. row.measured = usage.measured /\ row.percent = usage.percent
    BY <1>1
  <2> DEFINE share == (100 * used) \div (elapsed * processorCount)
  <2>4. Percent(used, elapsed) = IF share > 100 THEN 100 ELSE share
    BY DEF Percent, PercentUnclamped
  <2>5. row.measured /\ row.percent = (IF share > 100 THEN 100 ELSE share)
    BY <2>2, <2>3, <2>4
  <2> QED
    BY <1>3, <1>6, <2>5 DEF Truthful
<1>7. CASE ~ReusedInTick(tid) /\ (~seen \/ ~(elapsed > 0))
  <2>1. usage = Unmeasured
    <3>1. CASE ~(elapsed > 0)
      <4>1. e = 0
        BY <1>2, <3>1
      <4> HIDE DEF e
      <4> QED
        BY <4>1 DEF Usage
    <3>2. CASE ~seen
      <4>1. tid \in DOMAIN observed.threads => observed.threads[tid].createTime # t.createTime
        BY <1>1, <1>7, <3>2 DEF ReusedInTick
      <4> QED
        BY <1>4, <4>1 DEF Usage
    <3> QED
      BY <1>7, <3>1, <3>2
  <2> HIDE DEF usage
  <2>2. ~row.measured /\ row.percent = 0
    BY <1>1, <2>1 DEF Unmeasured
  <2>3. ~seen \/ elapsed <= 0
    <3>1. elapsed \in Int
      <4>1. now \in Nat /\ observed'.at = now /\ Quantum \in Nat \ {0}
        BY ThreadExplorerAssumption, SamplerAssumption DEF RefreshAt
      <4>2. observed.at \in Nat \cup {None}
        BY DEF TypeOK, SamplerTypeOK, BaselineInv
      <4> QED
        BY <4>1, <4>2
    <3> QED
      BY <1>7, <3>1
  <2> QED
    BY <2>2, <2>3 DEF Truthful
<1> QED
  BY <1>5, <1>6, <1>7

\* CpuSampler.hpp: a percentage is the CPU use of that very thread since the
\* last good snapshot of this subject, for every clock and every reuse of tids,
\* those within one tick of the clock apart.
THEOREM UsageIsAlwaysTruthful == Spec => UsageIsTruthful
<1>1. Init => BaselineInv
  BY DEF Init, BaselineInv, FreshSampler, Unseen, NoRows
<1>2. Spec => []BaselineInv
  <2>1. TypeInv /\ BaselineInv /\ [Next]_vars => BaselineInv'
    BY BaselineStep
  <2> QED
    BY <1>1, <2>1, TypeCorrect, PTL DEF Spec
<1> DEFINE Truth ==
      \A tid \in DOMAIN rows' :
        LET row     == rows'[tid]
            seen    == tid \in DOMAIN observed.threads /\ observed.threads[tid].inst = row.inst
            elapsed == IF observed.at = None \/ observed'.at = None THEN 0
                       ELSE (observed'.at - observed.at) \div Quantum
            used    == observed'.threads[tid].cpu - observed.threads[tid].cpu
            share   == (100 * used) \div (elapsed * processorCount)
        IN \/ ReusedInTick(tid)
           \/ /\ seen /\ elapsed > 0
              /\ row.measured
              /\ row.percent = (IF share > 100 THEN 100 ELSE share)
           \/ /\ ~seen \/ elapsed <= 0
              /\ ~row.measured /\ row.percent = 0
<1>3. ASSUME TypeInv, BaselineInv, [Next]_vars PROVE [Truth]_<<rows, observed>>
  <2>1. ASSUME NEW now \in 0 .. MaxNow, RefreshAt(now) PROVE Truth
    BY <1>3, <2>1, TruthfulRefresh DEF Truthful
  <2>2. ASSUME rows' = NoRows PROVE Truth
    BY <2>2 DEF NoRows
  <2>3. ASSUME ~(\E now \in 0 .. MaxNow : RefreshAt(now))
        PROVE  rows' = NoRows \/ UNCHANGED <<rows, observed>>
    BY <1>3, <2>3 DEF Next, World, ViewModel, CreateThread, ExitThread, RunThread, SetProcess,
                      RefreshUnbound, RefreshFails, Select, ClearSelection, LoadDetails,
                      LoadDetailsFails, vars, vmVars
  <2> HIDE DEF Truth
  <2> QED
    BY <2>1, <2>2, <2>3
<1>4. Spec => [][Truth]_<<rows, observed>>
  <2> HIDE DEF Truth
  <2> QED
    BY <1>2, <1>3, TypeCorrect, PTL DEF Spec
<1> QED
  BY <1>4 DEF UsageIsTruthful

=============================================================================
