--------------------------- MODULE ModuleSnapshot ---------------------------
(***************************************************************************)
(* core/module ModuleManager::snapshot and the calls of ntapi/NativeApi it *)
(* is made of, over a process that loads and unloads modules between them. *)
(*                                                                         *)
(* A module is known to the readers by its base address, which the next    *)
(* module may be loaded at.  What the readers learn of a module - its path *)
(* and the rest of it - is modelled by its identity: who was at the base.  *)
(* Either can be unknown although the module is there: the path does not   *)
(* fit the largest buffer, or the call fails.  The version fields, which   *)
(* are read from the file named by the path, are left out.                 *)
(***************************************************************************)
EXTENDS Integers, Sequences, SequencesExt, Functions

CONSTANTS
  Bases,     \* addresses a module can be loaded at
  MaxLoads,  \* bound: modules loaded during the snapshot
  Junk,      \* what lies behind the end of an array
  Unknown    \* a field that could not be read

ASSUME ModuleAssumption ==
  /\ Bases \subseteq Nat
  /\ MaxLoads \in Nat
  /\ Junk \notin Bases
  /\ Unknown \notin Nat

VARIABLES
  loaded,    \* process: its modules in load order
  loads,     \* process: modules loaded so far, which is also the last identity
  pc,        \* "open", "size", "fill", "path", "info", "done" or "failed"
  capacity,  \* size of the array of handles
  returned,  \* modules the second call says there are
  bases,     \* result of enumProcessModules
  modules,   \* the rows collected so far
  stayed     \* history: modules that were loaded all along

processVars == <<loaded, loads>>
moduleVars  == <<processVars, pc, capacity, returned, bases, modules, stayed>>

Module == [base : Bases, id : Nat]
Row    == [base : Bases \cup {Junk}, path : Nat \cup {Unknown}, info : Nat \cup {Unknown}]

\* Types; one module per base; never more rows than bases.
ModulesTypeOK ==
  /\ loaded \in Seq(Module)
  /\ \A i, j \in 1 .. Len(loaded) : loaded[i].base = loaded[j].base => i = j
  /\ loads \in Nat
  /\ pc \in {"open", "size", "fill", "path", "info", "done", "failed"}
  /\ capacity \in Nat /\ returned \in Nat
  /\ bases \in Seq(Bases \cup {Junk})
  /\ modules \in Seq(Row)
  /\ Len(modules) <= Len(bases) /\ (pc = "info" => modules # <<>>)
  /\ stayed \subseteq Range(loaded)

\* Some modules are loaded already, at distinct addresses.
ModulesInit ==
  /\ \E n \in 0 .. MaxLoads :
       \E at \in [1 .. n -> Bases] :
         /\ IsInjective(at)
         /\ loads = n
         /\ loaded = [i \in 1 .. n |-> [base |-> at[i], id |-> i]]
  /\ pc = "open"
  /\ capacity = 0 /\ returned = 0
  /\ bases = <<>> /\ modules = <<>>
  /\ stayed = Range(loaded)

-----------------------------------------------------------------------------
(* The process.                                                            *)

Snapshotting == pc \notin {"done", "failed"}

Load(base) ==
  /\ Snapshotting /\ loads < MaxLoads
  /\ \A i \in 1 .. Len(loaded) : loaded[i].base # base
  /\ loaded' = Append(loaded, [base |-> base, id |-> loads + 1])
  /\ loads' = loads + 1
  /\ UNCHANGED <<pc, capacity, returned, bases, modules, stayed>>

Unload(i) ==
  /\ Snapshotting
  /\ loaded' = RemoveAt(loaded, i)
  /\ stayed' = stayed \ {loaded[i]}
  /\ UNCHANGED <<loads, pc, capacity, returned, bases, modules>>

-----------------------------------------------------------------------------
(* enumProcessModules                                                      *)

\* openProcess, or either call of EnumProcessModulesEx, fails.
Fails ==
  /\ pc \in {"open", "size", "fill"}
  /\ pc' = "failed"
  /\ UNCHANGED <<processVars, capacity, returned, bases, modules, stayed>>

Open ==
  /\ pc = "open"
  /\ pc' = "size"
  /\ UNCHANGED <<processVars, capacity, returned, bases, modules, stayed>>

\* The first call: how many there are now.  None at all ends the snapshot.
SizeArray ==
  /\ pc = "size"
  /\ capacity' = Len(loaded)
  /\ pc' = IF loaded = <<>> THEN "done" ELSE "fill"
  /\ UNCHANGED <<processVars, returned, bases, modules, stayed>>

\* The call reports the last modules that fit instead of the first ones.
HandleAtNewest(n) ==
  [i \in 1 .. n |-> IF i <= capacity
                    THEN loaded[IF n > capacity THEN n - capacity + i ELSE i].base
                    ELSE Junk]

\* handles[i] for i < n: what the call wrote, or what lies behind the array.
HandleAt(n) == [i \in 1 .. n |-> IF i <= capacity THEN loaded[i].base ELSE Junk]

\* The second call fills the array as far as it goes and returns how many
\* there are by now; as many elements are read from it.
FillArray ==
  /\ pc = "fill"
  /\ returned' = Len(loaded)
  /\ bases' = HandleAt(Len(loaded))
  /\ pc' = "path"
  /\ UNCHANGED <<processVars, capacity, modules, stayed>>

-----------------------------------------------------------------------------
(* snapshot: path and information of one module after the other            *)

\* Who is at a base now, if anybody.
At(base) ==
  IF \E i \in 1 .. Len(loaded) : loaded[i].base = base
  THEN loaded[CHOOSE i \in 1 .. Len(loaded) : loaded[i].base = base].id
  ELSE Unknown

\* What a query of a module can answer: of who is at the base now, or nothing.
Answers(base) == {At(base), Unknown}

\* queryModuleFileName; a path that cannot be read leaves the field empty.
QueryFileName ==
  /\ pc = "path" /\ Len(modules) < Len(bases)
  /\ LET base == bases[Len(modules) + 1]
     IN \E path \in Answers(base) :
          modules' = Append(modules, [base |-> base, path |-> path, info |-> Unknown])
  /\ pc' = "info"
  /\ UNCHANGED <<processVars, capacity, returned, bases, stayed>>

\* The row is pushed by both queries.
QueryInformationPushing ==
  /\ pc = "info"
  /\ LET row == modules[Len(modules)]
     IN \E info \in Answers(row.base) : modules' = Append(modules, [row EXCEPT !.info = info])
  /\ pc' = "path"
  /\ UNCHANGED <<processVars, capacity, returned, bases, stayed>>

\* queryModuleInformation; the row is kept whatever it could read.
QueryInformation ==
  /\ pc = "info"
  /\ LET n == Len(modules)
     IN \E info \in Answers(modules[n].base) : modules' = [modules EXCEPT ![n].info = info]
  /\ pc' = "path"
  /\ UNCHANGED <<processVars, capacity, returned, bases, stayed>>

Finish ==
  /\ pc = "path" /\ Len(modules) = Len(bases)
  /\ pc' = "done"
  /\ UNCHANGED <<processVars, capacity, returned, bases, modules, stayed>>

-----------------------------------------------------------------------------

ModulesNext ==
  \/ \E base \in Bases : Load(base)
  \/ \E i \in DOMAIN loaded : Unload(i)
  \/ Fails \/ Open \/ SizeArray \/ FillArray
  \/ QueryFileName \/ QueryInformation \/ Finish

ModulesSpec == ModulesInit /\ [][ModulesNext]_moduleVars

-----------------------------------------------------------------------------
(* Properties.                                                             *)

\* ModuleManager.cpp:26-68: a module that is loaded during the whole snapshot is
\* listed exactly once, although the array may have been sized for fewer modules
\* and whatever is loaded and unloaded around it.  A query of it may fail, which
\* leaves a field unknown and never drops the row; a field that is known is its
\* own and not that of another module that was at the base.
StableModulesAreListed ==
  pc = "done" =>
    \A m \in stayed :
      \E i \in 1 .. Len(modules) :
        /\ modules[i].base = m.base
        /\ modules[i].path \in {m.id, Unknown} /\ modules[i].info \in {m.id, Unknown}
        /\ \A j \in 1 .. Len(modules) : modules[j].base = m.base => i = j

\* NativeApi.cpp:110, "Two-pass: first call sizes the array, second fills it":
\* no more elements are read than the array has.
ReadsStayInArray == pc \in {"path", "info", "done"} => returned <= capacity

=============================================================================
