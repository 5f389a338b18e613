----------------------------- MODULE OsObjects -----------------------------
(***************************************************************************)
(* The kernel objects the tools observe: processes (or threads) that are   *)
(* created, accumulate CPU time and exit, and whose numeric ids Windows    *)
(* reuses.  None of this is code under src/: it is the world the readers   *)
(* in src/ take snapshots of.                                              *)
(*                                                                         *)
(* An id says which slot is occupied; the instance number, which no reader *)
(* ever sees, says by whom.  The creation time a reader sees comes from a  *)
(* clock that CreateGap says how to advance: {1} gives every object a      *)
(* later time than every older one, {0, 1} lets objects that are created   *)
(* within one tick share a time.                                           *)
(***************************************************************************)
EXTENDS Integers

CONSTANTS
  Ids,           \* ids an object can be given; 0 is never among them
  MaxInstances,  \* bound: objects ever created
  MaxCpu,        \* bound: CPU time one object accumulates
  CreateGap      \* ticks the clock may advance before a creation

ASSUME OsAssumption ==
  /\ Ids \subseteq Nat \ {0}
  /\ MaxInstances \in Nat
  /\ MaxCpu \in Nat
  /\ CreateGap \subseteq Nat

VARIABLES
  live,     \* id -> the object that holds the id now
  clock,    \* creation clock
  created   \* number of objects created so far; the last one's instance

osVars == <<live, clock, created>>

\* What the kernel keeps of an object.  parentId is what a reader sees,
\* parentInst is who that id meant when the object was created.
Object == [inst : Nat, parentId : Nat, parentInst : Nat,
           createTime : Nat, cpu : 0 .. MaxCpu]

\* The object that holds id 0 from boot on: the idle process.
Idle == [inst |-> 0, parentId |-> 0, parentInst |-> 0, createTime |-> 0, cpu |-> 0]

Put(f, x, v) == [y \in DOMAIN f \cup {x} |-> IF y = x THEN v ELSE f[y]]
Drop(f, x)   == [y \in DOMAIN f \ {x} |-> f[y]]

OsTypeOK ==
  /\ DOMAIN live \subseteq Ids \cup {0}
  /\ \A id \in DOMAIN live : live[id] \in Object
  /\ live = [id \in DOMAIN live |-> live[id]]
  /\ clock \in Nat
  /\ created \in 0 .. MaxInstances

-----------------------------------------------------------------------------

\* A new object takes a free id; parentInst is read from the current holder.
OsCreate(id, parentId, parentInst) ==
  /\ id \in Ids \ DOMAIN live
  /\ created < MaxInstances
  /\ \E gap \in CreateGap :
       /\ clock' = clock + gap
       /\ live' = Put(live, id, [inst |-> created + 1, parentId |-> parentId,
                                 parentInst |-> parentInst,
                                 createTime |-> clock + gap, cpu |-> 0])
  /\ created' = created + 1

OsExit(id) ==
  /\ id \in DOMAIN live \ {0}
  /\ live' = Drop(live, id)
  /\ UNCHANGED <<clock, created>>

OsRun(id) ==
  /\ id \in DOMAIN live
  /\ live[id].cpu < MaxCpu
  /\ live' = [live EXCEPT ![id].cpu = @ + 1]
  /\ UNCHANGED <<clock, created>>

=============================================================================
