----------------------- MODULE HandleNameQuery_proofs -----------------------
(***************************************************************************)
(* Proofs about HandleNameQuery for any number of calls and handle values. *)
(* The inductive invariant says, for every open value, which call opened   *)
(* it and how far that call may have got (ValuesHaveOwners), for every     *)
(* call, which values it relies on (CallsHoldValues), and how far caller   *)
(* and worker may be apart (WorkerInv).                                    *)
(***************************************************************************)
EXTENDS HandleNameQuery, TLAPS

Open == {"opened", "duplicated", "polling", "checking", "reading"}
Duplicated == {"duplicated", "polling", "checking", "reading"}

\* The duplicate was released to the worker, not closed.
GivenUp(c) == caller[c] = "returned" /\ result[c] = TimedOut

CallsHoldValues ==
  \A c \in Calls :
    /\ caller[c] \in Open => owner[c] \in Handles /\ table[owner[c]] = Process(c)
    /\ caller[c] \in Duplicated \/ GivenUp(c) =>
         rawDuplicate[c] \in Handles /\ table[rawDuplicate[c]] = Object(c)

ValuesHaveOwners ==
  \A c \in Calls, h \in Handles :
    /\ table[h] = Process(c) => caller[c] \in Open /\ h = owner[c]
    /\ table[h] = Object(c) =>
         (caller[c] \in Duplicated \/ GivenUp(c)) /\ h = rawDuplicate[c]

WorkerInv ==
  \A c \in Calls :
    /\ worker[c] # "none" =>
         \/ caller[c] \in {"polling", "checking"}
         \/ caller[c] \in {"reading", "returned"} /\ worker[c] = "exited"
         \/ GivenUp(c)
    /\ caller[c] \in {"polling", "checking", "reading"} => worker[c] # "none"
    /\ caller[c] = "reading" => done[c]
    /\ done[c] => worker[c] = "exited"
    /\ caller[c] # "returned" => result[c] = Nothing

NameInv ==
  \A c \in Calls :
    /\ nameResult[c] \in {c, NoName, Pending}
    /\ worker[c] \in {"none", "querying"} => nameResult[c] = Pending
    /\ worker[c] \in {"queried", "writing", "written", "exited"} => nameResult[c] # Pending
    /\ worker[c] \in {"written", "exited"} => name[c] = nameResult[c]

IInv == TypeOK /\ CallsHoldValues /\ ValuesHaveOwners /\ WorkerInv /\ NameInv

-----------------------------------------------------------------------------

\* Process(c) and Object(d) are never the same object, and None is neither.
LEMMA ObjectsDiffer ==
  \A c, d \in Calls :
    /\ Process(c) # Object(d)
    /\ Process(c) = Process(d) => c = d
    /\ Object(c) = Object(d) => c = d
    /\ Process(c) \in Objects /\ Object(c) \in Objects
    /\ Process(c) # None /\ Object(c) # None
BY HandleAssumption DEF Process, Object, Objects

LEMMA InitTypeOK == Init => TypeOK
BY HandleAssumption DEF Init, TypeOK, CallerPhases, WorkerPhases, Nothing

LEMMA TypeStep == ASSUME TypeOK, NameInv, [Next]_vars PROVE TypeOK'
<1> USE HandleAssumption, ObjectsDiffer DEF TypeOK, CallerPhases, WorkerPhases, Goto, Close, FreeHandles
<1>1. CASE UNCHANGED vars
  BY <1>1 DEF vars
<1>2. ASSUME NEW c \in Calls, Call(c) PROVE TypeOK'
  BY <1>2 DEF Call
<1>3. ASSUME NEW c \in Calls, CallerStep(c) PROVE TypeOK'
  <2>1. CASE OpenOwner(c)
    BY <2>1 DEF OpenOwner
  <2>2. CASE OpenOwnerFails(c)
    BY <2>2 DEF OpenOwnerFails
  <2>3. CASE Duplicate(c)
    BY <2>3 DEF Duplicate
  <2>4. CASE DuplicateFails(c)
    BY <2>4 DEF DuplicateFails
  <2>5. CASE SpawnWorker(c)
    BY <2>5 DEF SpawnWorker
  <2>6. CASE SpawnThrows(c)
    BY <2>6 DEF SpawnThrows
  <2>7. CASE PollSeesDone(c)
    BY <2>7 DEF PollSeesDone
  <2>8. CASE Deadline(c)
    BY <2>8 DEF Deadline
  <2>9. CASE GiveUp(c)
    BY <2>9 DEF GiveUp, TimedOut
  <2>10. CASE LockState(c)
    BY <2>10 DEF LockState
  <2>11. CASE ReturnName(c)
    BY <2>11 DEF ReturnName, Resolved
  <2> QED
    BY <1>3, <2>1, <2>2, <2>3, <2>4, <2>5, <2>6, <2>7, <2>8, <2>9, <2>10, <2>11 DEF CallerStep
<1>4. ASSUME NEW c \in Calls, QueryReturns(c) PROVE TypeOK'
  BY <1>4 DEF QueryReturns
<1>5. ASSUME NEW c \in Calls, WorkerStep(c) PROVE TypeOK'
  <2>1. CASE WorkerLocks(c)
    BY <2>1 DEF WorkerLocks
  <2>2. CASE WorkerWrites(c)
    <3>1. nameResult[c] \in Calls \cup {NoName}
      BY <2>2 DEF WorkerWrites, NameInv
    <3> QED
      BY <2>2, <3>1 DEF WorkerWrites
  <2>3. CASE WorkerFinishes(c)
    BY <2>3 DEF WorkerFinishes
  <2> QED
    BY <1>5, <2>1, <2>2, <2>3 DEF WorkerStep
<1> QED
  BY <1>1, <1>2, <1>3, <1>4, <1>5 DEF Next

LEMMA NameStep == ASSUME TypeOK, CallsHoldValues, WorkerInv, NameInv, [Next]_vars PROVE NameInv'
<1> USE HandleAssumption, ObjectsDiffer DEF TypeOK, NameInv, WorkerPhases, Goto
<1>1. CASE UNCHANGED vars
  BY <1>1 DEF vars
<1>2. ASSUME NEW c \in Calls, Call(c) PROVE NameInv'
  BY <1>2 DEF Call
<1>3. ASSUME NEW c \in Calls, CallerStep(c) PROVE NameInv'
  <2>1. CASE SpawnWorker(c)
    <3>1. worker[c] = "none"
      BY <2>1 DEF SpawnWorker, WorkerInv, GivenUp
    <3> QED
      BY <2>1, <3>1 DEF SpawnWorker
  <2>2. CASE ~SpawnWorker(c)
    BY <1>3, <2>2 DEF CallerStep, OpenOwner, OpenOwnerFails, Duplicate, DuplicateFails,
         SpawnThrows, PollSeesDone, Deadline, GiveUp, LockState, ReturnName
  <2> QED
    BY <2>1, <2>2
<1>4. ASSUME NEW c \in Calls, QueryReturns(c) PROVE NameInv'
  <2>1. table[rawDuplicate[c]] = Object(c)
    BY <1>4 DEF QueryReturns, WorkerInv, CallsHoldValues, Duplicated
  <2> QED
    BY <1>4, <2>1 DEF QueryReturns
<1>5. ASSUME NEW c \in Calls, WorkerStep(c) PROVE NameInv'
  BY <1>5 DEF WorkerStep, WorkerLocks, WorkerWrites, WorkerFinishes
<1> QED
  BY <1>1, <1>2, <1>3, <1>4, <1>5 DEF Next

LEMMA WorkerStepInv == ASSUME TypeOK, WorkerInv, [Next]_vars PROVE WorkerInv'
<1> USE DEF WorkerInv, Goto, GivenUp
<1>0. /\ caller \in [Calls -> CallerPhases]
      /\ worker \in [Calls -> WorkerPhases]
      /\ done \in [Calls -> BOOLEAN]
      /\ DOMAIN result = Calls
  BY DEF TypeOK
<1>1. CASE UNCHANGED vars
  BY <1>1 DEF vars
<1>2. ASSUME NEW c \in Calls, Call(c) PROVE WorkerInv'
  BY <1>0, <1>2 DEF Call
<1>3. ASSUME NEW c \in Calls, CallerStep(c) PROVE WorkerInv'
  <2>1. CASE OpenOwner(c) \/ OpenOwnerFails(c)
    BY <1>0, <2>1 DEF OpenOwner, OpenOwnerFails
  <2>2. CASE Duplicate(c) \/ DuplicateFails(c)
    BY <1>0, <2>2 DEF Duplicate, DuplicateFails
  <2>3. CASE SpawnWorker(c) \/ SpawnThrows(c)
    BY <1>0, <2>3 DEF SpawnWorker, SpawnThrows
  <2>4. CASE PollSeesDone(c) \/ Deadline(c)
    BY <1>0, <2>4 DEF PollSeesDone, Deadline
  <2>5. CASE GiveUp(c)
    BY <1>0, <2>5 DEF GiveUp
  <2>6. CASE LockState(c)
    BY <1>0, <2>6 DEF LockState
  <2>7. CASE ReturnName(c)
    BY <1>0, <2>7 DEF ReturnName
  <2> QED
    BY <1>3, <2>1, <2>2, <2>3, <2>4, <2>5, <2>6, <2>7 DEF CallerStep
<1>4. ASSUME NEW c \in Calls, QueryReturns(c) PROVE WorkerInv'
  BY <1>0, <1>4 DEF QueryReturns
<1>5. ASSUME NEW c \in Calls, WorkerStep(c) PROVE WorkerInv'
  BY <1>0, <1>5 DEF WorkerStep, WorkerLocks, WorkerWrites, WorkerFinishes
<1> QED
  BY <1>1, <1>2, <1>3, <1>4, <1>5 DEF Next

LEMMA ValuesStep ==
  ASSUME TypeOK, CallsHoldValues, ValuesHaveOwners, WorkerInv, [Next]_vars
  PROVE  CallsHoldValues' /\ ValuesHaveOwners'
<1> USE ObjectsDiffer DEF CallsHoldValues, ValuesHaveOwners, Goto, GivenUp, Open, Duplicated
<1>0. /\ caller \in [Calls -> CallerPhases]
      /\ owner \in [Calls -> Handles \cup {None}]
      /\ rawDuplicate \in [Calls -> Handles \cup {None}]
      /\ table \in [Handles -> Objects \cup {None}]
      /\ DOMAIN result = Calls
      /\ \A c \in Calls : caller[c] # "returned" => result[c] # TimedOut
  BY DEF TypeOK, WorkerInv, Nothing, TimedOut
<1>1. CASE UNCHANGED vars
  BY <1>1 DEF vars
<1>2. ASSUME NEW c \in Calls, Call(c) PROVE CallsHoldValues' /\ ValuesHaveOwners'
  BY <1>0, <1>2 DEF Call
<1>3. ASSUME NEW c \in Calls, CallerStep(c) PROVE CallsHoldValues' /\ ValuesHaveOwners'
  <2>1. CASE OpenOwner(c)
    BY <1>0, <2>1 DEF OpenOwner, FreeHandles
  <2>2. CASE OpenOwnerFails(c)
    BY <1>0, <2>2 DEF OpenOwnerFails
  <2>3. CASE Duplicate(c)
    BY <1>0, <2>3 DEF Duplicate, FreeHandles
  <2>4. CASE DuplicateFails(c)
    BY <1>0, <2>4 DEF DuplicateFails, Close
  <2>5. CASE SpawnWorker(c)
    BY <1>0, <2>5 DEF SpawnWorker
  <2>6. CASE SpawnThrows(c)
    BY <1>0, <2>6 DEF SpawnThrows, Close
  <2>7. CASE PollSeesDone(c) \/ Deadline(c)
    BY <1>0, <2>7 DEF PollSeesDone, Deadline
  <2>8. CASE GiveUp(c)
    BY <1>0, <2>8 DEF GiveUp, Close
  <2>9. CASE LockState(c)
    BY <1>0, <2>9 DEF LockState
  <2>10. CASE ReturnName(c)
    <3>1. Resolved(name[c]) # TimedOut
      BY DEF Resolved, TimedOut
    <3>2. /\ table' = [h \in Handles |-> IF h \in {owner[c], rawDuplicate[c]} THEN None ELSE table[h]]
          /\ caller[c] = "reading" /\ caller' = [caller EXCEPT ![c] = "returned"]
          /\ result' = [result EXCEPT ![c] = Resolved(name[c])]
          /\ UNCHANGED <<owner, rawDuplicate>>
      BY <2>10 DEF ReturnName, Close
    <3> QED
      BY <1>0, <3>1, <3>2
  <2> QED
    BY <1>3, <2>1, <2>2, <2>3, <2>4, <2>5, <2>6, <2>7, <2>8, <2>9, <2>10 DEF CallerStep
<1>4. ASSUME NEW c \in Calls, QueryReturns(c) PROVE CallsHoldValues' /\ ValuesHaveOwners'
  BY <1>0, <1>4 DEF QueryReturns
<1>5. ASSUME NEW c \in Calls, WorkerStep(c) PROVE CallsHoldValues' /\ ValuesHaveOwners'
  BY <1>0, <1>5 DEF WorkerStep, WorkerLocks, WorkerWrites, WorkerFinishes
<1> QED
  BY <1>1, <1>2, <1>3, <1>4, <1>5 DEF Next

LEMMA InitIInv == Init => IInv
<1> SUFFICES ASSUME Init PROVE IInv
  OBVIOUS
<1>1. TypeOK
  BY InitTypeOK
<1>2. CallsHoldValues /\ ValuesHaveOwners
  BY ObjectsDiffer DEF Init, CallsHoldValues, ValuesHaveOwners, Open, Duplicated, GivenUp
<1>3. WorkerInv /\ NameInv
  BY DEF Init, WorkerInv, NameInv
<1> QED
  BY <1>1, <1>2, <1>3 DEF IInv

LEMMA IInvStep == IInv /\ [Next]_vars => IInv'
BY TypeStep, NameStep, WorkerStepInv, ValuesStep DEF IInv

THEOREM Invariance == Spec => []IInv
BY InitIInv, IInvStep, PTL DEF Spec

\* Every variable keeps its type, whatever calls and workers do.
THEOREM TypeCorrect == Spec => []TypeOK
<1>1. IInv => TypeOK
  BY DEF IInv
<1> QED
  BY Invariance, <1>1, PTL

\* While a worker may use the raw value, it stays open on the right object, for
\* any number of concurrent calls: no caller closes it, no call gets it again.
THEOREM NeverClosedInUse == Spec => []OpenWhileInUse
<1>1. IInv => OpenWhileInUse
  BY DEF IInv, OpenWhileInUse, WorkerInv, CallsHoldValues, Duplicated
<1> QED
  BY Invariance, <1>1, PTL

\* A finished call keeps no handle open, except one released duplicate when it
\* gave the query up.
THEOREM NothingElseLeaks == Spec => []FinishedCallsHoldNoHandle
<1>1. IInv => FinishedCallsHoldNoHandle
  BY DEF IInv, FinishedCallsHoldNoHandle, Finished, ValuesHaveOwners, GivenUp, Open, Duplicated
<1> QED
  BY Invariance, <1>1, PTL

-----------------------------------------------------------------------------
(* The implementation of HandleName.                                       *)

LEMMA StepKeepsPromise ==
  ASSUME IInv, IInv', [Next]_vars
  PROVE  [Promise!Next]_(Promise!absVars)
<1>0. /\ caller \in [Calls -> CallerPhases]
      /\ nameResult \in [Calls -> Calls \cup {NoName, Pending}]
      /\ DOMAIN result = Calls
  BY DEF IInv, TypeOK
<1> USE DEF Goto
\* A step that moves no caller across a phase and changes no answer stutters.
<1>s. ASSUME \A d \in Calls : PhaseOf(d)' = PhaseOf(d), UNCHANGED <<nameResult, result>>
      PROVE  UNCHANGED Promise!absVars
  BY <1>s DEF Promise!absVars
\* A caller that finishes with answer a.
<1>f. ASSUME NEW c \in Calls, NEW a, PhaseOf(c) = "asked", PhaseOf(c)' = "answered",
             \A d \in Calls \ {c} : PhaseOf(d)' = PhaseOf(d),
             result' = [result EXCEPT ![c] = a], UNCHANGED nameResult
      PROVE  Promise!AnswerWith(c, a)
  BY <1>f DEF Promise!AnswerWith
<1>1. CASE UNCHANGED vars
  BY <1>1, <1>s DEF vars, PhaseOf, Finished
<1>2. ASSUME NEW c \in Calls, Call(c) PROVE Promise!Ask(c)
  BY <1>0, <1>2 DEF Call, PhaseOf, Finished, Promise!Ask
<1>3. ASSUME NEW c \in Calls, QueryReturns(c) PROVE Promise!Decide(c)
  <2>1. nameResult[c] = Pending /\ PhaseOf(c) # "idle" /\ table[rawDuplicate[c]] = Object(c)
    BY <1>3 DEF QueryReturns, IInv, NameInv, WorkerInv, GivenUp, PhaseOf, Finished,
         CallsHoldValues, Duplicated
  <2>2. PICK n \in {NoName, c} : nameResult' = [nameResult EXCEPT ![c] = n]
    BY <1>3, <2>1, ObjectsDiffer DEF QueryReturns
  <2>3. \A d \in Calls : PhaseOf(d)' = PhaseOf(d)
    BY <1>3 DEF QueryReturns, PhaseOf, Finished
  <2> QED
    BY <1>3, <2>1, <2>2, <2>3 DEF QueryReturns, Promise!Decide
<1>4. ASSUME NEW c \in Calls, WorkerStep(c) PROVE UNCHANGED Promise!absVars
  BY <1>4, <1>s DEF WorkerStep, WorkerLocks, WorkerWrites, WorkerFinishes, PhaseOf, Finished
<1>5. ASSUME NEW c \in Calls, CallerStep(c)
      PROVE  Promise!AnswerName(c) \/ Promise!GiveUp(c) \/ UNCHANGED Promise!absVars
  <2>1. CASE OpenOwner(c) \/ Duplicate(c) \/ SpawnWorker(c) \/ PollSeesDone(c)
             \/ Deadline(c) \/ LockState(c)
    BY <1>0, <2>1, <1>s DEF OpenOwner, Duplicate, SpawnWorker, PollSeesDone, Deadline,
         LockState, PhaseOf, Finished
  <2>2. CASE OpenOwnerFails(c) \/ DuplicateFails(c) \/ SpawnThrows(c)
    <3>1. result' = [result EXCEPT ![c] = Nothing]
      <4>1. result[c] = Nothing /\ result' = result
        BY <2>2 DEF OpenOwnerFails, DuplicateFails, SpawnThrows, IInv, WorkerInv
      <4>2. result \in [Calls -> [resolved : BOOLEAN, timedOut : BOOLEAN, name : Calls \cup {NoName}]]
        BY DEF IInv, TypeOK
      <4> QED
        BY <4>1, <4>2
    <3>2. Promise!AnswerWith(c, Promise!Nothing)
      BY <1>0, <2>2, <3>1, <1>f DEF OpenOwnerFails, DuplicateFails, SpawnThrows,
           PhaseOf, Finished, Nothing, Promise!Nothing
    <3> QED
      BY <3>2 DEF Promise!GiveUp
  <2>3. CASE GiveUp(c)
    <3>1. Promise!AnswerWith(c, Promise!TimedOut)
      BY <1>0, <2>3, <1>f DEF GiveUp, PhaseOf, Finished, TimedOut, Promise!TimedOut
    <3> QED
      BY <3>1 DEF Promise!GiveUp
  <2>4. CASE ReturnName(c)
    <3>1. nameResult[c] # Pending /\ name[c] = nameResult[c]
      BY <2>4 DEF ReturnName, IInv, WorkerInv, NameInv
    <3>2. result' = [result EXCEPT ![c] = Promise!Resolved(nameResult[c])]
      BY <2>4, <3>1 DEF ReturnName, Resolved, Promise!Resolved
    <3>3. /\ PhaseOf(c) = "asked" /\ PhaseOf(c)' = "answered"
          /\ \A d \in Calls \ {c} : PhaseOf(d)' = PhaseOf(d)
          /\ UNCHANGED nameResult
      BY <1>0, <2>4 DEF ReturnName, PhaseOf, Finished
    <3>4. Promise!AnswerWith(c, Promise!Resolved(nameResult[c]))
      BY <3>2, <3>3, <1>f
    <3> QED
      BY <3>1, <3>4 DEF Promise!AnswerName
  <2> QED
    BY <1>5, <2>1, <2>2, <2>3, <2>4 DEF CallerStep
<1> QED
  BY <1>1, <1>2, <1>3, <1>4, <1>5, <1>s DEF Next, Promise!Next

\* resolveName implements HandleName, for any number of concurrent calls: an
\* answer with a name is what the object manager decided about that handle.
THEOREM Implements == Spec => KeepsPromise
<1>1. Init => Promise!Init
  BY DEF Init, Promise!Init, PhaseOf, Finished, Nothing, Promise!Nothing
<1>2. IInv /\ IInv' /\ [Next]_vars => [Promise!Next]_(Promise!absVars)
  BY StepKeepsPromise
<1> QED
  BY <1>1, <1>2, Invariance, PTL DEF Spec, KeepsPromise, Promise!Spec

=============================================================================
