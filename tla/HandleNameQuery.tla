--------------------------- MODULE HandleNameQuery ---------------------------
(***************************************************************************)
(* HandleManager::resolveName: calls that run concurrently, each with a    *)
(* detached worker thread that queries the name of a duplicated handle and *)
(* may block for ever, a shared state (mutex, name, done) and a deadline.  *)
(*                                                                         *)
(* Handle values are a resource of the process: a value that is closed is  *)
(* handed out again, so the table records what each open value denotes.    *)
(* The worker holds only the raw value.  A timeout is a step the caller    *)
(* may take at any time while it polls.                                    *)
(***************************************************************************)
EXTENDS FiniteSets

CONSTANTS
  Calls,    \* bound: the calls of resolveName, each made once
  Handles,  \* handle values of this process
  NoName, Pending,
  None      \* no handle, a closed value

ASSUME HandleAssumption ==
  /\ NoName \notin Calls
  /\ Pending \notin Calls \cup {NoName}
  /\ None \notin Handles
  /\ None \notin {"process", "object"} \X Calls

VARIABLES
  caller,        \* call -> where resolveName is
  worker,        \* call -> where the detached worker is
  owner,         \* call -> the handle `owner` holds
  rawDuplicate,  \* call -> the value the worker captured
  table,         \* handle value -> the object it is open on
  mutex,         \* call -> state->mutex: "free", "worker", "caller"
  nameResult,    \* call -> what queryObjectName returned to the worker
  name,          \* call -> state->name
  done,          \* call -> state->done
  result         \* call -> HandleObjectName, as returned

vars == <<caller, worker, owner, rawDuplicate, table, mutex, nameResult, name, done, result>>

Process(c) == <<"process", c>>
Object(c)  == <<"object", c>>
Objects    == {"process", "object"} \X Calls

Nothing     == [resolved |-> FALSE, timedOut |-> FALSE, name |-> NoName]
TimedOut    == [resolved |-> FALSE, timedOut |-> TRUE, name |-> NoName]
Resolved(n) == [resolved |-> TRUE, timedOut |-> FALSE, name |-> n]

CallerPhases == {"idle", "called", "opened", "duplicated", "polling", "checking", "reading",
                 "returned", "threw"}
WorkerPhases == {"none", "querying", "queried", "writing", "written", "exited"}

TypeOK ==
  /\ caller \in [Calls -> CallerPhases]
  /\ worker \in [Calls -> WorkerPhases]
  /\ owner \in [Calls -> Handles \cup {None}]
  /\ rawDuplicate \in [Calls -> Handles \cup {None}]
  /\ table \in [Handles -> Objects \cup {None}]
  /\ mutex \in [Calls -> {"free", "worker", "caller"}]
  /\ nameResult \in [Calls -> Calls \cup {NoName, Pending}]
  /\ name \in [Calls -> Calls \cup {NoName}]
  /\ done \in [Calls -> BOOLEAN]
  /\ result \in [Calls -> [resolved : BOOLEAN, timedOut : BOOLEAN, name : Calls \cup {NoName}]]

Init ==
  /\ caller = [c \in Calls |-> "idle"]
  /\ worker = [c \in Calls |-> "none"]
  /\ owner = [c \in Calls |-> None]
  /\ rawDuplicate = [c \in Calls |-> None]
  /\ table = [h \in Handles |-> None]
  /\ mutex = [c \in Calls |-> "free"]
  /\ nameResult = [c \in Calls |-> Pending]
  /\ name = [c \in Calls |-> NoName]
  /\ done = [c \in Calls |-> FALSE]
  /\ result = [c \in Calls |-> Nothing]

Goto(pc, c, from, to) == pc[c] = from /\ pc' = [pc EXCEPT ![c] = to]

FreeHandles == {h \in Handles : table[h] = None}
Close(hs)   == table' = [h \in Handles |-> IF h \in hs THEN None ELSE table[h]]

-----------------------------------------------------------------------------
(* The caller.                                                             *)

\* resolveName is entered.
Call(c) ==
  /\ Goto(caller, c, "idle", "called")
  /\ UNCHANGED <<worker, owner, rawDuplicate, table, mutex, nameResult, name, done, result>>

\* openProcess(ownerPid, PROCESS_DUP_HANDLE).
OpenOwner(c) ==
  /\ Goto(caller, c, "called", "opened")
  /\ \E h \in FreeHandles :
       /\ owner' = [owner EXCEPT ![c] = h]
       /\ table' = [table EXCEPT ![h] = Process(c)]
  /\ UNCHANGED <<worker, rawDuplicate, mutex, nameResult, name, done, result>>

OpenOwnerFails(c) ==
  /\ Goto(caller, c, "called", "returned")
  /\ UNCHANGED <<worker, owner, rawDuplicate, table, mutex, nameResult, name, done, result>>

Duplicate(c) ==
  /\ Goto(caller, c, "opened", "duplicated")
  /\ \E h \in FreeHandles :
       /\ rawDuplicate' = [rawDuplicate EXCEPT ![c] = h]
       /\ table' = [table EXCEPT ![h] = Object(c)]
  /\ UNCHANGED <<worker, owner, mutex, nameResult, name, done, result>>

\* The handle was closed in its owner, or may not be duplicated: `owner` closes.
DuplicateFails(c) ==
  /\ Goto(caller, c, "opened", "returned")
  /\ Close({owner[c]})
  /\ UNCHANGED <<worker, owner, rawDuplicate, mutex, nameResult, name, done, result>>

SpawnWorker(c) ==
  /\ Goto(caller, c, "duplicated", "polling")
  /\ worker' = [worker EXCEPT ![c] = "querying"]
  /\ UNCHANGED <<owner, rawDuplicate, table, mutex, nameResult, name, done, result>>

\* std::thread throws when no thread can be created; unwinding closes both handles.
SpawnThrows(c) ==
  /\ Goto(caller, c, "duplicated", "threw")
  /\ Close({owner[c], rawDuplicate[c]})
  /\ UNCHANGED <<worker, owner, rawDuplicate, mutex, nameResult, name, done, result>>

\* A poll finds the query done.
PollSeesDone(c) ==
  /\ done[c]
  /\ Goto(caller, c, "polling", "checking")
  /\ UNCHANGED <<worker, owner, rawDuplicate, table, mutex, nameResult, name, done, result>>

\* The loop without a deadline.
DeadlineNever(c) ==
  /\ done[c]
  /\ Goto(caller, c, "polling", "checking")
  /\ UNCHANGED <<worker, owner, rawDuplicate, table, mutex, nameResult, name, done, result>>

\* The clock passes the deadline between two polls.
Deadline(c) ==
  /\ Goto(caller, c, "polling", "checking")
  /\ UNCHANGED <<worker, owner, rawDuplicate, table, mutex, nameResult, name, done, result>>

\* The timeout path if it closed the duplicate instead of releasing it.
GiveUpClosingDuplicate(c) ==
  /\ ~done[c]
  /\ Goto(caller, c, "checking", "returned")
  /\ result' = [result EXCEPT ![c] = TimedOut]
  /\ Close({owner[c], rawDuplicate[c]})
  /\ UNCHANGED <<worker, owner, rawDuplicate, mutex, nameResult, name, done>>

\* Still not done: the duplicate is released, not closed; `owner` closes.
GiveUp(c) ==
  /\ ~done[c]
  /\ Goto(caller, c, "checking", "returned")
  /\ result' = [result EXCEPT ![c] = TimedOut]
  /\ Close({owner[c]})
  /\ UNCHANGED <<worker, owner, rawDuplicate, mutex, nameResult, name, done>>

LockState(c) ==
  /\ done[c]
  /\ mutex[c] = "free"
  /\ Goto(caller, c, "checking", "reading")
  /\ mutex' = [mutex EXCEPT ![c] = "caller"]
  /\ UNCHANGED <<worker, owner, rawDuplicate, table, nameResult, name, done, result>>

\* The duplicate released, and so leaked, after an answer too.
ReturnNameLeaking(c) ==
  /\ Goto(caller, c, "reading", "returned")
  /\ result' = [result EXCEPT ![c] = Resolved(name[c])]
  /\ mutex' = [mutex EXCEPT ![c] = "free"]
  /\ Close({owner[c]})
  /\ UNCHANGED <<worker, owner, rawDuplicate, nameResult, name, done>>

\* result.name = state->name; then lock, duplicate and owner are destroyed.
ReturnName(c) ==
  /\ Goto(caller, c, "reading", "returned")
  /\ result' = [result EXCEPT ![c] = Resolved(name[c])]
  /\ mutex' = [mutex EXCEPT ![c] = "free"]
  /\ Close({owner[c], rawDuplicate[c]})
  /\ UNCHANGED <<worker, owner, rawDuplicate, nameResult, name, done>>

-----------------------------------------------------------------------------
(* The worker.                                                             *)

\* state->done stored before the lock is taken to write the name.
QueryReturnsDone(c) ==
  /\ Goto(worker, c, "querying", "queried")
  /\ \E n \in {NoName} \cup {d \in Calls : table[rawDuplicate[c]] = Object(d)} :
       nameResult' = [nameResult EXCEPT ![c] = n]
  /\ done' = [done EXCEPT ![c] = TRUE]
  /\ UNCHANGED <<caller, owner, rawDuplicate, table, mutex, name, result>>

\* queryObjectName returns the name of whatever the captured value is open on
\* at that moment, or fails; on some objects it never returns.
QueryReturns(c) ==
  /\ Goto(worker, c, "querying", "queried")
  /\ \E n \in {NoName} \cup {d \in Calls : table[rawDuplicate[c]] = Object(d)} :
       nameResult' = [nameResult EXCEPT ![c] = n]
  /\ UNCHANGED <<caller, owner, rawDuplicate, table, mutex, name, done, result>>

WorkerLocks(c) ==
  /\ mutex[c] = "free"
  /\ Goto(worker, c, "queried", "writing")
  /\ mutex' = [mutex EXCEPT ![c] = "worker"]
  /\ UNCHANGED <<caller, owner, rawDuplicate, table, nameResult, name, done, result>>

\* The block with the scoped_lock ends: the name is written and the mutex free.
WorkerWrites(c) ==
  /\ Goto(worker, c, "writing", "written")
  /\ name' = [name EXCEPT ![c] = nameResult[c]]
  /\ mutex' = [mutex EXCEPT ![c] = "free"]
  /\ UNCHANGED <<caller, owner, rawDuplicate, table, nameResult, done, result>>

\* done.store; the thread ends and drops its reference to the state.
WorkerFinishes(c) ==
  /\ Goto(worker, c, "written", "exited")
  /\ done' = [done EXCEPT ![c] = TRUE]
  /\ UNCHANGED <<caller, owner, rawDuplicate, table, mutex, nameResult, name, result>>

-----------------------------------------------------------------------------

CallerStep(c) ==
  \/ OpenOwner(c)    \/ OpenOwnerFails(c)
  \/ Duplicate(c)    \/ DuplicateFails(c)
  \/ SpawnWorker(c)  \/ SpawnThrows(c)
  \/ PollSeesDone(c) \/ Deadline(c)
  \/ GiveUp(c)       \/ LockState(c)      \/ ReturnName(c)

WorkerStep(c) == WorkerLocks(c) \/ WorkerWrites(c) \/ WorkerFinishes(c)

Next == \E c \in Calls : Call(c) \/ CallerStep(c) \/ QueryReturns(c) \/ WorkerStep(c)

Spec == Init /\ [][Next]_vars

\* A call that was started and a worker that has its answer keep being
\* scheduled.  Nothing is assumed of QueryReturns: a query may block for ever.
Fairness == \A c \in Calls :
  /\ WF_vars(CallerStep(c))
  /\ WF_vars(WorkerStep(c))

FairSpec == Spec /\ Fairness

-----------------------------------------------------------------------------
(* Properties.                                                             *)

Finished(c) == caller[c] \in {"returned", "threw"}

\* While a worker may still pass the raw value to the kernel, the value is
\* open on the object the worker was started for: no path of the caller closes
\* it and no other call is handed the value.
OpenWhileInUse == \A c \in Calls : worker[c] = "querying" => table[rawDuplicate[c]] = Object(c)

\* A finished call holds no handle, on any path, except the duplicate of a
\* query that was given up.
FinishedCallsHoldNoHandle ==
  \A c \in Calls : Finished(c) =>
    \A h \in Handles : /\ table[h] # Process(c)
                       /\ table[h] = Object(c) => result[c] = TimedOut /\ h = rawDuplicate[c]

PhaseOf(c) == IF caller[c] = "idle" THEN "idle" ELSE IF Finished(c) THEN "answered" ELSE "asked"

Promise == INSTANCE HandleName WITH
  phase   <- [c \in Calls |-> PhaseOf(c)],
  outcome <- nameResult,
  answer  <- result

\* The concurrent implementation keeps the promise of HandleName: an answer
\* with a name is the object manager's decision about the handle asked for.
KeepsPromise == Promise!Spec

\* HandleManager.cpp:139-142: "the UI is never held hostage".  A call that was
\* started finishes, though its query may block for ever.
EveryCallFinishes == \A c \in Calls : caller[c] # "idle" ~> Finished(c)

\* HandleManager.cpp:139-141: state and the duplicated handle, "both are released
\* if/when it eventually unblocks".  Once the caller has finished and the worker
\* has run to its end, the duplicate is closed.
DuplicateIsReleased ==
  \A c \in Calls : Finished(c) /\ worker[c] = "exited" =>
    \A h \in Handles : table[h] # Object(c)

=============================================================================
