--------------------------- MODULE SymbolResolver ---------------------------
(***************************************************************************)
(* core/symbols/SymbolResolver: resolvers are created, shared for lookups, *)
(* moved and destroyed by several threads.  dbghelp keeps one session per  *)
(* process handle value and is not thread-safe; a handle value is reused   *)
(* once it is closed.                                                      *)
(*                                                                         *)
(* What dbghelp is called for is not modelled, only who is inside it: a    *)
(* thread at a pc of InDbghelp.  The three lookups of resolve() are one    *)
(* stay, because the mutex is held across them.  Whoever creates, moves or *)
(* destroys a resolver is the only thread that uses it then, as C++ asks   *)
(* of every caller.                                                        *)
(***************************************************************************)
EXTENDS Naturals

CONSTANTS
  Threads,
  Objects,   \* SymbolResolver variables of the program
  Handles,   \* process handle values
  NoHandle,  \* the invalid handle
  Nobody     \* no thread, no object

ASSUME ResolverAssumption ==
  /\ NoHandle \notin Handles
  /\ Nobody \notin Threads \cup Objects

VARIABLES
  open,      \* handle values open in this process
  sessions,  \* dbghelp: handle values that have a session
  object,    \* process_ and initialized_ of each resolver that lives
  holder,    \* mutex_
  thread     \* what each thread is doing with which resolver

vars == <<open, sessions, object, holder, thread>>

\* Search paths a caller may ask for: none, one without and one with a server.
Paths == {"env", "local", "remote"}

Task(pc, o, src, h) == [pc |-> pc, obj |-> o, src |-> src, handle |-> h]
Idle == Task("idle", Nobody, Nobody, NoHandle)

InDbghelp == {"set_options", "initialize", "lookup", "cleanup"}

\* A variable that holds no resolver, and a resolver that was moved from.
Dead    == [alive |-> FALSE, handle |-> NoHandle, ready |-> FALSE]
Emptied == [alive |-> TRUE, handle |-> NoHandle, ready |-> FALSE]

TypeOK ==
  /\ open \subseteq Handles
  /\ sessions \subseteq Handles
  /\ object \in [Objects -> [alive : BOOLEAN, handle : Handles \cup {NoHandle}, ready : BOOLEAN]]
  /\ \A o \in Objects : object[o].ready => object[o].alive /\ object[o].handle # NoHandle
  /\ holder \in [Objects -> Threads \cup {Nobody}]
  /\ thread \in [Threads ->
       [pc : {"idle", "waiting", "assign", "destroy"} \cup InDbghelp,
        obj : Objects \cup {Nobody}, src : Objects \cup {Nobody},
        handle : Handles \cup {NoHandle}]]

Init ==
  /\ open = {}
  /\ sessions = {}
  /\ object = [o \in Objects |-> Dead]
  /\ holder = [o \in Objects |-> Nobody]
  /\ thread = [t \in Threads |-> Idle]

Unused(o) == \A t \in Threads : thread[t].obj # o /\ thread[t].src # o

-----------------------------------------------------------------------------
(* create                                                                  *)

containsRemoteComponent(path) == path = "remote"

\* A remote path is rejected unless it is allowed, and openProcess may fail;
\* either returns an error and changes nothing.
Create(t, o, path, allow, h) ==
  /\ thread[t].pc = "idle"
  /\ ~object[o].alive /\ Unused(o)
  /\ allow \/ ~containsRemoteComponent(path)
  /\ h \in Handles \ open
  /\ open' = open \cup {h}
  /\ thread' = [thread EXCEPT ![t] = Task("set_options", o, Nobody, h)]
  /\ UNCHANGED <<sessions, object, holder>>

\* SymSetOptions returns and SymInitializeW is entered, neither under a lock.
OptionsAreSet(t) ==
  /\ thread[t].pc = "set_options"
  /\ thread' = [thread EXCEPT ![t].pc = "initialize"]
  /\ UNCHANGED <<open, sessions, object, holder>>

Initialized(t) ==
  /\ thread[t].pc = "initialize"
  /\ thread[t].handle \notin sessions
  /\ sessions' = sessions \cup {thread[t].handle}
  /\ object' = [object EXCEPT ![thread[t].obj] = [alive |-> TRUE, handle |-> thread[t].handle,
                                                  ready |-> TRUE]]
  /\ thread' = [thread EXCEPT ![t] = Idle]
  /\ UNCHANGED <<open, holder>>

\* SymInitializeW fails, as it does for a handle that has a session already.
InitializeFails(t) ==
  /\ thread[t].pc = "initialize"
  /\ open' = open \ {thread[t].handle}
  /\ thread' = [thread EXCEPT ![t] = Idle]
  /\ UNCHANGED <<sessions, object, holder>>

-----------------------------------------------------------------------------
(* resolve                                                                 *)

\* initialized_ is read before the lock is taken.
Resolve(t, o) ==
  /\ thread[t].pc = "idle"
  /\ object[o].alive /\ object[o].ready
  /\ \A u \in Threads : thread[u].obj = o => thread[u].pc \in {"waiting", "lookup"}
  /\ \A u \in Threads : thread[u].src # o
  /\ thread' = [thread EXCEPT ![t] = Task("waiting", o, Nobody, NoHandle)]
  /\ UNCHANGED <<open, sessions, object, holder>>

\* A lookup that does not wait for the lock.
LookupUnlocked(t) ==
  /\ thread[t].pc = "waiting"
  /\ thread' = [thread EXCEPT ![t].pc = "lookup", ![t].handle = object[thread[t].obj].handle]
  /\ UNCHANGED <<open, sessions, object, holder>>

Lookup(t) ==
  /\ thread[t].pc = "waiting"
  /\ holder[thread[t].obj] = Nobody
  /\ holder' = [holder EXCEPT ![thread[t].obj] = t]
  /\ thread' = [thread EXCEPT ![t].pc = "lookup", ![t].handle = object[thread[t].obj].handle]
  /\ UNCHANGED <<open, sessions, object>>

Resolved(t) ==
  /\ thread[t].pc = "lookup"
  /\ holder' = [holder EXCEPT ![thread[t].obj] = Nobody]
  /\ thread' = [thread EXCEPT ![t] = Idle]
  /\ UNCHANGED <<open, sessions, object>>

-----------------------------------------------------------------------------
(* Moves and destruction.  Both begin with release() of the resolver that  *)
(* gives up its session: under the lock when it has one, nothing otherwise. *)

\* release() forgotten, as a defaulted move assignment would.
ReleaseNothing(t, o, src, then) ==
  /\ thread' = [thread EXCEPT ![t] = Task(then, o, src, NoHandle)]
  /\ UNCHANGED <<open, sessions, object, holder>>

Release(t, o, src, then) ==
  IF object[o].ready /\ object[o].handle # NoHandle
  THEN /\ holder[o] = Nobody
       /\ holder' = [holder EXCEPT ![o] = t]
       /\ thread' = [thread EXCEPT ![t] = Task("cleanup", o, src, object[o].handle)]
       /\ UNCHANGED <<open, sessions, object>>
  ELSE /\ thread' = [thread EXCEPT ![t] = Task(then, o, src, NoHandle)]
       /\ UNCHANGED <<open, sessions, object, holder>>

CleanedUp(t) ==
  /\ thread[t].pc = "cleanup"
  /\ LET o == thread[t].obj IN
     /\ sessions' = sessions \ {thread[t].handle}
     /\ object' = [object EXCEPT ![o].ready = FALSE]
     /\ holder' = [holder EXCEPT ![o] = Nobody]
  /\ thread' = [thread EXCEPT ![t].pc = IF thread[t].src = Nobody THEN "destroy" ELSE "assign"]
  /\ UNCHANGED <<open>>

Destroy(t, o) ==
  /\ thread[t].pc = "idle"
  /\ object[o].alive /\ Unused(o)
  /\ Release(t, o, Nobody, "destroy")

MoveAssign(t, o, src) ==
  /\ thread[t].pc = "idle"
  /\ o # src
  /\ object[o].alive /\ Unused(o)
  /\ object[src].alive /\ Unused(src)
  /\ Release(t, o, src, "assign")

Destroyed(t) ==
  /\ thread[t].pc = "destroy"
  /\ open' = open \ {object[thread[t].obj].handle}
  /\ object' = [object EXCEPT ![thread[t].obj] = Dead]
  /\ thread' = [thread EXCEPT ![t] = Idle]
  /\ UNCHANGED <<sessions, holder>>

\* process_ closes the handle it held and takes over the other one.
Assigned(t) ==
  /\ thread[t].pc = "assign"
  /\ LET o == thread[t].obj  src == thread[t].src IN
     /\ open' = open \ {object[o].handle}
     /\ object' = [object EXCEPT ![o] = object[src], ![src] = Emptied]
  /\ thread' = [thread EXCEPT ![t] = Idle]
  /\ UNCHANGED <<sessions, holder>>

MoveConstruct(t, o, src) ==
  /\ thread[t].pc = "idle"
  /\ ~object[o].alive /\ Unused(o)
  /\ object[src].alive /\ Unused(src)
  /\ object' = [object EXCEPT ![o] = object[src], ![src] = Emptied]
  /\ UNCHANGED <<open, sessions, holder, thread>>

-----------------------------------------------------------------------------

Next == \E t \in Threads :
  \/ \E o \in Objects, path \in Paths, allow \in BOOLEAN, h \in Handles :
       Create(t, o, path, allow, h)
  \/ OptionsAreSet(t)
  \/ Initialized(t)
  \/ InitializeFails(t)
  \/ \E o \in Objects : Resolve(t, o) \/ Destroy(t, o)
  \/ Lookup(t)
  \/ Resolved(t)
  \/ CleanedUp(t)
  \/ Destroyed(t)
  \/ Assigned(t)
  \/ \E o, src \in Objects : MoveAssign(t, o, src) \/ MoveConstruct(t, o, src)

Spec == Init /\ [][Next]_vars

-----------------------------------------------------------------------------
(* Properties.                                                             *)

\* Every dbghelp session is that of one living resolver with an open handle:
\* moving and destroying never leave a session under a handle value that was
\* closed, where the next process opened under that value would find it.  And
\* whoever is inside a lookup or a cleanup is there for a session that exists,
\* however long it waited for the lock.
SessionsAreOwned ==
  /\ \A h \in sessions :
       /\ h \in open
       /\ \E o \in Objects : object[o].ready /\ object[o].handle = h
       /\ \A o, p \in Objects :
            object[o].ready /\ object[p].ready /\ object[o].handle = h /\ object[p].handle = h
              => o = p
  /\ \A t \in Threads :
       thread[t].pc \in {"lookup", "cleanup"} => thread[t].handle \in sessions

\* SymbolResolver.hpp:5-7: a single resolver can be shared across threads, its
\* calls of dbghelp never overlap.
OneResolverIsSerialized ==
  \A t, u \in Threads :
    /\ t # u
    /\ thread[t].pc \in InDbghelp /\ thread[u].pc \in InDbghelp
    => thread[t].obj # thread[u].obj

=============================================================================
