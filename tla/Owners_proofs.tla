---------------------------- MODULE Owners_proofs ----------------------------
(***************************************************************************)
(* Proofs about SymbolResolver, ScopedPrivilege and MappedFile for any     *)
(* number of threads, variables, handles, files and sizes.                 *)
(***************************************************************************)
EXTENDS Owners, TLAPS

-----------------------------------------------------------------------------
(* SymbolResolver: whoever holds a handle, holds it alone, and whoever     *)
(* changes a resolver is alone with it; so a session cannot lose its       *)
(* handle, nor a lookup its session.                                       *)

Creating(t)  == thread[t].pc \in {"set_options", "initialize"}
Using(t)     == thread[t].pc \in {"waiting", "lookup"}
Releasing(t) == thread[t].pc \in {"cleanup", "assign", "destroy"}

\* Every handle that a resolver, or a thread that creates one, has is open and
\* nobody else's.
HeldOpen     == \A o \in Objects : object[o].handle # NoHandle => object[o].handle \in open
HeldOnce     == \A o, p \in Objects :
                  object[o].handle # NoHandle /\ object[o].handle = object[p].handle => o = p
CreatedOpen  == \A t \in Threads : Creating(t) => thread[t].handle \in open \cap Handles
CreatedOnce  == \A t, u \in Threads :
                  Creating(t) /\ Creating(u) /\ thread[t].handle = thread[u].handle => t = u
CreatedApart == \A t \in Threads, o \in Objects :
                  Creating(t) => thread[t].handle # object[o].handle
HandlesInv   == HeldOpen /\ HeldOnce /\ CreatedOpen /\ CreatedOnce /\ CreatedApart

\* Sessions are those of the resolvers that are ready.
SessionsInv ==
  /\ \A h \in sessions : \E o \in Objects : object[o].ready /\ object[o].handle = h
  /\ \A o \in Objects : object[o].ready => object[o].handle \in sessions
  /\ \A o \in Objects : ~object[o].alive => object[o].handle = NoHandle

\* What a thread is doing is possible.
Doing(t) ==
  /\ thread[t].pc = "idle" => thread[t].obj = Nobody /\ thread[t].src = Nobody
  /\ thread[t].pc # "idle" => thread[t].obj \in Objects
  /\ Creating(t) => ~object[thread[t].obj].alive /\ thread[t].src = Nobody
  /\ Using(t) => object[thread[t].obj].ready /\ thread[t].src = Nobody
  /\ thread[t].pc = "cleanup" => object[thread[t].obj].ready
  /\ thread[t].pc \in {"assign", "destroy"} => ~object[thread[t].obj].ready
  /\ thread[t].pc = "assign" => thread[t].src \in Objects
  /\ thread[t].pc = "destroy" => thread[t].src = Nobody
  /\ thread[t].src # Nobody => object[thread[t].src].alive
  /\ thread[t].pc \in {"lookup", "cleanup"} =>
       /\ thread[t].handle = object[thread[t].obj].handle
       /\ holder[thread[t].obj] = t
DoingInv == \A t \in Threads : Doing(t)

\* A resolver that several threads are busy with is looked at by all of them,
\* and one that is moved from is nobody else's.
AloneInv ==
  /\ \A t, u \in Threads :
       t # u /\ thread[t].obj = thread[u].obj /\ thread[t].obj # Nobody => Using(t) /\ Using(u)
  /\ \A t, u \in Threads :
       thread[t].src # Nobody =>
         /\ thread[u].obj # thread[t].src
         /\ thread[u].src = thread[t].src => t = u

ResolverInv == TypeOK /\ HandlesInv /\ SessionsInv /\ DoingInv /\ AloneInv

LEMMA ResolverInit == Init => ResolverInv
BY ResolverAssumption
   DEF Init, ResolverInv, TypeOK, HandlesInv, HeldOpen, HeldOnce, CreatedOpen, CreatedOnce, CreatedApart, SessionsInv, DoingInv, Doing, AloneInv, Dead, Idle, Task,
       Creating, Using

LEMMA CreateStep ==
  ASSUME ResolverInv, NEW t \in Threads, NEW o \in Objects, NEW path, NEW allow,
         NEW h \in Handles, Create(t, o, path, allow, h)
  PROVE  ResolverInv'
<1>1. \A u \in Threads : thread'[u] = IF u = t THEN [pc |-> "set_options", obj |-> o,
                                                     src |-> Nobody, handle |-> h]
                                      ELSE thread[u]
  BY DEF Create, ResolverInv, TypeOK, Task
<1>2. /\ UNCHANGED <<sessions, object, holder>> /\ open' = open \cup {h} /\ h \notin open
      /\ ~object[o].alive /\ Unused(o) /\ thread[t].pc = "idle"
  BY DEF Create
<1>3. TypeOK'
  BY <1>2 DEF Create, ResolverInv, TypeOK, InDbghelp, Task
<1>4. HandlesInv'
  <2>1. HeldOpen' /\ HeldOnce'
    BY <1>2 DEF ResolverInv, HandlesInv, HeldOpen, HeldOnce
  <2>2. \A u \in Threads : u # t => Creating(u)' = Creating(u) /\ thread'[u] = thread[u]
    BY <1>1 DEF Creating
  <2>3. CreatedOpen'
    BY <1>1, <1>2, <2>2 DEF ResolverInv, HandlesInv, CreatedOpen
  <2>4. CreatedOnce'
    BY <1>1, <1>2, <2>2 DEF ResolverInv, HandlesInv, CreatedOnce, CreatedOpen
  <2>5. CreatedApart'
    BY <1>1, <1>2, <2>2, ResolverAssumption
       DEF ResolverInv, HandlesInv, CreatedApart, HeldOpen
  <2> QED
    BY <2>1, <2>3, <2>4, <2>5 DEF HandlesInv
<1>5. SessionsInv'
  BY <1>2 DEF ResolverInv, SessionsInv
<1>6. DoingInv'
  BY <1>1, <1>2 DEF ResolverInv, DoingInv, Doing, Creating, Using
<1>7. AloneInv'
  BY <1>1, <1>2, ResolverAssumption DEF ResolverInv, AloneInv, Using, Unused, DoingInv, Doing
<1> QED
  BY <1>3, <1>4, <1>5, <1>6, <1>7 DEF ResolverInv

LEMMA OptionsAreSetStep ==
  ASSUME ResolverInv, NEW t \in Threads, OptionsAreSet(t)
  PROVE  ResolverInv'
<1>1. \A u \in Threads : thread'[u] =
        IF u = t THEN [pc |-> "initialize", obj |-> thread[t].obj, src |-> thread[t].src,
                       handle |-> thread[t].handle]
        ELSE thread[u]
  BY DEF OptionsAreSet, ResolverInv, TypeOK
<1>2. UNCHANGED <<open, sessions, object, holder>> /\ thread[t].pc = "set_options"
  BY DEF OptionsAreSet
<1>3. TypeOK'
  <2>1. thread[t] \in [pc : {"idle", "waiting", "assign", "destroy"} \cup InDbghelp,
                       obj : Objects \cup {Nobody}, src : Objects \cup {Nobody},
                       handle : Handles \cup {NoHandle}]
    BY DEF ResolverInv, TypeOK
  <2>2. [thread[t] EXCEPT !.pc = "initialize"] \in
          [pc : {"idle", "waiting", "assign", "destroy"} \cup InDbghelp,
           obj : Objects \cup {Nobody}, src : Objects \cup {Nobody},
           handle : Handles \cup {NoHandle}]
    BY <2>1 DEF InDbghelp
  <2> QED
    BY <1>2, <2>2 DEF OptionsAreSet, ResolverInv, TypeOK
<1>4. \A u \in Threads : /\ Creating(u)' = Creating(u) /\ Using(u)' = Using(u)
                         /\ thread'[u].obj = thread[u].obj /\ thread'[u].src = thread[u].src
                         /\ thread'[u].handle = thread[u].handle
  BY <1>1, <1>2 DEF Creating, Using, ResolverInv, TypeOK
<1>5. HandlesInv'
  BY <1>2, <1>4 DEF ResolverInv, HandlesInv, HeldOpen, HeldOnce, CreatedOpen, CreatedOnce,
                    CreatedApart
<1>6. SessionsInv'
  BY <1>2 DEF ResolverInv, SessionsInv
<1>7. DoingInv'
  BY <1>1, <1>2, <1>4 DEF ResolverInv, DoingInv, Doing
<1>8. AloneInv'
  BY <1>4 DEF ResolverInv, AloneInv
<1> QED
  BY <1>3, <1>5, <1>6, <1>7, <1>8 DEF ResolverInv

LEMMA InitializedStep ==
  ASSUME ResolverInv, NEW t \in Threads, Initialized(t)
  PROVE  ResolverInv'
<1> DEFINE o == thread[t].obj
           h == thread[t].handle
<1>1. \A u \in Threads : thread'[u] = IF u = t THEN Idle ELSE thread[u]
  BY DEF Initialized, ResolverInv, TypeOK
<1>2. /\ o \in Objects /\ ~object[o].alive /\ h \in open \cap Handles /\ h # NoHandle
      /\ thread[t].src = Nobody
  BY ResolverAssumption
     DEF Initialized, ResolverInv, HandlesInv, CreatedOpen, DoingInv, Doing, Creating
<1>3. \A p \in Objects : object'[p] = IF p = o THEN [alive |-> TRUE, handle |-> h, ready |-> TRUE]
                                      ELSE object[p]
  BY DEF Initialized, ResolverInv, TypeOK
<1>4. UNCHANGED <<open, holder>> /\ sessions' = sessions \cup {h} /\ Creating(t)
  BY DEF Initialized, Creating
<1>5. \A u \in Threads : u # t => thread[u].obj # o /\ thread[u].src # o
  BY <1>2, <1>4, ResolverAssumption DEF ResolverInv, AloneInv, Using, Creating, DoingInv, Doing
<1>6. TypeOK'
  <2>1. /\ object' \in [Objects -> [alive : BOOLEAN, handle : Handles \cup {NoHandle},
                                    ready : BOOLEAN]]
        /\ \A p \in Objects : object'[p].ready => object'[p].alive /\ object'[p].handle # NoHandle
    BY <1>2, <1>3 DEF Initialized, ResolverInv, TypeOK
  <2> QED
    BY <1>2, <1>4, <2>1 DEF Initialized, ResolverInv, TypeOK, Idle, Task
<1>7. ~Creating(t)' /\ \A u \in Threads : u # t => Creating(u)' = Creating(u) /\ Using(u)' = Using(u)
  BY <1>1 DEF Creating, Using, Idle, Task
<1>8. HandlesInv'
  <2>1. HeldOpen' /\ HeldOnce'
    BY <1>2, <1>3, <1>4 DEF ResolverInv, HandlesInv, HeldOpen, HeldOnce, CreatedApart
  <2>2. CreatedOpen' /\ CreatedOnce'
    BY <1>1, <1>4, <1>7 DEF ResolverInv, HandlesInv, CreatedOpen, CreatedOnce
  <2>3. CreatedApart'
    BY <1>1, <1>3, <1>4, <1>7 DEF ResolverInv, HandlesInv, CreatedApart, CreatedOnce
  <2> QED
    BY <2>1, <2>2, <2>3 DEF HandlesInv
<1>9. SessionsInv'
  <2>1. \A g \in sessions' : \E p \in Objects : object'[p].ready /\ object'[p].handle = g
    <3> SUFFICES ASSUME NEW g \in sessions'
                 PROVE  \E p \in Objects : object'[p].ready /\ object'[p].handle = g
      OBVIOUS
    <3>1. CASE g = h
      BY <1>2, <1>3, <3>1
    <3>2. CASE g \in sessions
      <4>1. PICK p \in Objects : object[p].ready /\ object[p].handle = g
        BY <3>2 DEF ResolverInv, SessionsInv
      <4>2. p # o
        BY <1>2, <4>1 DEF ResolverInv, TypeOK
      <4> QED
        BY <1>3, <4>1, <4>2
    <3> QED
      BY <1>4, <3>1, <3>2
  <2> QED
    BY <1>2, <1>3, <1>4, <2>1 DEF ResolverInv, SessionsInv
<1>10. DoingInv'
  <2>1. Doing(t)'
    BY <1>1, <1>7 DEF Doing, Idle, Task, Using
  <2>2. ASSUME NEW u \in Threads, u # t
        PROVE  Doing(u)'
    <3>1. thread'[u] = thread[u] /\ Creating(u)' = Creating(u) /\ Using(u)' = Using(u)
      BY <1>1, <1>7, <2>2
    <3>2. /\ thread[u].obj \in Objects => object'[thread[u].obj] = object[thread[u].obj]
          /\ thread[u].src \in Objects => object'[thread[u].src] = object[thread[u].src]
      BY <1>3, <1>5, <2>2
    <3>3. thread[u].src \in Objects \cup {Nobody} /\ Doing(u)
      BY DEF ResolverInv, TypeOK, DoingInv
    <3>4. Creating(u) \/ Using(u) \/ thread[u].pc \in {"cleanup", "assign", "destroy"}
            => thread[u].obj \in Objects
      BY <3>3 DEF Doing, Creating, Using
    <3> QED
      BY <1>4, <3>1, <3>2, <3>3, <3>4 DEF Doing, Using
  <2> QED
    BY <2>1, <2>2 DEF DoingInv
<1>11. AloneInv'
  BY <1>1, <1>7, ResolverAssumption DEF ResolverInv, AloneInv, Idle, Task, Using
<1> QED
  BY <1>6, <1>8, <1>9, <1>10, <1>11 DEF ResolverInv

LEMMA InitializeFailsStep ==
  ASSUME ResolverInv, NEW t \in Threads, InitializeFails(t)
  PROVE  ResolverInv'
<1>1. \A u \in Threads : thread'[u] = IF u = t THEN Idle ELSE thread[u]
  BY DEF InitializeFails, ResolverInv, TypeOK
<1>2. /\ UNCHANGED <<sessions, object, holder>> /\ open' = open \ {thread[t].handle}
      /\ Creating(t)
  BY DEF InitializeFails, Creating
<1>3. TypeOK'
  BY <1>2 DEF InitializeFails, ResolverInv, TypeOK, Idle, Task
<1>4. ~Creating(t)' /\ \A u \in Threads : u # t => Creating(u)' = Creating(u) /\ Using(u)' = Using(u)
  BY <1>1 DEF Creating, Using, Idle, Task
<1>5. HandlesInv'
  BY <1>1, <1>2, <1>4 DEF ResolverInv, HandlesInv, HeldOpen, HeldOnce, CreatedOpen,
                          CreatedOnce, CreatedApart
<1>6. SessionsInv'
  BY <1>2 DEF ResolverInv, SessionsInv
<1>7. DoingInv'
  BY <1>1, <1>2, <1>4, ResolverAssumption DEF ResolverInv, DoingInv, Doing, Idle, Task, Using
<1>8. AloneInv'
  BY <1>1, <1>4, ResolverAssumption DEF ResolverInv, AloneInv, Idle, Task, Using
<1> QED
  BY <1>3, <1>5, <1>6, <1>7, <1>8 DEF ResolverInv

LEMMA ResolveStep ==
  ASSUME ResolverInv, NEW t \in Threads, NEW o \in Objects, Resolve(t, o)
  PROVE  ResolverInv'
<1>1. \A u \in Threads : thread'[u] =
        IF u = t THEN [pc |-> "waiting", obj |-> o, src |-> Nobody, handle |-> NoHandle]
        ELSE thread[u]
  BY DEF Resolve, ResolverInv, TypeOK, Task
<1>2. /\ UNCHANGED <<open, sessions, object, holder>> /\ thread[t].pc = "idle"
      /\ object[o].ready
      /\ \A u \in Threads : thread[u].obj = o => Using(u)
      /\ \A u \in Threads : thread[u].src # o
  BY DEF Resolve, Using
<1>3. TypeOK'
  BY <1>2 DEF Resolve, ResolverInv, TypeOK, Idle, Task
<1>4. /\ ~Creating(t)' /\ ~Creating(t) /\ Using(t)'
      /\ \A u \in Threads : u # t => Creating(u)' = Creating(u) /\ Using(u)' = Using(u)
  BY <1>1, <1>2 DEF Creating, Using, Idle, Task
<1>5. HandlesInv'
  BY <1>1, <1>2, <1>4 DEF ResolverInv, HandlesInv, HeldOpen, HeldOnce, CreatedOpen,
                          CreatedOnce, CreatedApart
<1>6. SessionsInv'
  BY <1>2 DEF ResolverInv, SessionsInv
<1>7. DoingInv'
  BY <1>1, <1>2, <1>4, ResolverAssumption DEF ResolverInv, DoingInv, Doing, Idle, Task, Using
<1>8. AloneInv'
  BY <1>1, <1>2, <1>4, ResolverAssumption DEF ResolverInv, AloneInv, Idle, Task
<1> QED
  BY <1>3, <1>5, <1>6, <1>7, <1>8 DEF ResolverInv

LEMMA LookupStep ==
  ASSUME ResolverInv, NEW t \in Threads, Lookup(t)
  PROVE  ResolverInv'
<1> DEFINE o == thread[t].obj
<1>1. \A u \in Threads :
        thread'[u] = IF u = t THEN [pc |-> "lookup", obj |-> o, src |-> thread[t].src,
                                 handle |-> object[o].handle]
                     ELSE thread[u]
  <2>1. \A u \in Threads : thread'[u] = IF u = t THEN [thread[t] EXCEPT !.pc = "lookup",
                                                                   !.handle = object[o].handle]
                                        ELSE thread[u]
    BY DEF Lookup, ResolverInv, TypeOK
  <2>2. thread[t] = [pc |-> thread[t].pc, obj |-> o, src |-> thread[t].src,
                     handle |-> thread[t].handle]
    BY DEF ResolverInv, TypeOK
  <2> QED
    BY <2>1, <2>2
<1>2. /\ UNCHANGED <<open, sessions, object>> /\ thread[t].pc = "waiting"
      /\ holder' = [holder EXCEPT ![o] = t] /\ holder[o] = Nobody /\ o \in Objects
  BY DEF Lookup, ResolverInv, DoingInv, Doing
<1>3. TypeOK'
  <2>1. thread' \in [Threads ->
          [pc : {"idle", "waiting", "assign", "destroy"} \cup InDbghelp,
           obj : Objects \cup {Nobody}, src : Objects \cup {Nobody},
           handle : Handles \cup {NoHandle}]]
    BY <1>1, <1>2 DEF Lookup, ResolverInv, TypeOK, InDbghelp
  <2> QED
    BY <1>2, <2>1 DEF ResolverInv, TypeOK
<1>4. \A u \in Threads : /\ Creating(u)' = Creating(u) /\ Using(u)' = Using(u)
                         /\ thread'[u].obj = thread[u].obj /\ thread'[u].src = thread[u].src
                         /\ u # t => thread'[u] = thread[u]
  BY <1>1, <1>2 DEF Creating, Using, ResolverInv, TypeOK
<1>5. HandlesInv'
  BY <1>2, <1>4 DEF ResolverInv, HandlesInv, HeldOpen, HeldOnce, CreatedOpen, CreatedOnce,
                    CreatedApart, Creating
<1>6. SessionsInv'
  BY <1>2 DEF ResolverInv, SessionsInv
<1>7. DoingInv'
  BY <1>1, <1>2, <1>4, ResolverAssumption DEF ResolverInv, DoingInv, Doing, TypeOK, Using
<1>8. AloneInv'
  BY <1>4 DEF ResolverInv, AloneInv
<1> QED
  BY <1>3, <1>5, <1>6, <1>7, <1>8 DEF ResolverInv

LEMMA ResolvedStep ==
  ASSUME ResolverInv, NEW t \in Threads, Resolved(t)
  PROVE  ResolverInv'
<1>1. \A u \in Threads : thread'[u] = IF u = t THEN Idle ELSE thread[u]
  BY DEF Resolved, ResolverInv, TypeOK
<1>2. /\ UNCHANGED <<open, sessions, object>> /\ thread[t].pc = "lookup"
      /\ holder' = [holder EXCEPT ![thread[t].obj] = Nobody]
      /\ thread[t].obj \in Objects /\ holder[thread[t].obj] = t
  BY DEF Resolved, ResolverInv, DoingInv, Doing
<1>3. TypeOK'
  BY <1>2 DEF Resolved, ResolverInv, TypeOK, Idle, Task
<1>4. ~Creating(t)' /\ \A u \in Threads : u # t => Creating(u)' = Creating(u) /\ Using(u)' = Using(u)
  BY <1>1 DEF Creating, Using, Idle, Task
<1>5. HandlesInv'
  BY <1>1, <1>2, <1>4 DEF ResolverInv, HandlesInv, HeldOpen, HeldOnce, CreatedOpen,
                          CreatedOnce, CreatedApart
<1>6. SessionsInv'
  BY <1>2 DEF ResolverInv, SessionsInv
<1>7. DoingInv'
  BY <1>1, <1>2, <1>4, ResolverAssumption DEF ResolverInv, DoingInv, Doing, Idle, Task, Using, TypeOK
<1>8. AloneInv'
  BY <1>1, <1>4, ResolverAssumption DEF ResolverInv, AloneInv, Idle, Task, Using
<1> QED
  BY <1>3, <1>5, <1>6, <1>7, <1>8 DEF ResolverInv

\* How a destruction (src is Nobody) and a move assignment begin.
LEMMA ReleaseStep ==
  ASSUME ResolverInv, NEW t \in Threads, NEW o \in Objects, NEW src \in Objects \cup {Nobody},
         src # o, thread[t].pc = "idle", object[o].alive, Unused(o),
         src # Nobody => object[src].alive /\ Unused(src),
         NEW then, then = IF src = Nobody THEN "destroy" ELSE "assign",
         Release(t, o, src, then)
  PROVE  ResolverInv'
<1> DEFINE cleans == object[o].ready /\ object[o].handle # NoHandle
<1>1. \A u \in Threads : thread'[u] =
        IF u = t THEN [pc |-> IF cleans THEN "cleanup" ELSE then, obj |-> o, src |-> src,
                       handle |-> IF cleans THEN object[o].handle ELSE NoHandle]
        ELSE thread[u]
  <2>1. CASE cleans
    BY <2>1 DEF Release, ResolverInv, TypeOK, Task
  <2>2. CASE ~cleans
    BY <2>2 DEF Release, ResolverInv, TypeOK, Task
  <2> QED
    BY <2>1, <2>2
<1>2. UNCHANGED <<open, sessions, object>>
  BY DEF Release
<1>3. \A p \in Objects : holder'[p] = IF p = o /\ cleans THEN t ELSE holder[p]
  BY DEF Release, ResolverInv, TypeOK
<1>4. TypeOK'
  <2>1. holder' \in [Objects -> Threads \cup {Nobody}]
    BY DEF Release, ResolverInv, TypeOK
  <2>2. DOMAIN thread' = Threads /\ thread' = [u \in Threads |-> thread'[u]]
    BY DEF Release, ResolverInv, TypeOK
  <2>3. \A u \in Threads : thread'[u] \in
          [pc : {"idle", "waiting", "assign", "destroy"} \cup InDbghelp,
           obj : Objects \cup {Nobody}, src : Objects \cup {Nobody},
           handle : Handles \cup {NoHandle}]
    BY <1>1 DEF ResolverInv, TypeOK, InDbghelp
  <2> QED
    BY <1>2, <2>1, <2>2, <2>3 DEF ResolverInv, TypeOK
<1>5. /\ ~Creating(t) /\ ~Creating(t)' /\ ~Using(t)'
      /\ \A u \in Threads : u # t => Creating(u)' = Creating(u) /\ Using(u)' = Using(u)
  BY <1>1 DEF Creating, Using
<1>6. HandlesInv'
  BY <1>1, <1>2, <1>5 DEF ResolverInv, HandlesInv, HeldOpen, HeldOnce, CreatedOpen,
                          CreatedOnce, CreatedApart
<1>7. SessionsInv'
  BY <1>2 DEF ResolverInv, SessionsInv
<1>8. DoingInv'
  <2>1. Doing(t)'
    BY <1>1, <1>2, <1>3, <1>5 DEF Doing, ResolverInv, TypeOK
  <2>2. ASSUME NEW u \in Threads, u # t
        PROVE  Doing(u)'
    <3>1. thread'[u] = thread[u] /\ Creating(u)' = Creating(u) /\ Using(u)' = Using(u)
      BY <1>1, <1>5, <2>2
    <3>2. thread[u].obj # o /\ Doing(u)
      BY DEF Unused, ResolverInv, DoingInv
    <3>3. thread[u].obj \in Objects => holder'[thread[u].obj] = holder[thread[u].obj]
      BY <1>3, <3>2
    <3> QED
      BY <1>2, <3>1, <3>2, <3>3 DEF Doing
  <2> QED
    BY <2>1, <2>2 DEF DoingInv
<1>9. AloneInv'
  BY <1>1, <1>5, ResolverAssumption DEF ResolverInv, AloneInv, Unused
<1> QED
  BY <1>4, <1>6, <1>7, <1>8, <1>9 DEF ResolverInv

LEMMA CleanedUpStep ==
  ASSUME ResolverInv, NEW t \in Threads, CleanedUp(t)
  PROVE  ResolverInv'
<1> DEFINE o == thread[t].obj
           h == thread[t].handle
<1>1. /\ o \in Objects /\ object[o].ready /\ object[o].alive /\ h = object[o].handle
      /\ h # NoHandle /\ thread[t].pc = "cleanup"
      /\ thread[t].src \in Objects \cup {Nobody}
  BY DEF CleanedUp, ResolverInv, DoingInv, Doing, TypeOK
<1>2. \A u \in Threads : thread'[u] =
        IF u = t THEN [pc |-> IF thread[t].src = Nobody THEN "destroy" ELSE "assign",
                       obj |-> o, src |-> thread[t].src, handle |-> h]
        ELSE thread[u]
  <2>1. \A u \in Threads : thread'[u] =
          IF u = t THEN [thread[t] EXCEPT !.pc = IF thread[t].src = Nobody THEN "destroy"
                                                 ELSE "assign"]
          ELSE thread[u]
    BY DEF CleanedUp, ResolverInv, TypeOK
  <2>2. thread[t] = [pc |-> thread[t].pc, obj |-> o, src |-> thread[t].src, handle |-> h]
    BY DEF ResolverInv, TypeOK
  <2> QED
    BY <2>1, <2>2
<1>3. \A p \in Objects : /\ object'[p].alive = object[p].alive
                         /\ object'[p].handle = object[p].handle
                         /\ object'[p].ready = (object[p].ready /\ p # o)
                         /\ holder'[p] = IF p = o THEN Nobody ELSE holder[p]
  <2>1. \A p \in Objects : object'[p] = IF p = o THEN [object[o] EXCEPT !.ready = FALSE]
                                        ELSE object[p]
    BY DEF CleanedUp, ResolverInv, TypeOK
  <2>2. \A p \in Objects : object[p].ready \in BOOLEAN
    BY DEF ResolverInv, TypeOK
  <2>3. object[o] = [alive |-> object[o].alive, handle |-> h, ready |-> object[o].ready]
    BY <1>1 DEF ResolverInv, TypeOK
  <2>4. \A p \in Objects : holder'[p] = IF p = o THEN Nobody ELSE holder[p]
    BY DEF CleanedUp, ResolverInv, TypeOK
  <2>5. /\ object'[o].alive = object[o].alive /\ object'[o].handle = object[o].handle
        /\ object'[o].ready = FALSE
    <3>1. object'[o] = [object[o] EXCEPT !.ready = FALSE]
      BY <1>1, <2>1
    <3> QED
      BY <2>3, <3>1
  <2>6. ASSUME NEW p \in Objects, p # o
        PROVE  object'[p] = object[p] /\ (object[p].ready = (object[p].ready /\ p # o))
    BY <2>1, <2>2, <2>6
  <2> SUFFICES ASSUME NEW p \in Objects
               PROVE  /\ object'[p].alive = object[p].alive
                      /\ object'[p].handle = object[p].handle
                      /\ object'[p].ready = (object[p].ready /\ p # o)
                      /\ holder'[p] = IF p = o THEN Nobody ELSE holder[p]
    OBVIOUS
  <2>7. CASE p = o
    <3>1. (object[p].ready /\ p # o) = FALSE
      BY <2>7
    <3> QED
      BY <2>4, <2>5, <2>7, <3>1
  <2>8. CASE p # o
    BY <2>4, <2>6, <2>8
  <2> QED
    BY <2>7, <2>8
<1>4. UNCHANGED open /\ sessions' = sessions \ {h}
  BY DEF CleanedUp
<1>5. TypeOK'
  <2>1. object' \in [Objects -> [alive : BOOLEAN, handle : Handles \cup {NoHandle},
                                 ready : BOOLEAN]]
    <3>1. DOMAIN object' = Objects /\ object' = [p \in Objects |-> object'[p]]
      BY DEF CleanedUp, ResolverInv, TypeOK
    <3>2. \A p \in Objects : object[p] \in [alive : BOOLEAN, handle : Handles \cup {NoHandle},
                                           ready : BOOLEAN]
      BY DEF ResolverInv, TypeOK
    <3>3. \A p \in Objects : object'[p] = IF p = o THEN [object[p] EXCEPT !.ready = FALSE]
                                          ELSE object[p]
      BY <1>1 DEF CleanedUp, ResolverInv, TypeOK
    <3>4. \A p \in Objects : object'[p] \in [alive : BOOLEAN, handle : Handles \cup {NoHandle},
                                            ready : BOOLEAN]
      BY <3>2, <3>3
    <3> QED
      BY <3>1, <3>4
  <2>2. holder' \in [Objects -> Threads \cup {Nobody}]
    BY <1>1 DEF CleanedUp, ResolverInv, TypeOK
  <2>3. DOMAIN thread' = Threads /\ thread' = [u \in Threads |-> thread'[u]]
    BY DEF CleanedUp, ResolverInv, TypeOK
  <2>4. \A u \in Threads : thread'[u] \in
          [pc : {"idle", "waiting", "assign", "destroy"} \cup InDbghelp,
           obj : Objects \cup {Nobody}, src : Objects \cup {Nobody},
           handle : Handles \cup {NoHandle}]
    BY <1>1, <1>2 DEF ResolverInv, TypeOK, InDbghelp
  <2>5. \A p \in Objects : object'[p].ready => object'[p].alive /\ object'[p].handle # NoHandle
    BY <1>3 DEF ResolverInv, TypeOK
  <2> QED
    BY <1>4, <2>1, <2>2, <2>3, <2>4, <2>5 DEF ResolverInv, TypeOK
<1>6. /\ ~Creating(t) /\ ~Creating(t)' /\ ~Using(t)'
      /\ \A u \in Threads : u # t => Creating(u)' = Creating(u) /\ Using(u)' = Using(u)
  BY <1>1, <1>2 DEF Creating, Using
<1>7. \A u \in Threads : u # t => thread[u].obj # o /\ thread[u].src # o
  <2>1. ~Using(t) /\ o # Nobody
    BY <1>1, ResolverAssumption DEF Using
  <2>2. \A u \in Threads : u # t => thread[u].obj # o
    BY <2>1 DEF ResolverInv, AloneInv
  <2>3. \A u \in Threads : thread[u].src # o
    BY <2>1 DEF ResolverInv, AloneInv
  <2> QED
    BY <2>2, <2>3
<1>8. HandlesInv'
  <2>1. HeldOpen' /\ HeldOnce'
    BY <1>3, <1>4 DEF ResolverInv, HandlesInv, HeldOpen, HeldOnce
  <2>2. CreatedOpen' /\ CreatedOnce'
    BY <1>2, <1>4, <1>6 DEF ResolverInv, HandlesInv, CreatedOpen, CreatedOnce
  <2>3. CreatedApart'
    BY <1>2, <1>3, <1>6 DEF ResolverInv, HandlesInv, CreatedApart
  <2> QED
    BY <2>1, <2>2, <2>3 DEF HandlesInv
<1>9. SessionsInv'
  <2>1. \A p \in Objects : object'[p].ready => object'[p].handle \in sessions'
    <3> SUFFICES ASSUME NEW p \in Objects, object'[p].ready
                 PROVE  object'[p].handle \in sessions'
      OBVIOUS
    <3>1. p # o /\ object[p].ready /\ object'[p].handle = object[p].handle
      BY <1>3
    <3>2. object[p].handle \in sessions /\ object[p].handle # h
      BY <1>1, <3>1 DEF ResolverInv, SessionsInv, HandlesInv, HeldOnce
    <3> QED
      BY <1>4, <3>1, <3>2
  <2>2. \A g \in sessions' : \E p \in Objects : object'[p].ready /\ object'[p].handle = g
    <3> SUFFICES ASSUME NEW g \in sessions, g # h
                 PROVE  \E p \in Objects : object'[p].ready /\ object'[p].handle = g
      BY <1>4
    <3>1. PICK p \in Objects : object[p].ready /\ object[p].handle = g
      BY DEF ResolverInv, SessionsInv
    <3> QED
      BY <1>1, <1>3, <3>1
  <2> QED
    BY <1>3, <2>1, <2>2 DEF ResolverInv, SessionsInv
<1>10. DoingInv'
  <2>1. Doing(t)'
    <3>1. Doing(t)
      BY DEF ResolverInv, DoingInv
    <3> QED
      <4>1. /\ thread'[t].pc = IF thread[t].src = Nobody THEN "destroy" ELSE "assign"
            /\ thread'[t].obj = o /\ thread'[t].src = thread[t].src
        BY <1>2
      <4>2. ~object'[o].ready
        BY <1>1, <1>3
      <4>3. thread[t].src # Nobody =>
              thread[t].src \in Objects /\ object'[thread[t].src].alive
        BY <1>1, <1>3, <3>1 DEF Doing
      <4> QED
        BY <1>1, <1>6, <4>1, <4>2, <4>3 DEF Doing
  <2>2. ASSUME NEW u \in Threads, u # t
        PROVE  Doing(u)'
    <3>1. thread'[u] = thread[u] /\ Creating(u)' = Creating(u) /\ Using(u)' = Using(u)
      BY <1>2, <1>6, <2>2
    <3>2. Doing(u) /\ thread[u].obj # o /\ thread[u].src # o
           /\ thread[u].src \in Objects \cup {Nobody}
      BY <1>7, <2>2 DEF ResolverInv, DoingInv, TypeOK
    <3>3. Creating(u) \/ Using(u) => thread[u].pc # "idle"
      BY DEF Creating, Using
    <3>4. thread[u].pc # "idle" => /\ thread[u].obj \in Objects
                                   /\ object'[thread[u].obj].alive = object[thread[u].obj].alive
                                   /\ object'[thread[u].obj].ready = object[thread[u].obj].ready
                                   /\ object'[thread[u].obj].handle = object[thread[u].obj].handle
                                   /\ holder'[thread[u].obj] = holder[thread[u].obj]
      <4>1. thread[u].pc # "idle" => thread[u].obj \in Objects
        BY <3>2 DEF Doing
      <4>2. \A p \in Objects : object[p].ready \in BOOLEAN
        BY DEF ResolverInv, TypeOK
      <4> QED
        BY <1>3, <3>2, <4>1, <4>2
    <3>5. thread[u].src # Nobody => object'[thread[u].src].alive = object[thread[u].src].alive
      BY <1>3, <3>2
    <3> QED
      BY <3>1, <3>2, <3>3, <3>4, <3>5 DEF Doing
  <2> QED
    BY <2>1, <2>2 DEF DoingInv
<1>11. AloneInv'
  BY <1>1, <1>2, <1>6, <1>7, ResolverAssumption DEF ResolverInv, AloneInv
<1> QED
  BY <1>5, <1>8, <1>9, <1>10, <1>11 DEF ResolverInv

LEMMA DestroyedStep ==
  ASSUME ResolverInv, NEW t \in Threads, Destroyed(t)
  PROVE  ResolverInv'
<1> DEFINE o == thread[t].obj
<1>1. /\ o \in Objects /\ ~object[o].ready /\ thread[t].pc = "destroy"
  BY DEF Destroyed, ResolverInv, DoingInv, Doing
<1>2. \A u \in Threads : thread'[u] = IF u = t THEN Idle ELSE thread[u]
  BY DEF Destroyed, ResolverInv, TypeOK
<1>3. \A p \in Objects : object'[p] = IF p = o THEN Dead ELSE object[p]
  BY DEF Destroyed, ResolverInv, TypeOK
<1>4. UNCHANGED <<sessions, holder>> /\ open' = open \ {object[o].handle}
  BY DEF Destroyed
<1>5. TypeOK'
  <2>1. object' \in [Objects -> [alive : BOOLEAN, handle : Handles \cup {NoHandle},
                                 ready : BOOLEAN]]
    BY DEF Destroyed, ResolverInv, TypeOK, Dead
  <2>2. \A p \in Objects : object'[p].ready => object'[p].alive /\ object'[p].handle # NoHandle
    BY <1>3 DEF ResolverInv, TypeOK, Dead
  <2> QED
    BY <1>4, <2>1, <2>2 DEF Destroyed, ResolverInv, TypeOK, Idle, Task
<1>6. /\ ~Creating(t) /\ ~Creating(t)' /\ ~Using(t) /\ ~Using(t)'
      /\ \A u \in Threads : u # t => Creating(u)' = Creating(u) /\ Using(u)' = Using(u)
  BY <1>1, <1>2 DEF Creating, Using, Idle, Task
<1>7. \A u \in Threads : u # t => thread[u].obj # o /\ thread[u].src # o
  BY <1>1, <1>6, ResolverAssumption DEF ResolverInv, AloneInv
<1>8. HandlesInv'
  <2>1. HeldOpen' /\ HeldOnce'
    BY <1>1, <1>3, <1>4 DEF ResolverInv, HandlesInv, HeldOpen, HeldOnce, Dead
  <2>2. CreatedOpen' /\ CreatedOnce'
    BY <1>1, <1>2, <1>4, <1>6 DEF ResolverInv, HandlesInv, CreatedOpen, CreatedOnce, CreatedApart
  <2>3. CreatedApart'
    BY <1>2, <1>3, <1>6, ResolverAssumption
       DEF ResolverInv, HandlesInv, CreatedApart, CreatedOpen, Dead
  <2> QED
    BY <2>1, <2>2, <2>3 DEF HandlesInv
<1>9. SessionsInv'
  <2>1. \A g \in sessions : \E p \in Objects : object'[p].ready /\ object'[p].handle = g
    BY <1>1, <1>3 DEF ResolverInv, SessionsInv
  <2> QED
    BY <1>3, <1>4, <2>1 DEF ResolverInv, SessionsInv, Dead
<1>10. DoingInv'
  <2>1. Doing(t)'
    BY <1>2, <1>6 DEF Doing, Idle, Task
  <2>2. ASSUME NEW u \in Threads, u # t
        PROVE  Doing(u)'
    <3>1. thread'[u] = thread[u] /\ Creating(u)' = Creating(u) /\ Using(u)' = Using(u)
      BY <1>2, <1>6, <2>2
    <3>2. /\ Doing(u) /\ thread[u].obj # o /\ thread[u].src # o
          /\ thread[u].src \in Objects \cup {Nobody}
      BY <1>7, <2>2 DEF ResolverInv, DoingInv, TypeOK
    <3>3. /\ thread[u].pc # "idle" => object'[thread[u].obj] = object[thread[u].obj]
          /\ thread[u].src # Nobody => object'[thread[u].src] = object[thread[u].src]
      BY <1>3, <3>2 DEF Doing
    <3>4. Creating(u) \/ Using(u) => thread[u].pc # "idle"
      BY DEF Creating, Using
    <3> QED
      BY <1>4, <3>1, <3>2, <3>3, <3>4 DEF Doing
  <2> QED
    BY <2>1, <2>2 DEF DoingInv
<1>11. AloneInv'
  BY <1>2, <1>6, ResolverAssumption DEF ResolverInv, AloneInv, Idle, Task
<1> QED
  BY <1>5, <1>8, <1>9, <1>10, <1>11 DEF ResolverInv

\* How a move ends: o, which has no session, closes its handle and takes over
\* what src has, and the thread is done with both.
LEMMA MovedStep ==
  ASSUME ResolverInv, NEW t \in Threads, NEW o \in Objects, NEW src \in Objects, o # src,
         ~object[o].ready, object[src].alive, ~Creating(t),
         \A u \in Threads : u # t => /\ thread[u].obj \notin {o, src}
                                    /\ thread[u].src \notin {o, src},
         object' = [object EXCEPT ![o] = object[src], ![src] = Emptied],
         open' = open \ {object[o].handle},
         UNCHANGED <<sessions, holder>>,
         DOMAIN thread' = Threads, thread' = [u \in Threads |-> thread'[u]],
         \A u \in Threads : u # t => thread'[u] = thread[u],
         thread'[t].pc = "idle", thread'[t].obj = Nobody, thread'[t].src = Nobody,
         thread'[t] \in [pc : {"idle", "waiting", "assign", "destroy"} \cup InDbghelp,
                         obj : Objects \cup {Nobody}, src : Objects \cup {Nobody},
                         handle : Handles \cup {NoHandle}]
  PROVE  ResolverInv'
<1>1. \A p \in Objects : object'[p] = IF p = src THEN Emptied
                                      ELSE IF p = o THEN object[src] ELSE object[p]
  BY DEF ResolverInv, TypeOK
<1> DEFINE from(p) == IF p = o THEN src ELSE p
<1>8. \A p \in Objects : /\ from(p) \in Objects
                         /\ p = src => object'[p].handle = NoHandle /\ ~object'[p].ready
                         /\ p # src => object'[p] = object[from(p)]
  <2>1. object'[src].handle = NoHandle /\ ~object'[src].ready
    <3>1. object'[src] = Emptied
      BY <1>1
    <3>2. Emptied.handle = NoHandle /\ Emptied.ready = FALSE
      BY DEF Emptied
    <3> QED
      BY <3>1, <3>2
  <2>2. \A p \in Objects : from(p) \in Objects
    OBVIOUS
  <2>3. ASSUME NEW p \in Objects, p # src
        PROVE  object'[p] = object[from(p)]
    <3>1. CASE p = o
      BY <1>1, <2>3, <3>1
    <3>2. CASE p # o
      BY <1>1, <2>3, <3>2
    <3> QED
      BY <3>1, <3>2
  <2> HIDE DEF from
  <2> QED
    BY <2>1, <2>2, <2>3
<1>9. \A p, q \in Objects : p # src /\ q # src /\ from(p) = from(q) => p = q
  OBVIOUS
<1>10. \A p \in Objects : p # src => from(p) # o
  OBVIOUS
<1> HIDE DEF from
<1>2. TypeOK'
  <2>1. object' \in [Objects -> [alive : BOOLEAN, handle : Handles \cup {NoHandle},
                                 ready : BOOLEAN]]
    BY DEF ResolverInv, TypeOK, Emptied
  <2>2. \A p \in Objects : object'[p].ready => object'[p].alive /\ object'[p].handle # NoHandle
    BY <1>1 DEF ResolverInv, TypeOK, Emptied
  <2>3. thread' \in [Threads ->
          [pc : {"idle", "waiting", "assign", "destroy"} \cup InDbghelp,
           obj : Objects \cup {Nobody}, src : Objects \cup {Nobody},
           handle : Handles \cup {NoHandle}]]
    <3>1. thread \in [Threads ->
            [pc : {"idle", "waiting", "assign", "destroy"} \cup InDbghelp,
             obj : Objects \cup {Nobody}, src : Objects \cup {Nobody},
             handle : Handles \cup {NoHandle}]]
      BY DEF ResolverInv, TypeOK
    <3>2. \A u \in Threads : thread'[u] \in
            [pc : {"idle", "waiting", "assign", "destroy"} \cup InDbghelp,
             obj : Objects \cup {Nobody}, src : Objects \cup {Nobody},
             handle : Handles \cup {NoHandle}]
      BY <3>1
    <3> QED
      BY <3>2
  <2> QED
    BY <2>1, <2>2, <2>3 DEF ResolverInv, TypeOK
<1>3. /\ ~Creating(t)' /\ ~Using(t)'
      /\ \A u \in Threads : u # t => Creating(u)' = Creating(u) /\ Using(u)' = Using(u)
  BY DEF Creating, Using
<1>4. HandlesInv'
  <2>1. HeldOpen'
    <3> SUFFICES ASSUME NEW p \in Objects, object'[p].handle # NoHandle
                 PROVE  object'[p].handle \in open'
      BY DEF HeldOpen
    <3>1. object'[p].handle = object[from(p)].handle /\ from(p) \in Objects /\ from(p) # o
      BY <1>8, <1>10
    <3>2. object[from(p)].handle \in open /\ object[from(p)].handle # object[o].handle
      BY <3>1 DEF ResolverInv, HandlesInv, HeldOpen, HeldOnce
    <3> QED
      BY <3>1, <3>2
  <2>2. HeldOnce'
    BY <1>8, <1>9 DEF ResolverInv, HandlesInv, HeldOnce
  <2>3. CreatedOpen' /\ CreatedOnce'
    BY <1>3 DEF ResolverInv, HandlesInv, CreatedOpen, CreatedOnce, CreatedApart
  <2>4. CreatedApart'
    <3> SUFFICES ASSUME NEW u \in Threads, NEW p \in Objects, Creating(u)'
                 PROVE  thread'[u].handle # object'[p].handle
      BY DEF CreatedApart
    <3>1. Creating(u) /\ thread'[u] = thread[u] /\ thread[u].handle # NoHandle
      BY <1>3, ResolverAssumption DEF ResolverInv, HandlesInv, CreatedOpen
    <3>2. \A q \in Objects : thread[u].handle # object[q].handle
      BY <3>1 DEF ResolverInv, HandlesInv, CreatedApart
    <3>3. CASE p = src
      BY <1>8, <3>1, <3>3
    <3>4. CASE p # src
      <4>1. object'[p] = object[from(p)] /\ from(p) \in Objects
        BY <1>8, <3>4
      <4>2. thread[u].handle # object[from(p)].handle
        BY <3>2, <4>1
      <4> QED
        BY <3>1, <4>1, <4>2
    <3> QED
      BY <3>3, <3>4
  <2> QED
    BY <2>1, <2>2, <2>3, <2>4 DEF HandlesInv
<1>5. SessionsInv'
  <2>1. \A g \in sessions : \E p \in Objects : object'[p].ready /\ object'[p].handle = g
    <3> SUFFICES ASSUME NEW g \in sessions
                 PROVE  \E p \in Objects : object'[p].ready /\ object'[p].handle = g
      OBVIOUS
    <3>1. PICK p \in Objects : object[p].ready /\ object[p].handle = g
      BY DEF ResolverInv, SessionsInv
    <3>2. object'[IF p = src THEN o ELSE p] = object[p]
      BY <1>1, <3>1
    <3> QED
      BY <3>1, <3>2
  <2>2. \A p \in Objects : object'[p].ready => object'[p].handle \in sessions'
    <3> SUFFICES ASSUME NEW p \in Objects, object'[p].ready
                 PROVE  object'[p].handle \in sessions
      OBVIOUS
    <3>1. object'[p] = object[from(p)] /\ from(p) \in Objects
      BY <1>8
    <3>2. \A q \in Objects : object[q].ready => object[q].handle \in sessions
      BY DEF ResolverInv, SessionsInv
    <3> QED
      BY <3>1, <3>2
  <2>3. \A p \in Objects : ~object'[p].alive => object'[p].handle = NoHandle
    <3> SUFFICES ASSUME NEW p \in Objects, ~object'[p].alive, p # src
                 PROVE  object'[p].handle = NoHandle
      BY <1>8
    <3>1. object'[p] = object[from(p)] /\ from(p) \in Objects
      BY <1>8
    <3>2. \A q \in Objects : ~object[q].alive => object[q].handle = NoHandle
      BY DEF ResolverInv, SessionsInv
    <3> QED
      BY <3>1, <3>2
  <2> QED
    BY <2>1, <2>2, <2>3 DEF SessionsInv
<1>6. DoingInv'
  <2>1. Doing(t)'
    BY <1>3 DEF Doing
  <2>2. ASSUME NEW u \in Threads, u # t
        PROVE  Doing(u)'
    <3>1. thread'[u] = thread[u] /\ Creating(u)' = Creating(u) /\ Using(u)' = Using(u)
      BY <1>3, <2>2
    <3>2. /\ Doing(u) /\ thread[u].obj \notin {o, src} /\ thread[u].src \notin {o, src}
          /\ thread[u].src \in Objects \cup {Nobody}
      BY <2>2 DEF ResolverInv, DoingInv, TypeOK
    <3>3. /\ thread[u].pc # "idle" => object'[thread[u].obj] = object[thread[u].obj]
          /\ thread[u].src # Nobody => object'[thread[u].src] = object[thread[u].src]
      <4>1. thread[u].pc # "idle" => thread[u].obj \in Objects
        BY <3>2 DEF Doing
      <4> QED
        BY <1>1, <3>2, <4>1
    <3>4. Creating(u) \/ Using(u) => thread[u].pc # "idle"
      BY DEF Creating, Using
    <3> QED
      BY <3>1, <3>2, <3>3, <3>4 DEF Doing
  <2> QED
    BY <2>1, <2>2 DEF DoingInv
<1>7. AloneInv'
  BY <1>3, ResolverAssumption DEF ResolverInv, AloneInv
<1> QED
  BY <1>2, <1>4, <1>5, <1>6, <1>7 DEF ResolverInv

LEMMA AssignedStep ==
  ASSUME ResolverInv, NEW t \in Threads, Assigned(t)
  PROVE  ResolverInv'
<1> DEFINE o == thread[t].obj
           src == thread[t].src
<1>1. /\ o \in Objects /\ src \in Objects /\ ~object[o].ready /\ object[src].alive
      /\ thread[t].pc = "assign"
  BY ResolverAssumption DEF Assigned, ResolverInv, DoingInv, Doing
<1>2. ~Creating(t) /\ ~Using(t) /\ src # Nobody /\ o # Nobody
  BY <1>1, ResolverAssumption DEF Creating, Using
<1>3. o # src /\ \A u \in Threads : u # t => /\ thread[u].obj \notin {o, src}
                                            /\ thread[u].src \notin {o, src}
  <2>1. \A u \in Threads : thread[u].obj # src /\ (u # t => thread[u].src # src)
    BY <1>2 DEF ResolverInv, AloneInv
  <2>2. \A u \in Threads : u # t => thread[u].obj # o
    BY <1>2 DEF ResolverInv, AloneInv
  <2>3. \A u \in Threads : thread[u].src # o
    BY <1>2 DEF ResolverInv, AloneInv
  <2> QED
    BY <2>1, <2>2, <2>3
<1>4. /\ object' = [object EXCEPT ![o] = object[src], ![src] = Emptied]
      /\ open' = open \ {object[o].handle} /\ UNCHANGED <<sessions, holder>>
  BY DEF Assigned
<1>5. /\ DOMAIN thread' = Threads /\ thread' = [u \in Threads |-> thread'[u]]
      /\ \A u \in Threads : u # t => thread'[u] = thread[u]
      /\ thread'[t] = Idle
  BY DEF Assigned, ResolverInv, TypeOK
<1>6. /\ thread'[t].pc = "idle" /\ thread'[t].obj = Nobody /\ thread'[t].src = Nobody
      /\ thread'[t] \in [pc : {"idle", "waiting", "assign", "destroy"} \cup InDbghelp,
                         obj : Objects \cup {Nobody}, src : Objects \cup {Nobody},
                         handle : Handles \cup {NoHandle}]
  BY <1>5 DEF Idle, Task
<1> HIDE DEF o, src
<1> QED
  BY <1>1, <1>2, <1>3, <1>4, <1>5, <1>6, MovedStep

LEMMA MoveConstructStep ==
  ASSUME ResolverInv, NEW t \in Threads, NEW o \in Objects, NEW src \in Objects,
         MoveConstruct(t, o, src)
  PROVE  ResolverInv'
<1>1. /\ thread[t].pc = "idle" /\ ~object[o].alive /\ object[src].alive
      /\ Unused(o) /\ Unused(src)
      /\ object' = [object EXCEPT ![o] = object[src], ![src] = Emptied]
      /\ UNCHANGED <<open, sessions, holder, thread>>
  BY DEF MoveConstruct
<1>2. o # src /\ ~object[o].ready /\ object[o].handle = NoHandle
  BY <1>1 DEF ResolverInv, TypeOK, SessionsInv
<1>3. open' = open \ {object[o].handle}
  BY <1>1, <1>2, ResolverAssumption DEF ResolverInv, TypeOK
<1>4. /\ ~Creating(t) /\ thread[t].obj = Nobody /\ thread[t].src = Nobody
      /\ thread[t] \in [pc : {"idle", "waiting", "assign", "destroy"} \cup InDbghelp,
                        obj : Objects \cup {Nobody}, src : Objects \cup {Nobody},
                        handle : Handles \cup {NoHandle}]
      /\ DOMAIN thread = Threads /\ thread = [u \in Threads |-> thread[u]]
  BY <1>1 DEF ResolverInv, TypeOK, DoingInv, Doing, Creating
<1>5. \A u \in Threads : /\ thread[u].obj \notin {o, src}
                         /\ thread[u].src \notin {o, src}
  BY <1>1 DEF Unused
<1>6. /\ DOMAIN thread' = Threads /\ thread' = [u \in Threads |-> thread'[u]]
      /\ \A u \in Threads : u # t => thread'[u] = thread[u]
      /\ thread'[t].pc = "idle" /\ thread'[t].obj = Nobody /\ thread'[t].src = Nobody
      /\ thread'[t] \in [pc : {"idle", "waiting", "assign", "destroy"} \cup InDbghelp,
                         obj : Objects \cup {Nobody}, src : Objects \cup {Nobody},
                         handle : Handles \cup {NoHandle}]
  BY <1>1, <1>4
<1>7. ~Creating(t) /\ UNCHANGED <<sessions, holder>>
  BY <1>1, <1>4
<1> QED
  BY <1>1, <1>2, <1>3, <1>5, <1>6, <1>7, MovedStep

\* The states of the threads, the resolvers and the sessions agree: what every
\* step of SymbolResolver.cpp may rely on.
THEOREM ResolverInvariant == Spec => []ResolverInv
<1>1. ASSUME ResolverInv, Next PROVE ResolverInv'
  <2>1. PICK t \in Threads :
          \/ \E o \in Objects, path \in Paths, allow \in BOOLEAN, h \in Handles :
               Create(t, o, path, allow, h)
          \/ OptionsAreSet(t)
          \/ Initialized(t)
          \/ InitializeFails(t)
          \/ \E o \in Objects : Resolve(t, o) \/ Destroy(t, o)
          \/ Lookup(t)
          \/ Resolved(t)
          \/ CleanedUp(t)
          \/ Destroyed(t)
          \/ Assigned(t)
          \/ \E o, src \in Objects : MoveAssign(t, o, src) \/ MoveConstruct(t, o, src)
    BY <1>1 DEF Next
  <2>2. CASE \E o \in Objects, path \in Paths, allow \in BOOLEAN, h \in Handles :
               Create(t, o, path, allow, h)
    BY <1>1, <2>2, CreateStep
  <2>3. CASE \E o \in Objects : Destroy(t, o)
    <3>1. PICK o \in Objects : Destroy(t, o)
      BY <2>3
    <3>2. /\ thread[t].pc = "idle" /\ object[o].alive /\ Unused(o)
          /\ Release(t, o, Nobody, "destroy") /\ Nobody # o
      BY <3>1, ResolverAssumption DEF Destroy
    <3> QED
      BY <1>1, <3>2, ReleaseStep
  <2>4. CASE \E o, src \in Objects : MoveAssign(t, o, src)
    <3>1. PICK o \in Objects, src \in Objects : MoveAssign(t, o, src)
      BY <2>4
    <3>2. /\ thread[t].pc = "idle" /\ object[o].alive /\ Unused(o) /\ src # o /\ src # Nobody
          /\ object[src].alive /\ Unused(src) /\ Release(t, o, src, "assign")
      BY <3>1, ResolverAssumption DEF MoveAssign
    <3> QED
      BY <1>1, <3>2, ReleaseStep
  <2>5. CASE \E o \in Objects : Resolve(t, o)
    BY <1>1, <2>5, ResolveStep
  <2>6. CASE \E o, src \in Objects : MoveConstruct(t, o, src)
    BY <1>1, <2>6, MoveConstructStep
  <2> QED
    BY <1>1, <2>1, <2>2, <2>3, <2>4, <2>5, <2>6, OptionsAreSetStep, InitializedStep,
       InitializeFailsStep, LookupStep, ResolvedStep, CleanedUpStep, DestroyedStep, AssignedStep
<1>2. ASSUME ResolverInv, UNCHANGED vars PROVE ResolverInv'
  BY <1>2 DEF vars, ResolverInv, TypeOK, HandlesInv, HeldOpen, HeldOnce, CreatedOpen,
              CreatedOnce, CreatedApart, SessionsInv, DoingInv, Doing, AloneInv, Creating, Using
<1> QED
  BY ResolverInit, <1>1, <1>2, PTL DEF Spec

\* SymbolResolver.cpp:181-201, 249-263: a session never outlives its handle or
\* its resolver, and no lookup or cleanup is inside a session that is gone.
THEOREM SessionsAreAlwaysOwned == Spec => []SessionsAreOwned
<1>1. ResolverInv => SessionsAreOwned
  <2> SUFFICES ASSUME ResolverInv PROVE SessionsAreOwned
    OBVIOUS
  <2>1. ASSUME NEW h \in sessions
        PROVE  /\ h \in open
               /\ \E o \in Objects : object[o].ready /\ object[o].handle = h
               /\ \A o, p \in Objects :
                    object[o].ready /\ object[p].ready /\ object[o].handle = h
                    /\ object[p].handle = h => o = p
    <3>1. h # NoHandle
      BY ResolverAssumption DEF ResolverInv, TypeOK
    <3>2. \E o \in Objects : object[o].ready /\ object[o].handle = h
      BY DEF ResolverInv, SessionsInv
    <3> QED
      BY <3>1, <3>2 DEF ResolverInv, HandlesInv, HeldOpen, HeldOnce
  <2>2. ASSUME NEW t \in Threads, thread[t].pc \in {"lookup", "cleanup"}
        PROVE  thread[t].handle \in sessions
    <3>1. Doing(t) /\ (thread[t].pc = "lookup" => Using(t))
      BY DEF ResolverInv, DoingInv, Using
    <3>2. /\ thread[t].obj \in Objects /\ object[thread[t].obj].ready
          /\ thread[t].handle = object[thread[t].obj].handle
      BY <2>2, <3>1 DEF Doing
    <3>3. object[thread[t].obj].handle \in sessions
      BY <3>2 DEF ResolverInv, SessionsInv
    <3> QED
      BY <3>2, <3>3
  <2> QED
    BY <2>1, <2>2 DEF SessionsAreOwned
<1> QED
  BY <1>1, ResolverInvariant, PTL

\* SymbolResolver.hpp:5-7: the dbghelp calls of one resolver never overlap.
THEOREM OneResolverIsAlwaysSerialized == Spec => []OneResolverIsSerialized
<1>1. ResolverInv => OneResolverIsSerialized
  <2> SUFFICES ASSUME ResolverInv,
                      NEW t \in Threads, NEW u \in Threads, t # u,
                      thread[t].pc \in InDbghelp, thread[u].pc \in InDbghelp,
                      thread[t].obj = thread[u].obj
               PROVE  FALSE
    BY DEF OneResolverIsSerialized
  <2>1. thread[t].obj \in Objects /\ thread[t].obj # Nobody
    BY ResolverAssumption DEF ResolverInv, DoingInv, Doing, InDbghelp
  <2>2. thread[t].pc = "lookup" /\ thread[u].pc = "lookup"
    BY <2>1 DEF ResolverInv, AloneInv, Using, InDbghelp
  <2>3. holder[thread[t].obj] = t /\ holder[thread[t].obj] = u
    BY <2>2 DEF ResolverInv, DoingInv, Doing
  <2> QED
    BY <2>3
<1> QED
  BY <1>1, ResolverInvariant, PTL

-----------------------------------------------------------------------------
(* ScopedPrivilege.                                                        *)

\* A privilege that was enabled at first stays so; one that was not is enabled
\* because of a scope that will disable it.
RestoreInv ==
  /\ initially => enabled /\ \A o \in Scopes : scope[o].token => scope[o].previous = "nothing"
  /\ ~initially /\ ~overwritten /\ enabled =>
       \E o \in Scopes : scope[o].token /\ scope[o].previous = "disabled"

\* The tokens are ordered by age.
AgesInv ==
  /\ \A o, p \in Scopes : p \in older[o] => /\ scope[o].token /\ scope[p].token
                                           /\ o \notin older[p]
  /\ \A o, p \in Scopes : scope[o].token /\ scope[p].token /\ o # p =>
                            p \in older[o] \/ o \in older[p]

\* In nested scopes only that of the oldest token disables the privilege.
NestInv ==
  nested =>
    /\ \A o \in Scopes : older[o] # {} => scope[o].previous = "nothing"
    /\ (\E o \in Scopes : scope[o].token) => enabled

PrivilegeInv == PrivilegeTypeOK /\ RestoreInv /\ AgesInv /\ NestInv

LEMMA EnableStep ==
  ASSUME PrivilegeInv, NEW o \in Scopes, Enable(o)
  PROVE  PrivilegeInv'
<1>1. \A p \in Scopes : scope'[p] =
        IF p = o THEN [token |-> TRUE, previous |-> IF enabled THEN "nothing" ELSE "disabled"]
        ELSE scope[p]
  BY DEF Enable, PrivilegeInv, PrivilegeTypeOK
<1>2. \A p \in Scopes : older'[p] = IF p = o THEN Holders ELSE older[p]
  BY DEF Enable, PrivilegeInv, PrivilegeTypeOK
<1>3. UNCHANGED <<initially, nested, overwritten>> /\ enabled' = TRUE /\ ~scope[o].token
  BY DEF Enable
<1>4. PrivilegeTypeOK'
  <2>1. scope' \in [Scopes -> [token : BOOLEAN, previous : {"nothing", "disabled"}]]
    BY DEF Enable, PrivilegeInv, PrivilegeTypeOK
  <2>2. older' \in [Scopes -> SUBSET Scopes]
    BY DEF Enable, PrivilegeInv, PrivilegeTypeOK, Holders
  <2> QED
    BY <1>3, <2>1, <2>2 DEF PrivilegeInv, PrivilegeTypeOK
<1>5. enabled \in BOOLEAN
  BY DEF PrivilegeInv, PrivilegeTypeOK
<1>6. RestoreInv'
  <2>1. initially => \A p \in Scopes : scope'[p].token => scope'[p].previous = "nothing"
    BY <1>1 DEF PrivilegeInv, RestoreInv
  <2>2. ~initially /\ ~overwritten =>
          \E p \in Scopes : scope'[p].token /\ scope'[p].previous = "disabled"
    <3>1. CASE enabled
      BY <1>1, <1>3, <3>1 DEF PrivilegeInv, RestoreInv
    <3>2. CASE ~enabled
      BY <1>1, <3>2
    <3> QED
      BY <3>1, <3>2
  <2> QED
    BY <1>3, <2>1, <2>2 DEF RestoreInv
<1>7. /\ scope'[o].token /\ (enabled => scope'[o].previous = "nothing")
      /\ \A p \in Scopes : p # o => scope'[p] = scope[p] /\ older'[p] = older[p]
      /\ older'[o] = Holders /\ older[o] = {} /\ \A p \in Scopes : o \notin older[p]
  BY <1>1, <1>2, <1>3 DEF PrivilegeInv, PrivilegeTypeOK, AgesInv
<1>8. AgesInv'
  <2>1. ASSUME NEW p \in Scopes, NEW q \in Scopes, q \in older'[p]
        PROVE  scope'[p].token /\ scope'[q].token /\ p \notin older'[q]
    <3>1. CASE p = o
      BY <1>3, <1>7, <2>1, <3>1 DEF Holders
    <3>2. CASE p # o
      <4>1. q \in older[p] /\ q # o
        BY <1>7, <2>1, <3>2
      <4> QED
        BY <1>7, <3>2, <4>1 DEF PrivilegeInv, AgesInv
    <3> QED
      BY <3>1, <3>2
  <2>2. ASSUME NEW p \in Scopes, NEW q \in Scopes, scope'[p].token, scope'[q].token, p # q
        PROVE  q \in older'[p] \/ p \in older'[q]
    <3>1. CASE p = o \/ q = o
      BY <1>7, <2>2, <3>1 DEF Holders
    <3>2. CASE p # o /\ q # o
      BY <1>7, <2>2, <3>2 DEF PrivilegeInv, AgesInv
    <3> QED
      BY <3>1, <3>2
  <2> QED
    BY <2>1, <2>2 DEF AgesInv
<1>9. NestInv'
  <2> SUFFICES ASSUME nested
               PROVE  \A p \in Scopes : older'[p] # {} => scope'[p].previous = "nothing"
    BY <1>3 DEF NestInv
  <2>1. Holders # {} => enabled
    BY DEF PrivilegeInv, NestInv, Holders
  <2>2. \A p \in Scopes : older[p] # {} => scope[p].previous = "nothing"
    BY DEF PrivilegeInv, NestInv
  <2> QED
    BY <1>7, <2>1, <2>2
<1> QED
  BY <1>4, <1>6, <1>8, <1>9 DEF PrivilegeInv

LEMMA EndScopeStep ==
  ASSUME PrivilegeInv, NEW o \in Scopes, EndScope(o)
  PROVE  PrivilegeInv'
<1>1. \A p \in Scopes : scope'[p] = IF p = o THEN NoScope ELSE scope[p]
  BY DEF EndScope, PrivilegeInv, PrivilegeTypeOK
<1>2. /\ \A p \in Scopes : older'[p] = IF p = o THEN {} ELSE older[p] \ {o}
      /\ nested' = (nested /\ \A p \in Scopes : o \notin older[p])
  BY DEF EndScope, GivenUp
<1>3. /\ UNCHANGED <<initially, overwritten>> /\ scope[o].token
      /\ enabled' = IF scope[o].previous = "disabled" THEN FALSE ELSE enabled
  BY DEF EndScope, Restored
<1>4. ~NoScope.token
  BY DEF NoScope
<1>5. scope[o].previous \in {"nothing", "disabled"}
  BY DEF PrivilegeInv, PrivilegeTypeOK
<1>6. PrivilegeTypeOK'
  <2>1. scope' \in [Scopes -> [token : BOOLEAN, previous : {"nothing", "disabled"}]]
    BY DEF EndScope, PrivilegeInv, PrivilegeTypeOK, NoScope
  <2>2. older' \in [Scopes -> SUBSET Scopes]
    BY DEF EndScope, GivenUp, PrivilegeInv, PrivilegeTypeOK
  <2>3. nested' \in BOOLEAN /\ enabled' \in BOOLEAN
    BY <1>2, <1>3 DEF PrivilegeInv, PrivilegeTypeOK
  <2> QED
    BY <1>3, <2>1, <2>2, <2>3 DEF PrivilegeInv, PrivilegeTypeOK
<1>7. RestoreInv'
  <2>1. initially => enabled' /\ \A p \in Scopes : scope'[p].token => scope'[p].previous = "nothing"
    BY <1>1, <1>3, <1>4 DEF PrivilegeInv, RestoreInv
  <2>2. ~initially /\ ~overwritten /\ enabled' =>
          \E p \in Scopes : scope'[p].token /\ scope'[p].previous = "disabled"
    BY <1>1, <1>3 DEF PrivilegeInv, RestoreInv
  <2> QED
    BY <1>3, <2>1, <2>2 DEF RestoreInv
<1>8. AgesInv'
  <2>1. ASSUME NEW p \in Scopes, NEW q \in Scopes, q \in older'[p]
        PROVE  scope'[p].token /\ scope'[q].token /\ p \notin older'[q]
    <3>1. p # o /\ q # o /\ q \in older[p]
      BY <1>2, <2>1
    <3>2. scope[p].token /\ scope[q].token /\ p \notin older[q]
      BY <3>1 DEF PrivilegeInv, AgesInv
    <3> QED
      BY <1>1, <1>2, <3>1, <3>2
  <2>2. ASSUME NEW p \in Scopes, NEW q \in Scopes, scope'[p].token, scope'[q].token, p # q
        PROVE  q \in older'[p] \/ p \in older'[q]
    <3>1. p # o /\ q # o /\ scope[p].token /\ scope[q].token
      BY <1>1, <1>4, <2>2
    <3>2. q \in older[p] \/ p \in older[q]
      BY <2>2, <3>1 DEF PrivilegeInv, AgesInv
    <3> QED
      BY <1>2, <3>1, <3>2
  <2> QED
    BY <2>1, <2>2 DEF AgesInv
<1>9. NestInv'
  <2> SUFFICES ASSUME nested, \A p \in Scopes : o \notin older[p]
               PROVE  /\ \A p \in Scopes : older'[p] # {} => scope'[p].previous = "nothing"
                      /\ (\E p \in Scopes : scope'[p].token) => enabled'
    BY <1>2 DEF NestInv
  <2>1. \A p \in Scopes : older'[p] # {} => scope'[p].previous = "nothing"
    BY <1>1, <1>2 DEF PrivilegeInv, NestInv
  <2>2. ASSUME NEW p \in Scopes, scope'[p].token PROVE enabled'
    <3>1. p # o /\ scope[p].token
      BY <1>1, <1>4, <2>2
    <3>2. p \in older[o]
      BY <1>3, <3>1 DEF PrivilegeInv, AgesInv
    <3>3. scope[o].previous = "nothing" /\ enabled
      BY <3>1, <3>2 DEF PrivilegeInv, NestInv
    <3> QED
      BY <1>3, <3>3
  <2> QED
    BY <2>1, <2>2
<1> QED
  BY <1>6, <1>7, <1>8, <1>9 DEF PrivilegeInv

\* What moves have in common.
LEMMA TakenOverStep ==
  ASSUME PrivilegeInv, NEW o \in Scopes, NEW src \in Scopes, o # src, scope[src].token,
         scope' = [scope EXCEPT ![o] = scope[src], ![src].token = FALSE],
         older' = Inherited(o, src),
         overwritten' = (overwritten \/ scope[o].token),
         UNCHANGED <<initially, enabled, nested>>
  PROVE  PrivilegeInv'
<1>1. /\ scope'[o] = scope[src]
      /\ ~scope'[src].token
      /\ \A p \in Scopes : p \notin {o, src} => scope'[p] = scope[p]
  <2>1. /\ scope'[src] = [scope[src] EXCEPT !.token = FALSE]
        /\ \A p \in Scopes : p # src => scope'[p] = IF p = o THEN scope[src] ELSE scope[p]
    BY DEF PrivilegeInv, PrivilegeTypeOK
  <2>2. scope[src] \in [token : BOOLEAN, previous : {"nothing", "disabled"}]
    BY DEF PrivilegeInv, PrivilegeTypeOK
  <2>3. ~[scope[src] EXCEPT !.token = FALSE].token
    BY <2>2
  <2> QED
    BY <2>1, <2>3
<1>2. /\ older'[src] = {}
      /\ older'[o] = older[src] \ {o, src}
      /\ \A p \in Scopes : p \notin {o, src} =>
           older'[p] = (older[p] \ {o, src}) \cup (IF src \in older[p] THEN {o} ELSE {})
  <2>1. src \notin older[src]
    BY DEF PrivilegeInv, AgesInv
  <2> QED
    BY <2>1 DEF Inherited
<1>3. PrivilegeTypeOK'
  <2>1. scope' \in [Scopes -> [token : BOOLEAN, previous : {"nothing", "disabled"}]]
    BY DEF PrivilegeInv, PrivilegeTypeOK
  <2>2. older' \in [Scopes -> SUBSET Scopes]
    BY DEF Inherited, PrivilegeInv, PrivilegeTypeOK
  <2>3. overwritten' \in BOOLEAN
    BY DEF PrivilegeInv, PrivilegeTypeOK
  <2> QED
    BY <2>1, <2>2, <2>3 DEF PrivilegeInv, PrivilegeTypeOK
<1>4. RestoreInv'
  <2>1. ASSUME initially, NEW p \in Scopes, scope'[p].token
        PROVE  scope'[p].previous = "nothing"
    <3>1. \A q \in Scopes : scope[q].token => scope[q].previous = "nothing"
      BY <2>1 DEF PrivilegeInv, RestoreInv
    <3>2. p # src
      BY <1>1, <2>1
    <3>3. scope'[p] = scope[IF p = o THEN src ELSE p]
      BY <1>1, <3>2
    <3> QED
      BY <2>1, <3>1, <3>3
  <2>3. initially => enabled
    BY DEF PrivilegeInv, RestoreInv
  <2>2. ASSUME ~initially, ~overwritten', enabled
        PROVE  \E p \in Scopes : scope'[p].token /\ scope'[p].previous = "disabled"
    <3>1. PICK q \in Scopes : scope[q].token /\ scope[q].previous = "disabled"
      BY <2>2 DEF PrivilegeInv, RestoreInv
    <3>2. q # o
      BY <2>2, <3>1
    <3>3. scope'[IF q = src THEN o ELSE q] = scope[q]
      BY <1>1, <3>2
    <3> QED
      BY <3>1, <3>3
  <2> QED
    BY <2>1, <2>2, <2>3 DEF RestoreInv
<1> DEFINE from(p) == IF p = o THEN src ELSE p
<1>7. \A p, q \in Scopes :
        /\ p # src => from(p) \in Scopes /\ from(p) # o /\ scope'[p] = scope[from(p)]
        /\ p # src /\ q # src => (q \in older'[p] <=> from(q) \in older[from(p)])
        /\ p # src /\ q # src /\ from(p) = from(q) => p = q
        /\ src \notin older'[p]
  <2>1. src \notin older[src]
    BY DEF PrivilegeInv, AgesInv
  <2>2. ASSUME NEW p \in Scopes, p # src
        PROVE  from(p) \in Scopes /\ from(p) # o /\ scope'[p] = scope[from(p)]
    BY <1>1, <2>2
  <2>3. ASSUME NEW p \in Scopes, p # src, NEW q \in Scopes, q # src
        PROVE  q \in older'[p] <=> from(q) \in older[from(p)]
    <3>1. CASE p = o
      BY <1>2, <2>1, <2>3, <3>1
    <3>2. CASE p # o
      <4>1. CASE q = o
        BY <1>2, <2>3, <3>2, <4>1
      <4>2. CASE q # o
        BY <1>2, <2>3, <3>2, <4>2
      <4> QED
        BY <4>1, <4>2
    <3> QED
      BY <3>1, <3>2
  <2>4. \A p, q \in Scopes : p # src /\ q # src /\ from(p) = from(q) => p = q
    OBVIOUS
  <2>5. \A p \in Scopes : src \notin older'[p]
    <3> SUFFICES ASSUME NEW p \in Scopes PROVE src \notin older'[p]
      OBVIOUS
    <3>1. CASE p \in {o, src}
      BY <1>2, <3>1
    <3>2. CASE p \notin {o, src}
      BY <1>2, <3>2
    <3> QED
      BY <3>1, <3>2
  <2> HIDE DEF from
  <2> QED
    BY <2>2, <2>3, <2>4, <2>5
<1> HIDE DEF from
<1>5. AgesInv'
  <2>1. ASSUME NEW p \in Scopes, NEW q \in Scopes, q \in older'[p]
        PROVE  scope'[p].token /\ scope'[q].token /\ p \notin older'[q]
    <3>1. p # src /\ q # src
      BY <1>2, <1>7, <2>1
    <3>2. from(q) \in older[from(p)]
      BY <1>7, <2>1, <3>1
    <3>3. scope[from(p)].token /\ scope[from(q)].token /\ from(p) \notin older[from(q)]
      BY <1>7, <3>1, <3>2 DEF PrivilegeInv, AgesInv
    <3> QED
      BY <1>7, <3>1, <3>3
  <2>2. ASSUME NEW p \in Scopes, NEW q \in Scopes, scope'[p].token, scope'[q].token, p # q
        PROVE  q \in older'[p] \/ p \in older'[q]
    <3>1. p # src /\ q # src
      BY <1>1, <2>2
    <3>2. scope[from(p)].token /\ scope[from(q)].token /\ from(p) # from(q)
      BY <1>7, <2>2, <3>1
    <3>3. from(q) \in older[from(p)] \/ from(p) \in older[from(q)]
      BY <1>7, <3>1, <3>2 DEF PrivilegeInv, AgesInv
    <3> QED
      BY <1>7, <3>1, <3>3
  <2> QED
    BY <2>1, <2>2 DEF AgesInv
<1>6. NestInv'
  <2> SUFFICES ASSUME nested
               PROVE  /\ \A p \in Scopes : older'[p] # {} => scope'[p].previous = "nothing"
                      /\ enabled
    BY DEF NestInv
  <2>1. enabled
    BY DEF PrivilegeInv, NestInv
  <2>2. ASSUME NEW p \in Scopes, older'[p] # {} PROVE scope'[p].previous = "nothing"
    <3>1. \A q \in Scopes : older[q] # {} => scope[q].previous = "nothing"
      BY DEF PrivilegeInv, NestInv
    <3>2. CASE p = o
      <4>1. older[src] # {} /\ scope'[p] = scope[src]
        BY <1>1, <1>2, <2>2, <3>2
      <4> QED
        BY <3>1, <4>1
    <3>3. CASE p \notin {o, src}
      <4>1. older[p] # {}
        BY <1>2, <2>2, <3>3
      <4> QED
        BY <1>1, <3>1, <3>3, <4>1
    <3> QED
      BY <1>2, <2>2, <3>2, <3>3
  <2> QED
    BY <2>1, <2>2
<1> QED
  BY <1>3, <1>4, <1>5, <1>6 DEF PrivilegeInv

\* ScopedPrivilege keeps the privilege, its scopes and their ages in agreement.
THEOREM PrivilegeInvariant == PrivilegeSpec => []PrivilegeInv
<1>1. PrivilegeInit => PrivilegeInv
  <2> SUFFICES ASSUME PrivilegeInit PROVE PrivilegeInv
    OBVIOUS
  <2>1. PrivilegeTypeOK
    BY DEF PrivilegeInit, PrivilegeTypeOK, NoScope
  <2>2. \A o \in Scopes : ~scope[o].token /\ older[o] = {}
    BY DEF PrivilegeInit, NoScope
  <2>3. initially = enabled
    BY DEF PrivilegeInit
  <2> QED
    BY <2>1, <2>2, <2>3 DEF PrivilegeInv, RestoreInv, AgesInv, NestInv
<1>2. ASSUME PrivilegeInv, PrivilegeNext PROVE PrivilegeInv'
  <2>1. PICK o \in Scopes :
          \/ Enable(o)
          \/ EndScope(o)
          \/ \E src \in Scopes : MoveScope(o, src) \/ AssignScope(o, src)
    BY <1>2 DEF PrivilegeNext
  <2>2. CASE \E src \in Scopes : MoveScope(o, src) \/ AssignScope(o, src)
    <3>1. PICK src \in Scopes : MoveScope(o, src) \/ AssignScope(o, src)
      BY <2>2
    <3>2. overwritten \in BOOLEAN
      BY <1>2 DEF PrivilegeInv, PrivilegeTypeOK
    <3> QED
      BY <1>2, <3>1, <3>2, TakenOverStep DEF MoveScope, AssignScope
  <2> QED
    BY <1>2, <2>1, <2>2, EnableStep, EndScopeStep
<1>3. ASSUME PrivilegeInv, UNCHANGED privilegeVars PROVE PrivilegeInv'
  BY <1>3 DEF privilegeVars, PrivilegeInv, PrivilegeTypeOK, RestoreInv, AgesInv, NestInv
<1> QED
  BY <1>1, <1>2, <1>3, PTL DEF PrivilegeSpec

\* ScopedPrivilege.hpp:3-4: the privilege is enabled while a scope holds it.
THEOREM AlwaysEnabledWhileHeld == PrivilegeSpec => []EnabledWhileHeld
<1>1. PrivilegeInv => EnabledWhileHeld
  BY DEF PrivilegeInv, NestInv, EnabledWhileHeld
<1> QED
  BY <1>1, PrivilegeInvariant, PTL

\* ScopedPrivilege.cpp:51-56: the last scope to end leaves the privilege as the
\* first one found it.
THEOREM AlwaysRestoredAtTheEnd == PrivilegeSpec => []RestoredAtTheEnd
<1>1. PrivilegeInv => RestoredAtTheEnd
  <2>1. initially \in BOOLEAN /\ enabled \in BOOLEAN => (initially = enabled <=> (initially <=> enabled))
    OBVIOUS
  <2> QED
    BY <2>1 DEF PrivilegeInv, PrivilegeTypeOK, RestoreInv, RestoredAtTheEnd
<1> QED
  BY <1>1, PrivilegeInvariant, PTL

-----------------------------------------------------------------------------
(* MappedFile: what is held stands in the table, made in order from the     *)
(* same file, and everything in the table is held by one variable, by      *)
(* open, or by the list of what is to be closed.                           *)

Held(m)   == {m.file, m.mapping, m.view} \ {0}
InClosing == {closing[i] : i \in DOMAIN closing}

\* What m holds is open and of file f, one made from the other; its size is
\* that of the file.
Backed(m, f) ==
  /\ m.file \in Numbers /\ table[m.file] = [kind |-> "file", file |-> f, from |-> 0]
  /\ m.mapping # 0 =>
       /\ table[m.mapping] = [kind |-> "mapping", file |-> f, from |-> m.file]
       /\ m.size # 0
  /\ m.size # 0 => m.size = disk[f]

ViewOf(m, f) == m.mapping # 0 /\ m.view # 0
                /\ table[m.view] = [kind |-> "view", file |-> f, from |-> m.mapping]

VariablesInv == \A v \in Variables :
  mapped[v] # Unmapped => \E f \in Files : Backed(mapped[v], f) /\ ViewOf(mapped[v], f)

OpeningInv ==
  /\ \A o, p \in opening : o = p
  /\ \A o \in opening : /\ Backed(o.locals, o.of) /\ o.locals.view = 0
                        /\ mapped[o.into] = Unmapped
  /\ opening # {} => closing = <<>>

\* A view is closed first, and before what it was made from.
ClosingInv ==
  /\ \A n \in InClosing : n \in Numbers /\ table[n] # Free
  /\ \A i, j \in DOMAIN closing : closing[i] = closing[j] => i = j
  /\ \A i \in DOMAIN closing : table[closing[i]].kind = "view" =>
       i = 1 /\ \E j \in DOMAIN closing : j # 1 /\ closing[j] = table[closing[1]].from

\* A resource has one owner, and a file that is open here nobody writes to.
ApartInv ==
  /\ \A v, w \in Variables : v # w => Held(mapped[v]) \cap Held(mapped[w]) = {}
  /\ \A v \in Variables, o \in opening : Held(mapped[v]) \cap Held(o.locals) = {}
  /\ \A v \in Variables : Held(mapped[v]) \cap InClosing = {}

OwnedInv == \A n \in Numbers : table[n] # Free =>
  \/ \E v \in Variables : n \in Held(mapped[v])
  \/ \E o \in opening : n \in Held(o.locals)
  \/ n \in InClosing

SharingInv == \A n \in Numbers : table[n].kind = "file" => table[n].file \notin writers

MappedInv == /\ MappedTypeOK /\ VariablesInv /\ OpeningInv /\ ClosingInv
             /\ ApartInv /\ OwnedInv /\ SharingInv

LEMMA MappedStart == MappedInit => MappedInv
<1> SUFFICES ASSUME MappedInit PROVE MappedInv
  OBVIOUS
<1>1. /\ \A v \in Variables : mapped[v] = Unmapped /\ Held(mapped[v]) = {}
      /\ \A n \in Numbers : table[n] = Free
      /\ opening = {} /\ closing = <<>> /\ InClosing = {} /\ writers = {}
  BY DEF MappedInit, Unmapped, Held, InClosing
<1>2. MappedTypeOK
  BY MappedFileAssumption DEF MappedInit, MappedTypeOK, Unmapped
<1>3. VariablesInv /\ OpeningInv /\ ClosingInv
  BY <1>1 DEF VariablesInv, OpeningInv, ClosingInv
<1>4. ApartInv /\ OwnedInv /\ SharingInv
  BY <1>1 DEF ApartInv, OwnedInv, SharingInv
<1> QED
  BY <1>2, <1>3, <1>4 DEF MappedInv

\* What is held is open and under a number.
LEMMA HeldIsOpen ==
  ASSUME MappedInv
  PROVE  /\ \A v \in Variables : \A n \in Held(mapped[v]) : n \in Numbers /\ table[n] # Free
         /\ \A o \in opening : \A n \in Held(o.locals) : n \in Numbers /\ table[n] # Free
         /\ \A n \in InClosing : n \in Numbers /\ table[n] # Free
<1> DEFINE M == [file : Numbers \cup {0}, mapping : Numbers \cup {0}, view : Numbers \cup {0},
                 size : FileSizes \cup {0}]
<1>1. ASSUME NEW m \in M, NEW f, Backed(m, f), m.view = 0 \/ ViewOf(m, f), NEW n \in Held(m)
      PROVE  n \in Numbers /\ table[n] # Free
  BY <1>1 DEF Backed, ViewOf, Held, Free
<1>2. ASSUME NEW v \in Variables, NEW n \in Held(mapped[v]) PROVE n \in Numbers /\ table[n] # Free
  <2>1. mapped[v] \in M
    BY DEF MappedInv, MappedTypeOK
  <2>2. mapped[v] # Unmapped
    BY <1>2 DEF Held, Unmapped
  <2>3. PICK f \in Files : Backed(mapped[v], f) /\ ViewOf(mapped[v], f)
    BY <2>2 DEF MappedInv, VariablesInv
  <2> QED
    BY <1>1, <1>2, <2>1, <2>3
<1>3. ASSUME NEW o \in opening, NEW n \in Held(o.locals) PROVE n \in Numbers /\ table[n] # Free
  <2>1. o.locals \in M /\ Backed(o.locals, o.of) /\ o.locals.view = 0
    BY DEF MappedInv, MappedTypeOK, OpeningInv
  <2> QED
    BY <1>1, <1>3, <2>1
<1> QED
  BY <1>2, <1>3 DEF MappedInv, ClosingInv

\* The others: a file that is open here stays as large as it is.
LEMMA WriterStep ==
  ASSUME MappedInv, NEW f \in Files,
         WriteBegins(f) \/ WriteEnds(f) \/ \E size \in FileSizes : Resize(f, size)
  PROVE  MappedInv'
<1>1. /\ UNCHANGED <<table, mapped, opening, closing>>
      /\ \A g \in Files : g \notin writers => disk'[g] = disk[g]
  BY DEF WriteBegins, WriteEnds, Resize, MappedInv, MappedTypeOK
<1>2. MappedTypeOK'
  BY <1>1 DEF WriteBegins, WriteEnds, Resize, MappedInv, MappedTypeOK
<1>3. ASSUME NEW m, NEW g \in Files, Backed(m, g) PROVE disk'[g] = disk[g]
  BY <1>1, <1>3 DEF Backed, MappedInv, SharingInv
<1>4. VariablesInv'
  <2> SUFFICES ASSUME NEW v \in Variables, mapped[v] # Unmapped
               PROVE  \E g \in Files : (Backed(mapped[v], g) /\ ViewOf(mapped[v], g))'
    BY <1>1 DEF VariablesInv
  <2>1. PICK g \in Files : Backed(mapped[v], g) /\ ViewOf(mapped[v], g)
    BY DEF MappedInv, VariablesInv
  <2> QED
    BY <1>1, <1>3, <2>1 DEF Backed, ViewOf
<1>5. OpeningInv'
  <2> SUFFICES ASSUME NEW o \in opening PROVE Backed(o.locals, o.of)'
    BY <1>1 DEF MappedInv, OpeningInv
  <2>1. Backed(o.locals, o.of) /\ o.of \in Files
    BY DEF MappedInv, OpeningInv, MappedTypeOK
  <2> QED
    BY <1>1, <1>3, <2>1 DEF Backed
<1>6. InClosing' = InClosing
  BY <1>1 DEF InClosing
<1>8. ClosingInv'
  BY <1>1, <1>6 DEF MappedInv, ClosingInv
<1>9. ApartInv'
  BY <1>1, <1>6 DEF MappedInv, ApartInv, Held
<1>10. OwnedInv'
  BY <1>1, <1>6 DEF MappedInv, OwnedInv, Held
<1>7. SharingInv'
  <2>1. CASE WriteBegins(f)
    BY <2>1 DEF WriteBegins, InUse, MappedInv, SharingInv
  <2>2. CASE ~WriteBegins(f)
    BY <2>2 DEF WriteEnds, Resize, MappedInv, SharingInv
  <2> QED
    BY <2>1, <2>2
<1> QED
  BY <1>2, <1>4, <1>5, <1>7, <1>8, <1>9, <1>10 DEF MappedInv

\* A new resource takes nothing from the others.
LEMMA MakeMeans ==
  ASSUME MappedInv, NEW k \in {"file", "mapping", "view"}, NEW f \in Files,
         NEW from \in Numbers \cup {0}, Make(k, f, from)
  PROVE  /\ Fresh \in Numbers /\ Fresh # 0 /\ table[Fresh] = Free
         /\ table' \in [Numbers -> {Free} \cup
              [kind : {"file", "mapping", "view"}, file : Files, from : Numbers \cup {0}]]
         /\ table'[Fresh] = [kind |-> k, file |-> f, from |-> from]
         /\ \A n \in Numbers : n # Fresh => table'[n] = table[n]
         /\ table'[Fresh] # Free
         /\ \A v \in Variables : Fresh \notin Held(mapped[v])
         /\ \A o \in opening : Fresh \notin Held(o.locals)
         /\ Fresh \notin InClosing
<1>1. Fresh \in Numbers /\ table[Fresh] = Free
  BY DEF Make, Fresh
<1>2. table' = [table EXCEPT ![Fresh] = [kind |-> k, file |-> f, from |-> from]]
  BY DEF Make
<1> HIDE DEF Fresh
<1>3. table \in [Numbers -> {Free} \cup
        [kind : {"file", "mapping", "view"}, file : Files, from : Numbers \cup {0}]]
  BY DEF MappedInv, MappedTypeOK
<1>4. [kind |-> k, file |-> f, from |-> from] # Free
  BY DEF Free
<1> QED
  BY <1>1, <1>2, <1>3, <1>4, HeldIsOpen, MappedFileAssumption

\* What variables hold and what is being closed stays as it is when something
\* is made.
LEMMA OthersKept ==
  ASSUME MappedInv, NEW k \in {"file", "mapping", "view"}, NEW f \in Files,
         NEW from \in Numbers \cup {0}, Make(k, f, from), UNCHANGED disk
  PROVE  /\ \A v \in Variables : mapped[v] # Unmapped =>
              \E g \in Files :
                LET m == mapped[v] IN
                /\ m.file \in Numbers /\ table'[m.file] = [kind |-> "file", file |-> g, from |-> 0]
                /\ table'[m.mapping] = [kind |-> "mapping", file |-> g, from |-> m.file]
                /\ table'[m.view] = [kind |-> "view", file |-> g, from |-> m.mapping]
                /\ m.mapping # 0 /\ m.view # 0 /\ m.size # 0 /\ m.size = disk'[g]
         /\ UNCHANGED closing => ClosingInv'
<1>1. \A n \in Numbers : table[n] # Free => table'[n] = table[n]
  BY MakeMeans
<1>2. ASSUME NEW v \in Variables, mapped[v] # Unmapped
      PROVE  \E g \in Files :
               LET m == mapped[v] IN
               /\ m.file \in Numbers /\ table'[m.file] = [kind |-> "file", file |-> g, from |-> 0]
               /\ table'[m.mapping] = [kind |-> "mapping", file |-> g, from |-> m.file]
               /\ table'[m.view] = [kind |-> "view", file |-> g, from |-> m.mapping]
               /\ m.mapping # 0 /\ m.view # 0 /\ m.size # 0 /\ m.size = disk'[g]
  <2>1. PICK g \in Files : Backed(mapped[v], g) /\ ViewOf(mapped[v], g)
    BY <1>2 DEF MappedInv, VariablesInv
  <2> DEFINE m == mapped[v]
  <2>2. m.mapping # 0 /\ m.view # 0 /\ m.size # 0 /\ m.size = disk[g] /\ m.file \in Numbers
    BY <2>1 DEF Backed, ViewOf
  <2>3. m.file \in Held(m) /\ m.mapping \in Held(m) /\ m.view \in Held(m)
    BY <2>2, MappedFileAssumption DEF Held
  <2>4. /\ table'[m.file] = table[m.file] /\ table'[m.mapping] = table[m.mapping]
        /\ table'[m.view] = table[m.view]
    BY <1>1, <2>3, HeldIsOpen
  <2>5. /\ table[m.file] = [kind |-> "file", file |-> g, from |-> 0]
        /\ table[m.mapping] = [kind |-> "mapping", file |-> g, from |-> m.file]
        /\ table[m.view] = [kind |-> "view", file |-> g, from |-> m.mapping]
    BY <2>1, <2>2 DEF Backed, ViewOf
  <2> QED
    BY <2>2, <2>4, <2>5
<1>3. ASSUME UNCHANGED closing PROVE ClosingInv'
  <2>1. InClosing' = InClosing /\ \A n \in InClosing : table'[n] = table[n]
    BY <1>1, <1>3, HeldIsOpen DEF InClosing
  <2>2. \A i \in DOMAIN closing : closing[i] \in InClosing
    BY DEF InClosing
  <2> QED
    BY <1>3, <2>1, <2>2 DEF ClosingInv, MappedInv
<1> QED
  BY <1>2, <1>3

LEMMA BeginOpenStep ==
  ASSUME MappedInv, NEW v \in Variables, NEW f \in Files, BeginOpen(v, f)
  PROVE  MappedInv'
<1> DEFINE L == [file |-> Fresh, mapping |-> 0, view |-> 0, size |-> 0]
           o == [into |-> v, of |-> f, locals |-> L]
<1>1. /\ opening = {} /\ closing = <<>> /\ mapped[v] = Unmapped /\ f \notin writers
      /\ Make("file", f, 0) /\ UNCHANGED <<disk, writers, mapped, closing>>
  BY DEF BeginOpen, Ready
<1>2. opening' = {o}
  BY DEF BeginOpen, Unmapped
<1>3. /\ Fresh \in Numbers /\ Fresh # 0 /\ table[Fresh] = Free
      /\ table' \in [Numbers -> {Free} \cup
           [kind : {"file", "mapping", "view"}, file : Files, from : Numbers \cup {0}]]
      /\ table'[Fresh] = [kind |-> "file", file |-> f, from |-> 0]
      /\ \A n \in Numbers : n # Fresh => table'[n] = table[n]
      /\ table'[Fresh] # Free
      /\ \A w \in Variables : Fresh \notin Held(mapped[w])
  BY <1>1, MakeMeans
<1> DEFINE fresh == Fresh
<1> HIDE DEF fresh
<1>4. /\ o.into = v /\ o.of = f /\ o.locals = L /\ Held(o.locals) = {Fresh}
      /\ L.file = Fresh /\ L.mapping = 0 /\ L.view = 0 /\ L.size = 0
  BY <1>3 DEF Held
<1>5. MappedTypeOK'
  BY <1>1, <1>2, <1>3 DEF MappedInv, MappedTypeOK
<1> HIDE DEF o, L
<1>6. VariablesInv'
  BY <1>1, OthersKept DEF VariablesInv, Backed, ViewOf
<1>7. OpeningInv'
  BY <1>1, <1>2, <1>3, <1>4 DEF OpeningInv, Backed
<1>8. ClosingInv'
  BY <1>1, OthersKept
<1>9. InClosing' = {} /\ InClosing = {}
  BY <1>1 DEF InClosing
<1>13. \A w \in Variables : Held(mapped[w])' = Held(mapped[w])
  BY <1>1 DEF Held
<1>14. \A q \in opening' : Held(q.locals) = {Fresh}
  BY <1>2, <1>4
<1>10. ApartInv'
  <2>1. \A w, x \in Variables : w # x => Held(mapped'[w]) \cap Held(mapped'[x]) = {}
    BY <1>1 DEF MappedInv, ApartInv
  <2>2. \A w \in Variables, q \in opening' : Held(mapped'[w]) \cap Held(q.locals) = {}
    BY <1>1, <1>3, <1>14
  <2>3. \A w \in Variables : Held(mapped'[w]) \cap InClosing' = {}
    BY <1>9
  <2> QED
    BY <2>1, <2>2, <2>3 DEF ApartInv
<1>11. OwnedInv'
  BY <1>1, <1>2, <1>3, <1>4, <1>9, <1>13 DEF MappedInv, OwnedInv
<1>12. SharingInv'
  BY <1>1, <1>3 DEF MappedInv, SharingInv
<1> QED
  BY <1>5, <1>6, <1>7, <1>8, <1>10, <1>11, <1>12 DEF MappedInv

LEMMA LocalsType ==
  ASSUME MappedInv, NEW o \in opening
  PROVE  /\ o.into \in Variables /\ o.of \in Files
         /\ o = [into |-> o.into, of |-> o.of, locals |-> o.locals]
         /\ o.locals = [file |-> o.locals.file, mapping |-> o.locals.mapping,
                        view |-> o.locals.view, size |-> o.locals.size]
         /\ o.locals.file \in Numbers /\ o.locals.mapping \in Numbers \cup {0}
         /\ o.locals.view = 0 /\ o.locals.size \in FileSizes \cup {0}
         /\ opening = {o} /\ closing = <<>> /\ mapped[o.into] = Unmapped
         /\ Backed(o.locals, o.of)
  BY DEF MappedInv, MappedTypeOK, OpeningInv, Backed

LEMMA LocalsChanged ==
  ASSUME NEW m, m = [file |-> m.file, mapping |-> m.mapping, view |-> m.view, size |-> m.size], NEW n
  PROVE  /\ [m EXCEPT !.size = n] =
              [file |-> m.file, mapping |-> m.mapping, view |-> m.view, size |-> n]
         /\ [m EXCEPT !.mapping = n] =
              [file |-> m.file, mapping |-> n, view |-> m.view, size |-> m.size]
         /\ [m EXCEPT !.view = n] =
              [file |-> m.file, mapping |-> m.mapping, view |-> n, size |-> m.size]
OBVIOUS

LEMMA TakeSizeStep ==
  ASSUME MappedInv, NEW o \in opening, TakeSize(o)
  PROVE  MappedInv'
<1> DEFINE old == o.locals
           L == [file |-> old.file, mapping |-> old.mapping, view |-> 0, size |-> disk[o.of]]
           p == [into |-> o.into, of |-> o.of, locals |-> L]
<1>1. /\ o.into \in Variables /\ o.of \in Files /\ Backed(old, o.of) /\ mapped[o.into] = Unmapped
      /\ old = [file |-> old.file, mapping |-> old.mapping, view |-> old.view, size |-> old.size]
      /\ old.file \in Numbers /\ old.mapping \in Numbers \cup {0} /\ old.view = 0
      /\ opening = {o} /\ closing = <<>>
  BY LocalsType
<1>2. /\ old.size = 0 /\ disk[o.of] \in FileSizes /\ disk[o.of] # 0
      /\ opening' = {p} /\ UNCHANGED <<disk, writers, table, mapped, closing>>
  <2>1. disk[o.of] \in FileSizes /\ disk[o.of] # 0
    BY <1>1, MappedFileAssumption DEF TakeSize, MappedInv, MappedTypeOK
  <2>2. [old EXCEPT !.size = disk[o.of]] = L
    BY <1>1, LocalsChanged
  <2> QED
    BY <2>1, <2>2 DEF TakeSize
<1>3. /\ p.into = o.into /\ p.of = o.of /\ p.locals = L
      /\ L.file = old.file /\ L.mapping = old.mapping /\ L.view = 0 /\ L.size = disk[o.of]
  OBVIOUS
<1>4. MappedTypeOK'
  BY <1>1, <1>2 DEF MappedInv, MappedTypeOK
<1> HIDE DEF L, p, old
<1>5. Held(L) = Held(old)
  BY <1>1, <1>3 DEF Held
<1>6. VariablesInv' /\ SharingInv'
  BY <1>2 DEF MappedInv, VariablesInv, Backed, ViewOf, SharingInv
<1>7. /\ L.file \in Numbers /\ table'[L.file] = [kind |-> "file", file |-> o.of, from |-> 0]
      /\ L.mapping = 0 /\ L.size = disk'[o.of]
  BY <1>1, <1>2, <1>3 DEF Backed
<1>8. OpeningInv'
  BY <1>1, <1>2, <1>3, <1>7 DEF OpeningInv, Backed
<1>9. /\ InClosing' = InClosing /\ \A v \in Variables : Held(mapped[v])' = Held(mapped[v])
      /\ \A q \in opening' : Held(q.locals) = Held(old)
      /\ \A q \in opening : Held(q.locals) = Held(old)
  BY <1>1, <1>2, <1>3, <1>5 DEF InClosing, Held, old
<1>10. ClosingInv'
  BY <1>2, <1>9 DEF MappedInv, ClosingInv
<1>11. ApartInv'
  BY <1>1, <1>9 DEF MappedInv, ApartInv
<1>12. OwnedInv'
  BY <1>1, <1>2, <1>9 DEF MappedInv, OwnedInv
<1> QED
  BY <1>4, <1>6, <1>8, <1>10, <1>11, <1>12 DEF MappedInv

LEMMA CreateMappingStep ==
  ASSUME MappedInv, NEW o \in opening, CreateMapping(o)
  PROVE  MappedInv'
<1> DEFINE old == o.locals
           L == [file |-> old.file, mapping |-> Fresh, view |-> 0, size |-> old.size]
           p == [into |-> o.into, of |-> o.of, locals |-> L]
<1>1. /\ o.into \in Variables /\ o.of \in Files /\ Backed(old, o.of) /\ mapped[o.into] = Unmapped
      /\ old = [file |-> old.file, mapping |-> old.mapping, view |-> old.view, size |-> old.size]
      /\ old.file \in Numbers /\ old.view = 0 /\ old.size \in FileSizes \cup {0}
      /\ opening = {o} /\ closing = <<>>
  BY LocalsType
<1>2. /\ old.size # 0 /\ old.mapping = 0 /\ Make("mapping", o.of, old.file)
      /\ opening' = {p} /\ UNCHANGED <<disk, writers, mapped, closing>>
  <2>1. [old EXCEPT !.mapping = Fresh] = L
    BY <1>1, LocalsChanged
  <2> QED
    BY <2>1 DEF CreateMapping
<1>3. /\ Fresh \in Numbers /\ Fresh # 0 /\ table[Fresh] = Free
      /\ table' \in [Numbers -> {Free} \cup
           [kind : {"file", "mapping", "view"}, file : Files, from : Numbers \cup {0}]]
      /\ table'[Fresh] = [kind |-> "mapping", file |-> o.of, from |-> old.file]
      /\ \A n \in Numbers : n # Fresh => table'[n] = table[n]
      /\ table'[Fresh] # Free
      /\ \A w \in Variables : Fresh \notin Held(mapped[w])
      /\ \A q \in opening : Fresh \notin Held(q.locals)
  BY <1>1, <1>2, MakeMeans
<1>4. /\ p.into = o.into /\ p.of = o.of /\ p.locals = L
      /\ L.file = old.file /\ L.mapping = Fresh /\ L.view = 0 /\ L.size = old.size
  OBVIOUS
<1>5. MappedTypeOK'
  BY <1>1, <1>2, <1>3 DEF MappedInv, MappedTypeOK
<1>6. Held(old) = {old.file} /\ Held(L) = {old.file, Fresh}
  BY <1>1, <1>2, <1>3, MappedFileAssumption DEF Held
<1>7. VariablesInv'
  BY <1>1, <1>2, OthersKept DEF VariablesInv, Backed, ViewOf
<1>8. ClosingInv'
  BY <1>1, <1>2, OthersKept
<1> HIDE DEF L, p
<1>9. /\ L.file \in Numbers /\ table'[L.file] = [kind |-> "file", file |-> o.of, from |-> 0]
      /\ L.size # 0 /\ L.size = disk'[o.of]
  <2>1. table[old.file] = [kind |-> "file", file |-> o.of, from |-> 0] /\ old.size = disk[o.of]
    BY <1>1, <1>2 DEF Backed
  <2>2. old.file # Fresh
    BY <1>1, <1>3, <1>6
  <2> QED
    BY <1>1, <1>2, <1>3, <1>4, <2>1, <2>2
<1>10. OpeningInv'
  BY <1>1, <1>2, <1>3, <1>4, <1>9 DEF OpeningInv, Backed
<1>11. InClosing' = {} /\ InClosing = {}
  BY <1>1, <1>2 DEF InClosing
<1>12. ApartInv'
  <2>1. \A w, x \in Variables : w # x => Held(mapped'[w]) \cap Held(mapped'[x]) = {}
    BY <1>2 DEF MappedInv, ApartInv
  <2>2. \A w \in Variables : Held(mapped[w]) \cap Held(old) = {}
    BY <1>1 DEF MappedInv, ApartInv
  <2>3. \A w \in Variables, q \in opening' : Held(mapped'[w]) \cap Held(q.locals) = {}
    BY <1>2, <1>3, <1>4, <1>6, <2>2
  <2>4. \A w \in Variables : Held(mapped'[w]) \cap InClosing' = {}
    BY <1>11
  <2> QED
    BY <2>1, <2>3, <2>4 DEF ApartInv
<1>13. OwnedInv'
  <2> SUFFICES ASSUME NEW n \in Numbers, table'[n] # Free
               PROVE  \/ \E w \in Variables : n \in Held(mapped'[w])
                      \/ \E q \in opening' : n \in Held(q.locals)
    BY DEF OwnedInv
  <2>1. CASE n = Fresh
    BY <1>2, <1>4, <1>6, <2>1
  <2>2. CASE n # Fresh
    <3>1. (\E w \in Variables : n \in Held(mapped[w])) \/ n \in Held(old)
      BY <1>1, <1>3, <1>11, <2>2 DEF MappedInv, OwnedInv
    <3> QED
      BY <1>2, <1>4, <1>6, <3>1
  <2> QED
    BY <2>1, <2>2
<1>14. SharingInv'
  <2> SUFFICES ASSUME NEW n \in Numbers, table'[n].kind = "file" PROVE table'[n].file \notin writers
    BY <1>2 DEF SharingInv
  <2>1. n # Fresh
    BY <1>3
  <2> QED
    BY <1>3, <2>1 DEF MappedInv, SharingInv
<1> QED
  BY <1>5, <1>7, <1>8, <1>10, <1>12, <1>13, <1>14 DEF MappedInv

LEMMA MapViewStep ==
  ASSUME MappedInv, NEW o \in opening, MapView(o)
  PROVE  MappedInv'
<1> DEFINE old == o.locals
           u == o.into
           L == [file |-> old.file, mapping |-> old.mapping, view |-> Fresh, size |-> old.size]
<1>1. /\ u \in Variables /\ o.of \in Files /\ Backed(old, o.of) /\ mapped[u] = Unmapped
      /\ old = [file |-> old.file, mapping |-> old.mapping, view |-> old.view, size |-> old.size]
      /\ old.file \in Numbers /\ old.mapping \in Numbers \cup {0}
      /\ old.view = 0 /\ old.size \in FileSizes \cup {0}
      /\ opening = {o} /\ closing = <<>>
  BY LocalsType
<1>2. /\ old.mapping # 0 /\ Make("view", o.of, old.mapping)
      /\ mapped' = [mapped EXCEPT ![u] = L]
      /\ opening' = {} /\ UNCHANGED <<disk, writers, closing>>
  <2>1. [old EXCEPT !.view = Fresh] = L
    BY <1>1, LocalsChanged
  <2> QED
    BY <2>1 DEF MapView
<1>3. /\ Fresh \in Numbers /\ Fresh # 0 /\ table[Fresh] = Free
      /\ table' \in [Numbers -> {Free} \cup
           [kind : {"file", "mapping", "view"}, file : Files, from : Numbers \cup {0}]]
      /\ table'[Fresh] = [kind |-> "view", file |-> o.of, from |-> old.mapping]
      /\ \A n \in Numbers : n # Fresh => table'[n] = table[n]
      /\ table'[Fresh] # Free
      /\ \A w \in Variables : Fresh \notin Held(mapped[w])
      /\ \A q \in opening : Fresh \notin Held(q.locals)
  BY <1>1, <1>2, MakeMeans
<1>4. L.file = old.file /\ L.mapping = old.mapping /\ L.view = Fresh /\ L.size = old.size
  OBVIOUS
<1>5. MappedTypeOK'
  BY <1>1, <1>2, <1>3 DEF MappedInv, MappedTypeOK
<1>6. Held(old) = {old.file, old.mapping} /\ Held(L) = {old.file, old.mapping, Fresh}
  BY <1>1, <1>2, <1>3, MappedFileAssumption DEF Held
<1> HIDE DEF L
<1>7. mapped'[u] = L /\ \A w \in Variables : w # u => mapped'[w] = mapped[w]
  BY <1>1, <1>2 DEF MappedInv, MappedTypeOK
<1>8. ClosingInv'
  BY <1>1, <1>2, OthersKept
<1>9. /\ table'[L.file] = [kind |-> "file", file |-> o.of, from |-> 0]
      /\ table'[L.mapping] = [kind |-> "mapping", file |-> o.of, from |-> L.file]
      /\ table'[L.view] = [kind |-> "view", file |-> o.of, from |-> L.mapping]
      /\ L.size # 0 /\ L.size = disk'[o.of]
  <2>1. /\ table[old.file] = [kind |-> "file", file |-> o.of, from |-> 0]
        /\ table[old.mapping] = [kind |-> "mapping", file |-> o.of, from |-> old.file]
        /\ old.size # 0 /\ old.size = disk[o.of]
    BY <1>1, <1>2 DEF Backed
  <2>2. old.file # Fresh /\ old.mapping # Fresh
    BY <1>1, <1>3, <1>6
  <2> QED
    BY <1>1, <1>2, <1>3, <1>4, <2>1, <2>2
<1>10. VariablesInv'
  <2> SUFFICES ASSUME NEW w \in Variables, mapped'[w] # Unmapped
               PROVE  \E g \in Files : (Backed(mapped[w], g) /\ ViewOf(mapped[w], g))'
    BY DEF VariablesInv
  <2>1. CASE w = u
    BY <1>1, <1>2, <1>3, <1>4, <1>7, <1>9, <2>1 DEF Backed, ViewOf
  <2>2. CASE w # u
    <3>1. mapped'[w] = mapped[w] /\ mapped[w] # Unmapped
      BY <1>7, <2>2
    <3>2. PICK g \in Files :
            LET m == mapped[w] IN
            /\ m.file \in Numbers /\ table'[m.file] = [kind |-> "file", file |-> g, from |-> 0]
            /\ table'[m.mapping] = [kind |-> "mapping", file |-> g, from |-> m.file]
            /\ table'[m.view] = [kind |-> "view", file |-> g, from |-> m.mapping]
            /\ m.mapping # 0 /\ m.view # 0 /\ m.size # 0 /\ m.size = disk'[g]
      BY <1>1, <1>2, <3>1, OthersKept
    <3> QED
      BY <3>1, <3>2 DEF Backed, ViewOf
  <2> QED
    BY <2>1, <2>2
<1>11. OpeningInv'
  BY <1>2 DEF OpeningInv
<1>12. InClosing' = {} /\ InClosing = {}
  BY <1>1, <1>2 DEF InClosing
<1>13. ApartInv'
  <2>1. \A w, x \in Variables : w # x => Held(mapped[w]) \cap Held(mapped[x]) = {}
    BY DEF MappedInv, ApartInv
  <2>2. \A w \in Variables : Held(mapped[w]) \cap Held(old) = {}
    BY <1>1 DEF MappedInv, ApartInv
  <2>3. \A w \in Variables : Held(mapped[w]) \cap Held(L) = {}
    BY <1>3, <1>6, <2>2
  <2>4. \A w, x \in Variables : w # x => Held(mapped'[w]) \cap Held(mapped'[x]) = {}
    BY <1>7, <2>1, <2>3
  <2> QED
    BY <1>2, <1>12, <2>4 DEF ApartInv
<1>14. OwnedInv'
  <2> SUFFICES ASSUME NEW n \in Numbers, table'[n] # Free
               PROVE  \E w \in Variables : n \in Held(mapped'[w])
    BY DEF OwnedInv
  <2>1. CASE n = Fresh
    BY <1>1, <1>6, <1>7, <2>1
  <2>2. CASE n # Fresh
    <3>1. (\E w \in Variables : n \in Held(mapped[w])) \/ n \in Held(old)
      BY <1>1, <1>3, <1>12, <2>2 DEF MappedInv, OwnedInv
    <3>2. Held(mapped[u]) = {}
      BY <1>1 DEF Held, Unmapped
    <3> QED
      BY <1>1, <1>6, <1>7, <3>1, <3>2
  <2> QED
    BY <2>1, <2>2
<1>15. SharingInv'
  <2> SUFFICES ASSUME NEW n \in Numbers, table'[n].kind = "file" PROVE table'[n].file \notin writers
    BY <1>2 DEF SharingInv
  <2>1. n # Fresh
    BY <1>3
  <2> QED
    BY <1>3, <2>1 DEF MappedInv, SharingInv
<1> QED
  BY <1>5, <1>8, <1>10, <1>11, <1>13, <1>14, <1>15 DEF MappedInv

LEMMA OpenFailsStep ==
  ASSUME MappedInv, NEW o \in opening, OpenFails(o)
  PROVE  MappedInv'
<1> DEFINE old == o.locals
<1>1. /\ o.into \in Variables /\ o.of \in Files /\ Backed(old, o.of)
      /\ old.file \in Numbers /\ old.mapping \in Numbers \cup {0} /\ old.view = 0
      /\ opening = {o} /\ closing = <<>>
  BY LocalsType
<1>2. /\ opening' = {} /\ UNCHANGED <<disk, writers, table, mapped>>
      /\ closing' = IF old.mapping = 0 THEN <<old.file>> ELSE <<old.mapping, old.file>>
  BY DEF OpenFails
<1> HIDE DEF old
<1>3. /\ table[old.file].kind = "file" /\ table[old.file] # Free
      /\ old.mapping # 0 => table[old.mapping].kind = "mapping" /\ table[old.mapping] # Free
  BY <1>1 DEF Backed, Free
<1>4. InClosing' = Held(old)
  <2>1. CASE old.mapping = 0
    BY <1>1, <1>2, <2>1, MappedFileAssumption DEF InClosing, Held
  <2>2. CASE old.mapping # 0
    BY <1>1, <1>2, <2>2, MappedFileAssumption DEF InClosing, Held
  <2> QED
    BY <2>1, <2>2
<1>5. MappedTypeOK'
  <2>1. closing' \in Seq(Numbers)
    BY <1>1, <1>2
  <2> QED
    BY <1>2, <2>1 DEF MappedInv, MappedTypeOK
<1>6. VariablesInv' /\ OpeningInv' /\ SharingInv'
  BY <1>2 DEF MappedInv, VariablesInv, Backed, ViewOf, OpeningInv, SharingInv
<1>7. ClosingInv'
  <2>1. \A n \in InClosing' : n \in Numbers /\ table'[n] # Free /\ table'[n].kind # "view"
    BY <1>1, <1>2, <1>3, <1>4 DEF Held
  <2>2. \A i \in DOMAIN closing' : closing'[i] \in InClosing'
    BY DEF InClosing
  <2>3. \A i, j \in DOMAIN closing' : closing'[i] = closing'[j] => i = j
    BY <1>1, <1>2, <1>3
  <2> QED
    BY <2>1, <2>2, <2>3 DEF ClosingInv
<1>8. ApartInv'
  <2>1. \A w \in Variables : Held(mapped[w]) \cap Held(old) = {}
    BY <1>1 DEF MappedInv, ApartInv, old
  <2>2. \A w, x \in Variables : w # x => Held(mapped[w]) \cap Held(mapped[x]) = {}
    BY DEF MappedInv, ApartInv
  <2>3. /\ \A w, x \in Variables : w # x => Held(mapped'[w]) \cap Held(mapped'[x]) = {}
        /\ \A w \in Variables : Held(mapped'[w]) \cap InClosing' = {}
    BY <1>2, <1>4, <2>1, <2>2
  <2> QED
    BY <1>2, <2>3 DEF ApartInv
<1>9. OwnedInv'
  <2>1. \A n \in Numbers : table[n] # Free =>
          (\E w \in Variables : n \in Held(mapped[w])) \/ n \in Held(old)
    <3>1. InClosing = {}
      BY <1>1 DEF InClosing
    <3> QED
      BY <1>1, <3>1 DEF MappedInv, OwnedInv, old
  <2>2. \A n \in Numbers : table'[n] # Free =>
          (\E w \in Variables : n \in Held(mapped'[w])) \/ n \in InClosing'
    BY <1>2, <1>4, <2>1
  <2> QED
    BY <2>2 DEF OwnedInv
<1> QED
  BY <1>5, <1>6, <1>7, <1>8, <1>9 DEF MappedInv

LEMMA CloseNextStep ==
  ASSUME MappedInv, CloseNext
  PROVE  MappedInv'
<1> DEFINE h == closing[1]
<1>1. /\ closing # <<>> /\ closing \in Seq(Numbers) /\ opening = {}
      /\ closing' = Tail(closing) /\ table' = [table EXCEPT ![h] = Free]
      /\ UNCHANGED <<disk, writers, mapped, opening>>
  BY DEF CloseNext, MappedInv, MappedTypeOK, OpeningInv
<1>2. 1 \in DOMAIN closing /\ h \in Numbers /\ h \in InClosing
  BY <1>1 DEF InClosing
<1>3. /\ \A i \in DOMAIN closing' : i + 1 \in DOMAIN closing /\ i + 1 # 1
                                     /\ closing'[i] = closing[i + 1]
      /\ \A i, j \in DOMAIN closing' : i + 1 = j + 1 => i = j
      /\ \A j \in DOMAIN closing : j # 1 => j - 1 \in DOMAIN closing' /\ closing'[j - 1] = closing[j]
  BY <1>1
<1> HIDE DEF h
<1>4. /\ table'[h] = Free /\ \A n \in Numbers : n # h => table'[n] = table[n]
      /\ table' \in [Numbers -> {Free} \cup
           [kind : {"file", "mapping", "view"}, file : Files, from : Numbers \cup {0}]]
  BY <1>1, <1>2 DEF MappedInv, MappedTypeOK
<1>5. MappedTypeOK'
  <2>1. closing' \in Seq(Numbers)
    BY <1>1
  <2> QED
    BY <1>1, <1>4, <2>1 DEF MappedInv, MappedTypeOK
<1>6. \A i \in DOMAIN closing : i # 1 => closing[i] # h
  BY <1>2 DEF MappedInv, ClosingInv, h
<1>7. /\ InClosing' \subseteq InClosing
      /\ \A n \in InClosing : n # h => n \in InClosing'
      /\ h \notin InClosing'
  <2>1. \A i \in DOMAIN closing' : closing'[i] \in InClosing /\ closing'[i] # h
    BY <1>3, <1>6 DEF InClosing
  <2>2. \A j \in DOMAIN closing : closing[j] # h => closing[j] \in InClosing'
    BY <1>3 DEF InClosing, h
  <2>3. \A n : n \in InClosing' => \E i \in DOMAIN closing' : n = closing'[i]
    BY DEF InClosing
  <2>4. \A n : n \in InClosing => \E i \in DOMAIN closing : n = closing[i]
    BY DEF InClosing
  <2> QED
    BY <2>1, <2>2, <2>3, <2>4
<1>8. \A v \in Variables : h \notin Held(mapped[v])
  BY <1>2 DEF MappedInv, ApartInv
<1>9. VariablesInv'
  <2> SUFFICES ASSUME NEW v \in Variables, mapped[v] # Unmapped
               PROVE  \E g \in Files : (Backed(mapped[v], g) /\ ViewOf(mapped[v], g))'
    BY <1>1 DEF VariablesInv
  <2>1. PICK g \in Files : Backed(mapped[v], g) /\ ViewOf(mapped[v], g)
    BY DEF MappedInv, VariablesInv
  <2> DEFINE m == mapped[v]
  <2>2. m.file \in Held(m) /\ m.mapping \in Held(m) /\ m.view \in Held(m)
    BY <2>1, MappedFileAssumption DEF Held, Backed, ViewOf
  <2>3. /\ table'[m.file] = table[m.file] /\ table'[m.mapping] = table[m.mapping]
        /\ table'[m.view] = table[m.view]
    BY <1>4, <1>8, <2>2, HeldIsOpen
  <2> QED
    BY <1>1, <2>1, <2>3 DEF Backed, ViewOf
<1>10. OpeningInv'
  BY <1>1 DEF OpeningInv
<1>11. ClosingInv'
  <2>1. \A n \in InClosing' : n \in Numbers /\ table'[n] # Free
    BY <1>4, <1>7, HeldIsOpen
  <2>2. \A i, j \in DOMAIN closing' : closing'[i] = closing'[j] => i = j
    BY <1>3 DEF MappedInv, ClosingInv
  <2>3. \A i \in DOMAIN closing' : table'[closing'[i]].kind # "view"
    <3> SUFFICES ASSUME NEW i \in DOMAIN closing' PROVE table'[closing'[i]].kind # "view"
      OBVIOUS
    <3>1. i + 1 \in DOMAIN closing /\ i + 1 # 1 /\ closing'[i] = closing[i + 1]
      BY <1>3
    <3>2. table[closing[i + 1]].kind # "view"
      BY <3>1 DEF MappedInv, ClosingInv
    <3>3. closing[i + 1] \in Numbers /\ closing[i + 1] # h
      BY <1>1, <1>6, <3>1
    <3> QED
      BY <1>4, <3>1, <3>2, <3>3
  <2> QED
    BY <2>1, <2>2, <2>3 DEF ClosingInv
<1>12. ApartInv'
  <2>1. /\ \A w, x \in Variables : w # x => Held(mapped[w]) \cap Held(mapped[x]) = {}
        /\ \A w \in Variables : Held(mapped[w]) \cap InClosing = {}
    BY DEF MappedInv, ApartInv
  <2>2. /\ \A w, x \in Variables : w # x => Held(mapped'[w]) \cap Held(mapped'[x]) = {}
        /\ \A w \in Variables : Held(mapped'[w]) \cap InClosing' = {}
    BY <1>1, <1>7, <2>1
  <2> QED
    BY <1>1, <2>2 DEF ApartInv
<1>13. OwnedInv'
  <2>1. \A n \in Numbers : table'[n] # Free => n # h /\ table[n] # Free
    BY <1>4
  <2>2. \A n \in Numbers : table[n] # Free =>
          (\E w \in Variables : n \in Held(mapped[w])) \/ n \in InClosing
    BY <1>1 DEF MappedInv, OwnedInv
  <2>3. \A n \in Numbers : table'[n] # Free =>
          (\E w \in Variables : n \in Held(mapped'[w])) \/ n \in InClosing'
    BY <1>1, <1>7, <2>1, <2>2
  <2> QED
    BY <2>3 DEF OwnedInv
<1>14. SharingInv'
  <2> SUFFICES ASSUME NEW n \in Numbers, table'[n].kind = "file" PROVE table'[n].file \notin writers
    BY <1>1 DEF SharingInv
  <2>1. n # h
    BY <1>4 DEF Free
  <2> QED
    BY <1>4, <2>1 DEF MappedInv, SharingInv
<1> QED
  BY <1>5, <1>9, <1>10, <1>11, <1>12, <1>13, <1>14 DEF MappedInv

\* What a variable holds is given up, the view first.
LEMMA GivenUpInOrder ==
  ASSUME MappedInv, Ready, NEW v \in Variables, mapped[v] # Unmapped, UNCHANGED table,
         \/ closing' = <<mapped[v].view, mapped[v].mapping, mapped[v].file>>
         \/ closing' = <<mapped[v].view, mapped[v].file, mapped[v].mapping>>
  PROVE  ClosingInv' /\ InClosing' = Held(mapped[v]) /\ closing' \in Seq(Numbers)
<1> DEFINE m == mapped[v]
<1>1. PICK f \in Files : Backed(m, f) /\ ViewOf(m, f)
  BY DEF MappedInv, VariablesInv
<1>2. m.file # 0 /\ m.mapping # 0 /\ m.view # 0
  BY <1>1, MappedFileAssumption DEF Backed, ViewOf
<1>3. m.file \in Held(m) /\ m.mapping \in Held(m) /\ m.view \in Held(m)
  BY <1>2 DEF Held
<1>4. /\ m.file \in Numbers /\ m.mapping \in Numbers /\ m.view \in Numbers
      /\ table[m.file] # Free /\ table[m.mapping] # Free /\ table[m.view] # Free
  BY <1>3, HeldIsOpen
<1>5. /\ table[m.file].kind = "file" /\ table[m.mapping].kind = "mapping"
      /\ table[m.view].kind = "view" /\ table[m.view].from = m.mapping
  BY <1>1, <1>2 DEF Backed, ViewOf
<1> HIDE DEF m
<1>6. closing' = <<m.view, m.mapping, m.file>> \/ closing' = <<m.view, m.file, m.mapping>>
  BY DEF m
<1>7. closing' \in Seq(Numbers) /\ DOMAIN closing' = {1, 2, 3}
  <2>1. CASE closing' = <<m.view, m.mapping, m.file>>
    BY <1>4, <2>1
  <2>2. CASE closing' = <<m.view, m.file, m.mapping>>
    BY <1>4, <2>2
  <2> QED
    BY <1>6, <2>1, <2>2
<1>8. InClosing' = {m.file, m.mapping, m.view}
  BY <1>6 DEF InClosing
<1>9. InClosing' = Held(m)
  BY <1>2, <1>8 DEF Held
<1>10. ClosingInv'
  <2>1. \A n \in InClosing' : n \in Numbers /\ table'[n] # Free
    BY <1>4, <1>8
  <2>2. \A i, j \in DOMAIN closing' : closing'[i] = closing'[j] => i = j
    BY <1>5, <1>6, <1>7
  <2>3. closing'[1] = m.view /\ (closing'[2] = m.mapping \/ closing'[3] = m.mapping)
    BY <1>6
  <2>4. \A i \in DOMAIN closing' : table'[closing'[i]].kind = "view" => i = 1
    BY <1>5, <1>6, <1>7
  <2> QED
    BY <1>5, <1>7, <2>1, <2>2, <2>3, <2>4 DEF ClosingInv
<1> QED
  BY <1>7, <1>9, <1>10 DEF m

\* The variables are exchanged so that v and src hold together what src held,
\* and what v held is to be closed.
LEMMA HandedOver ==
  ASSUME MappedInv, Ready, NEW v \in Variables, NEW src \in Variables,
         \/ v # src /\ mapped' = [mapped EXCEPT ![v] = mapped[src], ![src] = Unmapped]
         \/ v = src /\ mapped' = [mapped EXCEPT ![v] = Unmapped],
         InClosing' = Held(mapped[v]), closing' \in Seq(Numbers),
         UNCHANGED <<disk, writers, table, opening>>, ClosingInv'
  PROVE  MappedInv'
<1>1. mapped \in [Variables -> [file : Numbers \cup {0}, mapping : Numbers \cup {0},
                               view : Numbers \cup {0}, size : FileSizes \cup {0}]]
  BY DEF MappedInv, MappedTypeOK
<1>2. Unmapped \in [file : Numbers \cup {0}, mapping : Numbers \cup {0},
                    view : Numbers \cup {0}, size : FileSizes \cup {0}]
  BY DEF Unmapped
<1>3. /\ mapped'[src] = Unmapped
      /\ v # src => mapped'[v] = mapped[src]
      /\ \A w \in Variables : w # v /\ w # src => mapped'[w] = mapped[w]
      /\ mapped' \in [Variables -> [file : Numbers \cup {0}, mapping : Numbers \cup {0},
                                   view : Numbers \cup {0}, size : FileSizes \cup {0}]]
  BY <1>1, <1>2
<1>4. Held(Unmapped) = {} /\ opening = {} /\ opening' = {} /\ closing = <<>> /\ InClosing = {}
  BY DEF Held, Unmapped, Ready, InClosing
<1>5. MappedTypeOK'
  BY <1>3 DEF MappedInv, MappedTypeOK
<1>6. \A w \in Variables : mapped'[w] = Unmapped \/ \E x \in Variables : mapped'[w] = mapped[x]
  BY <1>3
<1>7. VariablesInv'
  <2> SUFFICES ASSUME NEW w \in Variables, mapped'[w] # Unmapped
               PROVE  \E g \in Files : (Backed(mapped[w], g) /\ ViewOf(mapped[w], g))'
    BY DEF VariablesInv
  <2>1. PICK x \in Variables : mapped'[w] = mapped[x]
    BY <1>6
  <2>2. PICK g \in Files : Backed(mapped[x], g) /\ ViewOf(mapped[x], g)
    BY <2>1 DEF MappedInv, VariablesInv
  <2> QED
    BY <2>1, <2>2 DEF Backed, ViewOf
<1>8. OpeningInv' /\ SharingInv'
  BY <1>4 DEF OpeningInv, MappedInv, SharingInv
<1>9. ApartInv'
  <2>1. \A w, x \in Variables : w # x => Held(mapped[w]) \cap Held(mapped[x]) = {}
    BY DEF MappedInv, ApartInv
  <2>2. Held(mapped'[src]) = {} /\ (v # src => Held(mapped'[v]) = Held(mapped[src]))
    BY <1>3, <1>4
  <2>3. \A w \in Variables : w # v /\ w # src => Held(mapped'[w]) = Held(mapped[w])
    BY <1>3
  <2>4. \A w, x \in Variables : w # x => Held(mapped'[w]) \cap Held(mapped'[x]) = {}
    BY <2>1, <2>2, <2>3
  <2>5. \A w \in Variables : Held(mapped'[w]) \cap InClosing' = {}
    BY <2>1, <2>2, <2>3
  <2> QED
    BY <1>4, <2>4, <2>5 DEF ApartInv
<1>10. OwnedInv'
  <2>1. \A n \in Numbers : table'[n] # Free => \E w \in Variables : n \in Held(mapped[w])
    BY <1>4 DEF MappedInv, OwnedInv
  <2>2. \A w \in Variables : w # v => \E x \in Variables : Held(mapped'[x]) = Held(mapped[w])
    <3>1. \A w \in Variables : w # v /\ w # src => Held(mapped'[w]) = Held(mapped[w])
      BY <1>3
    <3>2. v # src => Held(mapped'[v]) = Held(mapped[src])
      BY <1>3
    <3> QED
      BY <3>1, <3>2
  <2>3. \A n \in Numbers : table'[n] # Free =>
          (\E w \in Variables : n \in Held(mapped'[w])) \/ n \in InClosing'
    BY <2>1, <2>2
  <2> QED
    BY <2>3 DEF OwnedInv
<1> QED
  BY <1>5, <1>7, <1>8, <1>9, <1>10 DEF MappedInv

LEMMA DiscardStep ==
  ASSUME MappedInv, NEW v \in Variables, Discard(v)
  PROVE  MappedInv'
<1>1. /\ Ready /\ mapped[v] # Unmapped
      /\ closing' = <<mapped[v].view, mapped[v].mapping, mapped[v].file>>
      /\ mapped' = [mapped EXCEPT ![v] = Unmapped]
      /\ UNCHANGED <<disk, writers, table, opening>>
  BY DEF Discard, ReleaseOrder
<1>2. ClosingInv' /\ InClosing' = Held(mapped[v]) /\ closing' \in Seq(Numbers)
  BY <1>1, GivenUpInOrder
<1> QED
  BY <1>1, <1>2, HandedOver

LEMMA TakeOverStep ==
  ASSUME MappedInv, NEW v \in Variables, NEW src \in Variables, TakeOver(v, src)
  PROVE  MappedInv'
<1>1. /\ Ready /\ v # src
      /\ mapped' = [mapped EXCEPT ![v] = mapped[src], ![src] = Unmapped]
      /\ UNCHANGED <<disk, writers, table, opening>>
  BY DEF TakeOver
<1>2. ClosingInv' /\ InClosing' = Held(mapped[v]) /\ closing' \in Seq(Numbers)
  <2>1. CASE mapped[v] = Unmapped
    <3>1. closing' = <<>> /\ Held(mapped[v]) = {}
      BY <2>1 DEF TakeOver, Held, Unmapped
    <3> QED
      BY <3>1 DEF ClosingInv, InClosing
  <2>2. CASE mapped[v] # Unmapped
    <3>1. closing' = <<mapped[v].view, mapped[v].file, mapped[v].mapping>>
      BY <2>2 DEF TakeOver
    <3> QED
      BY <1>1, <2>2, <3>1, GivenUpInOrder
  <2> QED
    BY <2>1, <2>2
<1> QED
  BY <1>1, <1>2, HandedOver

\* For any number of files, variables and resources, what is held, by whom, and
\* in which order it is given up agree, types included.
THEOREM MappedInvariant == MappedSpec => []MappedInv
<1>1. ASSUME MappedInv, [MappedNext]_fileVars PROVE MappedInv'
  <2>1. ASSUME NEW f \in Files,
               WriteBegins(f) \/ WriteEnds(f) \/ \E size \in FileSizes : Resize(f, size)
        PROVE  MappedInv'
    BY <1>1, <2>1, WriterStep
  <2>2. ASSUME NEW v \in Variables, NEW f \in Files, BeginOpen(v, f) PROVE MappedInv'
    BY <1>1, <2>2, BeginOpenStep
  <2>3. ASSUME NEW o \in opening, TakeSize(o) PROVE MappedInv'
    BY <1>1, <2>3, TakeSizeStep
  <2>4. ASSUME NEW o \in opening, CreateMapping(o) PROVE MappedInv'
    BY <1>1, <2>4, CreateMappingStep
  <2>5. ASSUME NEW o \in opening, MapView(o) PROVE MappedInv'
    BY <1>1, <2>5, MapViewStep
  <2>6. ASSUME NEW o \in opening, OpenFails(o) PROVE MappedInv'
    BY <1>1, <2>6, OpenFailsStep
  <2>7. CASE CloseNext
    BY <1>1, <2>7, CloseNextStep
  <2>8. ASSUME NEW v \in Variables, Discard(v) PROVE MappedInv'
    BY <1>1, <2>8, DiscardStep
  <2>9. ASSUME NEW v \in Variables, NEW src \in Variables, TakeOver(v, src) PROVE MappedInv'
    BY <1>1, <2>9, TakeOverStep
  <2>10. CASE UNCHANGED fileVars
    <3>1. UNCHANGED <<disk, writers, table, mapped, opening, closing>>
      BY <2>10 DEF fileVars
    <3>2. InClosing' = InClosing
      BY <3>1 DEF InClosing
    <3>3. MappedTypeOK' /\ VariablesInv' /\ OpeningInv' /\ SharingInv'
      BY <1>1, <3>1 DEF MappedInv, MappedTypeOK, VariablesInv, OpeningInv, SharingInv, Backed, ViewOf
    <3>4. ClosingInv' /\ ApartInv' /\ OwnedInv'
      BY <1>1, <3>1, <3>2 DEF MappedInv, ClosingInv, ApartInv, OwnedInv, Held
    <3> QED
      BY <3>3, <3>4 DEF MappedInv
  <2> QED
    BY <1>1, <2>1, <2>2, <2>3, <2>4, <2>5, <2>6, <2>7, <2>8, <2>9, <2>10 DEF MappedNext
<1> QED
  BY <1>1, MappedStart, PTL DEF MappedSpec

\* MappedFile.hpp:3-5: a view is of a whole file, as large as size_ says, for as
\* long as it is held.
THEOREM ViewsAlwaysShowWholeFiles == MappedSpec => []ViewsShowWholeFiles
<1>1. MappedInv => ViewsShowWholeFiles
  <2> SUFFICES ASSUME MappedInv, NEW v \in Variables, mapped[v].view # 0
               PROVE  /\ table[mapped[v].view].kind = "view"
                      /\ mapped[v].size = disk[table[mapped[v].view].file]
    BY DEF ViewsShowWholeFiles
  <2>1. PICK f \in Files : Backed(mapped[v], f) /\ ViewOf(mapped[v], f)
    BY DEF MappedInv, VariablesInv, Unmapped
  <2> QED
    BY <2>1 DEF Backed, ViewOf
<1> QED
  BY <1>1, MappedInvariant, PTL

\* MappedFile.cpp:37-38: a view is unmapped before its mapping is closed, and
\* every resource has one owner, who will close it.
THEOREM ResourcesAreAlwaysOwnedInOrder == MappedSpec => []ResourcesAreOwnedInOrder
<1> DEFINE Of(m) == {m.file, m.mapping, m.view}
           Closing == {closing[i] : i \in DOMAIN closing}
           owners(n) == {<<"variable", v>> : v \in {x \in Variables : n \in Of(mapped[x])}}
                          \cup {<<"open", o>> : o \in {x \in opening : n \in Of(x.locals)}}
                          \cup {<<"close", m>> : m \in Closing \cap {n}}
<1>1. ASSUME MappedInv, NEW n \in Numbers
      PROVE  IF table[n] = Free THEN owners(n) = {}
             ELSE /\ \E o \in owners(n) : owners(n) = {o}
                  /\ table[n].kind = "view" => table[table[n].from] # Free
  <2>1. \A m : n \in Of(m) <=> n \in Held(m)
    BY MappedFileAssumption DEF Held
  <2>2. Closing = InClosing
    BY DEF InClosing
  <2> HIDE DEF Of, Closing
  <2>3. \A x : x \in owners(n) <=>
          \/ \E v \in Variables : x = <<"variable", v>> /\ n \in Held(mapped[v])
          \/ \E o \in opening : x = <<"open", o>> /\ n \in Held(o.locals)
          \/ x = <<"close", n>> /\ n \in InClosing
    BY <2>1, <2>2
  <2> HIDE DEF owners
  <2>4. CASE table[n] = Free
    BY <1>1, <2>3, <2>4, HeldIsOpen
  <2>5. CASE table[n] # Free
    <3>1. ASSUME NEW v \in Variables, n \in Held(mapped[v])
          PROVE  /\ \E o \in owners(n) : owners(n) = {o}
                 /\ table[n].kind = "view" => table[table[n].from] # Free
      <4>1. /\ \A w \in Variables : n \in Held(mapped[w]) => w = v
            /\ \A o \in opening : n \notin Held(o.locals)
            /\ n \notin InClosing
        BY <1>1, <3>1 DEF MappedInv, ApartInv
      <4>2. \A x : x \in owners(n) <=> x = <<"variable", v>>
        BY <2>3, <3>1, <4>1
      <4>3. owners(n) = {<<"variable", v>>}
        BY <4>2
      <4>4. mapped[v] # Unmapped
        BY <3>1 DEF Held, Unmapped
      <4>5. PICK f \in Files : Backed(mapped[v], f) /\ ViewOf(mapped[v], f)
        BY <1>1, <4>4 DEF MappedInv, VariablesInv
      <4>6. mapped[v].mapping \in Held(mapped[v])
        BY <4>5 DEF Held, ViewOf
      <4>7. table[mapped[v].mapping] # Free
        BY <1>1, <4>6, HeldIsOpen
      <4>8. table[n].kind = "view" => table[n].from = mapped[v].mapping
        BY <3>1, <4>5 DEF Held, Backed, ViewOf
      <4> QED
        BY <4>3, <4>7, <4>8
    <3>2. ASSUME NEW o \in opening, n \in Held(o.locals)
          PROVE  /\ \E q \in owners(n) : owners(n) = {q}
                 /\ table[n].kind = "view" => table[table[n].from] # Free
      <4>1. /\ opening = {o} /\ closing = <<>> /\ o.locals.view = 0 /\ Backed(o.locals, o.of)
        BY <1>1, LocalsType
      <4>2. /\ \A w \in Variables : n \notin Held(mapped[w])
            /\ n \notin InClosing
        BY <1>1, <3>2, <4>1 DEF MappedInv, ApartInv, InClosing
      <4>3. \A x : x \in owners(n) <=> x = <<"open", o>>
        BY <2>3, <3>2, <4>1, <4>2
      <4>4. owners(n) = {<<"open", o>>}
        BY <4>3
      <4>5. table[n].kind # "view"
        BY <3>2, <4>1 DEF Held, Backed
      <4> QED
        BY <4>4, <4>5
    <3>3. ASSUME n \in InClosing
          PROVE  /\ \E o \in owners(n) : owners(n) = {o}
                 /\ table[n].kind = "view" => table[table[n].from] # Free
      <4>1. /\ \A w \in Variables : n \notin Held(mapped[w])
            /\ \A o \in opening : n \notin Held(o.locals)
        <5>1. \A w \in Variables : Held(mapped[w]) \cap InClosing = {}
          BY <1>1 DEF MappedInv, ApartInv
        <5>2. closing # <<>>
          BY <3>3 DEF InClosing
        <5>3. opening = {}
          BY <1>1, <5>2 DEF MappedInv, OpeningInv
        <5> QED
          BY <3>3, <5>1, <5>3
      <4>2. \A x : x \in owners(n) <=> x = <<"close", n>>
        BY <2>3, <3>3, <4>1
      <4>3. owners(n) = {<<"close", n>>}
        BY <4>2
      <4>4. PICK i \in DOMAIN closing : n = closing[i]
        BY <3>3 DEF InClosing
      <4>5. ASSUME table[n].kind = "view" PROVE table[table[n].from] # Free
        <5>1. PICK j \in DOMAIN closing : closing[j] = table[closing[1]].from /\ i = 1
          BY <1>1, <4>4, <4>5 DEF MappedInv, ClosingInv
        <5>2. closing[j] \in InClosing
          BY DEF InClosing
        <5> QED
          BY <1>1, <4>4, <5>1, <5>2, HeldIsOpen
      <4> QED
        BY <4>3, <4>5
    <3> QED
      BY <1>1, <2>5, <3>1, <3>2, <3>3 DEF MappedInv, OwnedInv
  <2> QED
    BY <2>4, <2>5
<1>2. MappedInv => ResourcesAreOwnedInOrder
  BY <1>1 DEF ResourcesAreOwnedInOrder
<1> QED
  BY <1>2, MappedInvariant, PTL

=============================================================================
