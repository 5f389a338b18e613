-------------------------- MODULE ScopedPrivilege --------------------------
(***************************************************************************)
(* common/raii/ScopedPrivilege: scopes that enable one privilege of the    *)
(* process token and put it back when they end.  Scopes of several threads *)
(* change the one token of the process, and a scope can be moved.          *)
(*                                                                         *)
(* AdjustTokenPrivileges reports the previous state of what it changed: of *)
(* a privilege that was enabled already it reports nothing, and a scope    *)
(* that was told nothing restores nothing.                                 *)
(***************************************************************************)
CONSTANT Scopes  \* ScopedPrivilege variables of the program

VARIABLES
  initially,  \* whether the privilege was enabled before any scope
  enabled,    \* whether it is enabled now
  scope,      \* token_ (valid or not) and previous_ of each variable
  older,      \* history: for each variable, those that hold an older token than its own
  nested,     \* history: tokens were given up youngest first so far
  overwritten \* history: a scope that held a token was assigned to

privilegeVars == <<initially, enabled, scope, older, nested, overwritten>>

NoScope == [token |-> FALSE, previous |-> "nothing"]

PrivilegeTypeOK ==
  /\ initially \in BOOLEAN /\ enabled \in BOOLEAN
  /\ scope \in [Scopes -> [token : BOOLEAN, previous : {"nothing", "disabled"}]]
  /\ older \in [Scopes -> SUBSET Scopes]
  /\ nested \in BOOLEAN /\ overwritten \in BOOLEAN

PrivilegeInit ==
  /\ initially \in BOOLEAN
  /\ enabled = initially
  /\ scope = [o \in Scopes |-> NoScope]
  /\ older = [o \in Scopes |-> {}]
  /\ nested = TRUE /\ overwritten = FALSE

Holders == {o \in Scopes : scope[o].token}

\* o gives up its token.
GivenUp(o) ==
  /\ older' = [p \in Scopes |-> IF p = o THEN {} ELSE older[p] \ {o}]
  /\ nested' = (nested /\ \A p \in Scopes : o \notin older[p])

\* o takes over the token of src.
Inherited(o, src) ==
  [p \in Scopes |->
     IF p = src THEN {}
     ELSE LET S == older[IF p = o THEN src ELSE p]
          IN (S \ {o, src}) \cup (IF src \in S THEN {o} ELSE {})]

\* enable(): an error when the privilege is not held changes nothing.
Enable(o) ==
  /\ ~scope[o].token
  /\ scope' = [scope EXCEPT ![o] = [token    |-> TRUE,
                                    previous |-> IF enabled THEN "nothing" ELSE "disabled"]]
  /\ enabled' = TRUE
  /\ older' = [older EXCEPT ![o] = Holders]
  /\ UNCHANGED <<initially, nested, overwritten>>

\* What AdjustTokenPrivileges makes of the token, given a reported state.
Restored(previous) == IF previous = "disabled" THEN FALSE ELSE enabled

\* The destructor that always disables what it enabled.
EndScopeDisabling(o) ==
  /\ scope[o].token
  /\ enabled' = FALSE
  /\ scope' = [scope EXCEPT ![o] = NoScope]
  /\ GivenUp(o)
  /\ UNCHANGED <<initially, overwritten>>

EndScope(o) ==
  /\ scope[o].token
  /\ enabled' = Restored(scope[o].previous)
  /\ scope' = [scope EXCEPT ![o] = NoScope]
  /\ GivenUp(o)
  /\ UNCHANGED <<initially, overwritten>>

\* A move after which both scopes hold a token.
MoveScopeSharing(o, src) ==
  /\ o # src /\ scope[src].token /\ ~scope[o].token
  /\ scope' = [scope EXCEPT ![o] = scope[src]]
  /\ older' = [older EXCEPT ![o] = older[src]]
  /\ UNCHANGED <<initially, enabled, nested, overwritten>>

\* Construction by move copies previous_ but leaves the source without a token.
MoveScope(o, src) ==
  /\ o # src /\ scope[src].token /\ ~scope[o].token
  /\ scope' = [scope EXCEPT ![o] = scope[src], ![src].token = FALSE]
  /\ older' = Inherited(o, src)
  /\ UNCHANGED <<initially, enabled, nested, overwritten>>

\* The defaulted move assignment closes the token it replaces and restores
\* nothing of it.
AssignScope(o, src) ==
  /\ o # src /\ scope[src].token
  /\ scope' = [scope EXCEPT ![o] = scope[src], ![src].token = FALSE]
  /\ older' = Inherited(o, src)
  /\ overwritten' = (overwritten \/ scope[o].token)
  /\ UNCHANGED <<initially, enabled, nested>>

PrivilegeNext ==
  \E o \in Scopes :
    \/ Enable(o)
    \/ EndScope(o)
    \/ \E src \in Scopes : MoveScope(o, src) \/ AssignScope(o, src)

PrivilegeSpec == PrivilegeInit /\ [][PrivilegeNext]_privilegeVars

-----------------------------------------------------------------------------
(* Properties.                                                             *)

\* ScopedPrivilege.hpp:3-4, "Enables a token privilege ... for the object's
\* lifetime": while any scope holds its token, the privilege is enabled, as long
\* as scopes end youngest first, however they are moved and assigned.
EnabledWhileHeld == nested /\ (\E o \in Scopes : scope[o].token) => enabled

\* ScopedPrivilege.hpp:4, "restoring the previous state on destruction": when
\* the last scope has ended, the privilege is what it was before the first, in
\* whatever order they ended, unless a scope that held a token was assigned to.
RestoredAtTheEnd ==
  ~overwritten /\ (\A o \in Scopes : ~scope[o].token) => enabled = initially

=============================================================================
