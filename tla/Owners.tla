------------------------------- MODULE Owners -------------------------------
(***************************************************************************)
(* The classes that own something of the system and can be moved: resolver *)
(* sessions, enabled privileges and mapped files.  They share no state, so *)
(* a behaviour is of one of them, and the others stay as one start of      *)
(* theirs has them.                                                        *)
(***************************************************************************)
EXTENDS SymbolResolver, ScopedPrivilege, MappedFile

\* One start of each.
OneResolver  == Init
OnePrivilege == PrivilegeInit /\ initially
OneFiles     == MappedInit /\ \A f \in Files : disk[f] = CHOOSE n \in FileSizes : TRUE

OwnersInit ==
  /\ Init /\ PrivilegeInit /\ MappedInit
  /\ OnePrivilege \/ OneFiles

ResolversMove == OnePrivilege /\ OneFiles /\ UNCHANGED <<privilegeVars, fileVars>>
ScopesMove    == OneResolver /\ OneFiles /\ UNCHANGED <<vars, fileVars>>
FilesMove     == OneResolver /\ OnePrivilege /\ UNCHANGED <<vars, privilegeVars>>

OwnersNext ==
  \/ \E t \in Threads, o \in Objects, path \in Paths, allow \in BOOLEAN, h \in Handles :
       ResolversMove /\ Create(t, o, path, allow, h)
  \/ \E t \in Threads : ResolversMove /\ OptionsAreSet(t)
  \/ \E t \in Threads : ResolversMove /\ Initialized(t)
  \/ \E t \in Threads : ResolversMove /\ InitializeFails(t)
  \/ \E t \in Threads, o \in Objects : ResolversMove /\ Resolve(t, o)
  \/ \E t \in Threads, o \in Objects : ResolversMove /\ Destroy(t, o)
  \/ \E t \in Threads : ResolversMove /\ Lookup(t)
  \/ \E t \in Threads : ResolversMove /\ Resolved(t)
  \/ \E t \in Threads : ResolversMove /\ CleanedUp(t)
  \/ \E t \in Threads : ResolversMove /\ Destroyed(t)
  \/ \E t \in Threads : ResolversMove /\ Assigned(t)
  \/ \E t \in Threads, o, src \in Objects : ResolversMove /\ MoveAssign(t, o, src)
  \/ \E t \in Threads, o, src \in Objects : ResolversMove /\ MoveConstruct(t, o, src)
  \/ \E o \in Scopes : ScopesMove /\ Enable(o)
  \/ \E o \in Scopes : ScopesMove /\ EndScope(o)
  \/ \E o, src \in Scopes : ScopesMove /\ MoveScope(o, src)
  \/ \E o, src \in Scopes : ScopesMove /\ AssignScope(o, src)
  \/ \E f \in Files : FilesMove /\ WriteBegins(f)
  \/ \E f \in Files : FilesMove /\ WriteEnds(f)
  \/ \E f \in Files, size \in FileSizes : FilesMove /\ Resize(f, size)
  \/ \E v \in Variables, f \in Files : FilesMove /\ BeginOpen(v, f)
  \/ \E o \in opening : FilesMove /\ TakeSize(o)
  \/ \E o \in opening : FilesMove /\ CreateMapping(o)
  \/ \E o \in opening : FilesMove /\ MapView(o)
  \/ \E o \in opening : FilesMove /\ OpenFails(o)
  \/ FilesMove /\ CloseNext
  \/ \E v \in Variables : FilesMove /\ Discard(v)
  \/ \E v, src \in Variables : FilesMove /\ TakeOver(v, src)

OwnersSpec == OwnersInit /\ [][OwnersNext]_<<vars, privilegeVars, fileVars>>

\* Types of all three.
OwnersTypeOK == TypeOK /\ PrivilegeTypeOK /\ MappedTypeOK

=============================================================================
