----------------------------- MODULE MappedFile -----------------------------
(***************************************************************************)
(* common/io/MappedFile: a file handle, the handle of its mapping and a    *)
(* view, opened one after the other and owned together; and others, who    *)
(* write to the files meanwhile.                                           *)
(*                                                                         *)
(* A resource is known by the number the system gives it, one that is      *)
(* free.  A program does one thing at a time with its MappedFiles, but it  *)
(* opens and gives up the three resources of one in steps.                 *)
(***************************************************************************)
EXTENDS Integers, Sequences

CONSTANTS
  Files,     \* files there are
  FileSizes, \* sizes one can have
  Variables, \* MappedFile variables of the program
  Numbers    \* bound: numbers of resources

ASSUME MappedFileAssumption == FileSizes \subseteq Nat /\ Numbers \subseteq Nat \ {0}

VARIABLES
  disk,     \* size of each file
  writers,  \* files that someone has open for writing
  table,    \* the resources by number: of which file, and what each was made from
  mapped,   \* file_, mapping_, view_ and size_ of each variable
  opening,  \* open() that runs, if one does: for what, with which locals
  closing   \* what is to be closed next, in this order

fileVars == <<disk, writers, table, mapped, opening, closing>>

Unmapped == [file |-> 0, mapping |-> 0, view |-> 0, size |-> 0]
Free     == [kind |-> "free"]

MappedTypeOK ==
  LET M == [file : Numbers \cup {0}, mapping : Numbers \cup {0}, view : Numbers \cup {0},
            size : FileSizes \cup {0}]
  IN /\ disk \in [Files -> FileSizes] /\ writers \subseteq Files
     /\ table \in [Numbers -> {Free} \cup
          [kind : {"file", "mapping", "view"}, file : Files, from : Numbers \cup {0}]]
     /\ mapped \in [Variables -> M]
     /\ opening \subseteq [into : Variables, of : Files, locals : M]
     /\ closing \in Seq(Numbers)

MappedInit ==
  /\ disk \in [Files -> FileSizes]
  /\ writers = {}
  /\ table = [n \in Numbers |-> Free]
  /\ mapped = [v \in Variables |-> Unmapped]
  /\ opening = {} /\ closing = <<>>

-----------------------------------------------------------------------------
(* The files and their other users.                                        *)

InUse(kind, file) == \E n \in Numbers : table[n].kind = kind /\ table[n].file = file

\* A file is not opened for writing while someone shares it for reading only.
WriteBegins(f) ==
  /\ ~InUse("file", f)
  /\ writers' = writers \cup {f}
  /\ UNCHANGED <<disk, table, mapped, opening, closing>>

\* A file that is mapped can grow, but not shrink.
Resize(f, size) ==
  /\ f \in writers
  /\ InUse("mapping", f) \/ InUse("view", f) => size > disk[f]
  /\ disk' = [disk EXCEPT ![f] = size]
  /\ UNCHANGED <<writers, table, mapped, opening, closing>>

WriteEnds(f) ==
  /\ f \in writers
  /\ writers' = writers \ {f}
  /\ UNCHANGED <<disk, table, mapped, opening, closing>>

-----------------------------------------------------------------------------
(* open                                                                    *)

Ready == opening = {} /\ closing = <<>>

Fresh == CHOOSE n \in Numbers : table[n] = Free

\* The resource is made, under a number that is free.
Make(kind, file, from) ==
  /\ \E n \in Numbers : table[n] = Free
  /\ table' = [table EXCEPT ![Fresh] = [kind |-> kind, file |-> file, from |-> from]]

\* CreateFileW without regard to who writes to the file.
BeginOpenShared(v, f) ==
  /\ Ready /\ mapped[v] = Unmapped
  /\ Make("file", f, 0)
  /\ opening' = {[into |-> v, of |-> f, locals |-> [Unmapped EXCEPT !.file = Fresh]]}
  /\ UNCHANGED <<disk, writers, mapped, closing>>

\* CreateFileW, sharing the file for reading only.
BeginOpen(v, f) ==
  /\ Ready /\ mapped[v] = Unmapped /\ f \notin writers
  /\ Make("file", f, 0)
  /\ opening' = {[into |-> v, of |-> f, locals |-> [Unmapped EXCEPT !.file = Fresh]]}
  /\ UNCHANGED <<disk, writers, mapped, closing>>

\* GetFileSizeEx; an empty file is not mapped.
TakeSize(o) ==
  /\ o.locals.size = 0 /\ disk[o.of] > 0
  /\ opening' = {[into |-> o.into, of |-> o.of, locals |-> [o.locals EXCEPT !.size = disk[o.of]]]}
  /\ UNCHANGED <<disk, writers, table, mapped, closing>>

CreateMapping(o) ==
  /\ o.locals.size # 0 /\ o.locals.mapping = 0
  /\ Make("mapping", o.of, o.locals.file)
  /\ opening' = {[into |-> o.into, of |-> o.of, locals |-> [o.locals EXCEPT !.mapping = Fresh]]}
  /\ UNCHANGED <<disk, writers, mapped, closing>>

\* The view is made and the locals are moved into the result.
MapView(o) ==
  /\ o.locals.mapping # 0
  /\ Make("view", o.of, o.locals.mapping)
  /\ mapped' = [mapped EXCEPT ![o.into] = [o.locals EXCEPT !.view = Fresh]]
  /\ opening' = {}
  /\ UNCHANGED <<disk, writers, closing>>

\* Any of these fails; the locals close, the last one first.
OpenFails(o) ==
  /\ closing' = IF o.locals.mapping = 0 THEN <<o.locals.file>>
                ELSE <<o.locals.mapping, o.locals.file>>
  /\ opening' = {}
  /\ UNCHANGED <<disk, writers, table, mapped>>

-----------------------------------------------------------------------------
(* Giving up and moving.                                                   *)

CloseNext ==
  /\ closing # <<>>
  /\ table' = [table EXCEPT ![Head(closing)] = Free]
  /\ closing' = Tail(closing)
  /\ UNCHANGED <<disk, writers, mapped, opening>>

\* Members in their order, the view last.
MembersFirst(m) == <<m.mapping, m.file, m.view>>

\* release(), then the members, the last one first.
ReleaseOrder(m) == <<m.view, m.mapping, m.file>>

\* A variable that holds nothing has nothing to give up.
Discard(v) ==
  /\ Ready /\ mapped[v] # Unmapped
  /\ closing' = ReleaseOrder(mapped[v])
  /\ mapped' = [mapped EXCEPT ![v] = Unmapped]
  /\ UNCHANGED <<disk, writers, table, opening>>

\* The view is exchanged without release().
TakeOverLeaking(v, src) ==
  /\ Ready /\ v # src
  /\ closing' = IF mapped[v] = Unmapped THEN <<>> ELSE <<mapped[v].file, mapped[v].mapping>>
  /\ mapped' = [mapped EXCEPT ![v] = mapped[src], ![src] = Unmapped]
  /\ UNCHANGED <<disk, writers, table, opening>>

\* Move construction and assignment: the members of the assignment close in the
\* order they are assigned in.
TakeOver(v, src) ==
  /\ Ready /\ v # src
  /\ closing' = IF mapped[v] = Unmapped THEN <<>>
                ELSE <<mapped[v].view, mapped[v].file, mapped[v].mapping>>
  /\ mapped' = [mapped EXCEPT ![v] = mapped[src], ![src] = Unmapped]
  /\ UNCHANGED <<disk, writers, table, opening>>

MappedNext ==
  \/ \E f \in Files : WriteBegins(f) \/ WriteEnds(f) \/ \E size \in FileSizes : Resize(f, size)
  \/ \E v \in Variables, f \in Files : BeginOpen(v, f)
  \/ \E o \in opening : TakeSize(o) \/ CreateMapping(o) \/ MapView(o) \/ OpenFails(o)
  \/ CloseNext
  \/ \E v \in Variables : Discard(v) \/ \E src \in Variables : TakeOver(v, src)

MappedSpec == MappedInit /\ [][MappedNext]_fileVars

-----------------------------------------------------------------------------
(* Properties.                                                             *)

\* MappedFile.hpp:3-5: as long as a variable holds a view, the view is of a whole
\* file, which stays as large as size_ says however long others try to write to
\* it: the bounds a parser takes from size_ are those of the memory it reads.
ViewsShowWholeFiles ==
  \A v \in Variables :
    mapped[v].view # 0 =>
      /\ table[mapped[v].view].kind = "view"
      /\ mapped[v].size = disk[table[mapped[v].view].file]

\* MappedFile.cpp:37-38, "the view must be unmapped first": no view outlives its
\* mapping, and every resource has one owner, who will close it, whether open
\* fails or the variable is moved, assigned or destroyed.
ResourcesAreOwnedInOrder ==
  LET Of(m) == {m.file, m.mapping, m.view}
      InClosing == {closing[i] : i \in DOMAIN closing}
      owners(n) == {<<"variable", v>> : v \in {x \in Variables : n \in Of(mapped[x])}}
                     \cup {<<"open", o>> : o \in {x \in opening : n \in Of(x.locals)}}
                     \cup {<<"close", m>> : m \in InClosing \cap {n}}
  IN \A n \in Numbers :
       IF table[n] = Free THEN owners(n) = {}
       ELSE /\ \E o \in owners(n) : owners(n) = {o}
            /\ table[n].kind = "view" => table[table[n].from] # Free

=============================================================================
