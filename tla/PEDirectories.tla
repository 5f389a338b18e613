--------------------------- MODULE PEDirectories ---------------------------
(***************************************************************************)
(* core/pe: the parsers of the data directories - imports, exports,        *)
(* resources, TLS, debug, relocations and certificates - over the file     *)
(* parseFile has accepted.  Each is a loop over an array, or nested loops, *)
(* that ends at a terminator, at a cap or at the first entry that cannot   *)
(* be read; the stack of loops is `tables`, its last one runs.             *)
(*                                                                         *)
(* An entry is chosen when its bytes are first read and is the same when   *)
(* they are read again as the same kind of entry.  Entries of two kinds    *)
(* that overlap in the file are chosen independently.  A string or another *)
(* payload is known by the file offset it begins at, and where a string    *)
(* ends is chosen whenever it is read; a number that is only copied or     *)
(* turned into text is left out.                                           *)
(***************************************************************************)
EXTENDS PEParser, SequencesExt, FiniteSets

CONSTANTS
  Directories,  \* what the header can say of a directory: its RVA and size
  Rvas,         \* values of a field that holds an RVA, 0 among them
  Addresses,    \* values of a field that holds an address, 0 among them
  ImageBase,
  Offsets,      \* values of a field that holds an offset
  Counts,       \* values of a field that counts
  Lengths,      \* of a relocation block or a certificate
  Alignment,    \* of certificates
  Size,         \* sizeof of each kind of entry and payload
  Cap           \* the limit on each kind of entry, on the "depth" of resources and on
                \* the characters of a "text"

Entries == {"descriptor", "thunk", "exports", "name", "function", "directory", "node",
            "tls", "callback", "debug", "block", "certificate"}

\* Those that are not in an array but say where one is.
Headers == {"exports", "tls", "directory"}

Payloads == {"hint", "ordinal", "leaf", "length", "wchar", "rsds", "relocation"}

Kinds == {"imports", "exports", "resources", "tls", "debug", "relocations", "certificates"}

ASSUME DirectoryAssumption ==
  /\ Directories \subseteq [va : 0 .. RvaModulus - 1, size : 0 .. RvaModulus - 1]
  /\ Rvas \subseteq 0 .. RvaModulus - 1 /\ Offsets \subseteq 0 .. RvaModulus - 1
  /\ Counts \subseteq 0 .. RvaModulus - 1 /\ Lengths \subseteq 0 .. RvaModulus - 1
  /\ Addresses \subseteq Nat /\ ImageBase \in Nat
  /\ Size \in [Entries \cup Payloads -> Nat \ {0}]
  /\ Cap \in [Entries \cup {"depth", "text"} -> Nat] /\ Cap["text"] # 0
  /\ Alignment \in Nat \ {0}

VARIABLES
  kind,       \* the parser that runs, "none" before
  directory,  \* what the header says of its directory
  tables,     \* the loops that are running, the innermost last
  ordinals,   \* parseExports: RVA of the ordinals that go with the names
  names,      \* parseExports: indexToName
  found,      \* the result; of a tree its nodes before their children
  outcome,    \* "pending", "ok" or "error"
  content     \* history: the entries read, by kind and place

dirVars == <<kind, directory, tables, ordinals, names, found, outcome, content>>
vars    == <<parserVars, touched, dirVars>>

Nothing == [va |-> 0, size |-> 0]

Init ==
  /\ ParserInit
  /\ kind = "none" /\ directory = Nothing
  /\ tables = <<>>
  /\ ordinals = 0 /\ names = <<>>
  /\ found = <<>> /\ outcome = "pending"
  /\ content = <<>>

-----------------------------------------------------------------------------
(* Tables.                                                                 *)

Wrap(n) == n % RvaModulus

\* A loop over at most n entries, with the index of the next one.  The base is
\* the RVA of the array, or the cursor of a table whose entries vary in size.
Table(of, base, n) == [of |-> of, base |-> base, i |-> 0, n |-> n]

Loop == Last(tables)

\* Pointers, and what holds them, are as wide as the image says.
Width(of) == IF of \in {"thunk", "callback", "tls"} /\ pe.is64 THEN 2 * Size[of] ELSE Size[of]

HasCursor(of) == of \in {"block", "certificate"}

SlotRva(of, base, i) == IF HasCursor(of) THEN base ELSE Wrap(base + Wrap(i * Width(of)))

NextRva == SlotRva(Loop.of, Loop.base, Loop.i)

\* Only the table of certificates is addressed by file offset.
Place(of, rva) == IF of = "certificate" THEN rva ELSE RvaToOffset(rva)

\* readAtRva, readAtOffset: of an entry only the first byte is translated.
CanRead(of, rva) ==
  LET place == Place(of, rva) IN place # None /\ Fits(place, Width(of))

\* What is read at an RVA if it can be.
Piece(of, rva) ==
  LET place == Place(of, rva)
  IN IF place # None /\ Fits(place, Width(of)) THEN {Extent(place, Width(of))} ELSE {}

\* readCStringAtRva: where a string begins, None when its RVA is not backed.
TextAt(rva) == RvaToOffset(rva)

\* The test for a byte of a string, one too far.
InFileOrEnd(pos) == pos <= fileSize

\* The test the loops over a string make before each byte.
InFile(pos) == pos < fileSize

\* The character a string ends at if the file goes on for as long: its zero, or
\* the last one the limit allows.
Lasts == 0 .. Cap["text"] - 1

\* What readCStringAtOffset, and the same loop of readCStringAtRva, reads.
TextFrom(offset, last) == {Extent(offset + i, 1) : i \in {j \in 0 .. last : InFile(offset + j)}}

Text(rva, last) == IF TextAt(rva) = None THEN {} ELSE TextFrom(TextAt(rva), last)

\* How many of n payloads in a row can be read before one cannot, and their bytes.
Countable(of, base, n) ==
  CHOOSE k \in 0 .. n :
    /\ \A j \in 0 .. k - 1 : CanRead(of, SlotRva(of, base, j))
    /\ k = n \/ ~CanRead(of, SlotRva(of, base, k))

Run(of, base, n) ==
  UNION {Piece(of, SlotRva(of, base, j)) : j \in 0 .. Countable(of, base, n) - 1}

\* The end of the directory, which may wrap.
RegionEnd == Wrap(directory.va + directory.size)

InRegion(rva) == rva >= directory.va /\ rva < RegionEnd

\* The next entry is read and is v, as it was when it was read before; what it
\* leads to is read as well.
Read(of, v, payload) ==
  LET place == Place(of, NextRva)  key == <<of, place>> IN
  /\ key \in DOMAIN content => content[key] = v
  /\ content' = [k \in DOMAIN content \cup {key} |-> IF k = key THEN v ELSE content[k]]
  /\ touched' = {Extent(place, Width(of))} \cup payload

Running(of) ==
  /\ outcome = "pending" /\ tables # <<>> /\ Loop.of = of
  /\ Loop.i < Loop.n
  /\ HasCursor(of) => Loop.base < RegionEnd
  /\ UNCHANGED <<parserVars, kind, directory>>

\* The running loop can read its next entry.  This is the guard of every action
\* below that is named for an entry: Parse states it, once for all entries.
Reading(of) == Running(of) /\ CanRead(of, NextRva)

\* The rest of the loop runs, after those that are pushed.
GoOnAfter(pushed) ==
  /\ tables' = Append(Front(tables), [Loop EXCEPT !.i = @ + 1]) \o pushed
  /\ UNCHANGED outcome

GoOn == GoOnAfter(<<>>)

\* Without the limit on the number of entries.
GoOnAtWill(cursor) ==
  /\ tables' = Append(Front(tables), [Loop EXCEPT !.base = cursor])
  /\ UNCHANGED outcome

\* The cursor moves by the length of the entry.
GoOnAt(cursor) ==
  /\ tables' = Append(Front(tables), [Loop EXCEPT !.i = @ + 1, !.base = cursor])
  /\ UNCHANGED outcome

\* The innermost loop ends, and with the last one the parser.
Leave ==
  /\ tables' = Front(tables)
  /\ outcome' = IF Len(tables) = 1 THEN "ok" ELSE outcome

Add(row) == found' = Append(found, row)

Unnamed == UNCHANGED <<ordinals, names>>

\* No entry is left, by count or by region, or the next one cannot be read.
EndOfTable ==
  /\ outcome = "pending" /\ tables # <<>>
  /\ \/ Loop.i >= Loop.n
     \/ HasCursor(Loop.of) /\ Loop.base >= RegionEnd
     \/ Loop.of \notin {"name", "exports", "tls"} /\ ~CanRead(Loop.of, NextRva)
  /\ Leave
  /\ touched' = {}
  /\ UNCHANGED <<parserVars, kind, directory, ordinals, names, found, content>>

\* A directory of its own that cannot be read is an error.
Unreadable ==
  /\ \E of \in {"exports", "tls"} : Running(of) /\ ~CanRead(of, NextRva)
  /\ outcome' = "error"
  /\ touched' = {} /\ UNCHANGED <<tables, ordinals, names, found, content>>

\* The table a parser starts with.
Opening(k, d) ==
  CASE k = "imports"      -> Table("descriptor", d.va, Cap["descriptor"])
    [] k = "exports"      -> Table("exports", d.va, 1)
    [] k = "resources"    -> Table("directory", d.va, 1)
    [] k = "tls"          -> Table("tls", d.va, 1)
    [] k = "debug"        -> Table("debug", d.va, d.size \div Size["debug"])
    [] k = "relocations"  -> Table("block", d.va, Cap["block"])
    [] k = "certificates" -> Table("certificate", d.va, Cap["certificate"])

\* dataDirectory: an index the header does not have is as good as an empty
\* entry.  The locals of parseFile are gone.
Begin(k, d) ==
  /\ stage = "parsed" /\ kind = "none"
  /\ kind' = k /\ directory' = d
  /\ IF d.va = 0 \/ d.size = 0
     THEN outcome' = "ok" /\ UNCHANGED tables
     ELSE IF k = "debug" /\ Opening(k, d).n > Cap["debug"]
     THEN outcome' = "error" /\ UNCHANGED tables
     ELSE tables' = <<Opening(k, d)>> /\ UNCHANGED outcome
  /\ at' = 0 /\ header' = NoHeader /\ touched' = {}
  /\ UNCHANGED <<fileSize, stage, pe, ordinals, names, found, content>>

-----------------------------------------------------------------------------
(* parseImports                                                            *)

Descriptors == [lookup : Rvas, name : Rvas, table : Rvas]

\* OriginalFirstThunk, or FirstThunk of a bound import.
ThunkArray(d) == IF d.lookup # 0 THEN d.lookup ELSE d.table

IsTerminator(d) == d.name = 0 /\ d.table = 0 /\ d.lookup = 0

Descriptor(d) ==
  /\ \E last \in Lasts : Read("descriptor", d, IF IsTerminator(d) THEN {} ELSE Text(d.name, last))
  /\ IF IsTerminator(d)
     THEN Leave /\ UNCHANGED found
     ELSE /\ Add([name |-> TextAt(d.name), symbols |-> <<>>])
          /\ IF ThunkArray(d) = 0 THEN GoOn
             ELSE GoOnAfter(<<Table("thunk", ThunkArray(d), Cap["thunk"])>>)
  /\ Unnamed

Null == [null |-> TRUE, ordinal |-> FALSE, rva |-> 0]

\* Null, an ordinal, or the RVA of a name: all but 31 bits of it are masked out,
\* so that 0 is not only the RVA of a null thunk.
Thunks == {Null} \cup [null : {FALSE}, ordinal : BOOLEAN, rva : Rvas]

\* resolveNamedSymbol, or an ordinal: the name is behind the hint.
SymbolRva(t) == Wrap(t.rva + Size["hint"])

Symbol(t) ==
  IF t.ordinal THEN [ordinal |-> TRUE, hint |-> FALSE, name |-> None]
  ELSE [ordinal |-> FALSE, hint |-> CanRead("hint", t.rva), name |-> TextAt(SymbolRva(t))]

Thunk(t) ==
  /\ \E last \in Lasts :
       Read("thunk", t, IF t.null \/ t.ordinal THEN {}
                        ELSE Piece("hint", t.rva) \cup Text(SymbolRva(t), last))
  /\ IF t.null
     THEN Leave /\ UNCHANGED found
     ELSE GoOn /\ found' = [found EXCEPT ![Len(found)].symbols = Append(@, Symbol(t))]
  /\ Unnamed

-----------------------------------------------------------------------------
(* parseExports                                                            *)

ExportHeaders == [names : Rvas, ordinals : Rvas, functions : Rvas,
                  nameCount : Counts, functionCount : Counts]

\* The name of the module is read and not kept.
ExportHeader(x) ==
  /\ \E rva \in Rvas, last \in Lasts : Read("exports", x, Text(rva, last))
  /\ IF x.functionCount > Cap["function"] \/ x.nameCount > Cap["name"]
     THEN outcome' = "error" /\ UNCHANGED <<tables, ordinals>>
     ELSE /\ tables' = <<Table("function", x.functions, x.functionCount),
                         Table("name", x.names, x.nameCount)>>
          /\ ordinals' = x.ordinals
          /\ UNCHANGED outcome
  /\ UNCHANGED <<names, found>>

\* The table of ordinals runs parallel to that of names.
OrdinalRva(i) == Wrap(ordinals + Wrap(i * Size["ordinal"]))

\* The last name of an index instead of the first.
Renamed(text, index) ==
  IF text = None THEN names
  ELSE [k \in DOMAIN names \cup {index} |-> IF k = index THEN text ELSE names[k]]

\* emplace keeps the first name of an index.
Named(text, index) ==
  IF text = None \/ index \in DOMAIN names THEN names
  ELSE [k \in DOMAIN names \cup {index} |-> IF k = index THEN text ELSE names[k]]

Name(rva, index) ==
  /\ CanRead("ordinal", OrdinalRva(Loop.i))
  /\ \E last \in Lasts :
       Read("name", [rva |-> rva, index |-> index],
            Piece("ordinal", OrdinalRva(Loop.i)) \cup Text(rva, last))
  /\ names' = Named(TextAt(rva), index)
  /\ GoOn
  /\ UNCHANGED <<ordinals, found>>

\* A name that cannot be read, or whose index cannot, does not end the table.
SkipName ==
  /\ Running("name")
  /\ ~(CanRead("name", NextRva) /\ CanRead("ordinal", OrdinalRva(Loop.i)))
  /\ touched' = Piece("name", NextRva) \cup Piece("ordinal", OrdinalRva(Loop.i))
  /\ GoOn
  /\ UNCHANGED <<ordinals, names, found, content>>

NameOf(index) == IF index \in DOMAIN names THEN names[index] ELSE None

\* An unused slot lists nothing; a function inside the directory is a forwarder.
Function(f) ==
  /\ \E last \in Lasts :
       Read("function", f, IF f # 0 /\ InRegion(f) THEN Text(f, last) ELSE {})
  /\ IF f = 0 THEN UNCHANGED found
     ELSE Add([index   |-> Loop.i, name |-> NameOf(Loop.i), forward |-> InRegion(f),
               target  |-> IF InRegion(f) THEN TextAt(f) ELSE f])
  /\ GoOn
  /\ Unnamed

-----------------------------------------------------------------------------
(* parseResources                                                          *)

ResourceRva(offset) == Wrap(directory.va + offset)

\* A directory with too many entries is as good as empty.
ResourceDirectory(count) ==
  /\ Read("directory", count, {})
  /\ tables' = Append(Front(tables),
                      Table("node", Wrap(Loop.base + Size["directory"]),
                            IF count > Cap["node"] THEN 0 ELSE count))
  /\ UNCHANGED <<outcome, ordinals, names, found>>

Nodes == [named : BOOLEAN, id : Offsets, sub : BOOLEAN, offset : Offsets]

\* readResourceName: a length and as many characters, up to the first one that
\* cannot be read.  Without a length there is no name.
NamePlace(rva) == IF CanRead("length", rva) THEN RvaToOffset(rva) ELSE None

NameText(rva, n) ==
  IF NamePlace(rva) = None THEN {}
  ELSE Piece("length", rva) \cup Run("wchar", Wrap(rva + Size["length"]), n)

\* An id, or the name at an offset.
Identity(e) == [named |-> e.named, id |-> IF e.named THEN NamePlace(ResourceRva(e.id)) ELSE e.id]

Anonymous == [named |-> FALSE, id |-> 0]

\* parseDataLeaf: where the data entry was read, if it could be.
DataOf(e) == IF ~e.sub /\ CanRead("leaf", ResourceRva(e.offset))
             THEN RvaToOffset(ResourceRva(e.offset)) ELSE None

\* A leaf whose identity is not restored.
NodeOfLeaf(e, depth) == [depth |-> depth, at |-> NextRva, leaf |-> ~e.sub, data |-> DataOf(e),
                         identity |-> IF e.sub THEN Identity(e) ELSE Anonymous]

NodeOf(e, depth) == [depth |-> depth, at |-> NextRva, leaf |-> ~e.sub, data |-> DataOf(e),
                     identity |-> Identity(e)]

\* parseDirectory calls itself for a subdirectory, down to a depth.
Node(e) ==
  /\ \E n \in Counts :
       Read("node", e, (IF e.named THEN NameText(ResourceRva(e.id), n) ELSE {})
                         \cup IF e.sub THEN {} ELSE Piece("leaf", ResourceRva(e.offset)))
  /\ Add(NodeOf(e, Len(tables) - 1))
  /\ IF e.sub /\ Len(tables) <= Cap["depth"]
     THEN GoOnAfter(<<Table("directory", ResourceRva(e.offset), 1)>>)
     ELSE GoOn
  /\ Unnamed

-----------------------------------------------------------------------------
(* parseTls, parseDebug, parseRelocations, parseCertificates               *)

\* The array of callbacks is found by its address, cut to 32 bits.
TlsDirectory(callbacks) ==
  /\ Read("tls", callbacks, {})
  /\ IF callbacks > ImageBase
     THEN /\ tables' = <<Table("callback", Wrap(callbacks - ImageBase), Cap["callback"])>>
          /\ UNCHANGED outcome
     ELSE Leave
  /\ UNCHANGED <<ordinals, names, found>>

Callback(address) ==
  /\ Read("callback", address, {})
  /\ IF address = 0 THEN Leave /\ UNCHANGED found ELSE GoOn /\ Add([address |-> address])
  /\ Unnamed

DebugEntries == [codeView : BOOLEAN, pointer : Offsets]

HasRecord(e) == e.codeView /\ e.pointer # 0 /\ Fits(e.pointer, Size["rsds"])

\* A CodeView record is read at its file offset; when it says RSDS the path of
\* the PDB follows it.
Debug(e, rsds) ==
  /\ rsds => HasRecord(e)
  /\ \E last \in Lasts :
       Read("debug", e, (IF HasRecord(e) THEN {Extent(e.pointer, Size["rsds"])} ELSE {})
                          \cup IF rsds THEN TextFrom(e.pointer + Size["rsds"], last) ELSE {})
  /\ Add([entry |-> e, path |-> IF rsds THEN e.pointer + Size["rsds"] ELSE None])
  /\ GoOn
  /\ Unnamed

RelocationBlock(size) ==
  LET entries == Wrap(Loop.base + Size["block"])
      n       == (size - Size["block"]) \div Size["relocation"]
  IN
  /\ Read("block", size, IF size < Size["block"] THEN {} ELSE Run("relocation", entries, n))
  /\ IF size < Size["block"]
     THEN Leave /\ UNCHANGED found
     ELSE /\ Add([at |-> Loop.base, size |-> size,
                  counted |-> Countable("relocation", entries, n)])
          /\ GoOnAt(Wrap(Loop.base + size))
  /\ Unnamed

AlignUp(n) == LET m == Wrap(n + Alignment - 1) IN m - (m % Alignment)

\* Without the guard against a cursor that does not advance.
Advances(next) == TRUE

MovesOn(next) == next > Loop.base

Certificate(length) ==
  LET next == AlignUp(Wrap(Loop.base + length)) IN
  /\ Read("certificate", length, {})
  /\ IF length < Size["certificate"]
     THEN Leave /\ UNCHANGED found
     ELSE /\ Add([at |-> Loop.base, size |-> length])
          /\ IF MovesOn(next) THEN GoOnAt(next) ELSE Leave
  /\ Unnamed

-----------------------------------------------------------------------------

Parse ==
  \/ EndOfTable \/ Unreadable \/ SkipName
  \/ Reading("descriptor") /\ \E d \in Descriptors : Descriptor(d)
  \/ Reading("thunk") /\ \E t \in Thunks : Thunk(t)
  \/ Reading("exports") /\ \E x \in ExportHeaders : ExportHeader(x)
  \/ Reading("name") /\ \E rva \in Rvas, index \in Counts : Name(rva, index)
  \/ Reading("function") /\ \E f \in Rvas : Function(f)
  \/ Reading("directory") /\ \E count \in Counts : ResourceDirectory(count)
  \/ Reading("node") /\ \E e \in Nodes : Node(e)
  \/ Reading("tls") /\ \E a \in Addresses : TlsDirectory(a)
  \/ Reading("callback") /\ \E a \in Addresses : Callback(a)
  \/ Reading("debug") /\ \E e \in DebugEntries, rsds \in BOOLEAN : Debug(e, rsds)
  \/ Reading("block") /\ \E n \in Lengths : RelocationBlock(n)
  \/ Reading("certificate") /\ \E n \in Lengths : Certificate(n)

Next == \/ ParserNext /\ UNCHANGED dirVars
        \/ \E k \in Kinds, d \in Directories : Begin(k, d)
        \/ Parse

Spec == Init /\ [][Next]_vars

-----------------------------------------------------------------------------
(* Properties.                                                             *)

\* Types; the loops that run are those their parser can be in.
TypeOK ==
  /\ ParserTypeOK
  /\ kind \in Kinds \cup {"none"}
  /\ directory \in Directories \cup {Nothing}
  /\ tables \in Seq([of : Entries, base : 0 .. RvaModulus - 1, i : Nat, n : Nat])
  /\ ordinals \in 0 .. RvaModulus - 1
  /\ DOMAIN names \subseteq Counts /\ \A k \in DOMAIN names : names[k] \in Nat
  /\ outcome \in {"pending", "ok", "error"}
  /\ kind # "none" /\ outcome = "pending" => tables # <<>>

Value(of, rva) == content[<<of, Place(of, rva)>>]

Done(k) == kind = k /\ outcome = "ok" /\ directory.va # 0 /\ directory.size # 0

\* A loop over an array made `len` steps: all its entries could be read and are
\* not the terminator, and the next one is past the limit, cannot be read or is
\* the terminator.
EndsAfter(of, base, n, len, Terminator(_)) ==
  LET rva(i) == SlotRva(of, base, i) IN
  /\ len <= n
  /\ \A i \in 0 .. len - 1 : CanRead(of, rva(i)) /\ ~Terminator(Value(of, rva(i)))
  /\ len < n /\ CanRead(of, rva(len)) => Terminator(Value(of, rva(len)))

ImportsMirrorFile ==
  /\ EndsAfter("descriptor", directory.va, Cap["descriptor"], Len(found), IsTerminator)
  /\ \A m \in 1 .. Len(found) :
       LET d == Value("descriptor", SlotRva("descriptor", directory.va, m - 1))
           symbols == found[m].symbols
           IsNull(t) == t.null
       IN /\ found[m].name = TextAt(d.name)
          /\ IF ThunkArray(d) = 0 THEN symbols = <<>>
             ELSE EndsAfter("thunk", ThunkArray(d), Cap["thunk"], Len(symbols), IsNull)
          /\ \A j \in 1 .. Len(symbols) :
               symbols[j] = Symbol(Value("thunk", SlotRva("thunk", ThunkArray(d), j - 1)))

\* The names of the file that are those of an index, by their place in the table.
NamesOf(x, index) ==
  {i \in 0 .. x.nameCount - 1 :
     LET rva == SlotRva("name", x.names, i) IN
     /\ CanRead("name", rva)
     /\ CanRead("ordinal", Wrap(x.ordinals + Wrap(i * Size["ordinal"])))
     /\ Value("name", rva).index = index
     /\ TextAt(Value("name", rva).rva) # None}

ExportsMirrorFile ==
  LET x == Value("exports", directory.va)
      Listed == {k \in 0 .. x.functionCount - 1 :
                   /\ \A j \in 0 .. k : CanRead("function", SlotRva("function", x.functions, j))
                   /\ Value("function", SlotRva("function", x.functions, k)) # 0}
  IN /\ {found[m].index : m \in 1 .. Len(found)} = Listed
     /\ \A m \in 1 .. Len(found) :
          LET f == Value("function", SlotRva("function", x.functions, found[m].index))
              own == NamesOf(x, found[m].index)
          IN /\ \A l \in 1 .. m - 1 : found[l].index < found[m].index
             /\ found[m].forward <=> InRegion(f)
             /\ found[m].target = IF InRegion(f) THEN TextAt(f) ELSE f
             /\ found[m].name =
                  IF own = {} THEN None
                  ELSE TextAt(Value("name", SlotRva("name", x.names, FirstOf(own))).rva)

\* PEImports.hpp:3-4 and PEExports.hpp:3-5: what is listed is what the tables of
\* the file say, all of it and in their order: every module with the symbols of
\* its own array of thunks, every export with the first name that is its own
\* and forwarded when it points into the directory.
SymbolsMirrorFile ==
  /\ Done("imports") => ImportsMirrorFile
  /\ Done("exports") => ExportsMirrorFile

\* The nodes directly below the node at position m, or below the root (m = 0).
Below(m) ==
  LET depth == IF m = 0 THEN 0 ELSE found[m].depth + 1 IN
  {j \in m + 1 .. Len(found) :
     found[j].depth = depth /\ \A l \in m + 1 .. j : found[l].depth >= depth}

\* The entries a directory at an RVA has that can be read, if it is not too large.
ChildCount(rva) ==
  IF ~CanRead("directory", rva) THEN 0
  ELSE LET n == Value("directory", rva) IN
       IF n > Cap["node"] THEN 0
       ELSE CHOOSE k \in 0 .. n :
              /\ \A i \in 0 .. k - 1 :
                   CanRead("node", SlotRva("node", Wrap(rva + Size["directory"]), i))
              /\ k = n \/ ~CanRead("node", SlotRva("node", Wrap(rva + Size["directory"]), k))

\* PEResources.hpp:3-5: the tree is the one in the file, down to the depth that
\* is allowed and however its directories are shared or lead back to one
\* another: below a directory are as many nodes as it has entries, each node
\* is identified by its own entry and a leaf has the data of that entry.
ResourcesMirrorFile ==
  Done("resources") =>
    /\ Cardinality(Below(0)) = ChildCount(directory.va)
    /\ \A m \in 1 .. Len(found) :
         LET e == Value("node", found[m].at) IN
         /\ found[m].depth <= Cap["depth"]
         /\ found[m].identity = Identity(e)
         /\ found[m].leaf = ~e.sub /\ found[m].data = DataOf(e)
         /\ Cardinality(Below(m)) =
              IF e.sub /\ found[m].depth < Cap["depth"]
              THEN ChildCount(ResourceRva(e.offset)) ELSE 0

\* PEDirectories.cpp:330, "guard against a stalling zero-length advance": no
\* certificate is listed twice, whatever lengths the file gives.  None overlaps
\* the next, and no block of relocations is counted twice, as long as all of
\* them end within the address space: past its end a cursor wraps.
RecordsAscend ==
  kind \in {"certificates", "relocations"} =>
    LET InSpace == \A m \in 1 .. Len(found) : found[m].at + found[m].size < RvaModulus IN
    \A m \in 1 .. Len(found) - 1 :
      /\ kind = "certificates" \/ InSpace => found[m].at < found[m + 1].at
      /\ InSpace => found[m].at + found[m].size <= found[m + 1].at

\* The innermost loop that changed went on, or has read the header that says
\* what to list; or only loops inside of it ended.
GoesForward(before, after) ==
  \/ Len(after) < Len(before) /\ after = SubSeq(before, 1, Len(after))
  \/ \E k \in 1 .. Len(before) :
       /\ k <= Len(after) /\ SubSeq(after, 1, k - 1) = SubSeq(before, 1, k - 1)
       /\ IF before[k].of \in Headers THEN after[k].of \notin Headers
          ELSE /\ after[k].of = before[k].of /\ after[k].n = before[k].n
               /\ after[k].i > before[k].i

\* PEResources.cpp:12-14: no parser comes back to where it was, on tables without
\* a terminator, cursors that wrap and directories that lead back to themselves:
\* every step goes forward in a walk whose depth and loops are bounded, which is
\* why every parser ends.
NeverGoesBack ==
  [][kind # "none" => /\ GoesForward(tables, tables') \/ (outcome' = "error" /\ tables' = tables)
                      /\ Len(tables') <= Cap["depth"] + 2
                      /\ \A k \in 1 .. Len(tables') : tables'[k].i <= tables'[k].n]_vars

=============================================================================
