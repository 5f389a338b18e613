----------------------------- MODULE MemoryScan -----------------------------
(***************************************************************************)
(* core/memory: MemoryManager::scan, with the queryMap it starts from and  *)
(* the window search of SignatureScanner::findAll, over a process that     *)
(* keeps writing, protecting and freeing its memory while it is scanned.   *)
(*                                                                         *)
(* One address stands for a byte and for a page: a read stops at the first *)
(* address it may not access.  A pattern is what compile() makes of its    *)
(* text, a nonempty sequence of bytes and wildcards.  Each native call is  *)
(* one action, and the process may change between any two of them.         *)
(***************************************************************************)
EXTENDS Integers, Sequences

CONSTANTS
  Size,         \* addresses of the process are 0 .. Size - 1
  MaxAddress,   \* ceilings resolveMaxUserAddress can answer
  Bytes,        \* values of a byte
  Fresh,        \* the value fresh memory has
  Any,          \* the wildcard
  Patterns,     \* compiled patterns to scan for
  Readable,     \* protections isReadable accepts
  NotReadable,  \* free, reserved, guard and no-access memory
  ScanChunk,    \* kScanChunk
  Modulus,      \* 2^w of std::size_t
  MaxChanges    \* bound: changes the process makes during a scan

ASSUME ScanAssumption ==
  /\ Size \in Nat
  /\ MaxAddress \subseteq Nat
  /\ ScanChunk \in Nat \ {0}
  /\ Modulus \in Nat \ {0}
  /\ Size < Modulus
  /\ ScanChunk < Modulus
  /\ MaxChanges \in Nat
  /\ Readable \cap NotReadable = {}
  /\ NotReadable # {}
  /\ Fresh \in Bytes /\ Any \notin Bytes
  /\ Patterns \subseteq Seq(Bytes \cup {Any}) \ {<<>>}

VARIABLES
  byte,        \* process: contents by address
  prot,        \* process: protection by address
  changes,     \* number of changes so far
  rewritten,   \* history: addresses whose contents changed since the start
  reprotected, \* history: addresses whose protection changed since the start
  pattern,     \* scanner
  pc,          \* "open", "map", "reopen", "scan", "done" or "failed"
  address,     \* queryMap: address
  maxAddress,  \* queryMap: maxAddress
  regions,     \* the map, in the order it was collected
  current,     \* index of the region scanned now
  offset,      \* offset in that region
  matches,     \* addresses reported
  hits         \* history: addresses the last window added

processVars == <<byte, prot, changes, rewritten, reprotected>>
mapVars     == <<address, maxAddress, regions>>
scanVars    == <<current, offset, matches, hits>>
vars        == <<processVars, pattern, pc, mapVars, scanVars>>

Min2(m, n) == IF m < n THEN m ELSE n

Addresses   == 0 .. Size - 1
Protections == Readable \cup NotReadable
Region      == [base : Addresses, size : 0 .. Size, prot : Protections]

TypeOK ==
  /\ byte \in [Addresses -> Bytes]
  /\ prot \in [Addresses -> Protections]
  /\ changes \in 0 .. MaxChanges
  /\ rewritten \subseteq Addresses /\ reprotected \subseteq Addresses
  /\ pattern \in Patterns
  /\ pc \in {"open", "map", "reopen", "scan", "done", "failed"}
  /\ address \in 0 .. Size
  /\ maxAddress \in MaxAddress
  /\ regions \in Seq(Region)
  /\ current \in 1 .. Len(regions) + 1
  /\ offset \in 0 .. Modulus - 1
  /\ matches \subseteq Addresses /\ hits \subseteq matches

Init ==
  /\ prot \in [Addresses -> Protections]
  /\ byte \in [Addresses -> Bytes]
  /\ \A a \in Addresses : prot[a] \in NotReadable => byte[a] = Fresh
  /\ changes = 0
  /\ rewritten = {} /\ reprotected = {}
  /\ pattern \in Patterns
  /\ pc = "open"
  /\ address = 0
  /\ maxAddress \in MaxAddress
  /\ regions = <<>>
  /\ current = 1
  /\ offset = 0
  /\ matches = {} /\ hits = {}

-----------------------------------------------------------------------------
(* The process that is scanned.                                            *)

Scanning == pc \notin {"done", "failed"}

WriteByte(a, v) ==
  /\ Scanning /\ changes < MaxChanges
  /\ prot[a] \in Readable /\ byte[a] # v
  /\ byte' = [byte EXCEPT ![a] = v]
  /\ rewritten' = rewritten \cup {a}
  /\ changes' = changes + 1
  /\ UNCHANGED <<prot, reprotected, pattern, pc, mapVars, scanVars>>

Protect(a, p) ==
  /\ Scanning /\ changes < MaxChanges
  /\ prot[a] # p
  /\ prot' = [prot EXCEPT ![a] = p]
  /\ reprotected' = reprotected \cup {a}
  /\ changes' = changes + 1
  /\ UNCHANGED <<byte, rewritten, pattern, pc, mapVars, scanVars>>

\* The process exits; the handles to it stay valid and see no memory.
Exit ==
  /\ Scanning /\ changes < MaxChanges
  /\ prot' \in [Addresses -> NotReadable]
  /\ reprotected' = Addresses
  /\ changes' = changes + 1
  /\ UNCHANGED <<byte, rewritten, pattern, pc, mapVars, scanVars>>

-----------------------------------------------------------------------------
(* queryMap                                                                *)

\* openProcess of the map and openProcess of the scan itself.
Open ==
  /\ pc \in {"open", "reopen"}
  /\ pc' = IF pc = "open" THEN "map" ELSE "scan"
  /\ UNCHANGED <<processVars, pattern, mapVars, scanVars>>

OpenFails ==
  /\ pc \in {"open", "reopen"}
  /\ pc' = "failed"
  /\ UNCHANGED <<processVars, pattern, mapVars, scanVars>>

\* NtQueryVirtualMemory describes the run of equal protection that starts at
\* the address; the walk is prepared for one of size 0.
RegionAt(a) ==
  [base |-> a, prot |-> prot[a],
   size |-> CHOOSE n \in 1 .. Size - a :
              /\ \A i \in a .. a + n - 1 : prot[i] = prot[a]
              /\ a + n < Size => prot[a + n] # prot[a]]

\* The walk that takes the end of a region for its last address.
QueryRegionPastEnd(empty) ==
  /\ pc = "map" /\ address < maxAddress /\ address < Size
  /\ regions' = Append(regions, RegionAt(address))
  /\ address' = Min2(RegionAt(address).base + RegionAt(address).size + 1, Size)
  /\ UNCHANGED <<processVars, pattern, pc, maxAddress, scanVars>>

QueryRegion(empty) ==
  /\ pc = "map" /\ address < maxAddress /\ address < Size
  /\ LET region == IF empty THEN [RegionAt(address) EXCEPT !.size = 0] ELSE RegionAt(address)
         next   == region.base + region.size
     IN /\ regions' = Append(regions, region)
        /\ IF next <= address
           THEN /\ pc' = "reopen"
                /\ UNCHANGED address
           ELSE /\ address' = next
                /\ UNCHANGED pc
  /\ UNCHANGED <<processVars, pattern, maxAddress, scanVars>>

\* The end of the walk: the ceiling, the end of the address space or any error.
\* A map with no region at all is an error, a shorter one is not.
EndMap ==
  /\ pc = "map"
  /\ pc' = IF regions = <<>> THEN "failed" ELSE "reopen"
  /\ UNCHANGED <<processVars, pattern, mapVars, scanVars>>

-----------------------------------------------------------------------------
(* scan                                                                    *)

patternSize == Len(pattern)

MatchesAt(a) == \A j \in 1 .. patternSize : pattern[j] \in {Any, byte[a + j - 1]}

\* findAll in the window of n bytes at a, as addresses.
FindAll(a, n) ==
  {m \in Addresses : /\ a <= m /\ m + patternSize <= a + n
                     /\ MatchesAt(m)}

\* Bytes a read of up to n bytes at a copies before it meets a page it may not.
Copied(a, n) ==
  CHOOSE k \in 0 .. n :
    /\ \A i \in a .. a + k - 1 : prot[i] \in Readable
    /\ k < n => prot[a + k] \notin Readable

\* How far a window moves, with the overlap computed one byte short.
StepShort(bytesRead, chunkSize, remaining) ==
  IF bytesRead = chunkSize /\ remaining > chunkSize /\ patternSize > 1
  THEN bytesRead - patternSize + 2
  ELSE bytesRead

\* How far a window moves, with an overlap of a whole pattern.
StepLong(bytesRead, chunkSize, remaining) ==
  IF bytesRead = chunkSize /\ remaining > chunkSize /\ patternSize < bytesRead
  THEN bytesRead - patternSize
  ELSE bytesRead

\* How far a window moves: by what was read, less the overlap when there is
\* more of the region to come.  The subtraction wraps for a pattern that is
\* longer than the window.
Step(bytesRead, chunkSize, remaining) ==
  LET step == IF bytesRead = chunkSize /\ remaining > chunkSize /\ patternSize > 1
              THEN (bytesRead - (patternSize - 1)) % Modulus
              ELSE bytesRead
  IN IF step = 0 THEN bytesRead ELSE step

AtRegion == pc = "scan" /\ current <= Len(regions)

NextRegion == current' = current + 1 /\ offset' = 0 /\ hits' = {}

\* The map says that the region cannot be read, or its end is reached.
SkipRegion ==
  /\ AtRegion
  /\ LET region == regions[current]
     IN region.prot \notin Readable \/ offset >= region.size
  /\ NextRegion
  /\ UNCHANGED <<processVars, pattern, pc, mapVars, matches>>

InWindow ==
  /\ AtRegion
  /\ regions[current].prot \in Readable
  /\ offset < regions[current].size

\* A read that fails is tried again.
ReadFailsRetrying ==
  /\ InWindow
  /\ prot[regions[current].base + offset] \notin Readable
  /\ hits' = {}
  /\ UNCHANGED <<processVars, pattern, pc, mapVars, current, offset, matches>>

\* Nothing could be read: the rest of the region is skipped.  Only a page that
\* may not be accessed makes a read fail.
ReadFails ==
  /\ InWindow
  /\ prot[regions[current].base + offset] \notin Readable
  /\ NextRegion
  /\ UNCHANGED <<processVars, pattern, pc, mapVars, matches>>

ReadWindow ==
  /\ InWindow
  /\ LET region    == regions[current]
         remaining == region.size - offset
         chunkSize == Min2(remaining, ScanChunk)
         bytesRead == Copied(region.base + offset, chunkSize)
     IN /\ bytesRead > 0
        /\ hits' = FindAll(region.base + offset, bytesRead)
        /\ matches' = matches \cup hits'
        /\ offset' = (offset + Step(bytesRead, chunkSize, remaining)) % Modulus
  /\ UNCHANGED <<processVars, pattern, pc, mapVars, current>>

Finish ==
  /\ pc = "scan" /\ current > Len(regions)
  /\ pc' = "done"
  /\ UNCHANGED <<processVars, pattern, mapVars, scanVars>>

-----------------------------------------------------------------------------

Process == \/ \E a \in Addresses, v \in Bytes : WriteByte(a, v)
           \/ \E a \in Addresses, p \in Protections : Protect(a, p)
           \/ Exit

Scan == \/ Open \/ OpenFails
        \/ \E empty \in BOOLEAN : QueryRegion(empty)
        \/ EndMap
        \/ SkipRegion \/ ReadFails \/ ReadWindow
        \/ Finish

Next == Process \/ Scan

Spec == Init /\ [][Next]_vars

\* scan() runs on in its thread, and every native call returns.
FairSpec == Spec /\ WF_vars(Scan)

-----------------------------------------------------------------------------
(* Properties.                                                             *)

\* IMemoryManager.hpp:25, "ordered by ascending base address": the map tiles
\* the addresses walked so far without gap or overlap, although every region
\* is queried at another time and the process changes them in between.
MapTiles ==
  /\ regions # <<>> => regions[1].base = 0
  /\ \A i \in 1 .. Len(regions) - 1 :
       regions[i + 1].base = regions[i].base + regions[i].size

\* A window adds only addresses beyond every address reported before it: the
\* windows overlap, and still no match is reported twice or out of order.
MatchesAscend == [][\A m \in matches, h \in hits' : m < h]_scanVars

\* The addresses of a region of the map that were there to be found all along:
\* the region stayed as mapped and the bytes at them stayed what they are.
FoundIn(region) ==
  {m \in region.base .. region.base + region.size - patternSize :
     /\ region.prot \in Readable
     /\ (region.base .. region.base + region.size - 1) \cap reprotected = {}
     /\ (m .. m + patternSize - 1) \cap rewritten = {}}

\* MemoryManager.cpp:20-21: whatever else the process changes meanwhile, such
\* an address is reported exactly if the pattern occurs there, also where it
\* spans windows.
StableMatchesAreFound ==
  pc = "done" /\ patternSize <= ScanChunk =>
    \A i \in 1 .. Len(regions) : \A m \in FoundIn(regions[i]) :
      m \in matches <=> MatchesAt(m)

\* A scan ends, whatever the process does to its memory.
Terminates == <>~Scanning

=============================================================================
