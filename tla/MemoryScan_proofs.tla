-------------------------- MODULE MemoryScan_proofs --------------------------
(***************************************************************************)
(* Proofs about MemoryScan for every size of the address space, window,    *)
(* pattern and number of changes: the map tiles, and the scan reports      *)
(* every match in memory that stays as it was mapped, once and in order.   *)
(*                                                                         *)
(* The argument has three layers.  MapInv: the regions lie one behind the  *)
(* other and end where the walk stands.  ScanInv: the matches reported so  *)
(* far lie before the window.  StableInv: the map is still true of what    *)
(* was not reprotected, and the windows so far decided what they covered.  *)
(***************************************************************************)
EXTENDS MemoryScan, TLAPS, WellFoundedInduction

End(region) == region.base + region.size

MapInv ==
  /\ \A i \in 1 .. Len(regions) : End(regions[i]) <= address
  /\ \A i, j \in 1 .. Len(regions) : i < j => End(regions[i]) <= regions[j].base
  /\ regions = <<>> => address = 0
  /\ regions # <<>> => End(regions[Len(regions)]) = address
  /\ MapTiles

\* A pattern longer than a window never matches, and its step may wrap.
ScanInv ==
  /\ pc \in {"open", "map", "reopen"} => current = 1 /\ offset = 0 /\ matches = {}
  /\ patternSize > ScanChunk => matches = {}
  /\ patternSize <= ScanChunk /\ current <= Len(regions) =>
       /\ offset <= regions[current].size
       /\ \A m \in matches : m < regions[current].base + offset

Mapped == \A i \in 1 .. Len(regions) : \A a \in regions[i].base .. End(regions[i]) - 1 :
            a \notin reprotected => prot[a] = regions[i].prot

\* The scan has passed address m of the i-th region.
Passed(i, m) == i < current \/ (i = current /\ m < regions[i].base + offset)

Decided ==
  patternSize <= ScanChunk =>
    \A i \in 1 .. Len(regions) : \A m \in FoundIn(regions[i]) :
      Passed(i, m) => (m \in matches <=> MatchesAt(m))

-----------------------------------------------------------------------------
(* What the CHOOSEs of the model pick.                                     *)

LEMMA LeastNumber ==
  ASSUME NEW S \in SUBSET Nat, S # {}
  PROVE  \E n \in S : \A m \in S : n <= m
<1> DEFINE R == OpToRel(<, Nat)
<1>1. \A m, n \in Nat : m < n => <<m, n>> \in R
  BY Zenon DEF OpToRel
<1>2. IsWellFoundedOn(R, Nat)
  BY NatLessThanWellFounded
<1> HIDE DEF R
<1>3. PICK n \in S : \A m \in S : <<m, n>> \notin R
  BY <1>2, WFMin
<1>4. ASSUME NEW m \in S PROVE n <= m
  <2>1. m \in Nat /\ n \in Nat /\ ~(m < n)
    BY <1>1, <1>3
  <2> QED
    BY <2>1
<1> QED
  BY <1>3, <1>4

\* A window that could be read up to k ends there or at the first page that may
\* not be accessed.
LEMMA CopiedIsPrefix ==
  ASSUME TypeOK, NEW a \in Nat, NEW n \in Nat
  PROVE  /\ Copied(a, n) \in 0 .. n
         /\ \A i \in a .. a + Copied(a, n) - 1 : prot[i] \in Readable
         /\ Copied(a, n) < n => prot[a + Copied(a, n)] \notin Readable
<1> DEFINE Stops == {k \in 0 .. n : k < n => prot[a + k] \notin Readable}
           Prefix(k) == /\ \A i \in a .. a + k - 1 : prot[i] \in Readable
                        /\ k < n => prot[a + k] \notin Readable
<1>1. n \in Stops /\ Stops \in SUBSET Nat
  OBVIOUS
<1>2. PICK k \in Stops : \A m \in Stops : k <= m
  BY <1>1, LeastNumber
<1>3. ASSUME NEW i \in a .. a + k - 1 PROVE prot[i] \in Readable
  <2>1. i - a \in 0 .. n /\ i - a < k /\ a + (i - a) = i
    BY <1>2
  <2>2. i - a \notin Stops
    BY <1>2, <2>1
  <2> QED
    BY <2>1, <2>2
<1>4. \E m \in 0 .. n : Prefix(m)
  BY <1>2, <1>3
<1>5. Copied(a, n) = CHOOSE m \in 0 .. n : Prefix(m)
  BY DEF Copied
<1> HIDE DEF Prefix
<1>6. Copied(a, n) \in 0 .. n /\ Prefix(Copied(a, n))
  BY <1>4, <1>5
<1> QED
  BY <1>6 DEF Prefix

\* A region of the map lies in the address space and has one protection.
LEMMA RegionIsRun ==
  ASSUME TypeOK, NEW a \in Addresses
  PROVE  /\ RegionAt(a).base = a /\ RegionAt(a).prot = prot[a]
         /\ RegionAt(a).size \in 1 .. Size - a
         /\ \A i \in a .. a + RegionAt(a).size - 1 : prot[i] = prot[a]
<1> DEFINE Ends == {n \in 1 .. Size - a : a + n < Size => prot[a + n] # prot[a]}
           Run(n) == /\ \A i \in a .. a + n - 1 : prot[i] = prot[a]
                     /\ a + n < Size => prot[a + n] # prot[a]
<1>1. Size \in Nat /\ a \in 0 .. Size - 1
  BY ScanAssumption DEF Addresses
<1>2. Size - a \in Ends /\ Ends \in SUBSET Nat
  BY <1>1
<1>3. PICK n \in Ends : \A m \in Ends : n <= m
  BY <1>2, LeastNumber
<1>4. ASSUME NEW i \in a .. a + n - 1 PROVE prot[i] = prot[a]
  <2>1. CASE i = a
    BY <2>1
  <2>2. CASE i # a
    <3>1. i - a \in 1 .. Size - a /\ i - a < n /\ a + (i - a) = i
      BY <1>1, <1>3, <2>2
    <3>2. i - a \notin Ends
      BY <1>3, <3>1
    <3> QED
      BY <3>1, <3>2
  <2> QED
    BY <2>1, <2>2
<1>5. \E m \in 1 .. Size - a : Run(m)
  BY <1>3, <1>4
<1>6. /\ RegionAt(a).size = CHOOSE m \in 1 .. Size - a : Run(m)
      /\ RegionAt(a).base = a /\ RegionAt(a).prot = prot[a]
  BY DEF RegionAt
<1> HIDE DEF Run
<1>7. RegionAt(a).size \in 1 .. Size - a /\ Run(RegionAt(a).size)
  BY <1>5, <1>6
<1> QED
  BY <1>6, <1>7 DEF Run

-----------------------------------------------------------------------------
(* Windows.                                                                *)

LEMMA RegionTypes ==
  ASSUME TypeOK, NEW i \in 1 .. Len(regions)
  PROVE  /\ regions[i].base \in Nat /\ regions[i].size \in Nat /\ regions[i].size <= Size
         /\ End(regions[i]) = regions[i].base + regions[i].size
         /\ current \in Nat /\ offset \in Nat /\ Len(regions) \in Nat
<1>1. regions[i] \in Region /\ Len(regions) \in Nat
  BY DEF TypeOK
<1>2. Size \in Nat /\ Modulus \in Nat
  BY ScanAssumption
<1>3. regions[i].base \in Nat /\ regions[i].size \in 0 .. Size
  BY <1>1, <1>2 DEF Region, Addresses
<1>4. current \in Nat /\ offset \in Nat
  BY <1>1, <1>2 DEF TypeOK
<1> QED
  BY <1>1, <1>2, <1>3, <1>4 DEF End

LEMMA PatternSize == ASSUME TypeOK PROVE patternSize \in Nat \ {0}
<1>1. pattern \in Seq(Bytes \cup {Any}) /\ pattern # <<>>
  BY ScanAssumption DEF TypeOK
<1> QED
  BY <1>1 DEF patternSize

\* The window that ReadWindow reads.
remaining == regions[current].size - offset
chunkSize == Min2(remaining, ScanChunk)
start     == regions[current].base + offset
bytesRead == Copied(start, chunkSize)
step      == Step(bytesRead, chunkSize, remaining)

LEMMA WindowTypes ==
  ASSUME TypeOK, InWindow
  PROVE  /\ current \in 1 .. Len(regions) /\ start \in Nat
         /\ remaining \in 1 .. Size /\ chunkSize \in 1 .. remaining /\ chunkSize <= ScanChunk
         /\ chunkSize < remaining => chunkSize = ScanChunk
         /\ bytesRead \in 0 .. chunkSize
         /\ \A i \in start .. start + bytesRead - 1 : prot[i] \in Readable
         /\ bytesRead < chunkSize => prot[start + bytesRead] \notin Readable
<1>1. current \in 1 .. Len(regions)
  BY DEF InWindow, AtRegion, TypeOK
<1>2. remaining \in 1 .. Size /\ start \in Nat
  BY <1>1, RegionTypes, ScanAssumption DEF InWindow, remaining, start
<1>3. /\ chunkSize \in 1 .. remaining /\ chunkSize <= ScanChunk
      /\ chunkSize < remaining => chunkSize = ScanChunk
  BY <1>2, ScanAssumption DEF chunkSize, Min2
<1>4. chunkSize \in Nat
  BY <1>2, <1>3
<1> QED
  BY <1>1, <1>2, <1>3, <1>4, CopiedIsPrefix DEF bytesRead

LEMMA ReadWindowMeans ==
  ASSUME ReadWindow
  PROVE  /\ InWindow /\ bytesRead > 0
         /\ hits' = FindAll(start, bytesRead) /\ matches' = matches \cup hits'
         /\ offset' = (offset + step) % Modulus
         /\ UNCHANGED <<processVars, pattern, pc, mapVars, current>>
BY DEF ReadWindow, remaining, chunkSize, start, bytesRead, step

\* No match fits into a window shorter than the pattern.
LEMMA LongPatternsNeverMatch ==
  ASSUME TypeOK, ReadWindow, patternSize > ScanChunk
  PROVE  hits' = {}
<1>1. InWindow /\ hits' = FindAll(start, bytesRead)
  BY ReadWindowMeans
<1>2. start \in Nat /\ bytesRead \in Nat /\ bytesRead <= ScanChunk
  BY <1>1, WindowTypes, ScanAssumption
<1>3. patternSize \in Nat
  BY PatternSize
<1>4. ASSUME NEW m \in FindAll(start, bytesRead) PROVE FALSE
  <2>1. m \in Nat /\ start <= m /\ m + patternSize <= start + bytesRead
    BY <1>4, ScanAssumption DEF FindAll, Addresses
  <2> QED
    BY <1>2, <1>3, <2>1, ScanAssumption
<1> QED
  BY <1>1, <1>4

\* Otherwise a window moves on, and never past the first address that could
\* still begin a match.
LEMMA StepIsExact ==
  ASSUME TypeOK, ReadWindow, patternSize <= ScanChunk
  PROVE  /\ step = IF bytesRead = chunkSize /\ remaining > chunkSize
                   THEN bytesRead - (patternSize - 1) ELSE bytesRead
         /\ step \in 1 .. bytesRead
         /\ offset' = offset + step /\ offset' <= regions[current].size
<1>1. InWindow /\ bytesRead > 0 /\ offset' = (offset + step) % Modulus
  BY ReadWindowMeans
<1>2. /\ remaining \in 1 .. Size /\ chunkSize \in 1 .. remaining
      /\ chunkSize < remaining => chunkSize = ScanChunk
      /\ bytesRead \in 1 .. chunkSize
  BY <1>1, WindowTypes
<1>3. patternSize \in Nat \ {0}
  BY PatternSize
<1>4. /\ ScanChunk \in Nat /\ Modulus \in Nat /\ ScanChunk < Modulus /\ Size < Modulus /\ Size \in Nat
  BY ScanAssumption
<1>5. \A x \in Nat : x < Modulus => x % Modulus = x
  BY <1>4
<1>6. /\ step = IF bytesRead = chunkSize /\ remaining > chunkSize
                THEN bytesRead - (patternSize - 1) ELSE bytesRead
      /\ step \in 1 .. bytesRead
  <2>1. CASE bytesRead = chunkSize /\ remaining > chunkSize
    <3>1. bytesRead - (patternSize - 1) \in 1 .. bytesRead
      BY <1>2, <1>3, <1>4, <2>1
    <3>2. (bytesRead - (patternSize - 1)) % Modulus = bytesRead - (patternSize - 1)
      BY <1>2, <1>4, <1>5, <3>1
    <3>3. patternSize > 1 \/ bytesRead - (patternSize - 1) = bytesRead
      BY <1>2, <1>3
    <3> QED
      BY <1>2, <2>1, <3>1, <3>2, <3>3 DEF step, Step
  <2>2. CASE ~(bytesRead = chunkSize /\ remaining > chunkSize)
    BY <1>2, <2>2 DEF step, Step
  <2> QED
    BY <2>1, <2>2
<1>7. /\ offset + step <= regions[current].size /\ offset + step \in Nat
      /\ regions[current].size <= Size /\ regions[current].size \in Nat
  <2>1. /\ offset \in Nat /\ regions[current].size \in Nat /\ regions[current].size <= Size
        /\ remaining = regions[current].size - offset
    BY <1>1, WindowTypes, RegionTypes DEF remaining
  <2>2. step \in Nat /\ step <= remaining
    BY <1>2, <1>6
  <2> QED
    BY <2>1, <2>2
<1>8. (offset + step) % Modulus = offset + step
  BY <1>4, <1>5, <1>7
<1>9. offset' = offset + step
  BY <1>1, <1>8, Zenon
<1>10. offset' <= regions[current].size
  BY <1>7, <1>9
<1> QED
  BY <1>6, <1>9, <1>10, Zenon

-----------------------------------------------------------------------------
(* The map.                                                                *)

LEMMA EmptyRegion ==
  ASSUME NEW r \in Region
  PROVE  LET e == [r EXCEPT !.size = 0]
         IN e \in Region /\ e.base = r.base /\ e.size = 0 /\ e.prot = r.prot
BY ScanAssumption DEF Region

LEMMA QueryRegionMeans ==
  ASSUME TypeOK, NEW empty \in BOOLEAN, QueryRegion(empty)
  PROVE  \E region \in Region :
           /\ region.base = address /\ address \in Nat /\ region.size \in 0 .. Size - address
           /\ \A i \in address .. address + region.size - 1 : prot[i] = region.prot
           /\ regions' = Append(regions, region)
           /\ address' = address + region.size /\ address' \in 0 .. Size
           /\ pc = "map" /\ pc' \in {"map", "reopen"}
           /\ UNCHANGED <<processVars, pattern, maxAddress, scanVars>>
<1> DEFINE region == IF empty THEN [RegionAt(address) EXCEPT !.size = 0] ELSE RegionAt(address)
<1>1. /\ Size \in Nat /\ address \in 0 .. Size - 1 /\ address \in Addresses
      /\ prot[address] \in Protections
  BY ScanAssumption DEF QueryRegion, TypeOK, Addresses
<1>2. /\ RegionAt(address).base = address /\ RegionAt(address).prot = prot[address]
      /\ RegionAt(address).size \in 1 .. Size - address
      /\ \A i \in address .. address + RegionAt(address).size - 1 : prot[i] = prot[address]
  BY <1>1, RegionIsRun
<1>3. RegionAt(address) \in Region
  <2>1. RegionAt(address) = [base |-> RegionAt(address).base, prot |-> RegionAt(address).prot,
                             size |-> RegionAt(address).size]
    BY DEF RegionAt
  <2> QED
    BY <1>1, <1>2, <2>1 DEF Region
<1>4. /\ region \in Region /\ region.base = address /\ region.prot = prot[address]
      /\ region.size \in 0 .. Size - address
      /\ \A i \in address .. address + region.size - 1 : prot[i] = prot[address]
  <2>1. CASE empty
    BY <1>1, <1>2, <1>3, <2>1, EmptyRegion
  <2>2. CASE ~empty
    BY <1>1, <1>2, <1>3, <2>2
  <2> QED
    BY <2>1, <2>2
<1>5. /\ regions' = Append(regions, region)
      /\ IF region.base + region.size <= address
         THEN pc' = "reopen" /\ address' = address
         ELSE address' = region.base + region.size /\ pc' = pc
      /\ pc = "map" /\ UNCHANGED <<processVars, pattern, maxAddress, scanVars>>
  BY DEF QueryRegion
<1> HIDE DEF region
<1>6. /\ address' = address + region.size /\ address' \in 0 .. Size
      /\ pc' \in {"map", "reopen"}
  BY <1>1, <1>4, <1>5
<1> QED
  <2>1. address \in Nat
    BY <1>1
  <2>2. \A i \in address .. address + region.size - 1 : prot[i] = region.prot
    BY <1>4, Zenon
  <2> QED
    BY <1>4, <1>5, <1>6, <2>1, <2>2, Zenon

-----------------------------------------------------------------------------
(* Types.                                                                  *)

LEMMA TypeStep ==
  ASSUME TypeOK, [Next]_vars
  PROVE  TypeOK'
<1>1. ASSUME NEW a \in Addresses, NEW v \in Bytes, WriteByte(a, v) PROVE TypeOK'
  BY <1>1, ScanAssumption DEF WriteByte, TypeOK, mapVars, scanVars
<1>2. ASSUME NEW a \in Addresses, NEW p \in Protections, Protect(a, p) PROVE TypeOK'
  BY <1>2, ScanAssumption DEF Protect, TypeOK, mapVars, scanVars
<1>3. CASE Exit
  <2>1. prot' \in [Addresses -> Protections]
    BY <1>3 DEF Exit, Protections
  <2> QED
    BY <1>3, <2>1, ScanAssumption DEF Exit, TypeOK, mapVars, scanVars
<1>4. CASE Open \/ OpenFails \/ EndMap \/ Finish
  BY <1>4 DEF Open, OpenFails, EndMap, Finish, TypeOK, processVars, mapVars, scanVars
<1>5. ASSUME NEW empty \in BOOLEAN, QueryRegion(empty) PROVE TypeOK'
  <2>1. PICK region \in Region :
          /\ regions' = Append(regions, region) /\ address' \in 0 .. Size
          /\ pc' \in {"map", "reopen"}
          /\ UNCHANGED <<processVars, pattern, maxAddress, scanVars>>
    BY <1>5, QueryRegionMeans
  <2>2. regions' \in Seq(Region) /\ Len(regions') = Len(regions) + 1 /\ Len(regions) \in Nat
    BY <2>1 DEF TypeOK
  <2>3. current' \in 1 .. Len(regions') + 1
    BY <2>1, <2>2 DEF TypeOK, scanVars
  <2> QED
    BY <2>1, <2>2, <2>3 DEF TypeOK, processVars, scanVars
<1>6. ASSUME NextRegion, AtRegion, UNCHANGED <<processVars, pattern, pc, mapVars, matches>>
      PROVE  TypeOK'
  <2>1. current' \in 1 .. Len(regions') + 1 /\ offset' \in 0 .. Modulus - 1
    BY <1>6, ScanAssumption DEF NextRegion, AtRegion, TypeOK, mapVars
  <2> QED
    BY <1>6, <2>1 DEF NextRegion, TypeOK, processVars, mapVars
<1>7. CASE ReadWindow
  <2>1. /\ hits' = FindAll(start, bytesRead) /\ matches' = matches \cup hits'
        /\ offset' = (offset + step) % Modulus
        /\ UNCHANGED <<processVars, pattern, pc, mapVars, current>>
    BY <1>7, ReadWindowMeans
  <2>2. FindAll(start, bytesRead) \subseteq Addresses
    BY DEF FindAll
  <2>3. bytesRead \in Int /\ patternSize \in Int /\ offset \in Int
    <3>1. InWindow
      BY <1>7, ReadWindowMeans
    <3> QED
      BY <3>1, WindowTypes, RegionTypes, PatternSize
  <2>4. Modulus \in Nat \ {0}
    BY ScanAssumption
  <2>5. step \in Int
    BY <2>3, <2>4 DEF step, Step
  <2>6. offset' \in 0 .. Modulus - 1
    BY <2>1, <2>3, <2>4, <2>5
  <2> QED
    BY <2>1, <2>2, <2>6 DEF TypeOK, processVars, mapVars
<1>8. CASE UNCHANGED vars
  BY <1>8 DEF vars, processVars, mapVars, scanVars, TypeOK
<1>9. CASE SkipRegion \/ ReadFails
  BY <1>6, <1>9 DEF SkipRegion, ReadFails, InWindow
<1> QED
  BY <1>1, <1>2, <1>3, <1>4, <1>5, <1>7, <1>8, <1>9 DEF Next, Process, Scan

\* Every state of a scan has its types: addresses stay in the address space,
\* cursors stay in the map.
THEOREM TypeCorrect == Spec => []TypeOK
<1>1. Init => TypeOK
  BY ScanAssumption DEF Init, TypeOK
<1> QED
  BY <1>1, TypeStep, PTL DEF Spec

-----------------------------------------------------------------------------
(* The map tiles.                                                          *)

LEMMA AppendFacts ==
  ASSUME NEW R, NEW s \in Seq(R), NEW r \in R, NEW t, t = Append(s, r)
  PROVE  /\ Len(s) \in Nat /\ Len(t) = Len(s) + 1 /\ t # <<>> /\ (Len(s) = 0 <=> s = <<>>)
         /\ \A i \in 1 .. Len(s) : t[i] = s[i]
         /\ t[Len(s) + 1] = r
OBVIOUS

LEMMA MapStep ==
  ASSUME TypeOK, MapInv, [Next]_vars
  PROVE  MapInv'
<1>1. ASSUME NEW empty \in BOOLEAN, QueryRegion(empty) PROVE MapInv'
  <2>1. PICK region \in Region :
          /\ region.base = address /\ address \in Nat /\ region.size \in Nat
          /\ regions' = Append(regions, region) /\ address' = address + region.size
    BY <1>1, QueryRegionMeans, ScanAssumption
  <2> DEFINE n == Len(regions)
  <2>2. /\ n \in Nat /\ Len(regions') = n + 1 /\ regions' # <<>> /\ (n = 0 <=> regions = <<>>)
        /\ \A i \in 1 .. n : regions'[i] = regions[i]
        /\ regions'[n + 1] = region
    BY <2>1, AppendFacts DEF TypeOK
  <2>3. \A i \in 1 .. n : /\ regions[i].base \in Nat /\ End(regions[i]) \in Nat
                          /\ End(regions[i]) = regions[i].base + regions[i].size
    BY RegionTypes
  <2>4. End(region) = address + region.size
    BY <2>1 DEF End
  <2> HIDE DEF n
  <2>5. ASSUME NEW i \in 1 .. n + 1 PROVE End(regions'[i]) <= address'
    <3>1. CASE i = n + 1
      BY <2>1, <2>2, <2>4, <3>1
    <3>2. CASE i # n + 1
      BY <2>1, <2>2, <2>3, <3>2 DEF MapInv, n
    <3> QED
      BY <3>1, <3>2
  <2>6. ASSUME NEW i \in 1 .. n + 1, NEW j \in 1 .. n + 1, i < j
        PROVE  End(regions'[i]) <= regions'[j].base
    <3>1. i \in 1 .. n
      BY <2>2, <2>6
    <3>2. CASE j = n + 1
      BY <2>1, <2>2, <3>1, <3>2 DEF MapInv, n
    <3>3. CASE j # n + 1
      BY <2>2, <2>6, <3>1, <3>3 DEF MapInv, n
    <3> QED
      BY <3>2, <3>3
  <2>7. End(regions'[n + 1]) = address'
    BY <2>1, <2>2, <2>4
  <2>8. regions'[1].base = 0
    <3>1. CASE n = 0
      BY <2>1, <2>2, <3>1 DEF MapInv
    <3>2. CASE n # 0
      BY <2>2, <3>2 DEF MapInv, MapTiles
    <3> QED
      BY <3>1, <3>2
  <2>9. ASSUME NEW i \in 1 .. n
        PROVE  regions'[i + 1].base = regions'[i].base + regions'[i].size
    <3>1. CASE i = n
      <4>1. End(regions[n]) = address
        BY <2>2, <3>1 DEF MapInv, n
      <4> QED
        BY <2>1, <2>2, <2>3, <3>1, <4>1
    <3>2. CASE i # n
      <4>1. i \in 1 .. n - 1 /\ i + 1 \in 1 .. n
        BY <2>2, <3>2
      <4> QED
        BY <2>2, <4>1 DEF MapInv, MapTiles, n
    <3> QED
      BY <3>1, <3>2
  <2> QED
    BY <2>2, <2>5, <2>6, <2>7, <2>8, <2>9 DEF MapInv, MapTiles
<1>2. ASSUME UNCHANGED mapVars PROVE MapInv'
  BY <1>2 DEF mapVars, MapInv, MapTiles
<1>3. ASSUME Process \/ Open \/ OpenFails \/ EndMap \/ SkipRegion \/ ReadFails \/ ReadWindow
             \/ Finish \/ UNCHANGED vars
      PROVE  UNCHANGED mapVars
  BY <1>3 DEF Process, WriteByte, Protect, Exit, Open, OpenFails, EndMap, SkipRegion, ReadFails,
              ReadWindow, Finish, vars
<1> QED
  BY <1>1, <1>2, <1>3 DEF Next, Scan

\* The regions of a map lie one behind the other, from address 0 on, however
\* the process changes between the queries.
THEOREM MapAlwaysTiles == Spec => []MapTiles
<1>1. Init => TypeOK /\ MapInv
  BY ScanAssumption DEF Init, TypeOK, MapInv, MapTiles
<1>2. TypeOK /\ MapInv /\ [Next]_vars => (TypeOK /\ MapInv)'
  BY TypeStep, MapStep
<1>3. MapInv => MapTiles
  BY DEF MapInv
<1> QED
  BY <1>1, <1>2, <1>3, PTL DEF Spec

-----------------------------------------------------------------------------
(* The scan.                                                               *)

\* What a window adds lies in it.
LEMMA HitsAreInWindow ==
  ASSUME TypeOK, ReadWindow, NEW h \in hits'
  PROVE  /\ h \in Addresses /\ h \in Nat /\ start <= h
         /\ h + patternSize <= start + bytesRead /\ MatchesAt(h)
<1>1. h \in FindAll(start, bytesRead)
  BY ReadWindowMeans
<1> QED
  BY <1>1, ScanAssumption DEF FindAll, Addresses

\* A match that ends in what was read begins before the next window.
LEMMA BelowNext ==
  ASSUME NEW m \in Nat, NEW base \in Nat, NEW o \in Nat, NEW read \in Nat, NEW s \in Nat,
         NEW length \in Nat \ {0}, m + length <= (base + o) + read, s >= read - (length - 1)
  PROVE  m < base + (o + s)
OBVIOUS

LEMMA ScanStep ==
  ASSUME TypeOK, MapInv, ScanInv, [Next]_vars
  PROVE  ScanInv'
<1>1. CASE Process \/ UNCHANGED vars
  BY <1>1 DEF Process, WriteByte, Protect, Exit, vars, mapVars, scanVars, ScanInv, patternSize
<1>2. CASE Open \/ OpenFails \/ EndMap \/ Finish
  BY <1>2 DEF Open, OpenFails, EndMap, Finish, mapVars, scanVars, ScanInv, patternSize
<1>3. ASSUME NEW empty \in BOOLEAN, QueryRegion(empty) PROVE ScanInv'
  <2>1. PICK region \in Region :
          /\ regions' = Append(regions, region) /\ pc = "map"
          /\ UNCHANGED <<processVars, pattern, maxAddress, scanVars>>
    BY <1>3, QueryRegionMeans
  <2>2. current' = 1 /\ offset' = 0 /\ matches' = {}
    BY <2>1 DEF ScanInv, scanVars
  <2>3. 1 \in 1 .. Len(regions') /\ regions'[1].size \in Nat
    <3>1. regions' \in Seq(Region) /\ Len(regions') > 0
      BY <2>1 DEF TypeOK
    <3>2. 1 \in 1 .. Len(regions') /\ regions'[1] \in Region
      BY <3>1
    <3> QED
      BY <3>2, ScanAssumption DEF Region
  <2> QED
    BY <2>2, <2>3 DEF ScanInv
<1>4. ASSUME NextRegion, AtRegion, UNCHANGED <<processVars, pattern, pc, mapVars, matches>>
      PROVE  ScanInv'
  <2>1. /\ current' = current + 1 /\ offset' = 0 /\ pc' = pc /\ pc = "scan" /\ regions' = regions
        /\ current <= Len(regions) /\ matches' = matches /\ patternSize' = patternSize
    BY <1>4 DEF NextRegion, AtRegion, mapVars, patternSize
  <2>2. ASSUME patternSize <= ScanChunk, current + 1 <= Len(regions)
        PROVE  /\ 0 <= regions[current + 1].size
               /\ \A m \in matches : m < regions[current + 1].base + 0
    <3>1. current \in 1 .. Len(regions) /\ current + 1 \in 1 .. Len(regions) /\ Len(regions) \in Nat
      BY <2>1, <2>2 DEF TypeOK
    <3>2. /\ regions[current].base + regions[current].size <= regions[current + 1].base
          /\ regions[current + 1].size \in Nat /\ regions[current + 1].base \in Nat
      BY <3>1, RegionTypes DEF MapInv
    <3>3. /\ offset <= regions[current].size
          /\ \A m \in matches : m < regions[current].base + offset
      BY <2>1, <2>2 DEF ScanInv
    <3>4. ASSUME NEW m \in matches PROVE m < regions[current + 1].base
      <4>1. m \in Nat
        BY ScanAssumption DEF TypeOK, Addresses
      <4>2. regions[current].base \in Nat /\ regions[current].size \in Nat /\ offset \in Nat
        BY <3>1, RegionTypes
      <4>3. m < regions[current].base + offset
        BY <3>3
      <4> QED
        BY <3>2, <3>3, <4>1, <4>2, <4>3
    <3> QED
      BY <3>2, <3>4
  <2> QED
    BY <2>1, <2>2 DEF ScanInv
<1>5. CASE SkipRegion \/ ReadFails
  BY <1>4, <1>5 DEF SkipRegion, ReadFails, InWindow
<1>6. CASE ReadWindow
  <2>1. /\ InWindow /\ matches' = matches \cup hits' /\ current' = current /\ regions' = regions
        /\ pc' = pc /\ pc = "scan" /\ patternSize' = patternSize /\ current <= Len(regions)
    BY <1>6, ReadWindowMeans DEF InWindow, AtRegion, mapVars, patternSize
  <2>2. ASSUME patternSize > ScanChunk PROVE matches' = {}
    BY <1>6, <2>1, <2>2, LongPatternsNeverMatch DEF ScanInv
  <2>3. ASSUME patternSize <= ScanChunk
        PROVE  /\ offset' <= regions[current].size
               /\ \A m \in matches' : m < regions[current].base + offset'
    <3>1. /\ offset' <= regions[current].size /\ offset' = offset + step
          /\ step \in 1 .. bytesRead
          /\ step = IF bytesRead = chunkSize /\ remaining > chunkSize
                    THEN bytesRead - (patternSize - 1) ELSE bytesRead
      BY <1>6, <2>3, StepIsExact
    <3>2. /\ current \in 1 .. Len(regions) /\ bytesRead \in Nat /\ start \in Nat
          /\ regions[current].base \in Nat /\ offset \in Nat
          /\ start = regions[current].base + offset
          /\ patternSize \in Nat \ {0}
      BY <2>1, WindowTypes, RegionTypes, PatternSize DEF start
    <3>3. ASSUME NEW m \in matches PROVE m < regions[current].base + offset'
      <4>1. m \in Nat /\ m < regions[current].base + offset
        BY <2>1, <2>3, ScanAssumption DEF ScanInv, TypeOK, Addresses
      <4>2. step \in Nat
        BY <3>1, <3>2
      <4> QED
        BY <3>1, <3>2, <4>1, <4>2
    <3>4. ASSUME NEW m \in hits' PROVE m < regions[current].base + offset'
      <4>1. m \in Nat /\ m + patternSize <= start + bytesRead
        BY <1>6, HitsAreInWindow
      <4>2. step \in Nat /\ step >= bytesRead - (patternSize - 1)
        BY <3>1, <3>2
      <4>3. m + patternSize <= (regions[current].base + offset) + bytesRead
        BY <3>2, <4>1
      <4>4. m < regions[current].base + (offset + step)
        BY <3>2, <4>1, <4>2, <4>3, BelowNext
      <4> QED
        BY <3>1, <4>4, Zenon
    <3> QED
      BY <2>1, <3>1, <3>3, <3>4
  <2> QED
    BY <2>1, <2>2, <2>3 DEF ScanInv
<1> QED
  BY <1>1, <1>2, <1>3, <1>5, <1>6 DEF Next, Scan

Ascend == \A m \in matches, h \in hits' : m < h

LEMMA AscendStep ==
  ASSUME TypeOK, MapInv, ScanInv, [Next]_vars
  PROVE  Ascend \/ UNCHANGED scanVars
<1>1. CASE ReadWindow
  <2>1. InWindow /\ current <= Len(regions)
    BY <1>1, ReadWindowMeans DEF InWindow, AtRegion
  <2>2. CASE patternSize > ScanChunk
    BY <1>1, <2>2, LongPatternsNeverMatch DEF Ascend
  <2>3. CASE ~(patternSize > ScanChunk)
    <3>1. patternSize <= ScanChunk
      BY <2>3, PatternSize, ScanAssumption
    <3>2. ASSUME NEW m \in matches, NEW h \in hits' PROVE m < h
      <4>1. m \in Nat /\ m < start
        <5>1. m \in Nat
          BY ScanAssumption DEF TypeOK, Addresses
        <5>2. m < regions[current].base + offset
          BY <2>1, <3>1 DEF ScanInv, InWindow
        <5> QED
          BY <5>1, <5>2 DEF start
      <4>2. h \in Nat /\ start <= h /\ start \in Nat
        BY <1>1, <2>1, HitsAreInWindow, WindowTypes
      <4> QED
        BY <4>1, <4>2
    <3> QED
      BY <3>2 DEF Ascend
  <2> QED
    BY <2>2, <2>3
<1>2. ASSUME SkipRegion \/ ReadFails PROVE hits' = {}
  BY <1>2 DEF SkipRegion, ReadFails, NextRegion
<1>3. ASSUME Process \/ Open \/ OpenFails \/ EndMap \/ Finish \/ UNCHANGED vars
      PROVE  UNCHANGED scanVars
  BY <1>3 DEF Process, WriteByte, Protect, Exit, Open, OpenFails, EndMap, Finish, vars
<1>4. ASSUME NEW empty \in BOOLEAN, QueryRegion(empty) PROVE UNCHANGED scanVars
  BY <1>4 DEF QueryRegion
<1> QED
  BY <1>1, <1>2, <1>3, <1>4 DEF Next, Scan, Ascend

\* No match is reported twice or out of order, whatever the sizes of windows
\* and pattern and however the process changes.
THEOREM MatchesAlwaysAscend == Spec => MatchesAscend
<1>1. Init => TypeOK /\ MapInv /\ ScanInv
  BY ScanAssumption DEF Init, TypeOK, MapInv, MapTiles, ScanInv
<1>2. TypeOK /\ MapInv /\ ScanInv /\ [Next]_vars => (TypeOK /\ MapInv /\ ScanInv)'
  BY TypeStep, MapStep, ScanStep
<1>3. TypeOK /\ MapInv /\ ScanInv /\ [Next]_vars => [Ascend]_scanVars
  BY AscendStep
<1>4. Spec => [][Ascend]_scanVars
  BY <1>1, <1>2, <1>3, PTL DEF Spec
<1> QED
  BY <1>4 DEF MatchesAscend, Ascend

-----------------------------------------------------------------------------
(* What stays as it was mapped is decided.                                 *)

LEMMA RegionInSpace ==
  ASSUME TypeOK, MapInv, NEW i \in 1 .. Len(regions)
  PROVE  /\ End(regions[i]) \in Nat /\ End(regions[i]) <= Size
         /\ \A a \in regions[i].base .. End(regions[i]) - 1 : a \in Addresses
<1>1. /\ regions[i].base \in Nat /\ End(regions[i]) \in Nat
  BY RegionTypes
<1>2. End(regions[i]) <= address /\ address \in 0 .. Size /\ Size \in Nat
  BY ScanAssumption DEF MapInv, TypeOK
<1> QED
  BY <1>1, <1>2 DEF Addresses

LEMMA MappedStep ==
  ASSUME TypeOK, MapInv, Mapped, [Next]_vars
  PROVE  Mapped'
<1>1. ASSUME NEW a \in Addresses, NEW p \in Protections, Protect(a, p) PROVE Mapped'
  BY <1>1 DEF Protect, Mapped, mapVars, TypeOK
<1>2. CASE Exit
  <2>1. regions' = regions /\ reprotected' = Addresses
    BY <1>2 DEF Exit, mapVars
  <2>2. ASSUME NEW i \in 1 .. Len(regions),
               NEW a \in regions[i].base .. End(regions[i]) - 1
        PROVE  a \in Addresses
    BY <2>2, RegionInSpace
  <2> QED
    BY <2>1, <2>2 DEF Mapped
<1>3. ASSUME NEW empty \in BOOLEAN, QueryRegion(empty) PROVE Mapped'
  <2>1. PICK region \in Region :
          /\ region.base = address /\ address \in Nat /\ region.size \in Nat
          /\ \A i \in address .. address + region.size - 1 : prot[i] = region.prot
          /\ regions' = Append(regions, region)
          /\ UNCHANGED <<processVars, pattern, maxAddress, scanVars>>
    BY <1>3, QueryRegionMeans, ScanAssumption
  <2>2. /\ Len(regions) \in Nat /\ Len(regions') = Len(regions) + 1
        /\ \A i \in 1 .. Len(regions) : regions'[i] = regions[i]
        /\ regions'[Len(regions) + 1] = region
    BY <2>1, AppendFacts DEF TypeOK
  <2>3. prot' = prot /\ reprotected' = reprotected /\ End(region) = address + region.size
    BY <2>1 DEF processVars, End
  <2>4. ASSUME NEW i \in 1 .. Len(regions'),
               NEW a \in regions'[i].base .. End(regions'[i]) - 1, a \notin reprotected
        PROVE  prot[a] = regions'[i].prot
    <3>1. CASE i = Len(regions) + 1
      BY <2>1, <2>2, <2>3, <2>4, <3>1
    <3>2. CASE i # Len(regions) + 1
      <4>1. i \in 1 .. Len(regions)
        BY <2>2, <3>2
      <4> QED
        BY <2>2, <2>4, <4>1 DEF Mapped
    <3> QED
      BY <3>1, <3>2
  <2> QED
    BY <2>3, <2>4 DEF Mapped
<1>4. ASSUME UNCHANGED <<prot, reprotected, regions>> PROVE Mapped'
  BY <1>4 DEF Mapped
<1>5. ASSUME \/ \E a \in Addresses, v \in Bytes : WriteByte(a, v)
             \/ Open \/ OpenFails \/ EndMap \/ SkipRegion \/ ReadFails \/ ReadWindow
             \/ Finish \/ UNCHANGED vars
      PROVE  UNCHANGED <<prot, reprotected, regions>>
  BY <1>5 DEF WriteByte, Open, OpenFails, EndMap, SkipRegion, ReadFails,
              ReadWindow, Finish, vars, processVars, mapVars
<1> QED
  BY <1>1, <1>2, <1>3, <1>4, <1>5 DEF Next, Process, Scan

\* A found address begins a stretch of its region that nobody wrote to.
LEMMA FoundTypes ==
  ASSUME TypeOK, MapInv, NEW i \in 1 .. Len(regions), NEW m \in FoundIn(regions[i])
  PROVE  /\ m \in Nat /\ regions[i].base <= m /\ m + patternSize <= End(regions[i])
         /\ m \in Addresses /\ End(regions[i]) <= Size /\ End(regions[i]) \in Nat
         /\ regions[i].prot \in Readable
         /\ \A a \in regions[i].base .. End(regions[i]) - 1 : a \notin reprotected
         /\ \A a \in m .. m + patternSize - 1 : a \notin rewritten /\ a \in Addresses
<1>1. /\ regions[i].base \in Nat /\ regions[i].size \in Nat /\ patternSize \in Nat \ {0}
      /\ End(regions[i]) = regions[i].base + regions[i].size
  BY RegionTypes, PatternSize
<1>2. /\ End(regions[i]) <= Size /\ Size \in Nat
      /\ \A a \in regions[i].base .. End(regions[i]) - 1 : a \in Addresses
  BY RegionInSpace, ScanAssumption
<1>3. /\ m \in regions[i].base .. regions[i].base + regions[i].size - patternSize
      /\ regions[i].prot \in Readable
      /\ (regions[i].base .. regions[i].base + regions[i].size - 1) \cap reprotected = {}
      /\ (m .. m + patternSize - 1) \cap rewritten = {}
  BY DEF FoundIn
<1>4. m \in Nat /\ regions[i].base <= m /\ m + patternSize <= End(regions[i])
  BY <1>1, <1>3
<1>5. ASSUME NEW a \in m .. m + patternSize - 1 PROVE a \notin rewritten /\ a \in Addresses
  <2>1. a \in regions[i].base .. End(regions[i]) - 1
    BY <1>1, <1>4
  <2> QED
    BY <1>2, <1>3, <2>1
<1>6. m \in m .. m + patternSize - 1
  BY <1>1, <1>4
<1>7. \A a \in regions[i].base .. End(regions[i]) - 1 : a \notin reprotected
  <2>1. End(regions[i]) - 1 = regions[i].base + regions[i].size - 1
    BY <1>1
  <2>2. (regions[i].base .. End(regions[i]) - 1) \cap reprotected = {}
    BY <1>3, <2>1, Zenon
  <2> QED
    BY <2>2
<1>8. m \in Addresses
  BY <1>5, <1>6
<1>9. End(regions[i]) <= Size /\ End(regions[i]) \in Nat
  BY <1>1, <1>2
<1>10. regions[i].prot \in Readable
  BY <1>3
<1> QED
  BY <1>4, <1>5, <1>7, <1>8, <1>9, <1>10, Zenon

\* The memory of a found address can be read and matches as it did.
LEMMA FoundIsStable ==
  ASSUME TypeOK, MapInv, Mapped, NEW i \in 1 .. Len(regions), NEW m \in FoundIn(regions[i])
  PROVE  \A a \in regions[i].base .. End(regions[i]) - 1 : prot[a] \in Readable
BY FoundTypes DEF Mapped

\* The step of an actor other than the scan takes no address into FoundIn and
\* changes nothing at those that stay.
LEMMA ProcessStep ==
  ASSUME TypeOK, MapInv, Process, NEW i \in 1 .. Len(regions), NEW m \in FoundIn(regions[i])'
  PROVE  /\ m \in FoundIn(regions[i])
         /\ UNCHANGED <<regions, pattern, scanVars>>
         /\ MatchesAt(m)' <=> MatchesAt(m)
<1>1. /\ UNCHANGED <<regions, pattern, scanVars>>
      /\ reprotected \subseteq reprotected' /\ rewritten \subseteq rewritten'
      /\ \A a \in Addresses : a \notin rewritten' => byte'[a] = byte[a]
  BY DEF Process, WriteByte, Protect, Exit, mapVars, TypeOK
<1>2. m \in FoundIn(regions[i])
  BY <1>1 DEF FoundIn, patternSize
<1>3. \A a \in m .. m + patternSize - 1 : a \notin rewritten' /\ a \in Addresses
  BY <1>1, <1>2, FoundTypes DEF FoundIn, patternSize
<1>4. m \in Nat /\ patternSize \in Nat
  BY <1>2, FoundTypes, PatternSize
<1>5. \A j \in 1 .. patternSize : m + j - 1 \in m .. m + patternSize - 1
  BY <1>4
<1>6. \A j \in 1 .. patternSize : byte'[m + j - 1] = byte[m + j - 1]
  BY <1>1, <1>3, <1>5
<1> QED
  BY <1>1, <1>2, <1>6 DEF MatchesAt, patternSize

LEMMA WindowSums ==
  ASSUME NEW base \in Nat, NEW size \in Nat, NEW o \in Nat, NEW p \in Nat, NEW chunk \in Nat,
         NEW m \in Nat, m + p <= base + size, chunk <= size - o, o < size
  PROVE  /\ \A n \in Nat : n < chunk => base + o + n \in base .. base + size - 1
         /\ m < base + (o + (chunk - (p - 1))) => m + p <= base + o + chunk
         /\ chunk >= size - o => m + p <= base + o + chunk
OBVIOUS

LEMMA DecidedStep ==
  ASSUME TypeOK, MapInv, ScanInv, Mapped, Decided, [Next]_vars
  PROVE  Decided'
<1>1. CASE Process
  <2> SUFFICES ASSUME patternSize' <= ScanChunk, NEW i \in 1 .. Len(regions'),
                      NEW m \in FoundIn(regions[i])', Passed(i, m)'
               PROVE  m \in matches' <=> MatchesAt(m)'
    BY DEF Decided
  <2>1. UNCHANGED <<regions, pattern, scanVars>>
    BY <1>1 DEF Process, WriteByte, Protect, Exit, mapVars
  <2>2. i \in 1 .. Len(regions)
    BY <2>1
  <2>3. m \in FoundIn(regions[i]) /\ (MatchesAt(m)' <=> MatchesAt(m))
    BY <1>1, <2>2, ProcessStep
  <2> QED
    BY <2>1, <2>2, <2>3 DEF Decided, Passed, scanVars, patternSize
<1>2. ASSUME UNCHANGED <<processVars, pattern, scanVars, regions>> PROVE Decided'
  BY <1>2 DEF Decided, Passed, FoundIn, MatchesAt, patternSize, processVars, scanVars
<1>3. ASSUME NEW empty \in BOOLEAN, QueryRegion(empty) PROVE Decided'
  <2>1. PICK region \in Region :
          /\ region.base = address /\ pc = "map" /\ regions' = Append(regions, region)
          /\ UNCHANGED <<processVars, pattern, maxAddress, scanVars>>
    BY <1>3, QueryRegionMeans
  <2>2. current' = 1 /\ offset' = 0
    BY <2>1 DEF ScanInv, scanVars
  <2>3. ASSUME NEW i \in 1 .. Len(regions'), NEW m \in FoundIn(regions[i])', Passed(i, m)'
        PROVE  FALSE
    <3>1. i = 1 /\ m < regions'[1].base
      <4>1. regions' \in Seq(Region)
        BY <2>1 DEF TypeOK
      <4>2. regions'[i] \in Region /\ i \in Nat
        BY <4>1
      <4>3. regions'[i].base \in Nat
        BY <4>2, ScanAssumption DEF Region, Addresses
      <4> QED
        BY <2>2, <2>3, <4>2, <4>3 DEF Passed
    <3>2. m \in regions'[1].base .. regions'[1].base + regions'[1].size - patternSize'
      BY <2>3, <3>1 DEF FoundIn
    <3>3. regions'[1] \in Region
      BY <2>1, <2>3, <3>1 DEF TypeOK
    <3>4. /\ regions'[1].base \in Nat /\ regions'[1].size \in Nat
          /\ patternSize' \in Nat
      BY <2>1, <3>3, ScanAssumption, PatternSize DEF Region, Addresses, patternSize
    <3> QED
      BY <3>1, <3>2, <3>4
  <2> QED
    BY <2>3 DEF Decided
<1>4. ASSUME NextRegion, AtRegion, UNCHANGED <<processVars, pattern, pc, mapVars, matches>>,
             \A m \in FoundIn(regions[current]) : m < regions[current].base + offset
      PROVE  Decided'
  <2>1. /\ current' = current + 1 /\ offset' = 0 /\ regions' = regions /\ matches' = matches
        /\ patternSize' = patternSize /\ \A m \in Nat : MatchesAt(m)' <=> MatchesAt(m)
        /\ \A i \in 1 .. Len(regions) : FoundIn(regions[i])' = FoundIn(regions[i])
    BY <1>4 DEF NextRegion, mapVars, processVars, patternSize, MatchesAt, FoundIn
  <2>2. ASSUME NEW i \in 1 .. Len(regions), NEW m \in FoundIn(regions[i]), Passed(i, m)'
        PROVE  Passed(i, m)
    <3>1. /\ current \in Nat /\ regions[i].base \in Nat /\ m \in Nat /\ regions[i].base <= m
          /\ i \in Nat
      BY RegionTypes, FoundTypes
    <3>2. i < current + 1
      BY <2>1, <2>2, <3>1 DEF Passed
    <3> QED
      BY <1>4, <3>1, <3>2 DEF Passed
  <2>3. \A i \in 1 .. Len(regions) : \A m \in FoundIn(regions[i]) : m \in Nat
    BY FoundTypes
  <2> QED
    BY <2>1, <2>2, <2>3 DEF Decided
<1>5. CASE SkipRegion
  <2>1. /\ NextRegion /\ AtRegion /\ UNCHANGED <<processVars, pattern, pc, mapVars, matches>>
        /\ regions[current].prot \notin Readable \/ offset >= regions[current].size
    BY <1>5 DEF SkipRegion
  <2>2. current \in 1 .. Len(regions)
    BY <2>1 DEF AtRegion, TypeOK
  <2>3. ASSUME NEW m \in FoundIn(regions[current]) PROVE m < regions[current].base + offset
    <3>1. /\ regions[current].prot \in Readable /\ m \in Nat /\ patternSize \in Nat \ {0}
          /\ m + patternSize <= End(regions[current])
      BY <2>2, FoundTypes, PatternSize
    <3> QED
      BY <2>1, <2>2, <3>1, RegionTypes
  <2> QED
    BY <1>4, <2>1, <2>3
<1>6. CASE ReadFails
  <2>1. /\ NextRegion /\ AtRegion /\ UNCHANGED <<processVars, pattern, pc, mapVars, matches>>
        /\ InWindow /\ prot[start] \notin Readable
    BY <1>6 DEF ReadFails, InWindow, start
  <2>2. current \in 1 .. Len(regions) /\ offset < regions[current].size
    BY <2>1 DEF InWindow, AtRegion, TypeOK
  <2>3. ASSUME NEW m \in FoundIn(regions[current]) PROVE FALSE
    <3>1. start \in regions[current].base .. End(regions[current]) - 1
      BY <2>2, RegionTypes DEF start
    <3> QED
      BY <2>1, <2>2, <2>3, <3>1, FoundIsStable
  <2> QED
    BY <1>4, <2>1, <2>3
<1>7. CASE ReadWindow
  <2> SUFFICES ASSUME patternSize' <= ScanChunk, NEW i \in 1 .. Len(regions'),
                      NEW m \in FoundIn(regions[i])', Passed(i, m)'
               PROVE  m \in matches' <=> MatchesAt(m)'
    BY DEF Decided
  <2>1. /\ InWindow /\ bytesRead > 0 /\ UNCHANGED <<processVars, pattern, pc, mapVars, current>>
        /\ hits' = FindAll(start, bytesRead) /\ matches' = matches \cup hits'
    BY <1>7, ReadWindowMeans
  <2>2. /\ patternSize <= ScanChunk /\ regions' = regions /\ i \in 1 .. Len(regions)
        /\ m \in FoundIn(regions[i]) /\ (MatchesAt(m)' <=> MatchesAt(m)) /\ current' = current
    BY <2>1 DEF processVars, mapVars, patternSize, FoundIn, MatchesAt
  <2>3. /\ m \in Nat /\ m \in Addresses /\ regions[i].base <= m
        /\ m + patternSize <= End(regions[i])
        /\ patternSize \in Nat \ {0} /\ regions[i].base \in Nat
        /\ End(regions[i]) = regions[i].base + regions[i].size /\ regions[i].size \in Nat
        /\ current \in 1 .. Len(regions) /\ offset \in Nat /\ i \in Nat
    BY <2>1, <2>2, FoundTypes, PatternSize, RegionTypes, WindowTypes
  <2>4. Passed(i, m)' <=> i < current \/ (i = current /\ m < regions[i].base + offset')
    BY <2>2 DEF Passed
  <2>5. CASE Passed(i, m)
    <3>1. m \in matches <=> MatchesAt(m)
      BY <2>2, <2>5 DEF Decided
    <3>2. ASSUME m \in hits' PROVE MatchesAt(m)
      BY <1>7, <3>2, HitsAreInWindow
    <3> QED
      BY <2>1, <2>2, <3>1, <3>2
  <2>6. CASE ~Passed(i, m)
    <3>1. i = current /\ regions[current].base + offset <= m /\ m < regions[current].base + offset'
      BY <2>3, <2>4, <2>6 DEF Passed
    <3>2. m \notin matches
      BY <2>2, <2>3, <3>1, ScanAssumption DEF ScanInv, TypeOK, Addresses
    <3>3. /\ start \in Nat /\ start = regions[current].base + offset
          /\ remaining = regions[current].size - offset
          /\ remaining \in Nat /\ chunkSize \in 1 .. remaining /\ bytesRead \in 0 .. chunkSize
          /\ bytesRead < chunkSize => prot[start + bytesRead] \notin Readable
      BY <2>1, WindowTypes DEF start, remaining
    <3> DEFINE base == regions[current].base
               size == regions[current].size
    <3>4. /\ base \in Nat /\ size \in Nat /\ start = base + offset /\ remaining = size - offset
          /\ m + patternSize <= base + size /\ chunkSize \in Nat /\ bytesRead \in Nat
          /\ chunkSize <= size - offset /\ offset < size
          /\ base + size - 1 = End(regions[current]) - 1
      <4>1. /\ base \in Nat /\ size \in Nat /\ offset \in Nat /\ m + patternSize <= base + size
            /\ base + size - 1 = End(regions[current]) - 1
        BY <2>3, <3>1
      <4>2. /\ start = base + offset /\ remaining = size - offset /\ chunkSize \in Nat
            /\ bytesRead \in Nat /\ chunkSize <= size - offset /\ 1 <= chunkSize
        BY <3>3
      <4>3. offset < size
        <5> HIDE DEF base, size
        <5> QED
          BY <4>1, <4>2
      <4> QED
        BY <4>1, <4>2, <4>3, Zenon
    <3> HIDE DEF base, size
    <3>5. bytesRead = chunkSize
      <4>1. SUFFICES ASSUME bytesRead < chunkSize PROVE FALSE
        BY <3>3
      <4>2. start + bytesRead \in base .. base + size - 1
        BY <2>3, <3>4, <4>1, WindowSums
      <4>3. start + bytesRead \in regions[current].base .. End(regions[current]) - 1
        BY <3>4, <4>2 DEF base
      <4> QED
        BY <2>3, <3>1, <2>2, <3>3, <4>1, <4>3, FoundIsStable
    <3>6. m + patternSize <= start + bytesRead
      <4>1. /\ offset' = offset + (IF remaining > chunkSize THEN chunkSize - (patternSize - 1)
                                   ELSE chunkSize)
            /\ m < base + offset'
        BY <1>7, <2>2, <3>1, <3>5, StepIsExact DEF base
      <4>2. CASE remaining > chunkSize
        BY <2>3, <3>4, <3>5, <4>1, <4>2, WindowSums
      <4>3. CASE ~(remaining > chunkSize)
        <5>1. chunkSize >= size - offset
          BY <2>3, <3>4, <4>3
        <5> QED
          BY <2>3, <3>4, <3>5, <5>1, WindowSums
      <4> QED
        BY <4>2, <4>3
    <3>7. m \in hits' <=> MatchesAt(m)
      BY <2>1, <2>3, <3>1, <3>3, <3>6 DEF FindAll
    <3> QED
      BY <2>1, <2>2, <3>2, <3>7
  <2> QED
    BY <2>5, <2>6
<1>8. ASSUME Open \/ OpenFails \/ EndMap \/ Finish \/ UNCHANGED vars
      PROVE  UNCHANGED <<processVars, pattern, scanVars, regions>>
  BY <1>8 DEF Open, OpenFails, EndMap, Finish, vars, mapVars
<1> QED
  BY <1>1, <1>2, <1>3, <1>5, <1>6, <1>7, <1>8 DEF Next, Scan

LEMMA DecidedAtTheEnd ==
  ASSUME TypeOK, Decided, pc = "done" => current > Len(regions)
  PROVE  StableMatchesAreFound
<1> SUFFICES ASSUME pc = "done", patternSize <= ScanChunk, NEW i \in 1 .. Len(regions),
                    NEW m \in FoundIn(regions[i])
             PROVE  m \in matches <=> MatchesAt(m)
  BY DEF StableMatchesAreFound
<1>1. i < current
  <2>1. current \in Nat /\ Len(regions) \in Nat
    BY RegionTypes
  <2> QED
    BY <2>1
<1> QED
  BY <1>1 DEF Decided, Passed

\* MemoryManager.cpp:20-21: a scan that ends has reported exactly the matches
\* in memory that stayed as it was mapped, for every size of address space,
\* region, window and pattern up to a window, and however the process changes
\* the rest of its memory between any two calls.
THEOREM StableMatchesAreAlwaysFound == Spec => []StableMatchesAreFound
<1> DEFINE Past == pc = "done" => current > Len(regions)
           IInv == TypeOK /\ MapInv /\ ScanInv /\ Mapped /\ Decided /\ Past
<1>1. Init => IInv
  BY ScanAssumption DEF Init, TypeOK, MapInv, MapTiles, ScanInv, Mapped, Decided
<1>2. ASSUME IInv, [Next]_vars PROVE Past'
  BY <1>2 DEF Next, Process, Scan, WriteByte, Protect, Exit, Open, OpenFails, QueryRegion, EndMap,
              SkipRegion, ReadFails, ReadWindow, Finish, InWindow, AtRegion, Scanning,
              vars, mapVars, scanVars
<1>3. IInv /\ [Next]_vars => IInv'
  BY <1>2, TypeStep, MapStep, ScanStep, MappedStep, DecidedStep
<1>4. IInv => StableMatchesAreFound
  BY DecidedAtTheEnd
<1> QED
  BY <1>1, <1>3, <1>4, PTL DEF Spec

=============================================================================
