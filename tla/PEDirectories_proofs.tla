------------------------ MODULE PEDirectories_proofs ------------------------
(***************************************************************************)
(* Proofs about PEDirectories, of which parseFile is a part: that every    *)
(* read stays in the file, that an RVA is translated as the layout of the  *)
(* image says, that no parser goes back, that records ascend, and that     *)
(* imports, exports and resources are those of the file.                   *)
(*                                                                         *)
(* All rest on the types of the parsers and of their loops: TypesInv.  An  *)
(* RVA is translated to an offset or to nothing (OffsetType), so what is   *)
(* tested by Fits before it is read lies in the file (PieceInside).  A     *)
(* step of a parser ends the innermost loop, fails, or goes forward in it  *)
(* and pushes one loop at most (ParseChanges).  What is listed is related  *)
(* to the entries that were read (ImportsInv, ExportsInv, ResourcesInv):   *)
(* those are kept by every step (KnownKept).                               *)
(***************************************************************************)
EXTENDS PEDirectories, TLAPS, WellFoundedInduction, FiniteSetTheorems

\* A loop.
LoopType == [of : Entries, base : 0 .. RvaModulus - 1, i : Nat, n : Nat]

\* Nothing is listed before a parser begins, and it begins on a parsed file.
PhaseInv ==
  /\ kind = "none" => tables = <<>> /\ found = <<>> /\ outcome = "pending"
  /\ kind # "none" => stage = "parsed"

\* The entries a parser starts with and never comes to later.
Once == {"descriptor", "exports", "tls"}

\* The loops are within their bounds, and their stack within its own.
LoopsInv ==
  /\ \A k \in 1 .. Len(tables) : tables[k].i <= tables[k].n
  /\ \A k \in 2 .. Len(tables) : tables[k].of \notin Once
  /\ Len(tables) <= Cap["depth"] + 2

\* What may follow a record.
Before(record, cursor) ==
  LET inSpace == record.at + record.size < RvaModulus IN
  /\ kind = "certificates" \/ inSpace => record.at < cursor
  /\ inSpace => record.at + record.size <= cursor

\* The only loop of a parser of records.
RecordLoop == IF kind = "certificates" THEN "certificate" ELSE "block"

-----------------------------------------------------------------------------
(* The translation of an RVA.                                              *)

LEMMA LeastNumber ==
  ASSUME NEW S \in SUBSET Nat, S # {}
  PROVE  \E n \in S : \A m \in S : n <= m
<1> DEFINE R == OpToRel(<, Nat)
<1>1. \A m, n \in Nat : m < n => <<m, n>> \in R
  BY Zenon DEF OpToRel
<1>2. IsWellFoundedOn(R, Nat)
  BY NatLessThanWellFounded
<1> HIDE DEF R
<1>3. PICK n \in S : \A m \in S : <<m, n>> \notin R
  BY <1>2, WFMin
<1>4. n \in Nat /\ \A m \in S : m \in Nat
  OBVIOUS
<1>5. \A m \in S : ~(m < n)
  BY <1>1, <1>3, <1>4
<1> QED
  BY <1>4, <1>5

LEMMA Remainder ==
  ASSUME NEW n \in Int, NEW m \in Nat, m > 0
  PROVE  n % m \in 0 .. m - 1 /\ (0 <= n /\ n < m => n % m = n)
OBVIOUS

LEMMA WrapType == \A n \in Int : Wrap(n) \in 0 .. RvaModulus - 1 /\ (0 <= n /\ n < RvaModulus => Wrap(n) = n)
BY Remainder, ParserAssumption DEF Wrap

\* What is within the file.
LEMMA FitsInside ==
  ASSUME fileSize \in Nat, NEW a \in Nat, NEW n \in Nat, Fits(a, n)
  PROVE  a + n <= fileSize
BY DEF Fits

LEMMA SizeTypes ==
  /\ RvaModulus \in Nat /\ SizeModulus \in Nat
  /\ \A of \in Entries \cup Payloads : Size[of] \in Nat /\ Size[of] > 0
  /\ \A of \in Entries \cup {"depth"} : Cap[of] \in Nat
  /\ Alignment \in Nat /\ Alignment > 0 /\ ImageBase \in Nat
BY ParserAssumption, DirectoryAssumption

LEMMA WidthType == \A of \in Entries \cup Payloads : Width(of) \in Nat /\ Width(of) > 0
BY SizeTypes DEF Width

LEMMA SectionTypes ==
  ASSUME ParserTypeOK
  PROVE  /\ Len(pe.sections) \in Nat /\ pe.headers \in Nat /\ fileSize \in Nat
         /\ pe.sections \in Seq(SectionHeader)
         /\ \A k \in 1 .. Len(pe.sections) :
              /\ pe.sections[k].va \in Nat /\ pe.sections[k].virtual \in Nat
              /\ pe.sections[k].raw \in Nat /\ pe.sections[k].pointer \in Nat
              /\ Span(pe.sections[k]) \in Nat /\ pe.sections[k].raw <= Span(pe.sections[k])
<1>1. /\ pe.sections \in Seq(SectionHeaders) /\ pe.headers \in HeaderSizes \cup {0}
      /\ fileSize \in FileSizes
  BY DEF ParserTypeOK
<1>2. Len(pe.sections) \in Nat /\ pe.headers \in Nat /\ fileSize \in Nat
  <2>1. /\ HeaderSizes \subseteq 0 .. RvaModulus - 1 /\ FileSizes \subseteq 1 .. SizeModulus - 1
        /\ RvaModulus \in Nat /\ SizeModulus \in Nat
    BY ParserAssumption
  <2>2. Len(pe.sections) \in Nat
    BY <1>1
  <2>3. pe.headers \in Nat
    <3>1. \A h \in HeaderSizes : h \in Nat
      BY <2>1
    <3>2. pe.headers \in HeaderSizes \/ pe.headers = 0
      BY <1>1
    <3> QED
      BY <3>1, <3>2
  <2>4. fileSize \in Nat
    BY <1>1, <2>1
  <2> QED
    BY <2>2, <2>3, <2>4
<1>3. ASSUME NEW k \in 1 .. Len(pe.sections) PROVE pe.sections[k] \in SectionHeader
  BY <1>1, <1>3, ParserAssumption
<1>4. pe.sections \in Seq(SectionHeader)
  BY <1>1, <1>3
<1>5. RvaModulus \in Nat
  BY ParserAssumption
<1>6. ASSUME NEW k \in 1 .. Len(pe.sections)
      PROVE  /\ pe.sections[k].va \in Nat /\ pe.sections[k].virtual \in Nat
             /\ pe.sections[k].raw \in Nat /\ pe.sections[k].pointer \in Nat
             /\ Span(pe.sections[k]) \in Nat /\ pe.sections[k].raw <= Span(pe.sections[k])
  <2>1. /\ pe.sections[k].va \in Nat /\ pe.sections[k].virtual \in Nat
        /\ pe.sections[k].raw \in Nat /\ pe.sections[k].pointer \in Nat
    BY <1>3, <1>5 DEF SectionHeader
  <2> QED
    BY <2>1 DEF Span
<1> QED
  BY <1>2, <1>4, <1>6

\* rvaToOffset answers with an offset or with nothing.
LEMMA OffsetType ==
  ASSUME ParserTypeOK, NEW rva \in Nat
  PROVE  RvaToOffset(rva) \in Nat \cup {None}
<1>1. CASE rva < pe.headers
  BY <1>1 DEF RvaToOffset
<1>2. CASE ~(rva < pe.headers) /\ Holding(rva) = {}
  BY <1>2 DEF RvaToOffset
<1>3. CASE ~(rva < pe.headers) /\ Holding(rva) # {}
  <2> DEFINE k == FirstOf(Holding(rva))
  <2>1. Holding(rva) \in SUBSET Nat
    BY SectionTypes DEF Holding
  <2>2. \E n \in Holding(rva) : \A m \in Holding(rva) : n <= m
    BY <1>3, <2>1, LeastNumber
  <2>3. k \in Holding(rva)
    BY <2>2 DEF FirstOf
  <2> HIDE DEF k
  <2>4. k \in 1 .. Len(pe.sections) /\ pe.sections[k].va <= rva
    BY <2>3 DEF Holding, Holds
  <2>5. pe.sections[k].pointer + (rva - pe.sections[k].va) \in Nat
    <3>1. \A q, v, a \in Nat : v <= a => q + (a - v) \in Nat
      OBVIOUS
    <3>2. pe.sections[k].va \in Nat /\ pe.sections[k].pointer \in Nat
      BY <2>4, SectionTypes
    <3> QED
      BY <2>4, <3>1, <3>2, Zenon
  <2>6. OffsetIn(pe.sections[k], rva) \in Nat \cup {None}
    BY <2>5 DEF OffsetIn
  <2>7. RvaToOffset(rva) = OffsetIn(pe.sections[k], rva)
    BY <1>3 DEF RvaToOffset, k
  <2> QED
    BY <2>6, <2>7
<1> QED
  BY <1>1, <1>2, <1>3

LEMMA Apart ==
  ASSUME NEW r \in Nat, NEW a \in Nat, NEW m \in Nat, NEW b \in Nat, NEW n \in Nat,
         a <= r, r < a + m, b <= r, r < b + n
  PROVE  ~(a + m <= b \/ b + n <= a)
OBVIOUS

LEMMA NotNegative ==
  ASSUME NEW p \in Nat, NEW r \in Nat, NEW a \in Nat, a <= r
  PROVE  p + (r - a) \in Nat
OBVIOUS

\* Of a well laid image.
LEMMA LayoutFollowed == ParserTypeOK => TranslationFollowsLayout
<1> SUFFICES ASSUME ParserTypeOK, WellLaid, NEW rva \in 0 .. RvaModulus - 1
             PROVE  LET bytes == BytesAt(rva) IN
                    IF bytes = {} THEN RvaToOffset(rva) = None ELSE bytes = {RvaToOffset(rva)}
  BY DEF TranslationFollowsLayout
<1> DEFINE S == pe.sections
           L == Len(S)
           InRaw(i) == S[i].va <= rva /\ rva < S[i].va + S[i].raw
           Offset(i) == S[i].pointer + (rva - S[i].va)
           ofHeaders == IF rva < pe.headers THEN {rva} ELSE {}
           ofSections == {Offset(i) : i \in {j \in 1 .. L : InRaw(j)}}
<1>1. BytesAt(rva) = (ofHeaders \cup ofSections) \cap 0 .. fileSize - 1
  BY DEF BytesAt
<1>2. /\ RvaModulus \in Nat /\ rva \in Nat /\ rva < RvaModulus /\ L \in Nat
      /\ pe.headers \in Nat /\ fileSize \in Nat
      /\ \A i \in 1 .. L : /\ S[i].va \in Nat /\ S[i].raw \in Nat /\ S[i].pointer \in Nat
                           /\ Span(S[i]) \in Nat /\ S[i].raw <= Span(S[i])
  BY SectionTypes, ParserAssumption
<1>3. \A i \in 1 .. L : pe.headers <= S[i].va /\ S[i].va + Span(S[i]) < RvaModulus
  BY DEF WellLaid
<1>4. \A i, j \in 1 .. L :
        i # j => S[i].va + Span(S[i]) <= S[j].va \/ S[j].va + Span(S[j]) <= S[i].va
  BY DEF WellLaid
<1>5. \A i \in 1 .. L : Holds(S[i], rva) <=> S[i].va <= rva /\ rva < S[i].va + Span(S[i])
  <2> TAKE i \in 1 .. L
  <2> DEFINE end == S[i].va + Span(S[i])
  <2>1. end \in Nat /\ end < RvaModulus
    BY <1>2, <1>3
  <2> HIDE DEF end
  <2>2. end % RvaModulus = end
    BY <1>2, <2>1, Remainder
  <2> QED
    BY <2>2 DEF Holds, end
<1>6. \A i \in 1 .. L : InRaw(i) => Holds(S[i], rva)
  BY <1>2, <1>5
<1>7. \A i, j \in 1 .. L : Holds(S[i], rva) /\ Holds(S[j], rva) => i = j
  <2> SUFFICES ASSUME NEW i \in 1 .. L, NEW j \in 1 .. L, Holds(S[i], rva), Holds(S[j], rva), i # j
               PROVE  FALSE
    OBVIOUS
  <2>1. /\ S[i].va <= rva /\ rva < S[i].va + Span(S[i])
        /\ S[j].va <= rva /\ rva < S[j].va + Span(S[j])
    BY <1>5
  <2>2. /\ S[i].va \in Nat /\ Span(S[i]) \in Nat /\ S[j].va \in Nat /\ Span(S[j]) \in Nat
        /\ S[i].va + Span(S[i]) <= S[j].va \/ S[j].va + Span(S[j]) <= S[i].va
    BY <1>2, <1>4
  <2>3. rva \in Nat
    BY <1>2
  <2> QED
    BY <2>1, <2>2, <2>3, Apart
<1>8. CASE rva < pe.headers
  <2>1. \A i \in 1 .. L : ~InRaw(i)
    BY <1>2, <1>3, <1>8
  <2>2. ofSections = {}
    BY <2>1
  <2>3. BytesAt(rva) = {rva} \cap 0 .. fileSize - 1
    BY <1>1, <1>8, <2>2
  <2>4. RvaToOffset(rva) = IF rva < fileSize THEN rva ELSE None
    BY <1>8 DEF RvaToOffset
  <2> QED
    BY <1>2, <2>3, <2>4
<1>9. CASE ~(rva < pe.headers) /\ Holding(rva) = {}
  <2>1. \A i \in 1 .. L : ~InRaw(i)
    BY <1>6, <1>9 DEF Holding
  <2>2. ofSections = {}
    BY <2>1
  <2>3. BytesAt(rva) = {}
    BY <1>1, <1>9, <2>2
  <2> QED
    BY <1>9, <2>3 DEF RvaToOffset
<1>10. CASE ~(rva < pe.headers) /\ Holding(rva) # {}
  <2>1. PICK k \in 1 .. L : Holds(S[k], rva)
    BY <1>10 DEF Holding
  <2>2. Holding(rva) = {k}
    BY <1>7, <2>1 DEF Holding
  <2>3. FirstOf({k}) = k
    BY <2>1 DEF FirstOf
  <2>4. RvaToOffset(rva) = IF rva - S[k].va < S[k].raw /\ Offset(k) < fileSize THEN Offset(k) ELSE None
    BY <1>10, <2>2, <2>3 DEF RvaToOffset, OffsetIn
  <2>0. S[k].va <= rva /\ S[k].va \in Nat /\ S[k].raw \in Nat /\ S[k].pointer \in Nat
    BY <1>2, <1>5, <2>1
  <2>5. InRaw(k) <=> rva - S[k].va < S[k].raw
    <3>1. \A v, r, a \in Nat : v <= a => (a < v + r <=> a - v < r)
      OBVIOUS
    <3>2. rva \in Nat
      BY <1>2
    <3> QED
      BY <2>0, <3>1, <3>2, Zenon
  <2>6. \A i \in 1 .. L : InRaw(i) => i = k
    BY <1>6, <1>7, <2>1
  <2>7. ofSections = IF InRaw(k) THEN {Offset(k)} ELSE {}
    BY <2>1, <2>6
  <2>8. BytesAt(rva) = IF InRaw(k) THEN {Offset(k)} \cap 0 .. fileSize - 1 ELSE {}
    BY <1>1, <1>10, <2>7
  <2>9. Offset(k) \in Nat
    <3>1. rva \in Nat
      BY <1>2
    <3> QED
      BY <2>0, <3>1, NotNegative
  <2> HIDE DEF Offset, InRaw, S, L
  <2> QED
    BY <1>2, <2>4, <2>5, <2>8, <2>9
<1> QED
  BY <1>8, <1>9, <1>10

-----------------------------------------------------------------------------
(* parseFile.                                                              *)

LEMMA Product == \A m, n \in Nat : m * n \in Nat
OBVIOUS

\* Ranges of the file.
Inside(t) == t \subseteq [at : Nat, size : Nat] /\ \A r \in t : r.at + r.size <= fileSize

LEMMA ModuliTypes ==
  /\ \A n \in Int : n % SizeModulus \in 0 .. SizeModulus - 1
  /\ \A n \in FileSizes : n \in Nat
  /\ \A n \in OptionalSizes \cup {0} : n \in Nat
  /\ \A n \in SectionCounts \cup {0} : n \in Nat
  /\ \A n \in NewOffsets : n \in Nat
  /\ {DosSize, SignatureSize, FileHeaderSize, MagicSize, SectionSize} \subseteq Nat
  /\ \A m \in Magics : OptionalSize[m] \in Nat
<1>1. SizeModulus \in Nat /\ SizeModulus > 0
  BY ParserAssumption
<1>2. \A n \in Int : n % SizeModulus \in 0 .. SizeModulus - 1
  BY <1>1, Remainder
<1>3. \A n \in FileSizes : n \in Nat
  BY <1>1, ParserAssumption
<1>4. (\A n \in OptionalSizes : n \in Nat) /\ (\A n \in SectionCounts : n \in Nat)
  BY ParserAssumption
<1>5. \A n \in NewOffsets : n \in Nat
  BY <1>1, ParserAssumption
<1>6. {DosSize, SignatureSize, FileHeaderSize, MagicSize, SectionSize} \subseteq Nat
  BY ParserAssumption
<1>7. \A m \in Magics : OptionalSize[m] \in Nat
  BY ParserAssumption
<1>8. (\A n \in OptionalSizes \cup {0} : n \in Nat) /\ (\A n \in SectionCounts \cup {0} : n \in Nat)
  BY <1>4
<1> QED
  BY <1>2, <1>3, <1>5, <1>6, <1>7, <1>8

\* A header is read where all of it is, and the next one has a place.
LEMMA HeaderRead ==
  ASSUME ParserTypeOK, NEW n \in Nat, NEW next, NEW offset \in Int, ReadHeader(n, next, offset)
  PROVE  at' \in 0 .. SizeModulus - 1 /\ Inside(touched')
<1>1. at \in Nat /\ fileSize \in Nat
  BY ModuliTypes, ParserAssumption DEF ParserTypeOK
<1>2. at' \in 0 .. SizeModulus - 1
  BY ModuliTypes DEF ReadHeader
<1>3. touched' = {Extent(at, n)} /\ Fits(at, n)
  BY DEF ReadHeader
<1>4. at + n <= fileSize
  BY <1>1, <1>3, FitsInside
<1>5. Inside(touched')
  BY <1>1, <1>3, <1>4 DEF Inside, Extent
<1> QED
  BY <1>2, <1>5

LEMMA ParserStep ==
  ASSUME ParserTypeOK, ParserNext
  PROVE  ParserTypeOK' /\ Inside(touched') /\ stage # "parsed" /\ fileSize' = fileSize
<1>1. /\ fileSize \in FileSizes /\ stage \in Stages /\ at \in 0 .. SizeModulus - 1
      /\ header \in [count : SectionCounts \cup {0}, optional : OptionalSizes \cup {0}]
      /\ pe \in [is64 : BOOLEAN, headers : HeaderSizes \cup {0}, sections : Seq(SectionHeaders)]
  BY DEF ParserTypeOK
<1>2. at \in Int /\ header.optional \in Nat /\ header.count \in Nat
  <2>1. header.optional \in OptionalSizes \cup {0} /\ header.count \in SectionCounts \cup {0}
    BY <1>1
  <2>2. \A n \in 0 .. SizeModulus - 1 : n \in Int
    OBVIOUS
  <2> QED
    BY <1>1, <2>1, <2>2, ModuliTypes
<1>3. Inside({})
  BY DEF Inside
<1>4. \A t : Inside(t) => t \subseteq [at : Nat, size : Nat]
  BY DEF Inside
<1>5. ASSUME NEW o \in NewOffsets, DosHeader(o)
      PROVE  ParserTypeOK' /\ Inside(touched') /\ stage # "parsed" /\ fileSize' = fileSize
  <2>1. DosSize \in Nat /\ o \in Int
    BY ModuliTypes
  <2>2. at' \in 0 .. SizeModulus - 1 /\ Inside(touched')
    BY <1>5, <2>1, HeaderRead DEF DosHeader
  <2>3. stage' \in Stages /\ stage # "parsed" /\ UNCHANGED <<fileSize, header, pe>>
    BY <1>5 DEF DosHeader, ReadHeader, Stages
  <2> QED
    BY <1>1, <1>4, <2>2, <2>3 DEF ParserTypeOK
<1>6. ASSUME NtSignature
      PROVE  ParserTypeOK' /\ Inside(touched') /\ stage # "parsed" /\ fileSize' = fileSize
  <2>1. SignatureSize \in Nat /\ at + SignatureSize \in Int
    BY <1>2, ModuliTypes
  <2>2. at' \in 0 .. SizeModulus - 1 /\ Inside(touched')
    BY <1>6, <2>1, HeaderRead DEF NtSignature
  <2>3. stage' \in Stages /\ stage # "parsed" /\ UNCHANGED <<fileSize, header, pe>>
    BY <1>6 DEF NtSignature, ReadHeader, Stages
  <2> QED
    BY <1>1, <1>4, <2>2, <2>3 DEF ParserTypeOK
<1>7. ASSUME NEW c \in SectionCounts, NEW o \in OptionalSizes, FileHeader(c, o)
      PROVE  ParserTypeOK' /\ Inside(touched') /\ stage # "parsed" /\ fileSize' = fileSize
  <2>1. FileHeaderSize \in Nat /\ at + FileHeaderSize \in Int
    BY <1>2, ModuliTypes
  <2>2. at' \in 0 .. SizeModulus - 1 /\ Inside(touched')
    BY <1>7, <2>1, HeaderRead DEF FileHeader
  <2>3. stage' \in Stages /\ stage # "parsed" /\ UNCHANGED <<fileSize, pe>>
    BY <1>7 DEF FileHeader, ReadHeader, Stages
  <2>4. header' \in [count : SectionCounts \cup {0}, optional : OptionalSizes \cup {0}]
    BY <1>7 DEF FileHeader
  <2> QED
    BY <1>1, <1>4, <2>2, <2>3, <2>4 DEF ParserTypeOK
<1>8. ASSUME NEW m \in Magics, NEW h \in HeaderSizes, OptionalHeader(m, h)
      PROVE  ParserTypeOK' /\ Inside(touched') /\ stage # "parsed" /\ fileSize' = fileSize
  <2>1. OptionalSize[m] \in Nat /\ at + header.optional \in Int
    BY <1>2, ModuliTypes
  <2>2. at' \in 0 .. SizeModulus - 1 /\ Inside(touched')
    BY <1>8, <2>1, HeaderRead DEF OptionalHeader
  <2>3. stage' \in Stages /\ stage # "parsed" /\ UNCHANGED <<fileSize, header>>
    BY <1>8 DEF OptionalHeader, ReadHeader, Stages
  <2>4. pe' = [pe EXCEPT !.is64 = m = "pe32+", !.headers = h]
    BY <1>8 DEF OptionalHeader
  <2>5. pe' \in [is64 : BOOLEAN, headers : HeaderSizes \cup {0}, sections : Seq(SectionHeaders)]
    BY <1>1, <2>4
  <2> QED
    BY <1>1, <1>4, <2>2, <2>3, <2>5 DEF ParserTypeOK
<1>9. ASSUME SectionTable
      PROVE  ParserTypeOK' /\ Inside(touched') /\ stage # "parsed" /\ fileSize' = fileSize
  <2>1. /\ stage' \in Stages /\ stage # "parsed" /\ touched' = {}
        /\ UNCHANGED <<fileSize, at, header, pe>>
    BY <1>9 DEF SectionTable, Stages
  <2> QED
    BY <1>1, <1>3, <1>4, <2>1 DEF ParserTypeOK
<1>10. ASSUME NEW s \in SectionHeaders, Section(s)
       PROVE  ParserTypeOK' /\ Inside(touched') /\ stage # "parsed" /\ fileSize' = fileSize
  <2>1. SectionSize \in Nat /\ at + SectionSize \in Int
    BY <1>2, ModuliTypes
  <2>2. at' \in 0 .. SizeModulus - 1 /\ Inside(touched')
    BY <1>10, <2>1, HeaderRead DEF Section
  <2>3. stage' \in Stages /\ stage # "parsed" /\ UNCHANGED <<fileSize, header>>
    BY <1>10 DEF Section, ReadHeader, Stages
  <2>4. Append(pe.sections, s) \in Seq(SectionHeaders)
    BY <1>1
  <2>5. pe' = [pe EXCEPT !.sections = Append(@, s)]
    BY <1>10 DEF Section
  <2>6. pe' \in [is64 : BOOLEAN, headers : HeaderSizes \cup {0}, sections : Seq(SectionHeaders)]
    BY <1>1, <2>4, <2>5
  <2> QED
    BY <1>1, <1>4, <2>2, <2>3, <2>6 DEF ParserTypeOK
<1>11. ASSUME Reject
       PROVE  ParserTypeOK' /\ Inside(touched') /\ stage # "parsed" /\ fileSize' = fileSize
  <2>1. /\ stage' \in Stages /\ stage # "parsed" /\ touched' = {}
        /\ UNCHANGED <<fileSize, at, header, pe>>
    BY <1>11 DEF Reject, Truncated, Stages
  <2> QED
    BY <1>1, <1>3, <1>4, <2>1 DEF ParserTypeOK
<1> QED
  BY <1>5, <1>6, <1>7, <1>8, <1>9, <1>10, <1>11 DEF ParserNext

LEMMA SlotType ==
  ASSUME NEW of \in Entries \cup Payloads, NEW base \in 0 .. RvaModulus - 1, NEW i \in Nat
  PROVE  SlotRva(of, base, i) \in 0 .. RvaModulus - 1
<1>1. i * Width(of) \in Nat
  BY WidthType, Product
<1>2. Wrap(i * Width(of)) \in Nat /\ base \in Nat
  BY <1>1, WrapType, SizeTypes
<1>3. Wrap(base + Wrap(i * Width(of))) \in 0 .. RvaModulus - 1
  BY <1>2, WrapType
<1> QED
  BY <1>3 DEF SlotRva

LEMMA PlaceType ==
  ASSUME ParserTypeOK, NEW of, NEW rva \in Nat
  PROVE  Place(of, rva) \in Nat \cup {None}
BY OffsetType DEF Place

LEMMA PieceInside ==
  ASSUME ParserTypeOK, NEW of \in Entries \cup Payloads, NEW rva \in Nat
  PROVE  /\ Inside(Piece(of, rva))
         /\ CanRead(of, rva) => Inside({Extent(Place(of, rva), Width(of))}) /\ Place(of, rva) \in Nat
<1>1. Width(of) \in Nat /\ fileSize \in Nat
  BY WidthType, SectionTypes
<1>2. Place(of, rva) \in Nat \cup {None}
  BY PlaceType
<1>3. ASSUME Place(of, rva) # None, Fits(Place(of, rva), Width(of))
      PROVE  Inside({Extent(Place(of, rva), Width(of))})
  <2>1. Place(of, rva) \in Nat
    BY <1>2, <1>3
  <2>2. Place(of, rva) + Width(of) <= fileSize
    BY <1>1, <1>3, <2>1, FitsInside
  <2> QED
    BY <1>1, <2>1, <2>2 DEF Inside, Extent
<1>4. Inside({})
  BY DEF Inside
<1>5. Inside(Piece(of, rva))
  BY <1>3, <1>4 DEF Piece
<1> QED
  BY <1>2, <1>3, <1>5 DEF CanRead

\* The running loop.
LEMMA LoopFacts ==
  ASSUME TypeOK, tables # <<>>
  PROVE  /\ Loop = tables[Len(tables)] /\ Len(tables) \in Nat \ {0}
         /\ Loop \in LoopType /\ Loop.of \in Entries /\ Loop.base \in 0 .. RvaModulus - 1
         /\ Loop.i \in Nat /\ Loop.n \in Nat
         /\ NextRva \in 0 .. RvaModulus - 1 /\ NextRva \in Nat
<1>1. tables \in Seq(LoopType)
  BY DEF TypeOK, LoopType
<1>2. Loop = tables[Len(tables)] /\ Len(tables) \in Nat \ {0}
  BY <1>1 DEF Loop, Last
<1>3. Loop \in LoopType
  BY <1>1, <1>2
<1>4. /\ Loop.of \in Entries /\ Loop.base \in 0 .. RvaModulus - 1
      /\ Loop.i \in Nat /\ Loop.n \in Nat
  BY <1>3 DEF LoopType
<1>5. NextRva \in 0 .. RvaModulus - 1
  BY <1>4, SlotType DEF NextRva
<1>6. NextRva \in Nat
  BY <1>5, SizeTypes
<1> QED
  BY <1>2, <1>3, <1>4, <1>5, <1>6

-----------------------------------------------------------------------------
(* How the stack of loops changes.                                         *)

\* How many loops, which of them the step has changed, and into what.
ChangesInto(new, p, t) ==
  /\ new \in LoopType /\ t \in LoopType /\ p \in {0, 1}
  /\ tables' \in Seq(LoopType) /\ Len(tables') = Len(tables) + p
  /\ \A k \in 1 .. Len(tables) - 1 : tables'[k] = tables[k]
  /\ tables'[Len(tables)] = new
  /\ p = 1 => tables'[Len(tables) + 1] = t

\* A loop that goes on, or a header that was read.
GoesOn(new) ==
  /\ new.i <= new.n
  /\ new.of \in Once => Loop.of \in Once
  /\ IF Loop.of \in Headers THEN new.of \notin Headers
     ELSE new.of = Loop.of /\ new.n = Loop.n /\ new.i = Loop.i + 1

\* A loop that is pushed.
Starts(t) ==
  /\ t.i <= t.n /\ t.of \notin Once
  /\ Loop.of \in Once \/ Len(tables) <= Cap["depth"]

\* The innermost loop ends, or the parser fails, or it goes forward.
Ends == tables' = Front(tables) /\ (outcome' = IF Len(tables) = 1 THEN "ok" ELSE outcome)
Fails == tables' = tables /\ outcome' = "error"
Forward == 
  /\ outcome' = outcome
  /\ \E new, t \in LoopType, p \in {0, 1} : ChangesInto(new, p, t) /\ GoesOn(new) /\ (p = 1 => Starts(t))

LEMMA Replaced ==
  ASSUME NEW T, NEW s \in Seq(T), s # <<>>, NEW new \in T
  PROVE  /\ Append(Front(s), new) \in Seq(T) /\ Len(Append(Front(s), new)) = Len(s)
         /\ \A k \in 1 .. Len(s) - 1 : Append(Front(s), new)[k] = s[k]
         /\ Append(Front(s), new)[Len(s)] = new
<1>1. Len(s) \in Nat \ {0}
  OBVIOUS
<1>2. Front(s) = SubSeq(s, 1, Len(s) - 1)
  BY DEF Front
<1>3. Front(s) \in Seq(T) /\ Len(Front(s)) = Len(s) - 1 /\ \A k \in 1 .. Len(s) - 1 : Front(s)[k] = s[k]
  <2> DEFINE l == Len(s) - 1
  <2>1. l \in Nat /\ \A k \in 1 .. l : k \in 1 .. Len(s)
    BY <1>1
  <2>2. SubSeq(s, 1, l) = [k \in 1 .. l |-> s[k]]
    BY <1>1, <2>1
  <2> HIDE DEF l
  <2>3. /\ SubSeq(s, 1, l) \in Seq(T) /\ Len(SubSeq(s, 1, l)) = l
        /\ \A k \in 1 .. l : SubSeq(s, 1, l)[k] = s[k]
    BY <2>1, <2>2
  <2> QED
    BY <1>2, <2>3 DEF l
<1> HIDE DEF Front
<1>4. /\ Append(Front(s), new) \in Seq(T) /\ Len(Append(Front(s), new)) = Len(s) - 1 + 1
      /\ \A k \in 1 .. Len(s) - 1 : Append(Front(s), new)[k] = Front(s)[k]
      /\ Append(Front(s), new)[Len(s)] = new
  BY <1>1, <1>3
<1> QED
  BY <1>1, <1>3, <1>4

LEMMA Pushed ==
  ASSUME NEW T, NEW s \in Seq(T), NEW t \in T
  PROVE  /\ s \o <<t>> \in Seq(T) /\ Len(s \o <<t>>) = Len(s) + 1
         /\ \A k \in 1 .. Len(s) : (s \o <<t>>)[k] = s[k]
         /\ (s \o <<t>>)[Len(s) + 1] = t
OBVIOUS

LEMMA NotPushed ==
  ASSUME NEW T, NEW s \in Seq(T)
  PROVE  s \o <<>> = s
OBVIOUS

LEMMA TableType ==
  ASSUME NEW of \in Entries, NEW base \in 0 .. RvaModulus - 1, NEW n \in Nat
  PROVE  /\ Table(of, base, n) \in LoopType /\ Table(of, base, n).of = of
         /\ Table(of, base, n).i = 0 /\ Table(of, base, n).n = n
         /\ Table(of, base, n).base = base
BY DEF Table, LoopType

LEMMA NextLoop ==
  ASSUME NEW r \in LoopType, NEW cursor \in 0 .. RvaModulus - 1,
         NEW new \in {[r EXCEPT !.i = @ + 1], [r EXCEPT !.i = @ + 1, !.base = cursor]}
  PROVE  new \in LoopType /\ new.of = r.of /\ new.n = r.n /\ new.i = r.i + 1
<1>1. CASE new = [r EXCEPT !.i = @ + 1]
  BY <1>1 DEF LoopType
<1>2. CASE new = [r EXCEPT !.i = @ + 1, !.base = cursor]
  <2>1. new.of = r.of /\ new.n = r.n /\ new.i = r.i + 1 /\ new.base = cursor
    BY <1>2 DEF LoopType
  <2>2. new = [of |-> r.of, base |-> cursor, i |-> r.i + 1, n |-> r.n]
    BY <1>2 DEF LoopType
  <2>3. r.of \in Entries /\ r.n \in Nat /\ r.i + 1 \in Nat
    BY DEF LoopType
  <2>4. new \in LoopType
    BY <2>2, <2>3 DEF LoopType
  <2> QED
    BY <2>1, <2>4
<1> QED
  BY <1>1, <1>2

LEMMA GoesOnFrom ==
  ASSUME TypeOK, tables # <<>>, Loop.i < Loop.n, Loop.of \notin Headers, NEW new,
         new.of = Loop.of, new.n = Loop.n, new.i = Loop.i + 1
  PROVE  GoesOn(new)
BY LoopFacts DEF GoesOn

LEMMA ForwardOne ==
  ASSUME TypeOK, tables # <<>>, NEW new \in LoopType, GoesOn(new),
         tables' = Append(Front(tables), new), UNCHANGED outcome
  PROVE  Forward
<1>1. tables \in Seq(LoopType)
  BY DEF TypeOK, LoopType
<1>2. ChangesInto(new, 0, new)
  <2>1. Len(tables) \in Nat
    BY <1>1
  <2> QED
    BY <1>1, <2>1, Replaced DEF ChangesInto
<1> QED
  BY <1>2 DEF Forward

LEMMA ForwardTwo ==
  ASSUME TypeOK, tables # <<>>, NEW new \in LoopType, GoesOn(new), NEW t \in LoopType, Starts(t),
         tables' = Append(Front(tables), new) \o <<t>>, UNCHANGED outcome
  PROVE  Forward
<1>1. tables \in Seq(LoopType)
  BY DEF TypeOK, LoopType
<1> DEFINE s == Append(Front(tables), new)
<1>2. /\ s \in Seq(LoopType) /\ Len(s) = Len(tables)
      /\ \A k \in 1 .. Len(tables) - 1 : s[k] = tables[k]
      /\ s[Len(tables)] = new
  BY <1>1, Replaced
<1>3. tables' = s \o <<t>>
  OBVIOUS
<1> HIDE DEF s
<1>4. /\ tables' \in Seq(LoopType) /\ Len(tables') = Len(s) + 1
      /\ \A k \in 1 .. Len(s) : tables'[k] = s[k]
      /\ tables'[Len(s) + 1] = t
  <2>1. /\ s \o <<t>> \in Seq(LoopType) /\ Len(s \o <<t>>) = Len(s) + 1
        /\ \A k \in 1 .. Len(s) : (s \o <<t>>)[k] = s[k]
        /\ (s \o <<t>>)[Len(s) + 1] = t
    BY <1>2, Pushed
  <2> QED
    BY <1>3, <2>1, Zenon
<1>5. Len(tables) \in Nat \ {0}
  BY LoopFacts
<1>6. ChangesInto(new, 1, t)
  BY <1>2, <1>4, <1>5 DEF ChangesInto
<1> QED
  BY <1>6 DEF Forward

LEMMA GoOnForward ==
  ASSUME TypeOK, tables # <<>>, Loop.i < Loop.n, Loop.of \notin Headers, GoOn
  PROVE  Forward
<1> DEFINE new == [Loop EXCEPT !.i = @ + 1]
<1>0. Loop \in LoopType /\ Loop.base \in 0 .. RvaModulus - 1
  BY LoopFacts
<1>1. new \in LoopType /\ new.of = Loop.of /\ new.n = Loop.n /\ new.i = Loop.i + 1
  BY <1>0, NextLoop
<1>2. tables' = Append(Front(tables), new) \o <<>> /\ UNCHANGED outcome
  BY DEF GoOn, GoOnAfter
<1>3. tables \in Seq(LoopType)
  BY DEF TypeOK, LoopType
<1> HIDE DEF new
<1>4. Append(Front(tables), new) \in Seq(LoopType)
  BY <1>1, <1>3, Replaced
<1>5. tables' = Append(Front(tables), new)
  BY <1>2, <1>4, NotPushed
<1> QED
  BY <1>1, <1>2, <1>5, GoesOnFrom, ForwardOne

LEMMA GoOnAtForward ==
  ASSUME TypeOK, tables # <<>>, Loop.i < Loop.n, Loop.of \notin Headers,
         NEW cursor \in 0 .. RvaModulus - 1, GoOnAt(cursor)
  PROVE  Forward
<1> DEFINE new == [Loop EXCEPT !.i = @ + 1, !.base = cursor]
<1>0. Loop \in LoopType /\ Loop.base \in 0 .. RvaModulus - 1
  BY LoopFacts
<1>1. new \in LoopType /\ new.of = Loop.of /\ new.n = Loop.n /\ new.i = Loop.i + 1
  BY <1>0, NextLoop
<1>2. tables' = Append(Front(tables), new) /\ UNCHANGED outcome
  BY DEF GoOnAt
<1> HIDE DEF new
<1> QED
  BY <1>1, <1>2, GoesOnFrom, ForwardOne

LEMMA GoOnAfterForward ==
  ASSUME TypeOK, tables # <<>>, Loop.i < Loop.n, Loop.of \notin Headers,
         NEW t \in LoopType, Starts(t), GoOnAfter(<<t>>)
  PROVE  Forward
<1> DEFINE new == [Loop EXCEPT !.i = @ + 1]
<1>0. Loop \in LoopType /\ Loop.base \in 0 .. RvaModulus - 1
  BY LoopFacts
<1>1. new \in LoopType /\ new.of = Loop.of /\ new.n = Loop.n /\ new.i = Loop.i + 1
  BY <1>0, NextLoop
<1>2. tables' = Append(Front(tables), new) \o <<t>> /\ UNCHANGED outcome
  BY DEF GoOnAfter
<1> HIDE DEF new
<1> QED
  BY <1>1, <1>2, GoesOnFrom, ForwardTwo

-----------------------------------------------------------------------------
(* The steps of the parsers, each of them.                                 *)

Changes == Forward \/ Ends \/ Fails

LEMMA FieldTypes ==
  /\ \A r \in Rvas : r \in 0 .. RvaModulus - 1 /\ r \in Nat
  /\ \A r \in Offsets : r \in 0 .. RvaModulus - 1 /\ r \in Nat
  /\ \A r \in Counts : r \in 0 .. RvaModulus - 1 /\ r \in Nat
  /\ \A r \in Lengths : r \in 0 .. RvaModulus - 1 /\ r \in Nat
  /\ \A d \in Directories \cup {Nothing} :
       /\ d.va \in 0 .. RvaModulus - 1 /\ d.va \in Nat
       /\ d.size \in 0 .. RvaModulus - 1 /\ d.size \in Nat
<1>1. RvaModulus \in Nat /\ RvaModulus > 0
  BY ParserAssumption
<1>2. \A r \in 0 .. RvaModulus - 1 : r \in Nat
  BY <1>1
<1>3. \A d \in Directories : d.va \in 0 .. RvaModulus - 1 /\ d.size \in 0 .. RvaModulus - 1
  BY DirectoryAssumption
<1>4. Nothing.va = 0 /\ Nothing.size = 0 /\ 0 \in 0 .. RvaModulus - 1
  BY <1>1 DEF Nothing
<1>5. \A d \in Directories \cup {Nothing} :
        d.va \in 0 .. RvaModulus - 1 /\ d.size \in 0 .. RvaModulus - 1
  BY <1>3, <1>4
<1>6. /\ \A r \in Rvas : r \in 0 .. RvaModulus - 1
      /\ \A r \in Offsets : r \in 0 .. RvaModulus - 1
      /\ \A r \in Counts : r \in 0 .. RvaModulus - 1
      /\ \A r \in Lengths : r \in 0 .. RvaModulus - 1
  BY DirectoryAssumption
<1> QED
  BY <1>2, <1>5, <1>6

LEMMA RunningFacts ==
  ASSUME TypeOK, NEW of, Running(of)
  PROVE  /\ tables # <<>> /\ outcome = "pending" /\ Loop.of = of /\ Loop.i < Loop.n
         /\ UNCHANGED <<parserVars, kind, directory>>
BY DEF Running

\* A header comes first, and alone.
LEMMA OnceAlone ==
  ASSUME TypeOK, LoopsInv, tables # <<>>, Loop.of \in Once
  PROVE  Len(tables) = 1
<1>1. Loop = tables[Len(tables)] /\ Len(tables) \in Nat \ {0}
  BY LoopFacts
<1>2. \A k \in 2 .. Len(tables) : tables[k].of \notin Once
  BY DEF LoopsInv
<1>3. \A l \in Nat \ {0} : l = 1 \/ l \in 2 .. l
  OBVIOUS
<1>4. Len(tables) = 1 \/ Len(tables) \in 2 .. Len(tables)
  BY <1>1, <1>3, Zenon
<1> QED
  BY <1>1, <1>2, <1>4

LEMMA DescriptorChanges ==
  ASSUME TypeOK, Running("descriptor"), NEW d \in Descriptors, Descriptor(d)
  PROVE  Changes
<1>1. tables # <<>> /\ Loop.of = "descriptor" /\ Loop.i < Loop.n
  BY RunningFacts
<1>2. CASE IsTerminator(d)
  BY <1>2 DEF Descriptor, Leave, Ends, Changes
<1>3. CASE ~IsTerminator(d) /\ ThunkArray(d) = 0
  <2>1. GoOn
    BY <1>3 DEF Descriptor
  <2> QED
    BY <1>1, <2>1, GoOnForward DEF Changes, Headers
<1>4. CASE ~IsTerminator(d) /\ ThunkArray(d) # 0
  <2> DEFINE t == Table("thunk", ThunkArray(d), Cap["thunk"])
  <2>1. GoOnAfter(<<t>>)
    BY <1>4 DEF Descriptor
  <2>2. ThunkArray(d) \in 0 .. RvaModulus - 1
    BY FieldTypes DEF ThunkArray, Descriptors
  <2>3. Cap["thunk"] \in Nat
    BY SizeTypes DEF Entries
  <2>4. t \in LoopType /\ t.of = "thunk" /\ t.i = 0 /\ t.n = Cap["thunk"]
    BY <2>2, <2>3, TableType DEF Entries
  <2> HIDE DEF t
  <2>5. Starts(t)
    BY <1>1, <2>3, <2>4 DEF Starts, Once
  <2> QED
    BY <1>1, <2>1, <2>4, <2>5, GoOnAfterForward DEF Changes, Headers
<1> QED
  BY <1>2, <1>3, <1>4

LEMMA ThunkChanges ==
  ASSUME TypeOK, Running("thunk"), NEW t \in Thunks, Thunk(t)
  PROVE  Changes
<1>1. tables # <<>> /\ Loop.of = "thunk" /\ Loop.i < Loop.n
  BY RunningFacts
<1>2. CASE t.null
  BY <1>2 DEF Thunk, Leave, Ends, Changes
<1>3. CASE ~t.null
  <2>1. GoOn
    BY <1>3 DEF Thunk
  <2> QED
    BY <1>1, <2>1, GoOnForward DEF Changes, Headers
<1> QED
  BY <1>2, <1>3

LEMMA ExportsChange ==
  ASSUME TypeOK, LoopsInv, Running("exports"), NEW x \in ExportHeaders, ExportHeader(x)
  PROVE  Changes /\ ordinals' \in 0 .. RvaModulus - 1
<1>1. tables # <<>> /\ Loop.of = "exports" /\ Loop.i < Loop.n
  BY RunningFacts
<1>2. CASE x.functionCount > Cap["function"] \/ x.nameCount > Cap["name"]
  BY <1>2 DEF ExportHeader, Fails, Changes, TypeOK
<1>3. CASE ~(x.functionCount > Cap["function"] \/ x.nameCount > Cap["name"])
  <2> DEFINE new == Table("function", x.functions, x.functionCount)
             t == Table("name", x.names, x.nameCount)
  <2>1. tables' = <<new, t>> /\ UNCHANGED outcome /\ ordinals' = x.ordinals
    BY <1>3 DEF ExportHeader
  <2>2. /\ x.functions \in 0 .. RvaModulus - 1 /\ x.names \in 0 .. RvaModulus - 1
        /\ x.functionCount \in Nat /\ x.nameCount \in Nat /\ x.ordinals \in 0 .. RvaModulus - 1
    BY FieldTypes DEF ExportHeaders
  <2>3. /\ new \in LoopType /\ new.of = "function" /\ new.i = 0 /\ new.n = x.functionCount
        /\ t \in LoopType /\ t.of = "name" /\ t.i = 0 /\ t.n = x.nameCount
    <3>1. "function" \in Entries /\ "name" \in Entries
      BY DEF Entries
    <3>2. new \in LoopType /\ new.of = "function" /\ new.i = 0 /\ new.n = x.functionCount
      BY <2>2, <3>1, TableType
    <3>3. t \in LoopType /\ t.of = "name" /\ t.i = 0 /\ t.n = x.nameCount
      BY <2>2, <3>1, TableType
    <3> QED
      BY <3>2, <3>3
  <2> HIDE DEF new, t
  <2>4. Starts(t) /\ GoesOn(new)
    BY <1>1, <2>2, <2>3 DEF Starts, GoesOn, Once, Headers
  <2>5. Len(tables) = 1
    BY <1>1, OnceAlone DEF Once
  <2>6. ChangesInto(new, 1, t)
    BY <2>1, <2>3, <2>5 DEF ChangesInto
  <2> QED
    BY <2>1, <2>2, <2>3, <2>4, <2>6 DEF Changes, Forward
<1> QED
  BY <1>2, <1>3

LEMMA NameChanges ==
  ASSUME TypeOK, Running("name"), NEW rva \in Rvas, NEW index \in Counts, Name(rva, index)
  PROVE  Changes
<1>1. tables # <<>> /\ Loop.of = "name" /\ Loop.i < Loop.n
  BY RunningFacts
<1>2. GoOn
  BY DEF Name
<1> QED
  BY <1>1, <1>2, GoOnForward DEF Changes, Headers

LEMMA FunctionChanges ==
  ASSUME TypeOK, Running("function"), NEW f \in Rvas, Function(f)
  PROVE  Changes
<1>1. tables # <<>> /\ Loop.of = "function" /\ Loop.i < Loop.n
  BY RunningFacts
<1>2. GoOn
  BY DEF Function
<1> QED
  BY <1>1, <1>2, GoOnForward DEF Changes, Headers

LEMMA DirectoryChanges ==
  ASSUME TypeOK, Running("directory"), NEW count \in Counts, ResourceDirectory(count)
  PROVE  Changes
<1>1. tables # <<>> /\ Loop.of = "directory" /\ Loop.i < Loop.n
  BY RunningFacts
<1> DEFINE base == Wrap(Loop.base + Size["directory"])
           n == IF count > Cap["node"] THEN 0 ELSE count
           new == Table("node", base, n)
<1>2. tables' = Append(Front(tables), new) /\ UNCHANGED outcome
  BY DEF ResourceDirectory
<1>3. Loop.base \in Nat /\ Size["directory"] \in Nat
  <2>1. Loop.base \in Nat
    BY <1>1, LoopFacts, SizeTypes
  <2>2. Size["directory"] \in Nat
    BY SizeTypes DEF Entries
  <2> QED
    BY <2>1, <2>2
<1>4. base \in 0 .. RvaModulus - 1
  BY <1>3, WrapType
<1>5. n \in Nat
  BY FieldTypes
<1> HIDE DEF base, n
<1>6. new \in LoopType /\ new.of = "node" /\ new.i = 0 /\ new.n = n
  BY <1>4, <1>5, TableType DEF Entries
<1> HIDE DEF new
<1>7. GoesOn(new)
  BY <1>1, <1>5, <1>6 DEF GoesOn, Once, Headers
<1> QED
  BY <1>1, <1>2, <1>6, <1>7, ForwardOne DEF Changes

LEMMA ResourceRvaType ==
  ASSUME TypeOK, NEW offset \in Offsets
  PROVE  ResourceRva(offset) \in 0 .. RvaModulus - 1
<1>1. directory.va \in Nat /\ offset \in Nat
  BY FieldTypes DEF TypeOK
<1> QED
  BY <1>1, WrapType DEF ResourceRva

LEMMA NodeChanges ==
  ASSUME TypeOK, Running("node"), NEW e \in Nodes, Node(e)
  PROVE  Changes
<1>1. tables # <<>> /\ Loop.of = "node" /\ Loop.i < Loop.n
  BY RunningFacts
<1>2. CASE e.sub /\ Len(tables) <= Cap["depth"]
  <2> DEFINE t == Table("directory", ResourceRva(e.offset), 1)
  <2>1. GoOnAfter(<<t>>)
    BY <1>2 DEF Node
  <2>2. ResourceRva(e.offset) \in 0 .. RvaModulus - 1
    BY ResourceRvaType DEF Nodes
  <2>3. t \in LoopType /\ t.of = "directory" /\ t.i = 0 /\ t.n = 1
    BY <2>2, TableType DEF Entries
  <2> HIDE DEF t
  <2>4. Starts(t)
    BY <1>2, <2>3 DEF Starts, Once
  <2> QED
    BY <1>1, <2>1, <2>3, <2>4, GoOnAfterForward DEF Changes, Headers
<1>3. CASE ~(e.sub /\ Len(tables) <= Cap["depth"])
  <2>1. GoOn
    BY <1>3 DEF Node
  <2> QED
    BY <1>1, <2>1, GoOnForward DEF Changes, Headers
<1> QED
  BY <1>2, <1>3

LEMMA TlsChanges ==
  ASSUME TypeOK, LoopsInv, Running("tls"), NEW a \in Addresses, TlsDirectory(a)
  PROVE  Changes
<1>1. tables # <<>> /\ Loop.of = "tls" /\ Loop.i < Loop.n
  BY RunningFacts
<1>2. CASE ~(a > ImageBase)
  BY <1>2 DEF TlsDirectory, Leave, Ends, Changes
<1>3. CASE a > ImageBase
  <2> DEFINE base == Wrap(a - ImageBase)
             new == Table("callback", base, Cap["callback"])
  <2>1. tables' = <<new>> /\ UNCHANGED outcome
    BY <1>3 DEF TlsDirectory
  <2>2. a - ImageBase \in Int
    BY DirectoryAssumption
  <2>3. base \in 0 .. RvaModulus - 1
    BY <2>2, WrapType
  <2>4. Cap["callback"] \in Nat
    BY SizeTypes DEF Entries
  <2> HIDE DEF base
  <2>5. new \in LoopType /\ new.of = "callback" /\ new.i = 0 /\ new.n = Cap["callback"]
    BY <2>3, <2>4, TableType DEF Entries
  <2> HIDE DEF new
  <2>6. GoesOn(new)
    BY <1>1, <2>4, <2>5 DEF GoesOn, Once, Headers
  <2>7. Len(tables) = 1
    BY <1>1, OnceAlone DEF Once
  <2>8. ChangesInto(new, 0, new)
    BY <2>1, <2>5, <2>7 DEF ChangesInto
  <2> QED
    BY <2>1, <2>5, <2>6, <2>8 DEF Changes, Forward
<1> QED
  BY <1>2, <1>3

LEMMA CallbackChanges ==
  ASSUME TypeOK, Running("callback"), NEW a \in Addresses, Callback(a)
  PROVE  Changes
<1>1. tables # <<>> /\ Loop.of = "callback" /\ Loop.i < Loop.n
  BY RunningFacts
<1>2. CASE a = 0
  BY <1>2 DEF Callback, Leave, Ends, Changes
<1>3. CASE a # 0
  <2>1. GoOn
    BY <1>3 DEF Callback
  <2> QED
    BY <1>1, <2>1, GoOnForward DEF Changes, Headers
<1> QED
  BY <1>2, <1>3

LEMMA DebugChanges ==
  ASSUME TypeOK, Running("debug"), NEW e \in DebugEntries, NEW rsds \in BOOLEAN, Debug(e, rsds)
  PROVE  Changes
<1>1. tables # <<>> /\ Loop.of = "debug" /\ Loop.i < Loop.n
  BY RunningFacts
<1>2. GoOn
  BY DEF Debug
<1> QED
  BY <1>1, <1>2, GoOnForward DEF Changes, Headers

LEMMA BlockChanges ==
  ASSUME TypeOK, Running("block"), NEW n \in Lengths, RelocationBlock(n)
  PROVE  Changes
<1>1. tables # <<>> /\ Loop.of = "block" /\ Loop.i < Loop.n
  BY RunningFacts
<1>2. CASE n < Size["block"]
  BY <1>2 DEF RelocationBlock, Leave, Ends, Changes
<1>3. CASE ~(n < Size["block"])
  <2>1. GoOnAt(Wrap(Loop.base + n))
    BY <1>3 DEF RelocationBlock
  <2>2. Loop.base \in Nat /\ n \in Nat
    BY <1>1, LoopFacts, FieldTypes, SizeTypes
  <2>3. Wrap(Loop.base + n) \in 0 .. RvaModulus - 1
    BY <2>2, WrapType
  <2> QED
    BY <1>1, <2>1, <2>3, GoOnAtForward DEF Changes, Headers
<1> QED
  BY <1>2, <1>3

LEMMA Wrapped ==
  ASSUME NEW n \in Nat, NEW m \in Nat, m <= n, n < m + m
  PROVE  n % m = n - m
OBVIOUS

\* Alignment never goes back, unless it passes the end of the address space
\* and so comes to its start.
LEMMA AlignType ==
  ASSUME NEW n \in Nat
  PROVE  /\ AlignUp(n) \in 0 .. RvaModulus - 1
         /\ n < RvaModulus => n <= AlignUp(n) \/ AlignUp(n) = 0
<1> DEFINE m == Wrap(n + Alignment - 1)
           r == m % Alignment
<1>1. n + Alignment - 1 \in Nat /\ Alignment \in Nat /\ Alignment > 0 /\ RvaModulus \in Nat
  BY SizeTypes
<1>2. m \in 0 .. RvaModulus - 1 /\ (n + Alignment - 1 < RvaModulus => m = n + Alignment - 1)
  BY <1>1, WrapType
<1>3. m \in Nat
  BY <1>1, <1>2
<1>4. ASSUME n < RvaModulus, ~(n + Alignment - 1 < RvaModulus) PROVE m < Alignment
  <2>1. CASE Alignment > RvaModulus
    BY <1>1, <1>2, <2>1
  <2>2. CASE ~(Alignment > RvaModulus)
    <3> DEFINE s == n + Alignment - 1
    <3>1. s \in Nat /\ RvaModulus <= s /\ s < RvaModulus + RvaModulus /\ s - RvaModulus < Alignment
      BY <1>1, <1>4, <2>2
    <3> HIDE DEF s
    <3>2. s % RvaModulus = s - RvaModulus
      BY <1>1, <3>1, Wrapped
    <3>3. m = s % RvaModulus
      BY DEF m, s, Wrap
    <3> QED
      BY <3>1, <3>2, <3>3
  <2> QED
    BY <2>1, <2>2
<1> HIDE DEF m
<1>5. r \in 0 .. Alignment - 1 /\ (m < Alignment => r = m)
  BY <1>1, <1>3, Remainder
<1>6. r <= m
  BY <1>1, <1>3, <1>5
<1>7. AlignUp(n) = m - r
  BY DEF AlignUp, m
<1> HIDE DEF r
<1> QED
  BY <1>1, <1>2, <1>3, <1>4, <1>5, <1>6, <1>7

LEMMA CertificateChanges ==
  ASSUME TypeOK, Running("certificate"), NEW n \in Lengths, Certificate(n)
  PROVE  Changes
<1>1. tables # <<>> /\ Loop.of = "certificate" /\ Loop.i < Loop.n
  BY RunningFacts
<1> DEFINE next == AlignUp(Wrap(Loop.base + n))
<1>2. CASE n < Size["certificate"]
  BY <1>2 DEF Certificate, Leave, Ends, Changes
<1>3. CASE ~(n < Size["certificate"]) /\ ~MovesOn(next)
  BY <1>3 DEF Certificate, Leave, Ends, Changes
<1>4. CASE ~(n < Size["certificate"]) /\ MovesOn(next)
  <2>1. GoOnAt(next)
    BY <1>4 DEF Certificate
  <2>2. Loop.base \in Nat /\ n \in Nat
    BY <1>1, LoopFacts, FieldTypes, SizeTypes
  <2>3. Wrap(Loop.base + n) \in Nat
    BY <2>2, WrapType, SizeTypes
  <2>4. next \in 0 .. RvaModulus - 1
    BY <2>3, AlignType
  <2> QED
    BY <1>1, <2>1, <2>4, GoOnAtForward DEF Changes, Headers
<1> QED
  BY <1>2, <1>3, <1>4

-----------------------------------------------------------------------------
(* Every step of a parser.                                                 *)

\* Every step of a parser.
LEMMA ParseChanges ==
  ASSUME TypeOK, LoopsInv, Parse
  PROVE  /\ Changes /\ tables # <<>> /\ outcome = "pending"
         /\ UNCHANGED <<parserVars, kind, directory>>
<1> DEFINE Sound == /\ Changes /\ tables # <<>> /\ outcome = "pending"
                    /\ UNCHANGED <<parserVars, kind, directory>>
<1>1. CASE EndOfTable
  BY <1>1 DEF EndOfTable, Leave, Ends, Changes
<1>2. CASE Unreadable
  BY <1>2 DEF Unreadable, Running, Fails, Changes
<1>3. CASE SkipName
  <2>1. Running("name") /\ GoOn
    BY <1>3 DEF SkipName
  <2> QED
    BY <2>1, RunningFacts, GoOnForward DEF Changes, Headers
<1>4. \A of : Reading(of) => Running(of)
  BY DEF Reading
<1> HIDE DEF Sound
<1>5. ASSUME Reading("descriptor"), NEW d \in Descriptors, Descriptor(d) PROVE Sound
  BY <1>4, <1>5, RunningFacts, DescriptorChanges DEF Sound
<1>6. ASSUME Reading("thunk"), NEW t \in Thunks, Thunk(t) PROVE Sound
  BY <1>4, <1>6, RunningFacts, ThunkChanges DEF Sound
<1>7. ASSUME Reading("exports"), NEW x \in ExportHeaders, ExportHeader(x) PROVE Sound
  BY <1>4, <1>7, RunningFacts, ExportsChange DEF Sound
<1>8. ASSUME Reading("name"), NEW rva \in Rvas, NEW index \in Counts, Name(rva, index) PROVE Sound
  BY <1>4, <1>8, RunningFacts, NameChanges DEF Sound
<1>9. ASSUME Reading("function"), NEW f \in Rvas, Function(f) PROVE Sound
  BY <1>4, <1>9, RunningFacts, FunctionChanges DEF Sound
<1>10. ASSUME Reading("directory"), NEW count \in Counts, ResourceDirectory(count) PROVE Sound
  BY <1>4, <1>10, RunningFacts, DirectoryChanges DEF Sound
<1>11. ASSUME Reading("node"), NEW e \in Nodes, Node(e) PROVE Sound
  BY <1>4, <1>11, RunningFacts, NodeChanges DEF Sound
<1>12. ASSUME Reading("tls"), NEW a \in Addresses, TlsDirectory(a) PROVE Sound
  BY <1>4, <1>12, RunningFacts, TlsChanges DEF Sound
<1>13. ASSUME Reading("callback"), NEW a \in Addresses, Callback(a) PROVE Sound
  BY <1>4, <1>13, RunningFacts, CallbackChanges DEF Sound
<1>14. ASSUME Reading("debug"), NEW e \in DebugEntries, NEW rsds \in BOOLEAN, Debug(e, rsds) PROVE Sound
  BY <1>4, <1>14, RunningFacts, DebugChanges DEF Sound
<1>15. ASSUME Reading("block"), NEW n \in Lengths, RelocationBlock(n) PROVE Sound
  BY <1>4, <1>15, RunningFacts, BlockChanges DEF Sound
<1>16. ASSUME Reading("certificate"), NEW n \in Lengths, Certificate(n) PROVE Sound
  BY <1>4, <1>16, RunningFacts, CertificateChanges DEF Sound
<1>17. Sound
  BY <1>1, <1>2, <1>3, <1>5, <1>6, <1>7, <1>8, <1>9, <1>10, <1>11, <1>12, <1>13, <1>14, <1>15,
     <1>16, Zenon DEF Parse, Sound
<1> QED
  BY <1>17 DEF Sound

\* What is read, of what can be read.
LEMMA ReadInside ==
  ASSUME TypeOK, NEW of, Reading(of), NEW v, NEW payload, Inside(payload), Read(of, v, payload)
  PROVE  Inside(touched')
<1>1. tables # <<>> /\ Loop.of = of /\ CanRead(of, NextRva)
  BY DEF Reading, Running
<1>2. of \in Entries /\ NextRva \in Nat
  BY <1>1, LoopFacts
<1>3. ParserTypeOK
  BY DEF TypeOK
<1>4. Inside({Extent(Place(of, NextRva), Width(of))})
  BY <1>1, <1>2, <1>3, PieceInside
<1>5. touched' = {Extent(Place(of, NextRva), Width(of))} \cup payload
  BY DEF Read
<1> QED
  BY <1>4, <1>5 DEF Inside

LEMMA NothingInside == Inside({})
BY DEF Inside

LEMMA CountableType ==
  ASSUME NEW of, NEW base, NEW n \in Nat
  PROVE  Countable(of, base, n) \in 0 .. n
<1> DEFINE C(k) == CanRead(of, SlotRva(of, base, k))
           S == {k \in 0 .. n : k = n \/ ~C(k)}
<1> HIDE DEF C
<1>1. S \in SUBSET Nat /\ n \in S
  OBVIOUS
<1>2. PICK k \in S : \A m \in S : k <= m
  BY <1>1, LeastNumber
<1> DEFINE Q(j) == (\A m \in 0 .. j - 1 : C(m)) /\ (j = n \/ ~C(j))
<1>3. k \in 0 .. n /\ (k = n \/ ~C(k))
  BY <1>2
<1>4. \A m \in 0 .. k - 1 : C(m)
  <2> TAKE m \in 0 .. k - 1
  <2>1. m \in 0 .. n /\ m # n /\ ~(k <= m)
    BY <1>3
  <2> QED
    BY <1>2, <2>1
<1>5. \E j \in 0 .. n : Q(j)
  BY <1>3, <1>4
<1>6. Countable(of, base, n) = CHOOSE j \in 0 .. n : Q(j)
  BY DEF Countable, C
<1> QED
  BY <1>5, <1>6, Zenon

\* Of a string each byte lies in the file, wherever it ends.
LEMMA TextInside ==
  ASSUME ParserTypeOK, NEW last
  PROVE  /\ \A offset \in Nat : Inside(TextFrom(offset, last))
         /\ \A rva \in Nat : Inside(Text(rva, last))
<1>1. fileSize \in Nat
  BY SectionTypes
<1>2. ASSUME NEW offset \in Nat PROVE Inside(TextFrom(offset, last))
  <2> SUFFICES ASSUME NEW i \in 0 .. last, InFile(offset + i)
               PROVE  Inside({Extent(offset + i, 1)})
    BY DEF TextFrom, Inside
  <2>1. i \in Nat /\ offset + i < fileSize
    BY DEF InFile
  <2>2. offset + i \in Nat /\ offset + i + 1 <= fileSize
    BY <1>1, <2>1
  <2> QED
    BY <2>2 DEF Inside, Extent
<1>3. ASSUME NEW rva \in Nat PROVE Inside(Text(rva, last))
  <2>1. TextAt(rva) \in Nat \cup {None}
    BY OffsetType DEF TextAt
  <2> QED
    BY <1>2, <2>1, NothingInside DEF Text
<1> QED
  BY <1>2, <1>3

\* Of payloads in a row each lies in the file.
LEMMA RunInside ==
  ASSUME ParserTypeOK, NEW of \in Entries \cup Payloads, NEW base \in 0 .. RvaModulus - 1,
         NEW n \in Nat
  PROVE  Inside(Run(of, base, n))
<1>1. ASSUME NEW j \in 0 .. Countable(of, base, n) - 1
      PROVE  Inside(Piece(of, SlotRva(of, base, j)))
  <2>1. j \in Nat
    <3>1. Countable(of, base, n) \in Nat
      BY CountableType
    <3> QED
      BY <3>1
  <2>2. SlotRva(of, base, j) \in Nat
    BY <2>1, SlotType, SizeTypes
  <2> QED
    BY <2>2, PieceInside
<1> QED
  BY <1>1 DEF Run, Inside

\* What a parser reads lies in the file.
LEMMA ParseReadsInside ==
  ASSUME TypeOK, Parse
  PROVE  Inside(touched')
<1>0. ParserTypeOK
  BY DEF TypeOK
<1>1. CASE EndOfTable
  BY <1>1, NothingInside DEF EndOfTable
<1>2. CASE Unreadable
  BY <1>2, NothingInside DEF Unreadable
<1>3. \A rva \in Rvas : rva \in Nat
  BY FieldTypes
<1>4. ASSUME tables # <<>>, NEW rva \in Nat PROVE OrdinalRva(Loop.i) \in Nat
  <2>1. Size["ordinal"] \in Nat /\ Loop.i \in Nat
    BY <1>4, LoopFacts, SizeTypes DEF Payloads
  <2>2. Loop.i * Size["ordinal"] \in Nat
    BY <2>1, Product
  <2>3. Wrap(Loop.i * Size["ordinal"]) \in Nat /\ ordinals \in Nat
    BY <2>2, WrapType, SizeTypes DEF TypeOK
  <2>4. Wrap(ordinals + Wrap(Loop.i * Size["ordinal"])) \in Nat
    BY <2>3, WrapType, SizeTypes
  <2> QED
    BY <2>4 DEF OrdinalRva
<1>5. CASE SkipName
  <2>1. tables # <<>> /\ Loop.of = "name"
    BY <1>5 DEF SkipName, Running
  <2>2. NextRva \in Nat /\ OrdinalRva(Loop.i) \in Nat
    BY <1>4, <2>1, LoopFacts
  <2>3. Inside(Piece("name", NextRva)) /\ Inside(Piece("ordinal", OrdinalRva(Loop.i)))
    BY <1>0, <2>2, PieceInside DEF Entries, Payloads
  <2>4. touched' = Piece("name", NextRva) \cup Piece("ordinal", OrdinalRva(Loop.i))
    BY <1>5 DEF SkipName
  <2> QED
    BY <2>3, <2>4 DEF Inside
<1>6. \A of : Reading(of) => tables # <<>> /\ Loop.of = of
  BY DEF Reading, Running
<1>7. ASSUME Reading("descriptor"), NEW d \in Descriptors, Descriptor(d) PROVE Inside(touched')
  <2>1. d.name \in Nat
    BY <1>3 DEF Descriptors
  <2>2. PICK last \in Lasts :
          Read("descriptor", d, IF IsTerminator(d) THEN {} ELSE Text(d.name, last))
    BY <1>7 DEF Descriptor
  <2>3. Inside(IF IsTerminator(d) THEN {} ELSE Text(d.name, last))
    BY <1>0, <2>1, TextInside, NothingInside
  <2> QED
    BY <1>7, <2>2, <2>3, ReadInside
<1>8. ASSUME Reading("thunk"), NEW t \in Thunks, Thunk(t) PROVE Inside(touched')
  <2>1. t.null \/ t.rva \in Rvas
    <3>1. CASE t = Null
      BY <3>1 DEF Null
    <3>2. CASE t \in [null : {FALSE}, ordinal : BOOLEAN, rva : Rvas]
      BY <3>2
    <3> QED
      BY <3>1, <3>2 DEF Thunks
  <2>2. PICK last \in Lasts :
          Read("thunk", t, IF t.null \/ t.ordinal THEN {}
                           ELSE Piece("hint", t.rva) \cup Text(SymbolRva(t), last))
    BY <1>8 DEF Thunk
  <2>3. ASSUME ~t.null PROVE Inside(Piece("hint", t.rva) \cup Text(SymbolRva(t), last))
    <3>1. t.rva \in Nat /\ Size["hint"] \in Nat
      BY <1>3, <2>1, <2>3, SizeTypes DEF Payloads
    <3>2. SymbolRva(t) \in Nat
      BY <3>1, WrapType, SizeTypes DEF SymbolRva
    <3>3. Inside(Piece("hint", t.rva)) /\ Inside(Text(SymbolRva(t), last))
      BY <1>0, <3>1, <3>2, PieceInside, TextInside DEF Payloads
    <3> QED
      BY <3>3 DEF Inside
  <2>4. Inside(IF t.null \/ t.ordinal THEN {}
               ELSE Piece("hint", t.rva) \cup Text(SymbolRva(t), last))
    BY <2>3, NothingInside
  <2> QED
    BY <1>8, <2>2, <2>4, ReadInside
<1>9. ASSUME Reading("exports"), NEW x \in ExportHeaders, ExportHeader(x) PROVE Inside(touched')
  <2>1. PICK rva \in Rvas, last \in Lasts : Read("exports", x, Text(rva, last))
    BY <1>9 DEF ExportHeader
  <2>2. Inside(Text(rva, last))
    BY <1>0, <1>3, TextInside
  <2> QED
    BY <1>9, <2>1, <2>2, ReadInside
<1>10. ASSUME Reading("name"), NEW rva \in Rvas, NEW index \in Counts, Name(rva, index)
       PROVE Inside(touched')
  <2>1. OrdinalRva(Loop.i) \in Nat
    BY <1>4, <1>6, <1>10, <1>3
  <2>2. PICK last \in Lasts :
          Read("name", [rva |-> rva, index |-> index],
               Piece("ordinal", OrdinalRva(Loop.i)) \cup Text(rva, last))
    BY <1>10 DEF Name
  <2>3. Inside(Piece("ordinal", OrdinalRva(Loop.i))) /\ Inside(Text(rva, last))
    BY <1>0, <1>3, <2>1, PieceInside, TextInside DEF Payloads
  <2>4. Inside(Piece("ordinal", OrdinalRva(Loop.i)) \cup Text(rva, last))
    BY <2>3 DEF Inside
  <2> QED
    BY <1>10, <2>2, <2>4, ReadInside
<1>11. ASSUME Reading("function"), NEW f \in Rvas, Function(f) PROVE Inside(touched')
  <2>1. PICK last \in Lasts :
          Read("function", f, IF f # 0 /\ InRegion(f) THEN Text(f, last) ELSE {})
    BY <1>11 DEF Function
  <2>2. Inside(IF f # 0 /\ InRegion(f) THEN Text(f, last) ELSE {})
    BY <1>0, <1>3, TextInside, NothingInside
  <2> QED
    BY <1>11, <2>1, <2>2, ReadInside
<1>12. ASSUME Reading("directory"), NEW count \in Counts, ResourceDirectory(count) PROVE Inside(touched')
  BY <1>12, ReadInside, NothingInside DEF ResourceDirectory
<1>13. ASSUME Reading("node"), NEW e \in Nodes, Node(e) PROVE Inside(touched')
  <2>1. ResourceRva(e.offset) \in Nat
    BY ResourceRvaType, SizeTypes DEF Nodes
  <2> DEFINE leaf    == IF e.sub THEN {} ELSE Piece("leaf", ResourceRva(e.offset))
             text(n) == IF e.named THEN NameText(ResourceRva(e.id), n) ELSE {}
  <2>2. Inside(leaf)
    BY <1>0, <2>1, PieceInside, NothingInside DEF Payloads
  <2>3. PICK n \in Counts : Read("node", e, text(n) \cup leaf)
    BY <1>13 DEF Node
  <2>4. ASSUME e.named PROVE Inside(NameText(ResourceRva(e.id), n))
    <3>1. ResourceRva(e.id) \in Nat /\ n \in Nat
      BY ResourceRvaType, FieldTypes, SizeTypes DEF Nodes
    <3>2. Inside(Piece("length", ResourceRva(e.id)))
      BY <1>0, <3>1, PieceInside DEF Payloads
    <3>3. Wrap(ResourceRva(e.id) + Size["length"]) \in 0 .. RvaModulus - 1
      <4>1. Size["length"] \in Nat
        BY SizeTypes DEF Payloads
      <4> QED
        BY <3>1, <4>1, WrapType
    <3>4. Inside(Run("wchar", Wrap(ResourceRva(e.id) + Size["length"]), n))
      BY <1>0, <3>1, <3>3, RunInside DEF Payloads
    <3> QED
      BY <3>2, <3>4, NothingInside DEF NameText, Inside
  <2>5. Inside(text(n))
    BY <2>4, NothingInside
  <2> HIDE DEF text, leaf
  <2>6. Inside(text(n) \cup leaf)
    BY <2>2, <2>5 DEF Inside
  <2> QED
    BY <1>13, <2>3, <2>6, ReadInside
<1>14. ASSUME Reading("tls"), NEW a \in Addresses, TlsDirectory(a) PROVE Inside(touched')
  BY <1>14, ReadInside, NothingInside DEF TlsDirectory
<1>15. ASSUME Reading("callback"), NEW a \in Addresses, Callback(a) PROVE Inside(touched')
  BY <1>15, ReadInside, NothingInside DEF Callback
<1>16. ASSUME Reading("debug"), NEW e \in DebugEntries, NEW rsds \in BOOLEAN, Debug(e, rsds)
       PROVE Inside(touched')
  <2>1. e.pointer \in Nat /\ Size["rsds"] \in Nat /\ fileSize \in Nat
    BY <1>0, FieldTypes, SizeTypes, SectionTypes DEF DebugEntries, Payloads
  <2>2. HasRecord(e) => Inside({Extent(e.pointer, Size["rsds"])})
    BY <2>1, FitsInside DEF HasRecord, Inside, Extent
  <2> DEFINE record     == IF HasRecord(e) THEN {Extent(e.pointer, Size["rsds"])} ELSE {}
             path(last) == IF rsds THEN TextFrom(e.pointer + Size["rsds"], last) ELSE {}
  <2>3. PICK last \in Lasts : Read("debug", e, record \cup path(last))
    BY <1>16 DEF Debug
  <2>4. Inside(record)
    BY <2>2, NothingInside
  <2>5. Inside(path(last))
    <3>1. e.pointer + Size["rsds"] \in Nat
      BY <2>1
    <3> QED
      BY <1>0, <3>1, TextInside, NothingInside
  <2> HIDE DEF record, path
  <2>6. Inside(record \cup path(last))
    BY <2>4, <2>5 DEF Inside
  <2> QED
    BY <1>16, <2>3, <2>6, ReadInside
<1>17. ASSUME Reading("block"), NEW n \in Lengths, RelocationBlock(n) PROVE Inside(touched')
  <2> DEFINE entries == Wrap(Loop.base + Size["block"])
             room    == (n - Size["block"]) \div Size["relocation"]
             payload == IF n < Size["block"] THEN {} ELSE Run("relocation", entries, room)
  <2>1. Read("block", n, payload)
    BY <1>17 DEF RelocationBlock
  <2>2. CASE n < Size["block"]
    BY <1>17, <2>1, <2>2, ReadInside, NothingInside
  <2>3. CASE ~(n < Size["block"])
    <3>1. Size["block"] \in Nat /\ Size["relocation"] \in Nat /\ Size["relocation"] > 0
      BY SizeTypes DEF Entries, Payloads
    <3>2. n \in Nat /\ Loop.base \in Nat
      BY <1>6, <1>17, FieldTypes, LoopFacts, SizeTypes
    <3>3. entries \in 0 .. RvaModulus - 1
      BY <3>1, <3>2, WrapType
    <3>4. room \in Nat
      BY <2>3, <3>1, <3>2
    <3> HIDE DEF entries, room
    <3>5. Inside(payload)
      BY <1>0, <2>3, <3>3, <3>4, RunInside DEF Payloads
    <3> HIDE DEF payload
    <3> QED
      BY <1>17, <2>1, <3>5, ReadInside
  <2> QED
    BY <2>2, <2>3
<1>18. ASSUME Reading("certificate"), NEW n \in Lengths, Certificate(n) PROVE Inside(touched')
  BY <1>18, ReadInside, NothingInside DEF Certificate
<1> QED
  BY <1>1, <1>2, <1>5, <1>7, <1>8, <1>9, <1>10, <1>11, <1>12, <1>13, <1>14, <1>15, <1>16, <1>17,
     <1>18, Zenon DEF Parse

-----------------------------------------------------------------------------
(* What the loops and the names become.                                    *)

LEMMA FrontFacts ==
  ASSUME NEW T, NEW s \in Seq(T), s # <<>>
  PROVE  /\ Front(s) \in Seq(T) /\ Len(Front(s)) = Len(s) - 1 /\ Len(s) \in Nat \ {0}
         /\ \A k \in 1 .. Len(s) - 1 : Front(s)[k] = s[k]
         /\ Front(s) = SubSeq(s, 1, Len(s) - 1)
<1> DEFINE l == Len(s) - 1
<1>1. l \in Nat /\ \A k \in 1 .. l : k \in 1 .. Len(s)
  OBVIOUS
<1>2. Front(s) = SubSeq(s, 1, l)
  BY DEF Front
<1>3. SubSeq(s, 1, l) = [k \in 1 .. l |-> s[k]]
  BY <1>1
<1>4. Len(s) \in Nat \ {0}
  OBVIOUS
<1> HIDE DEF l
<1>5. /\ SubSeq(s, 1, l) \in Seq(T) /\ Len(SubSeq(s, 1, l)) = l
      /\ \A k \in 1 .. l : SubSeq(s, 1, l)[k] = s[k]
  BY <1>1, <1>3
<1> QED
  BY <1>2, <1>4, <1>5 DEF l

\* The loops after a step: no more than one is new, and that one may start.
LEMMA LoopsStep ==
  ASSUME TypeOK, LoopsInv, Changes, tables # <<>>, outcome = "pending"
  PROVE  /\ tables' \in Seq(LoopType) /\ LoopsInv'
         /\ outcome' \in {"pending", "ok", "error"}
         /\ outcome' = "pending" => tables' # <<>>
<1>1. tables \in Seq(LoopType)
  BY DEF TypeOK, LoopType
<1>2. Len(tables) \in Nat \ {0} /\ Loop = tables[Len(tables)]
  BY LoopFacts
<1>3. /\ \A k \in 1 .. Len(tables) : tables[k].i <= tables[k].n
      /\ \A k \in 2 .. Len(tables) : tables[k].of \notin Once
      /\ Len(tables) <= Cap["depth"] + 2
  BY DEF LoopsInv
<1>4. CASE Fails
  BY <1>1, <1>3, <1>4 DEF Fails, LoopsInv
<1>5. CASE Ends
  <2>1. /\ tables' \in Seq(LoopType) /\ Len(tables') = Len(tables) - 1
        /\ \A k \in 1 .. Len(tables) - 1 : tables'[k] = tables[k]
    BY <1>1, <1>5, FrontFacts DEF Ends
  <2>2. Cap["depth"] \in Nat
    BY SizeTypes
  <2>3. LoopsInv'
    <3>1. \A k \in 1 .. Len(tables') : tables'[k].i <= tables'[k].n
      BY <1>2, <1>3, <2>1
    <3>2. \A k \in 2 .. Len(tables') : tables'[k].of \notin Once
      BY <1>2, <1>3, <2>1
    <3>3. Len(tables') <= Cap["depth"] + 2
      BY <1>2, <1>3, <2>1, <2>2
    <3> QED
      BY <3>1, <3>2, <3>3 DEF LoopsInv
  <2>4. outcome' = IF Len(tables) = 1 THEN "ok" ELSE outcome
    BY <1>5 DEF Ends
  <2>5. outcome' = "pending" => tables' # <<>>
    <3>1. SUFFICES ASSUME outcome' = "pending", tables' = <<>> PROVE FALSE
      OBVIOUS
    <3>2. Len(tables') = 0
      BY <3>1
    <3> QED
      BY <1>2, <2>1, <2>4, <3>1, <3>2
  <2> QED
    BY <2>1, <2>3, <2>4, <2>5
<1>6. CASE Forward
  <2>1. PICK new \in LoopType, t \in LoopType, p \in {0, 1} :
          ChangesInto(new, p, t) /\ GoesOn(new) /\ (p = 1 => Starts(t))
    BY <1>6 DEF Forward
  <2>2. /\ tables' \in Seq(LoopType) /\ Len(tables') = Len(tables) + p
        /\ \A k \in 1 .. Len(tables) - 1 : tables'[k] = tables[k]
        /\ tables'[Len(tables)] = new
        /\ p = 1 => tables'[Len(tables) + 1] = t
    BY <2>1 DEF ChangesInto
  <2>3. /\ new.i <= new.n /\ (new.of \in Once => Loop.of \in Once)
        /\ p = 1 => t.i <= t.n /\ t.of \notin Once /\ (Loop.of \in Once \/ Len(tables) <= Cap["depth"])
    BY <2>1 DEF GoesOn, Starts
  <2>4. Cap["depth"] \in Nat
    BY SizeTypes
  <2>5. Len(tables') \in Nat \ {0}
    BY <1>2, <2>2
  <2>6. ASSUME NEW k \in 1 .. Len(tables')
        PROVE  \/ k \in 1 .. Len(tables) - 1 /\ tables'[k] = tables[k]
               \/ k = Len(tables) /\ tables'[k] = new
               \/ p = 1 /\ k = Len(tables) + 1 /\ tables'[k] = t
    <3>1. k \in 1 .. Len(tables) - 1 \/ k = Len(tables) \/ (p = 1 /\ k = Len(tables) + 1)
      BY <1>2, <2>2
    <3> QED
      BY <2>2, <3>1
  <2>7. LoopsInv'
    <3>1. \A k \in 1 .. Len(tables') : tables'[k].i <= tables'[k].n
      BY <1>2, <1>3, <2>3, <2>6
    <3>2. \A k \in 2 .. Len(tables') : tables'[k].of \notin Once
      <4> TAKE k \in 2 .. Len(tables')
      <4>1. k \in 1 .. Len(tables') /\ k # 1
        BY <2>5
      <4>2. CASE k \in 1 .. Len(tables) - 1 /\ tables'[k] = tables[k]
        BY <1>2, <1>3, <4>1, <4>2
      <4>3. CASE k = Len(tables) /\ tables'[k] = new
        <5>1. Len(tables) # 1 
          BY <4>1, <4>3
        <5>2. Loop.of \notin Once
          BY <5>1, OnceAlone
        <5> QED
          BY <2>3, <4>3, <5>2
      <4>4. CASE p = 1 /\ k = Len(tables) + 1 /\ tables'[k] = t
        BY <2>3, <4>4
      <4> QED
        BY <2>6, <4>1, <4>2, <4>3, <4>4
    <3>3. Len(tables') <= Cap["depth"] + 2
      <4>1. CASE p = 0
        BY <1>2, <1>3, <2>2, <4>1
      <4>2. CASE p = 1 /\ Loop.of \in Once
        <5>1. Len(tables) = 1
          BY <4>2, OnceAlone
        <5> QED
          BY <2>2, <2>4, <4>2, <5>1
      <4>3. CASE p = 1 /\ Len(tables) <= Cap["depth"]
        BY <1>2, <2>2, <2>4, <4>3
      <4> QED
        BY <2>3, <4>1, <4>2, <4>3
    <3> QED
      BY <3>1, <3>2, <3>3 DEF LoopsInv
  <2>8. outcome' = "pending"
    BY <1>6 DEF Forward
  <2> QED
    BY <2>2, <2>5, <2>7, <2>8
<1> QED
  BY <1>4, <1>5, <1>6 DEF Changes

\* What else a parser keeps.
LEMMA NamesStep ==
  ASSUME TypeOK, LoopsInv, Parse
  PROVE  /\ ordinals' \in 0 .. RvaModulus - 1
         /\ DOMAIN names' \subseteq Counts /\ \A k \in DOMAIN names' : names'[k] \in Nat
<1> DEFINE Sound == /\ ordinals' \in 0 .. RvaModulus - 1
                    /\ DOMAIN names' \subseteq Counts /\ \A k \in DOMAIN names' : names'[k] \in Nat
<1>1. /\ ordinals \in 0 .. RvaModulus - 1
      /\ DOMAIN names \subseteq Counts /\ \A k \in DOMAIN names : names[k] \in Nat
  BY DEF TypeOK
<1>2. ASSUME UNCHANGED <<ordinals, names>> PROVE Sound
  BY <1>1, <1>2
<1>3. ASSUME NEW rva \in Rvas, NEW index \in Counts, Name(rva, index) PROVE Sound
  <2>1. TextAt(rva) \in Nat \cup {None}
    <3>1. rva \in Nat /\ ParserTypeOK
      BY FieldTypes DEF TypeOK
    <3> QED
      BY <3>1, OffsetType DEF TextAt
  <2>2. names' = Named(TextAt(rva), index) /\ ordinals' = ordinals
    BY <1>3 DEF Name
  <2>3. CASE TextAt(rva) = None \/ index \in DOMAIN names
    BY <1>1, <2>2, <2>3 DEF Named
  <2>4. CASE ~(TextAt(rva) = None \/ index \in DOMAIN names)
    <3>1. names' = [k \in DOMAIN names \cup {index} |-> IF k = index THEN TextAt(rva) ELSE names[k]]
      BY <2>2, <2>4 DEF Named
    <3>2. DOMAIN names' = DOMAIN names \cup {index}
      BY <3>1
    <3>3. \A k \in DOMAIN names \cup {index} : names'[k] = IF k = index THEN TextAt(rva) ELSE names[k]
      BY <3>1
    <3>4. TextAt(rva) \in Nat
      BY <2>1, <2>4
    <3> QED
      BY <1>1, <2>2, <3>2, <3>3, <3>4
  <2> QED
    BY <2>3, <2>4
<1>4. ASSUME Reading("exports"), NEW x \in ExportHeaders, ExportHeader(x) PROVE Sound
  <2>1. Running("exports") /\ UNCHANGED names
    BY <1>4 DEF Reading, ExportHeader
  <2>2. ordinals' \in 0 .. RvaModulus - 1
    BY <1>4, <2>1, ExportsChange
  <2> QED
    BY <1>1, <2>1, <2>2
<1> HIDE DEF Sound
<1>5. \/ UNCHANGED <<ordinals, names>>
      \/ \E rva \in Rvas, index \in Counts : Name(rva, index)
      \/ Reading("exports") /\ \E x \in ExportHeaders : ExportHeader(x)
  BY Zenon DEF Parse, EndOfTable, Unreadable, SkipName, Descriptor, Thunk, Function, ResourceDirectory, Node,
     TlsDirectory, Callback, Debug, RelocationBlock, Certificate, Unnamed
<1>6. Sound
  BY <1>2, <1>3, <1>4, <1>5
<1> QED
  BY <1>6 DEF Sound

LEMMA OpeningType ==
  ASSUME NEW k \in Kinds, NEW d \in Directories
  PROVE  Opening(k, d) \in LoopType /\ Opening(k, d).i = 0 /\ Opening(k, d).n \in Nat
<1>1. d.va \in 0 .. RvaModulus - 1 /\ d.size \in Nat
  BY FieldTypes
<1>2. Size["debug"] \in Nat /\ Size["debug"] > 0
  BY SizeTypes DEF Entries
<1>3. d.size \div Size["debug"] \in Nat
  BY <1>1, <1>2
<1>4. /\ Cap["descriptor"] \in Nat /\ Cap["block"] \in Nat /\ Cap["certificate"] \in Nat
      /\ {"descriptor", "exports", "directory", "tls", "debug", "block", "certificate"} \subseteq Entries
  BY SizeTypes DEF Entries
<1>5. k = "imports" \/ k = "exports" \/ k = "resources" \/ k = "tls" \/ k = "debug"
        \/ k = "relocations" \/ k = "certificates"
  BY DEF Kinds
<1>6. \A of \in Entries, n \in Nat :
        Table(of, d.va, n) \in LoopType /\ Table(of, d.va, n).i = 0 /\ Table(of, d.va, n).n = n
  BY <1>1, TableType
<1>7. CASE k = "imports"
  BY <1>4, <1>6, <1>7 DEF Opening
<1>8. CASE k = "exports"
  BY <1>4, <1>6, <1>8 DEF Opening
<1>9. CASE k = "resources"
  BY <1>4, <1>6, <1>9 DEF Opening
<1>10. CASE k = "tls"
  BY <1>4, <1>6, <1>10 DEF Opening
<1>11. CASE k = "debug"
  BY <1>3, <1>4, <1>6, <1>11 DEF Opening
<1>12. CASE k = "relocations"
  BY <1>4, <1>6, <1>12 DEF Opening
<1>13. CASE k = "certificates"
  BY <1>4, <1>6, <1>13 DEF Opening
<1> QED
  BY <1>5, <1>7, <1>8, <1>9, <1>10, <1>11, <1>12, <1>13

-----------------------------------------------------------------------------
(* The theorems about every parser.                                        *)

\* The inductive invariant of the theorems below.
TypesInv == TypeOK /\ PhaseInv /\ LoopsInv /\ Inside(touched)

LEMMA TypesStart == Init => TypesInv
<1> SUFFICES ASSUME Init PROVE TypesInv
  OBVIOUS
<1>1. ParserTypeOK
  <2>1. SizeModulus \in Nat /\ SizeModulus > 0 /\ 0 \in 0 .. SizeModulus - 1
    BY ParserAssumption
  <2>2. header \in [count : SectionCounts \cup {0}, optional : OptionalSizes \cup {0}]
    BY DEF Init, ParserInit, NoHeader
  <2>3. pe \in [is64 : BOOLEAN, headers : HeaderSizes \cup {0}, sections : Seq(SectionHeaders)]
    BY DEF Init, ParserInit, NoFile
  <2> QED
    BY <2>1, <2>2, <2>3 DEF Init, ParserInit, ParserTypeOK, Stages
<1>2. RvaModulus \in Nat /\ RvaModulus > 0 /\ 0 \in 0 .. RvaModulus - 1
  BY ParserAssumption
<1>3. TypeOK
  BY <1>1, <1>2 DEF Init, TypeOK
<1>4. LoopsInv
  BY SizeTypes DEF Init, LoopsInv
<1>5. PhaseInv
  BY DEF Init, PhaseInv
<1> QED
  BY <1>3, <1>4, <1>5 DEF Init, ParserInit, TypesInv, Inside

LEMMA ParserKeeps ==
  ASSUME TypesInv, ParserNext, UNCHANGED dirVars
  PROVE  TypesInv'
<1>1. ParserTypeOK /\ TypeOK /\ PhaseInv /\ LoopsInv
  BY DEF TypesInv, TypeOK
<1>2. ParserTypeOK' /\ Inside(touched') /\ stage # "parsed" /\ fileSize' = fileSize
  BY <1>1, ParserStep
<1>3. UNCHANGED <<kind, directory, tables, ordinals, names, found, outcome>>
  BY DEF dirVars
<1>4. TypeOK'
  BY <1>1, <1>2, <1>3 DEF TypeOK
<1>5. PhaseInv' /\ LoopsInv'
  BY <1>1, <1>2, <1>3 DEF PhaseInv, LoopsInv
<1>6. Inside(touched)'
  BY <1>2 DEF Inside
<1> QED
  BY <1>4, <1>5, <1>6 DEF TypesInv

LEMMA BeginKeeps ==
  ASSUME TypesInv, NEW k \in Kinds, NEW d \in Directories, Begin(k, d)
  PROVE  TypesInv'
<1>1. ParserTypeOK /\ TypeOK /\ PhaseInv /\ LoopsInv
  BY DEF TypesInv, TypeOK
<1>2. /\ kind = "none" /\ kind' = k /\ directory' = d /\ at' = 0 /\ header' = NoHeader /\ touched' = {}
      /\ stage = "parsed" /\ UNCHANGED <<fileSize, stage, pe, ordinals, names, found, content>>
  BY DEF Begin
<1>3. tables = <<>> /\ found = <<>> /\ outcome = "pending"
  BY <1>1, <1>2 DEF PhaseInv
<1>4. k # "none"
  BY DEF Kinds
<1>5. ParserTypeOK'
  <2>1. 0 \in 0 .. SizeModulus - 1
    BY ParserAssumption
  <2>2. header' \in [count : SectionCounts \cup {0}, optional : OptionalSizes \cup {0}]
    BY <1>2 DEF NoHeader
  <2> QED
    BY <1>1, <1>2, <2>1, <2>2 DEF ParserTypeOK
<1> DEFINE t == Opening(k, d)
<1>6. t \in LoopType /\ t.i = 0 /\ t.n \in Nat
  BY OpeningType
<1>7. \/ tables' = tables /\ outcome' \in {"ok", "error"}
      \/ tables' = <<t>> /\ outcome' = outcome
  BY DEF Begin
<1> HIDE DEF t
<1>8. tables' \in Seq(LoopType) /\ LoopsInv' /\ outcome' \in {"pending", "ok", "error"}
        /\ (outcome' = "pending" => tables' # <<>>)
  <2>1. Cap["depth"] \in Nat
    BY SizeTypes
  <2>2. CASE tables' = tables /\ outcome' \in {"ok", "error"}
    BY <1>3, <2>1, <2>2 DEF LoopsInv
  <2>3. CASE tables' = <<t>> /\ outcome' = outcome
    <3>1. Len(tables') = 1 /\ tables' \in Seq(LoopType) /\ tables'[1] = t /\ tables' # <<>>
      BY <1>6, <2>3
    <3> QED
      BY <1>3, <1>6, <2>1, <2>3, <3>1 DEF LoopsInv
  <2> QED
    BY <1>7, <2>2, <2>3
<1>9. TypeOK'
  BY <1>1, <1>2, <1>5, <1>8 DEF TypeOK, LoopType
<1>10. PhaseInv'
  BY <1>2, <1>4 DEF PhaseInv
<1>11. Inside(touched)'
  BY <1>2 DEF Inside
<1> QED
  BY <1>8, <1>9, <1>10, <1>11 DEF TypesInv

LEMMA ParseKeeps ==
  ASSUME TypesInv, Parse
  PROVE  TypesInv'
<1>1. ParserTypeOK /\ TypeOK /\ PhaseInv /\ LoopsInv
  BY DEF TypesInv, TypeOK
<1>2. /\ Changes /\ tables # <<>> /\ outcome = "pending"
      /\ UNCHANGED <<parserVars, kind, directory>>
  BY <1>1, ParseChanges
<1>3. Inside(touched')
  BY <1>1, ParseReadsInside
<1>4. UNCHANGED <<fileSize, stage, at, header, pe>>
  BY <1>2 DEF parserVars
<1>5. ParserTypeOK'
  BY <1>1, <1>3, <1>4 DEF ParserTypeOK, Inside
<1>6. /\ tables' \in Seq(LoopType) /\ LoopsInv'
      /\ outcome' \in {"pending", "ok", "error"}
      /\ outcome' = "pending" => tables' # <<>>
  BY <1>1, <1>2, LoopsStep
<1>7. /\ ordinals' \in 0 .. RvaModulus - 1
      /\ DOMAIN names' \subseteq Counts /\ \A k \in DOMAIN names' : names'[k] \in Nat
  BY <1>1, NamesStep
<1>8. TypeOK'
  BY <1>1, <1>2, <1>5, <1>6, <1>7 DEF TypeOK, LoopType
<1>9. kind # "none"
  BY <1>1, <1>2 DEF PhaseInv
<1>10. PhaseInv'
  BY <1>1, <1>2, <1>4, <1>9 DEF PhaseInv
<1>11. Inside(touched)'
  BY <1>3, <1>4 DEF Inside
<1> QED
  BY <1>6, <1>8, <1>10, <1>11 DEF TypesInv

LEMMA TypesStep == TypesInv /\ [Next]_vars => TypesInv'
<1> SUFFICES ASSUME TypesInv, [Next]_vars PROVE TypesInv'
  OBVIOUS
<1>1. CASE ParserNext /\ UNCHANGED dirVars
  BY <1>1, ParserKeeps
<1>2. ASSUME NEW k \in Kinds, NEW d \in Directories, Begin(k, d) PROVE TypesInv'
  BY <1>2, BeginKeeps
<1>3. CASE Parse
  BY <1>3, ParseKeeps
<1>4. CASE UNCHANGED vars
  <2>1. UNCHANGED <<fileSize, stage, at, header, pe, touched, kind, directory, tables, ordinals, names,
                    found, outcome, content>>
    BY <1>4 DEF vars, parserVars, dirVars
  <2>2. TypeOK' /\ PhaseInv' /\ LoopsInv' /\ Inside(touched)'
    BY <2>1 DEF TypesInv, TypeOK, ParserTypeOK, PhaseInv, LoopsInv, Inside
  <2> QED
    BY <2>2 DEF TypesInv
<1> QED
  BY <1>1, <1>2, <1>3, <1>4 DEF Next

\* The invariant holds of every behaviour.
THEOREM TypesHold == Spec => []TypesInv
<1> QED
  BY TypesStart, TypesStep, PTL DEF Spec

\* Every state is one of the types the parsers keep, and a parser that has begun
\* and has not ended has a loop that runs.
THEOREM TypesAreRight == Spec => []TypeOK
<1>1. TypesInv => TypeOK
  BY DEF TypesInv
<1> QED
  BY <1>1, TypesHold, PTL

\* PEParser.cpp:12-13: no header, section, directory, entry or payload is read
\* from outside the mapped file, for every size of the file and whatever it says.
THEOREM ReadsStay == Spec => []ReadsStayInFile
<1>1. TypesInv => ReadsStayInFile
  BY DEF TypesInv, Inside, ReadsStayInFile
<1> QED
  BY <1>1, TypesHold, PTL

\* PEFile::rvaToOffset of a well laid image is the byte of the file an RVA is
\* backed by, or nothing, for every modulus and every section table.
THEOREM LayoutIsFollowed == Spec => []TranslationFollowsLayout
<1>1. TypesInv => TranslationFollowsLayout
  BY LayoutFollowed DEF TypesInv, TypeOK
<1> QED
  BY <1>1, TypesHold, PTL

LEMMA PrefixOf ==
  ASSUME NEW T, NEW s \in Seq(T), NEW r \in Seq(T), NEW n \in Nat, n <= Len(s), n <= Len(r),
         \A k \in 1 .. n : s[k] = r[k]
  PROVE  SubSeq(s, 1, n) = SubSeq(r, 1, n)
<1>1. SubSeq(s, 1, n) = [k \in 1 .. n |-> s[k]] /\ SubSeq(r, 1, n) = [k \in 1 .. n |-> r[k]]
  OBVIOUS
<1> QED
  BY <1>1

\* A step of a parser goes forward.
LEMMA ChangesForward ==
  ASSUME TypeOK, Changes, tables # <<>>
  PROVE  GoesForward(tables, tables') \/ (outcome' = "error" /\ tables' = tables)
<1>1. tables \in Seq(LoopType)
  BY DEF TypeOK, LoopType
<1>2. Len(tables) \in Nat \ {0} /\ Loop = tables[Len(tables)] /\ Loop.i \in Nat
  BY LoopFacts
<1>3. CASE Fails
  BY <1>3 DEF Fails
<1>4. CASE Ends
  <2>1. Len(tables') = Len(tables) - 1 /\ tables' = SubSeq(tables, 1, Len(tables) - 1)
    BY <1>1, <1>4, FrontFacts DEF Ends
  <2>2. Len(tables') < Len(tables) /\ tables' = SubSeq(tables, 1, Len(tables'))
    BY <1>2, <2>1
  <2> QED
    BY <2>2 DEF GoesForward
<1>5. CASE Forward
  <2>1. PICK new \in LoopType, t \in LoopType, p \in {0, 1} : ChangesInto(new, p, t) /\ GoesOn(new)
    BY <1>5 DEF Forward
  <2>2. /\ tables' \in Seq(LoopType) /\ Len(tables') = Len(tables) + p
        /\ \A k \in 1 .. Len(tables) - 1 : tables'[k] = tables[k]
        /\ tables'[Len(tables)] = new
    BY <2>1 DEF ChangesInto
  <2> DEFINE k == Len(tables)
  <2>3. k \in 1 .. Len(tables) /\ k <= Len(tables') /\ k - 1 \in Nat /\ k - 1 <= Len(tables)
          /\ k - 1 <= Len(tables')
    BY <1>2, <2>2
  <2>4. SubSeq(tables', 1, k - 1) = SubSeq(tables, 1, k - 1)
    BY <1>1, <2>2, <2>3, PrefixOf
  <2>5. IF tables[k].of \in Headers THEN tables'[k].of \notin Headers
        ELSE /\ tables'[k].of = tables[k].of /\ tables'[k].n = tables[k].n
             /\ tables'[k].i > tables[k].i
    BY <1>2, <2>1, <2>2 DEF GoesOn
  <2> HIDE DEF k
  <2> QED
    BY <2>3, <2>4, <2>5 DEF GoesForward
<1> QED
  BY <1>3, <1>4, <1>5 DEF Changes

\* PEResources.cpp:12-14: every step of a parser goes forward in loops that are
\* bounded, for every cap and whatever the tables say.
THEOREM NeverBack == Spec => NeverGoesBack
<1> DEFINE Forth ==
      kind # "none" => /\ GoesForward(tables, tables') \/ (outcome' = "error" /\ tables' = tables)
                       /\ Len(tables') <= Cap["depth"] + 2
                       /\ \A k \in 1 .. Len(tables') : tables'[k].i <= tables'[k].n
<1>1. TypesInv /\ TypesInv' /\ [Next]_vars => [Forth]_vars
  <2> SUFFICES ASSUME TypesInv, TypesInv', Next, kind # "none"
               PROVE  Forth
    OBVIOUS
  <2>1. TypeOK /\ ParserTypeOK /\ PhaseInv /\ LoopsInv /\ LoopsInv'
    BY DEF TypesInv, TypeOK
  <2>2. stage = "parsed"
    BY <2>1 DEF PhaseInv
  <2>3. ~ParserNext
    BY <2>1, <2>2, ParserStep
  <2>4. Parse
    BY <2>3 DEF Next, Begin
  <2>5. Changes /\ tables # <<>>
    BY <2>1, <2>4, ParseChanges
  <2>6. GoesForward(tables, tables') \/ (outcome' = "error" /\ tables' = tables)
    BY <2>1, <2>5, ChangesForward
  <2>7. Len(tables') <= Cap["depth"] + 2 /\ \A k \in 1 .. Len(tables') : tables'[k].i <= tables'[k].n
    BY <2>1 DEF LoopsInv
  <2> QED
    BY <2>6, <2>7
<1> QED
  BY <1>1, TypesHold, PTL DEF Spec, NeverGoesBack

-----------------------------------------------------------------------------
(* Certificates and relocations.                                           *)

\* A block of relocations or a certificate.
Record == [at : 0 .. RvaModulus - 1, size : Nat, counted : Nat]
            \cup [at : 0 .. RvaModulus - 1, size : Nat]

RecordKinds == {"certificates", "relocations"}

\* The records that are listed.
Ordered == \A m \in 1 .. Len(found) - 1 : Before(found[m], found[m + 1].at)

\* The cursor of the loop that lists them is past the last one.
Cursor == /\ Len(tables) <= 1
          /\ tables # <<>> => tables[1].of = RecordLoop
          /\ tables # <<>> /\ found # <<>> => Before(found[Len(found)], tables[1].base)

\* The inductive invariant of RecordsAscend.
ListInv == kind \in RecordKinds => found \in Seq(Record) /\ Ordered /\ Cursor

LEMMA RecordTypes ==
  ASSUME NEW r \in Record
  PROVE  r.at \in Nat /\ r.at \in 0 .. RvaModulus - 1 /\ r.size \in Nat
<1>1. CASE r \in [at : 0 .. RvaModulus - 1, size : Nat, counted : Nat]
  BY <1>1, SizeTypes
<1>2. CASE r \in [at : 0 .. RvaModulus - 1, size : Nat]
  BY <1>2, SizeTypes
<1> QED
  BY <1>1, <1>2 DEF Record

\* The record that a step adds begins at the cursor.
LEMMA AddedRecord ==
  ASSUME kind \in RecordKinds, found \in Seq(Record), Ordered,
         NEW r \in Record, found' = Append(found, r), UNCHANGED kind,
         found # <<>> => Before(found[Len(found)], r.at)
  PROVE  found' \in Seq(Record) /\ Ordered' /\ found'[Len(found')] = r
<1>1. /\ found' \in Seq(Record) /\ Len(found') = Len(found) + 1 /\ Len(found) \in Nat
      /\ \A m \in 1 .. Len(found) : found'[m] = found[m]
      /\ found'[Len(found) + 1] = r
  BY DEF Record
<1>2. ASSUME NEW m \in 1 .. Len(found') - 1 PROVE Before(found[m], found[m + 1].at)'
  <2>1. Before(found'[m], found'[m + 1].at)
    <3>1. CASE m = Len(found)
      <4>1. found # <<>> /\ found'[m] = found[Len(found)] /\ found'[m + 1].at = r.at
        BY <1>1, <1>2, <3>1
      <4> QED
        BY <4>1
    <3>2. CASE m # Len(found)
      <4>1. m \in 1 .. Len(found) - 1 /\ m + 1 \in 1 .. Len(found)
        BY <1>1, <1>2, <3>2
      <4>2. found'[m] = found[m] /\ found'[m + 1] = found[m + 1]
        BY <1>1, <4>1
      <4> QED
        BY <4>1, <4>2 DEF Ordered
    <3> QED
      BY <3>1, <3>2
  <2> QED
    BY <2>1 DEF Before
<1> QED
  BY <1>1, <1>2 DEF Ordered, Before

LEMMA OneLoop ==
  ASSUME TypeOK, kind \in RecordKinds, Cursor, tables # <<>>
  PROVE  Len(tables) = 1 /\ Loop = tables[1] /\ Loop.of = RecordLoop /\ Front(tables) = <<>>
<1>1. Loop = tables[Len(tables)] /\ Len(tables) \in Nat \ {0}
  BY LoopFacts
<1>2. Len(tables) <= 1
  BY DEF Cursor
<1>3. Len(tables) = 1
  <2>1. \A l \in Nat \ {0} : l <= 1 => l = 1
    OBVIOUS
  <2> QED
    BY <1>1, <1>2, <2>1, Zenon
<1>4. tables \in Seq(LoopType)
  BY DEF TypeOK, LoopType
<1>5. Front(tables) \in Seq(LoopType) /\ Len(Front(tables)) = 0
  BY <1>3, <1>4, FrontFacts
<1>6. Front(tables) = <<>>
  BY <1>5
<1> QED
  BY <1>1, <1>3, <1>6 DEF Cursor

LEMMA LeavesNothing ==
  ASSUME TypeOK, kind \in RecordKinds, Cursor, tables # <<>>, Leave
  PROVE  Cursor'
<1>1. tables' = <<>>
  BY OneLoop DEF Leave
<1> QED
  BY <1>1 DEF Cursor

LEMMA BlockListed ==
  ASSUME TypeOK, kind = "relocations", ListInv, Running("block"), NEW n \in Lengths, RelocationBlock(n)
  PROVE  ListInv'
<1>1. tables # <<>> /\ Loop.of = "block" /\ UNCHANGED kind
  BY RunningFacts
<1>2. found \in Seq(Record) /\ Ordered /\ Cursor /\ kind \in RecordKinds
  BY DEF ListInv, RecordKinds
<1>3. CASE n < Size["block"]
  <2>1. Leave /\ UNCHANGED found
    BY <1>3 DEF RelocationBlock
  <2>2. Cursor'
    BY <1>1, <1>2, <2>1, LeavesNothing
  <2>3. Ordered'
    BY <1>1, <1>2, <2>1 DEF Ordered, Before
  <2> QED
    BY <1>1, <1>2, <2>1, <2>2, <2>3 DEF ListInv
<1>4. CASE ~(n < Size["block"])
  <2> DEFINE room    == (n - Size["block"]) \div Size["relocation"]
             counted == Countable("relocation", Wrap(Loop.base + Size["block"]), room)
             r       == [at |-> Loop.base, size |-> n, counted |-> counted]
             cursor  == Wrap(Loop.base + n)
             new     == [Loop EXCEPT !.i = @ + 1, !.base = cursor]
  <2>1. found' = Append(found, r) /\ tables' = Append(Front(tables), new)
    BY <1>4 DEF RelocationBlock, Add, GoOnAt
  <2>2. Size["block"] \in Nat /\ Size["block"] > 0 /\ Size["relocation"] \in Nat /\ Size["relocation"] > 0
    BY SizeTypes DEF Entries, Payloads
  <2>3. n \in Nat /\ Loop.base \in Nat /\ Loop.base \in 0 .. RvaModulus - 1 /\ Loop \in LoopType
    BY <1>1, FieldTypes, LoopFacts, SizeTypes
  <2>4. room \in Nat
    BY <1>4, <2>2, <2>3
  <2> HIDE DEF room
  <2>5. counted \in Nat
    BY <2>4, CountableType
  <2> HIDE DEF counted
  <2>6. r \in Record /\ r.at = Loop.base /\ r.size = n
    BY <2>3, <2>5 DEF Record
  <2> HIDE DEF r
  <2>7. Loop = tables[1] /\ Front(tables) = <<>>
    BY <1>1, <1>2, OneLoop
  <2>8. found' \in Seq(Record) /\ Ordered' /\ found'[Len(found')] = r
    <3>1. found # <<>> => Before(found[Len(found)], r.at)
      BY <1>1, <1>2, <2>6, <2>7 DEF Cursor
    <3> QED
      BY <1>1, <1>2, <2>1, <2>6, <3>1, AddedRecord
  <2>9. Loop.base + n < RvaModulus => cursor = Loop.base + n
    BY <2>3, WrapType
  <2>10. new.of = "block" /\ new.base = cursor
    BY <1>1, <2>3 DEF LoopType
  <2> HIDE DEF cursor, new
  <2>11. tables' = <<new>>
    BY <2>1, <2>7
  <2>12. Before(r, cursor)
    BY <1>4, <2>2, <2>3, <2>6, <2>9 DEF Before
  <2>13. Cursor'
    <3>1. Len(tables') = 1 /\ tables'[1] = new
      BY <2>11
    <3>2. RecordLoop' = "block"
      BY <1>1 DEF RecordLoop
    <3>3. Before(found[Len(found)], tables[1].base)'
      BY <1>1, <2>8, <2>10, <2>12, <3>1 DEF Before
    <3> QED
      BY <2>10, <3>1, <3>2, <3>3 DEF Cursor, Before
  <2> QED
    BY <2>8, <2>13 DEF ListInv
<1> QED
  BY <1>3, <1>4

LEMMA CertificateListed ==
  ASSUME TypeOK, kind = "certificates", ListInv, Running("certificate"), NEW n \in Lengths, Certificate(n)
  PROVE  ListInv'
<1>1. tables # <<>> /\ Loop.of = "certificate" /\ UNCHANGED kind
  BY RunningFacts
<1>2. found \in Seq(Record) /\ Ordered /\ Cursor /\ kind \in RecordKinds
  BY DEF ListInv, RecordKinds
<1>3. CASE n < Size["certificate"]
  <2>1. Leave /\ UNCHANGED found
    BY <1>3 DEF Certificate
  <2>2. Cursor'
    BY <1>1, <1>2, <2>1, LeavesNothing
  <2>3. Ordered'
    BY <1>1, <1>2, <2>1 DEF Ordered, Before
  <2> QED
    BY <1>1, <1>2, <2>1, <2>2, <2>3 DEF ListInv
<1>4. CASE ~(n < Size["certificate"])
  <2> DEFINE r     == [at |-> Loop.base, size |-> n]
             sum   == Wrap(Loop.base + n)
             next  == AlignUp(sum)
             new   == [Loop EXCEPT !.i = @ + 1, !.base = next]
  <2>1. found' = Append(found, r) /\ IF MovesOn(next) THEN GoOnAt(next) ELSE Leave
    BY <1>4 DEF Certificate, Add
  <2>2. Size["certificate"] \in Nat /\ Size["certificate"] > 0
    BY SizeTypes DEF Entries
  <2>3. n \in Nat /\ Loop.base \in Nat /\ Loop.base \in 0 .. RvaModulus - 1 /\ Loop \in LoopType
    BY <1>1, FieldTypes, LoopFacts, SizeTypes
  <2>4. r \in Record /\ r.at = Loop.base /\ r.size = n
    BY <2>3 DEF Record
  <2> HIDE DEF r
  <2>5. Loop = tables[1] /\ Front(tables) = <<>>
    BY <1>1, <1>2, OneLoop
  <2>6. found' \in Seq(Record) /\ Ordered' /\ found'[Len(found')] = r
    <3>1. found # <<>> => Before(found[Len(found)], r.at)
      BY <1>1, <1>2, <2>4, <2>5 DEF Cursor
    <3> QED
      BY <1>1, <1>2, <2>1, <2>4, <3>1, AddedRecord
  <2>7. CASE ~MovesOn(next)
    <3>1. Leave
      BY <2>1, <2>7
    <3>2. Cursor'
      BY <1>1, <1>2, <3>1, LeavesNothing
    <3> QED
      BY <2>6, <3>2 DEF ListInv
  <2>8. CASE MovesOn(next)
    <3>1. sum \in Nat /\ (Loop.base + n < RvaModulus => sum = Loop.base + n)
      BY <2>3, WrapType, SizeTypes
    <3> HIDE DEF sum
    <3>2. next \in 0 .. RvaModulus - 1 /\ (sum < RvaModulus => sum <= next \/ next = 0)
      BY <3>1, AlignType
    <3>3. next > Loop.base
      BY <2>8 DEF MovesOn
    <3>4. tables' = Append(Front(tables), new)
      BY <2>1, <2>8 DEF GoOnAt
    <3> HIDE DEF next
    <3>5. new.of = "certificate" /\ new.base = next
      BY <1>1, <2>3 DEF LoopType
    <3> HIDE DEF new
    <3>6. tables' = <<new>>
      BY <2>5, <3>4
    <3>7. RvaModulus \in Nat
      BY SizeTypes
    <3>8. Before(r, next)
      BY <2>3, <2>4, <3>1, <3>2, <3>3, <3>7 DEF Before
    <3>9. Cursor'
      <4>1. Len(tables') = 1 /\ tables'[1] = new
        BY <3>6
      <4>2. RecordLoop' = "certificate"
        BY <1>1 DEF RecordLoop
      <4>3. Before(found[Len(found)], tables[1].base)'
        BY <1>1, <2>6, <3>5, <3>8, <4>1 DEF Before
      <4> QED
        BY <3>5, <4>1, <4>2, <4>3 DEF Cursor, Before
    <3> QED
      BY <2>6, <3>9 DEF ListInv
  <2> QED
    BY <2>7, <2>8
<1> QED
  BY <1>3, <1>4

LEMMA RecordsStep ==
  ASSUME TypesInv, ListInv, [Next]_vars
  PROVE  ListInv'
<1>1. TypeOK /\ ParserTypeOK /\ PhaseInv /\ LoopsInv
  BY DEF TypesInv, TypeOK
<1>2. CASE UNCHANGED <<kind, tables, found>>
  BY <1>2 DEF ListInv, Ordered, Cursor, Before, RecordLoop
<1>3. ASSUME NEW k \in Kinds, NEW d \in Directories, Begin(k, d) PROVE ListInv'
  <2>1. kind = "none" /\ kind' = k /\ UNCHANGED found
    BY <1>3 DEF Begin
  <2>2. tables = <<>> /\ found = <<>>
    BY <1>1, <2>1 DEF PhaseInv
  <2>3. tables' = tables \/ tables' = <<Opening(k, d)>>
    BY <1>3 DEF Begin
  <2>4. found' = <<>> /\ found' \in Seq(Record) /\ Len(found') = 0
    BY <2>1, <2>2
  <2>5. Ordered'
    BY <2>4 DEF Ordered
  <2>6. ASSUME kind' \in RecordKinds PROVE Cursor'
    <3>1. CASE tables' = <<>>
      BY <3>1 DEF Cursor
    <3>2. CASE tables' = <<Opening(k, d)>>
      <4>1. Len(tables') = 1 /\ tables'[1] = Opening(k, d)
        BY <3>2
      <4>2. CASE k = "certificates"
        BY <2>1, <2>4, <4>1, <4>2 DEF Opening, Table, Cursor, RecordLoop
      <4>3. CASE k = "relocations"
        BY <2>1, <2>4, <4>1, <4>3 DEF Opening, Table, Cursor, RecordLoop
      <4> QED
        BY <2>1, <2>6, <4>2, <4>3 DEF RecordKinds
    <3> QED
      BY <2>2, <2>3, <3>1, <3>2
  <2> QED
    BY <2>4, <2>5, <2>6 DEF ListInv
<1>4. ASSUME Parse PROVE ListInv'
  <2>1. /\ tables # <<>> /\ UNCHANGED kind
    BY <1>1, <1>4, ParseChanges
  <2>2. SUFFICES ASSUME kind \in RecordKinds PROVE ListInv'
    BY <2>1 DEF ListInv
  <2>3. found \in Seq(Record) /\ Ordered /\ Cursor
    BY <2>2 DEF ListInv
  <2>4. Loop.of = IF kind = "certificates" THEN "certificate" ELSE "block"
    BY <1>1, <2>1, <2>2, <2>3, OneLoop DEF RecordLoop
  <2>5. \A of : Reading(of) => Running(of) /\ Loop.of = of
    BY DEF Reading, Running
  <2>6. \A of : Running(of) => Loop.of = of
    BY DEF Running
  <2>7. CASE EndOfTable
    <3>1. Leave /\ UNCHANGED found
      BY <2>7 DEF EndOfTable
    <3>2. Cursor'
      BY <1>1, <2>1, <2>2, <2>3, <3>1, LeavesNothing
    <3>3. Ordered'
      BY <2>1, <2>3, <3>1 DEF Ordered, Before
    <3> QED
      BY <2>1, <2>3, <3>1, <3>2, <3>3 DEF ListInv
  <2>8. ~Unreadable /\ ~SkipName
    BY <2>4, <2>6 DEF Unreadable, SkipName
  <2>9. \A of \in Entries \ {"block", "certificate"} : ~Reading(of)
    BY <2>4, <2>5
  <2>10. ASSUME Reading("block"), NEW n \in Lengths, RelocationBlock(n) PROVE ListInv'
    <3>1. Running("block") /\ Loop.of = "block"
      BY <2>5, <2>10
    <3>2. kind = "relocations"
      BY <2>2, <2>4, <3>1 DEF RecordKinds
    <3> QED
      BY <1>1, <2>10, <3>1, <3>2, BlockListed
  <2>11. ASSUME Reading("certificate"), NEW n \in Lengths, Certificate(n) PROVE ListInv'
    <3>1. Running("certificate") /\ Loop.of = "certificate"
      BY <2>5, <2>11
    <3>2. kind = "certificates"
      BY <2>2, <2>4, <3>1
    <3> QED
      BY <1>1, <2>11, <3>1, <3>2, CertificateListed
  <2>12. {"descriptor", "thunk", "exports", "name", "function", "directory", "node", "tls", "callback",
          "debug"} \subseteq Entries \ {"block", "certificate"}
    BY DEF Entries
  <2>13. /\ ~Reading("descriptor") /\ ~Reading("thunk") /\ ~Reading("exports") /\ ~Reading("name")
         /\ ~Reading("function") /\ ~Reading("directory") /\ ~Reading("node") /\ ~Reading("tls")
         /\ ~Reading("callback") /\ ~Reading("debug")
    BY <2>9, <2>12
  <2> QED
    BY <1>4, <2>7, <2>8, <2>10, <2>11, <2>13, Zenon DEF Parse
<1> QED
  BY <1>2, <1>3, <1>4 DEF Next, dirVars, vars

\* PEDirectories.cpp:330: no certificate is listed twice, and none overlaps the
\* next one, for every alignment and every length the file gives.
THEOREM RecordsAlwaysAscend == Spec => []RecordsAscend
<1>1. Init => ListInv
  BY DEF Init, ListInv, RecordKinds
<1>2. TypesInv /\ ListInv /\ [Next]_vars => ListInv'
  BY RecordsStep
<1>3. ListInv => RecordsAscend
  <2> SUFFICES ASSUME ListInv, kind \in RecordKinds PROVE RecordsAscend
    BY DEF RecordsAscend, RecordKinds
  <2> DEFINE InSpace == \A m \in 1 .. Len(found) : found[m].at + found[m].size < RvaModulus
  <2>1. found \in Seq(Record) /\ Ordered
    BY DEF ListInv
  <2>2. ASSUME NEW m \in 1 .. Len(found) - 1
        PROVE  /\ kind = "certificates" \/ InSpace => found[m].at < found[m + 1].at
               /\ InSpace => found[m].at + found[m].size <= found[m + 1].at
    <3>1. m \in 1 .. Len(found)
      BY <2>1
    <3>2. Before(found[m], found[m + 1].at)
      BY <2>1 DEF Ordered
    <3> QED
      BY <3>1, <3>2 DEF Before
  <2> QED
    BY <2>2 DEF RecordsAscend
<1> QED
  BY <1>1, <1>2, <1>3, TypesHold, PTL DEF Spec

-----------------------------------------------------------------------------
(* Imports and exports.                                                    *)

\* An entry that was read: its value will not change.
Known(of, rva) == CanRead(of, rva) /\ <<of, Place(of, rva)>> \in DOMAIN content

SymbolType == [ordinal : BOOLEAN, hint : BOOLEAN, name : Nat \cup {None}]
ModuleType == [name : Nat \cup {None}, symbols : Seq(SymbolType)]

DescriptorRva(m) == SlotRva("descriptor", directory.va, m - 1)
DescriptorOf(m) == Value("descriptor", DescriptorRva(m))

ThunkRva(d, j) == SlotRva("thunk", ThunkArray(d), j - 1)

\* Symbol s is of the thunk at position j.
ThunkListed(d, j, s) ==
  LET rva == ThunkRva(d, j) IN
  Known("thunk", rva) /\ ~Value("thunk", rva).null /\ s = Symbol(Value("thunk", rva))

\* The symbols so far are of the first thunks of the module.
ThunksListed(d, symbols) ==
  /\ Len(symbols) <= Cap["thunk"]
  /\ ThunkArray(d) = 0 => symbols = <<>>
  /\ \A j \in 1 .. Len(symbols) : ThunkListed(d, j, symbols[j])

\* They are all of them.
ThunksEnd(d, symbols) ==
  LET rva == ThunkRva(d, Len(symbols) + 1) IN
  ThunkArray(d) # 0 /\ Len(symbols) < Cap["thunk"] /\ CanRead("thunk", rva)
    => Known("thunk", rva) /\ Value("thunk", rva).null

\* Row r is of the descriptor at position m.
ModuleListed(m, r) ==
  /\ Known("descriptor", DescriptorRva(m)) /\ DescriptorOf(m) \in Descriptors
  /\ ~IsTerminator(DescriptorOf(m)) /\ r.name = TextAt(DescriptorOf(m).name)
  /\ ThunksListed(DescriptorOf(m), r.symbols)

\* The rows are those of all descriptors.
ModulesEnd(n) ==
  n < Cap["descriptor"] /\ CanRead("descriptor", DescriptorRva(n + 1))
    => Known("descriptor", DescriptorRva(n + 1)) /\ IsTerminator(DescriptorOf(n + 1))

\* The loops of parseImports.
ImportLoops ==
  LET n == Len(found) IN
  /\ Len(tables) <= 2
  /\ tables # <<>> =>
       tables[1] = [of |-> "descriptor", base |-> directory.va, i |-> n, n |-> Cap["descriptor"]]
  /\ Len(tables) = 2 =>
       /\ n # 0 /\ ThunkArray(DescriptorOf(n)) # 0
       /\ tables[2] = [of |-> "thunk", base |-> ThunkArray(DescriptorOf(n)),
                       i |-> Len(found[n].symbols), n |-> Cap["thunk"]]

\* The inductive invariant of the imports.
ImportsInv ==
  kind = "imports" =>
    /\ found \in Seq(ModuleType) /\ Len(found) <= Cap["descriptor"]
    /\ \A m \in 1 .. Len(found) :
         /\ ModuleListed(m, found[m])
         /\ m < Len(found) \/ Len(tables) # 2 => ThunksEnd(DescriptorOf(m), found[m].symbols)
    /\ ImportLoops
    /\ Done("imports") => ModulesEnd(Len(found)) /\ tables = <<>>

ExportType == [index : Nat, name : Nat \cup {None}, forward : BOOLEAN, target : Nat \cup {None}]

Header == Value("exports", directory.va)

NameRva(x, j) == SlotRva("name", x.names, j)
IndexRva(x, j) == Wrap(x.ordinals + Wrap(j * Size["ordinal"]))
FunctionRva(x, j) == SlotRva("function", x.functions, j)

\* The name at position j can be read, with the index it is of.
NameReadable(x, j) == CanRead("name", NameRva(x, j)) /\ CanRead("ordinal", IndexRva(x, j))

\* It is a name of an index.
IsNameOf(x, index, j) ==
  /\ NameReadable(x, j)
  /\ Value("name", NameRva(x, j)).index = index
  /\ TextAt(Value("name", NameRva(x, j)).rva) # None

\* The names so far are the first ones of the first n entries.
NamesListed(x, n) ==
  /\ n \in 0 .. x.nameCount
  /\ \A j \in 0 .. n - 1 : NameReadable(x, j) => Known("name", NameRva(x, j))
  /\ \A index \in 0 .. RvaModulus - 1 :
       IF index \in DOMAIN names
       THEN \E j \in 0 .. n - 1 :
              /\ IsNameOf(x, index, j) /\ \A l \in 0 .. j - 1 : ~IsNameOf(x, index, l)
              /\ names[index] = TextAt(Value("name", NameRva(x, j)).rva)
       ELSE \A j \in 0 .. n - 1 : ~IsNameOf(x, index, j)

\* Row r is of the function at its index.
FunctionListed(x, r) ==
  LET f == Value("function", FunctionRva(x, r.index)) IN
  /\ f # 0 /\ r.forward = InRegion(f)
  /\ r.target = IF InRegion(f) THEN TextAt(f) ELSE f
  /\ r.name = NameOf(r.index)

\* The functions so far are those of the first n entries, in their order.
FunctionsListed(x, n) ==
  /\ n \in 0 .. x.functionCount /\ found \in Seq(ExportType)
  /\ \A j \in 0 .. n - 1 : Known("function", FunctionRva(x, j))
  /\ \A m \in 1 .. Len(found) :
       /\ found[m].index \in 0 .. n - 1 /\ FunctionListed(x, found[m])
       /\ \A l \in 1 .. m - 1 : found[l].index < found[m].index
  /\ \A j \in 0 .. n - 1 :
       Value("function", FunctionRva(x, j)) # 0 => \E m \in 1 .. Len(found) : found[m].index = j

\* The loops of parseExports.
ExportLoops(x) ==
  \/ /\ tables = <<[of |-> "exports", base |-> directory.va, i |-> 0, n |-> 1]>>
     /\ found = <<>> /\ names = <<>>
  \/ /\ Len(tables) \in {1, 2} /\ Known("exports", directory.va) /\ x \in ExportHeaders
     /\ tables[1].of = "function" /\ tables[1].base = x.functions /\ tables[1].n = x.functionCount
     /\ FunctionsListed(x, tables[1].i) /\ ordinals = x.ordinals
     /\ Len(tables) = 1 => NamesListed(x, x.nameCount)
     /\ Len(tables) = 2 =>
          /\ tables[2].of = "name" /\ tables[2].base = x.names /\ tables[2].n = x.nameCount
          /\ tables[1].i = 0 /\ NamesListed(x, tables[2].i)

\* All functions are listed, with all names.
ExportsEnd(x) ==
  /\ Known("exports", directory.va) /\ x \in ExportHeaders
  /\ NamesListed(x, x.nameCount)
  /\ \E n \in 0 .. x.functionCount :
       FunctionsListed(x, n) /\ (n = x.functionCount \/ ~CanRead("function", FunctionRva(x, n)))

\* The inductive invariant of the exports.
ExportsInv ==
  /\ kind = "none" => names = <<>>
  /\ kind = "exports" =>
       /\ outcome = "pending" => ExportLoops(Header)
       /\ Done("exports") => ExportsEnd(Header)

\* What a step of a parser leaves as it was: the file and what was read of it.
Kept ==
  /\ UNCHANGED parserVars /\ UNCHANGED directory
  /\ \A key \in DOMAIN content : key \in DOMAIN content' /\ content'[key] = content[key]

LEMMA PlacesKept ==
  ASSUME UNCHANGED parserVars
  PROVE  /\ \A of, rva : Place(of, rva)' = Place(of, rva) /\ CanRead(of, rva)' = CanRead(of, rva)
         /\ \A rva : TextAt(rva)' = TextAt(rva)
         /\ \A of, base, i : SlotRva(of, base, i)' = SlotRva(of, base, i)
         /\ \A t : Symbol(t)' = Symbol(t)
<1>1. UNCHANGED <<pe, fileSize>>
  BY DEF parserVars
<1>2. \A rva : RvaToOffset(rva)' = RvaToOffset(rva)
  BY <1>1 DEF RvaToOffset, Holding, OffsetIn
<1>3. \A of, rva : Place(of, rva)' = Place(of, rva)
  BY <1>2 DEF Place
<1>4. \A of : Width(of)' = Width(of)
  BY <1>1 DEF Width
<1>5. \A o, n : Fits(o, n)' = Fits(o, n)
  BY <1>1 DEF Fits
<1>6. \A of, rva : CanRead(of, rva)' = CanRead(of, rva)
  BY <1>3, <1>4, <1>5 DEF CanRead
<1>7. \A rva : TextAt(rva)' = TextAt(rva)
  BY <1>2 DEF TextAt
<1>8. \A of, base, i : SlotRva(of, base, i)' = SlotRva(of, base, i)
  BY <1>4 DEF SlotRva
<1>9. \A t : Symbol(t)' = Symbol(t)
  BY <1>6, <1>7 DEF Symbol
<1> QED
  BY <1>3, <1>6, <1>7, <1>8, <1>9

LEMMA KnownKept ==
  ASSUME Kept
  PROVE  \A of, rva : Known(of, rva) => Known(of, rva)' /\ Value(of, rva)' = Value(of, rva)
<1> SUFFICES ASSUME NEW of, NEW rva, Known(of, rva)
             PROVE  Known(of, rva)' /\ Value(of, rva)' = Value(of, rva)
  OBVIOUS
<1>1. Place(of, rva)' = Place(of, rva) /\ CanRead(of, rva)' = CanRead(of, rva)
  BY PlacesKept DEF Kept
<1>2. <<of, Place(of, rva)>> \in DOMAIN content /\ CanRead(of, rva)
  BY DEF Known
<1>3. /\ <<of, Place(of, rva)>> \in DOMAIN content'
      /\ content'[<<of, Place(of, rva)>>] = content[<<of, Place(of, rva)>>]
  BY <1>2 DEF Kept
<1> QED
  BY <1>1, <1>2, <1>3 DEF Known, Value

\* What is read is known afterwards.
LEMMA ReadIsKnown ==
  ASSUME NEW of, Reading(of), NEW v, NEW payload, Read(of, v, payload), NEW rva, rva = NextRva
  PROVE  Kept /\ Known(of, rva)' /\ Value(of, rva)' = v
<1> DEFINE key == <<of, Place(of, rva)>>
<1>1. UNCHANGED parserVars /\ UNCHANGED directory /\ CanRead(of, rva)
  BY DEF Reading, Running
<1>2. /\ key \in DOMAIN content => content[key] = v
      /\ content' = [k \in DOMAIN content \cup {key} |-> IF k = key THEN v ELSE content[k]]
  BY DEF Read
<1>3. DOMAIN content' = DOMAIN content \cup {key} /\ content'[key] = v
      /\ \A k \in DOMAIN content : k # key => content'[k] = content[k]
  BY <1>2
<1>4. Kept
  BY <1>1, <1>2, <1>3 DEF Kept
<1>5. Place(of, rva)' = Place(of, rva) /\ CanRead(of, rva)' = CanRead(of, rva)
  BY <1>1, PlacesKept
<1> QED
  BY <1>1, <1>3, <1>4, <1>5 DEF Known, Value

LEMMA ThunksKept ==
  ASSUME Kept
  PROVE  /\ \A d, symbols : ThunksListed(d, symbols) => ThunksListed(d, symbols)'
         /\ \A d, symbols : ThunksEnd(d, symbols) => ThunksEnd(d, symbols)'
         /\ \A d, j : ThunkRva(d, j)' = ThunkRva(d, j)
         /\ \A d, j, s : ThunkListed(d, j, s) => ThunkListed(d, j, s)'
<1>1. UNCHANGED parserVars
  BY DEF Kept
<1>2. \A d, j : ThunkRva(d, j)' = ThunkRva(d, j)
  BY <1>1, PlacesKept DEF ThunkRva
<1>3. \A d, j, s : ThunkListed(d, j, s) => ThunkListed(d, j, s)'
  BY <1>1, <1>2, PlacesKept, KnownKept DEF ThunkListed
<1>4. \A d, symbols : ThunksListed(d, symbols) => ThunksListed(d, symbols)'
  BY <1>3 DEF ThunksListed
<1>5. \A d, symbols : ThunksEnd(d, symbols) => ThunksEnd(d, symbols)'
  BY <1>1, <1>2, PlacesKept, KnownKept DEF ThunksEnd
<1> QED
  BY <1>2, <1>3, <1>4, <1>5

LEMMA ModulesKept ==
  ASSUME Kept
  PROVE  /\ \A m : DescriptorRva(m)' = DescriptorRva(m)
         /\ \A m, r : ModuleListed(m, r) => ModuleListed(m, r)' /\ DescriptorOf(m)' = DescriptorOf(m)
         /\ \A m, symbols : Known("descriptor", DescriptorRva(m)) /\ ThunksEnd(DescriptorOf(m), symbols)
                              => ThunksEnd(DescriptorOf(m), symbols)'
<1>1. UNCHANGED parserVars /\ UNCHANGED directory
  BY DEF Kept
<1>2. \A m : DescriptorRva(m)' = DescriptorRva(m)
  BY <1>1, PlacesKept DEF DescriptorRva
<1>3. \A m : Known("descriptor", DescriptorRva(m))
               => Known("descriptor", DescriptorRva(m))' /\ DescriptorOf(m)' = DescriptorOf(m)
  <2> SUFFICES ASSUME NEW m, Known("descriptor", DescriptorRva(m))
               PROVE  Known("descriptor", DescriptorRva(m))' /\ DescriptorOf(m)' = DescriptorOf(m)
    OBVIOUS
  <2>1. PICK rva : rva = DescriptorRva(m)
    OBVIOUS
  <2>2. DescriptorRva(m)' = rva
    BY <1>2, <2>1
  <2>3. Known("descriptor", rva)' /\ Value("descriptor", rva)' = Value("descriptor", rva)
    BY <2>1, KnownKept
  <2> QED
    BY <2>1, <2>2, <2>3 DEF DescriptorOf
<1>4. ASSUME NEW m, NEW r, ModuleListed(m, r) PROVE ModuleListed(m, r)'
  <2>1. PICK d : d = DescriptorOf(m)
    OBVIOUS
  <2>2. Known("descriptor", DescriptorRva(m))' /\ DescriptorOf(m)' = d
    BY <1>3, <1>4, <2>1 DEF ModuleListed
  <2>3. ThunksListed(d, r.symbols)'
    BY <1>4, <2>1, ThunksKept DEF ModuleListed
  <2>4. TextAt(d.name)' = TextAt(d.name)
    BY <1>1, PlacesKept
  <2> QED
    BY <1>4, <2>1, <2>2, <2>3, <2>4 DEF ModuleListed
<1>5. ASSUME NEW m, NEW symbols, Known("descriptor", DescriptorRva(m)), ThunksEnd(DescriptorOf(m), symbols)
      PROVE  ThunksEnd(DescriptorOf(m), symbols)'
  <2>1. PICK d : d = DescriptorOf(m)
    OBVIOUS
  <2>2. DescriptorOf(m)' = d
    BY <1>3, <1>5, <2>1
  <2>3. ThunksEnd(d, symbols)'
    BY <1>5, <2>1, ThunksKept
  <2> QED
    BY <2>2, <2>3
<1> QED
  BY <1>2, <1>3, <1>4, <1>5 DEF ModuleListed

LEMMA TextType ==
  ASSUME TypeOK
  PROVE  /\ \A rva \in Nat : TextAt(rva) \in Nat \cup {None}
         /\ \A rva \in Rvas : TextAt(rva) \in Nat \cup {None}
<1>1. \A rva \in Nat : TextAt(rva) \in Nat \cup {None}
  BY OffsetType DEF TextAt, TypeOK
<1> QED
  BY <1>1, FieldTypes

LEMMA SymbolIsTyped ==
  ASSUME TypeOK, NEW t \in Thunks
  PROVE  Symbol(t) \in SymbolType
<1>1. t.rva \in Rvas \cup {0} /\ t.rva \in Nat
  <2>1. CASE t = Null
    BY <2>1 DEF Null
  <2>2. CASE t # Null
    <3>1. t.rva \in Rvas
      BY <2>2 DEF Thunks
    <3> QED
      BY <3>1, FieldTypes
  <2> QED
    BY <2>1, <2>2
<1>2. Size["hint"] \in Nat
  BY SizeTypes DEF Payloads
<1>3. SymbolRva(t) \in Nat
  BY <1>1, <1>2, WrapType, SizeTypes DEF SymbolRva
<1>4. TextAt(SymbolRva(t)) \in Nat \cup {None}
  BY <1>3, TextType
<1>5. CanRead("hint", t.rva) \in BOOLEAN
  BY DEF CanRead
<1>6. CASE t.ordinal
  BY <1>6 DEF Symbol, SymbolType
<1>7. CASE ~t.ordinal
  BY <1>4, <1>5, <1>7 DEF Symbol, SymbolType
<1> QED
  BY <1>6, <1>7

LEMMA Appended ==
  ASSUME NEW T, NEW s \in Seq(T), NEW x \in T
  PROVE  /\ Append(s, x) \in Seq(T) /\ Len(Append(s, x)) = Len(s) + 1 /\ Len(s) \in Nat
         /\ \A k \in 1 .. Len(s) : Append(s, x)[k] = s[k]
         /\ Append(s, x)[Len(s) + 1] = x
OBVIOUS

LEMMA OneLeft ==
  ASSUME NEW a, NEW b
  PROVE  Append(<<>>, a) \o <<>> = <<a>> /\ Append(<<>>, a) \o <<b>> = <<a, b>>
<1>1. Append(<<>>, a) = <<a>>
  OBVIOUS
<1>2. <<a>> \o <<>> = <<a>>
  BY <<a>> \in Seq({a}), NotPushed
<1>3. <<a>> \o <<b>> = <<a, b>>
  <2>1. PICK s : s = <<a>> \o <<b>>
    OBVIOUS
  <2>2. <<a>> \in Seq({a, b}) /\ Len(<<a>>) = 1 /\ <<a>>[1] = a
    OBVIOUS
  <2>3. s \in Seq({a, b}) /\ Len(s) = 2 /\ s[1] = a /\ s[2] = b
    BY <2>1, <2>2, Pushed
  <2>4. s = <<a, b>>
    BY <2>3
  <2> QED
    BY <2>1, <2>4
<1> QED
  BY <1>1, <1>2, <1>3

\* A stack of one or two loops.
LEMMA Stack ==
  ASSUME TypeOK, tables # <<>>
  PROVE  /\ Len(tables) = 1 => Loop = tables[1] /\ Front(tables) = <<>>
         /\ Len(tables) = 2 => Loop = tables[2] /\ Front(tables) = <<tables[1]>>
<1>1. tables \in Seq(LoopType)
  BY DEF TypeOK, LoopType
<1>2. Loop = tables[Len(tables)]
  BY LoopFacts
<1>3. /\ Front(tables) \in Seq(LoopType) /\ Len(Front(tables)) = Len(tables) - 1
      /\ \A k \in 1 .. Len(tables) - 1 : Front(tables)[k] = tables[k]
  BY <1>1, FrontFacts
<1> DEFINE f == Front(tables)
<1> HIDE DEF f
<1>4. f \in Seq(LoopType) /\ Len(f) = Len(tables) - 1 /\ \A k \in 1 .. Len(tables) - 1 : f[k] = tables[k]
  BY <1>3 DEF f
<1>5. Len(tables) = 1 => f = <<>>
  BY <1>4
<1>6. Len(tables) = 2 => f = <<tables[1]>>
  <2> SUFFICES ASSUME Len(tables) = 2 PROVE f = <<tables[1]>>
    OBVIOUS
  <2>1. Len(f) = 1 /\ f[1] = tables[1]
    BY <1>4
  <2> QED
    BY <1>4, <2>1
<1> QED
  BY <1>2, <1>5, <1>6 DEF f

\* What ImportLoops says of the loop that runs.
LEMMA ImportLoop ==
  ASSUME TypeOK, ImportLoops, tables # <<>>, found \in Seq(ModuleType)
  PROVE  \/ /\ Len(tables) = 1 /\ Loop = tables[1] /\ Front(tables) = <<>>
            /\ Loop = [of |-> "descriptor", base |-> directory.va, i |-> Len(found),
                       n |-> Cap["descriptor"]]
            /\ NextRva = DescriptorRva(Len(found) + 1)
         \/ /\ Len(tables) = 2 /\ Loop = tables[2] /\ Front(tables) = <<tables[1]>>
            /\ Len(found) # 0 /\ ThunkArray(DescriptorOf(Len(found))) # 0
            /\ Loop = [of |-> "thunk", base |-> ThunkArray(DescriptorOf(Len(found))),
                       i |-> Len(found[Len(found)].symbols), n |-> Cap["thunk"]]
            /\ NextRva = ThunkRva(DescriptorOf(Len(found)), Len(found[Len(found)].symbols) + 1)
<1>1. Len(tables) \in Nat \ {0}
  BY LoopFacts
<1>2. Len(tables) = 1 \/ Len(tables) = 2
  <2>1. \A l \in Nat \ {0} : l <= 2 => l = 1 \/ l = 2
    OBVIOUS
  <2>2. Len(tables) <= 2
    BY DEF ImportLoops
  <2> QED
    BY <1>1, <2>1, <2>2, Zenon
<1>3. Len(found) \in Nat
  OBVIOUS
<1>4. CASE Len(tables) = 1
  <2>1. Loop = tables[1] /\ Front(tables) = <<>>
    BY <1>4, Stack
  <2>2. Loop = [of |-> "descriptor", base |-> directory.va, i |-> Len(found), n |-> Cap["descriptor"]]
    BY <2>1 DEF ImportLoops
  <2>3. (Len(found) + 1) - 1 = Len(found)
    BY <1>3
  <2>4. NextRva = DescriptorRva(Len(found) + 1)
    BY <2>2, <2>3 DEF NextRva, DescriptorRva
  <2> QED
    BY <1>4, <2>1, <2>2, <2>4
<1>5. CASE Len(tables) = 2
  <2>1. Loop = tables[2] /\ Front(tables) = <<tables[1]>>
    BY <1>5, Stack
  <2>2. Len(found) # 0 /\ ThunkArray(DescriptorOf(Len(found))) # 0
        /\ Loop = [of |-> "thunk", base |-> ThunkArray(DescriptorOf(Len(found))),
                   i |-> Len(found[Len(found)].symbols), n |-> Cap["thunk"]]
    BY <1>5, <2>1 DEF ImportLoops
  <2>3. found[Len(found)].symbols \in Seq(SymbolType)
    <3>1. Len(found) \in 1 .. Len(found)
      BY <1>3, <2>2
    <3>2. found[Len(found)] \in ModuleType
      BY <3>1
    <3> QED
      BY <3>2 DEF ModuleType
  <2>4. (Len(found[Len(found)].symbols) + 1) - 1 = Len(found[Len(found)].symbols)
    BY <2>3
  <2>5. NextRva = ThunkRva(DescriptorOf(Len(found)), Len(found[Len(found)].symbols) + 1)
    BY <2>2, <2>4 DEF NextRva, ThunkRva
  <2> QED
    BY <1>5, <2>1, <2>2, <2>5
<1> QED
  BY <1>2, <1>4, <1>5

LEMMA ImportsBegin ==
  ASSUME TypesInv, NEW k \in Kinds, NEW d \in Directories, Begin(k, d)
  PROVE  ImportsInv'
<1>1. kind = "none" /\ kind' = k /\ directory' = d /\ UNCHANGED found
  BY DEF Begin
<1>2. tables = <<>> /\ found = <<>> /\ outcome = "pending"
  BY <1>1 DEF TypesInv, PhaseInv
<1> SUFFICES ASSUME k = "imports" PROVE ImportsInv'
  BY <1>1 DEF ImportsInv
<1>3. found' = <<>> /\ found' \in Seq(ModuleType) /\ Len(found') = 0
  BY <1>1, <1>2
<1>4. Cap["descriptor"] \in Nat
  BY SizeTypes DEF Entries
<1>5. CASE d.va = 0 \/ d.size = 0
  <2>1. tables' = <<>> /\ ~Done("imports")'
    BY <1>1, <1>2, <1>5 DEF Begin, Done
  <2>2. ImportLoops'
    BY <2>1 DEF ImportLoops
  <2> QED
    BY <1>3, <1>4, <2>1, <2>2 DEF ImportsInv
<1>6. CASE ~(d.va = 0 \/ d.size = 0)
  <2>1. tables' = <<[of |-> "descriptor", base |-> d.va, i |-> 0, n |-> Cap["descriptor"]]>>
        /\ outcome' = "pending"
    BY <1>2, <1>6 DEF Begin, Opening, Table
  <2>2. ImportLoops'
    BY <1>1, <1>3, <2>1 DEF ImportLoops
  <2>3. ~Done("imports")'
    BY <2>1 DEF Done
  <2> QED
    BY <1>3, <1>4, <2>2, <2>3 DEF ImportsInv
<1> QED
  BY <1>5, <1>6

LEMMA OneOrTwo ==
  ASSUME NEW t, NEW a, NEW b, t = <<a>> \/ t = <<a, b>>
  PROVE  t[1] = a /\ Len(t) <= 2
<1>1. CASE t = <<a>>
  BY <1>1
<1>2. CASE t = <<a, b>>
  BY <1>2
<1> QED
  BY <1>1, <1>2

\* A descriptor is read.
LEMMA DescriptorStep ==
  ASSUME TypeOK, ImportsInv, kind = "imports", Reading("descriptor"), NEW d \in Descriptors, Descriptor(d)
  PROVE  ImportsInv'
<1> DEFINE n == Len(found)
           l == [of |-> "descriptor", base |-> directory.va, i |-> n, n |-> Cap["descriptor"]]
           second == [of |-> "thunk", base |-> ThunkArray(d), i |-> 0, n |-> Cap["thunk"]]
           last == [of |-> "descriptor", base |-> directory.va, i |-> n + 1, n |-> Cap["descriptor"]]
<1>1. /\ Running("descriptor") /\ tables # <<>> /\ Loop.of = "descriptor" /\ Loop.i < Loop.n
      /\ outcome = "pending" /\ UNCHANGED <<kind, directory>>
  BY DEF Reading, Running
<1>2. /\ found \in Seq(ModuleType) /\ n <= Cap["descriptor"] /\ ImportLoops /\ n \in Nat
      /\ \A m \in 1 .. n : /\ ModuleListed(m, found[m])
                           /\ m < n \/ Len(tables) # 2 => ThunksEnd(DescriptorOf(m), found[m].symbols)
  BY DEF ImportsInv
<1>3. Len(tables) = 1 /\ Front(tables) = <<>> /\ Loop = l /\ NextRva = DescriptorRva(n + 1)
  BY <1>1, <1>2, ImportLoop
<1>4. PICK rva : rva = NextRva
  OBVIOUS
<1>5. PICK payload : Read("descriptor", d, payload)
  BY DEF Descriptor
<1>6. Kept /\ Known("descriptor", rva)' /\ Value("descriptor", rva)' = d
  BY <1>4, <1>5, ReadIsKnown
<1>7. DescriptorRva(n + 1)' = DescriptorRva(n' + 1) /\ \A m : DescriptorRva(m)' = DescriptorRva(m)
  BY <1>6, ModulesKept
<1>8. \A m \in 1 .. n : ModuleListed(m, found[m]) /\ ThunksEnd(DescriptorOf(m), found[m].symbols)
  BY <1>2, <1>3
<1>9. ASSUME NEW m \in 1 .. n, NEW r, r = found[m]
      PROVE  ModuleListed(m, r)' /\ ThunksEnd(DescriptorOf(m), r.symbols)'
  <2>1. ModuleListed(m, r) /\ ThunksEnd(DescriptorOf(m), r.symbols)
    BY <1>8, <1>9
  <2>2. Known("descriptor", DescriptorRva(m))
    BY <2>1 DEF ModuleListed
  <2> QED
    BY <1>6, <2>1, <2>2, ModulesKept
<1>10. PICK p : p = n + 1
  OBVIOUS
<1>11. Known("descriptor", DescriptorRva(p))' /\ DescriptorOf(p)' = d
  <2>1. DescriptorRva(p)' = rva
    BY <1>3, <1>4, <1>7, <1>10
  <2> QED
    BY <1>6, <2>1 DEF DescriptorOf
<1>12. CASE IsTerminator(d)
  <2>1. tables' = <<>> /\ found' = found
    BY <1>3, <1>12 DEF Descriptor, Leave
  <2>2. \A m \in 1 .. Len(found') :
           ModuleListed(m, found[m])' /\ ThunksEnd(DescriptorOf(m), found[m].symbols)'
    BY <1>9, <2>1
  <2>3. ImportLoops'
    BY <2>1 DEF ImportLoops
  <2>4. ModulesEnd(Len(found))'
    BY <1>10, <1>11, <1>12, <2>1 DEF ModulesEnd
  <2> QED
    BY <1>2, <2>1, <2>2, <2>3, <2>4 DEF ImportsInv
<1>13. CASE ~IsTerminator(d)
  <2> DEFINE r == [name |-> TextAt(d.name), symbols |-> <<>>]
  <2>1. found' = Append(found, r)
    BY <1>13 DEF Descriptor, Add
  <2>2. TextAt(d.name) \in Nat \cup {None} /\ TextAt(d.name)' = TextAt(d.name)
    <3>1. d.name \in Rvas
      BY DEF Descriptors
    <3> QED
      BY <1>6, <3>1, TextType, PlacesKept DEF Kept
  <2>3. r \in ModuleType /\ r.symbols = <<>> /\ r.name = TextAt(d.name)
    <3>1. <<>> \in Seq(SymbolType)
      OBVIOUS
    <3> QED
      BY <2>2, <3>1 DEF ModuleType
  <2>4. PICK s : s = r
    OBVIOUS
  <2> HIDE DEF r
  <2>5. /\ found' \in Seq(ModuleType) /\ Len(found') = n + 1
        /\ \A m \in 1 .. n : found'[m] = found[m]
        /\ found'[n + 1] = s
    BY <1>2, <2>1, <2>3, <2>4, Appended
  <2>6. Cap["thunk"] \in Nat /\ Cap["descriptor"] \in Nat
    BY SizeTypes DEF Entries
  <2>7. ModuleListed(p, s)'
    <3>1. s.symbols = <<>> /\ s.name = TextAt(d.name)
      BY <2>3, <2>4
    <3>2. ThunksListed(d, s.symbols)'
      BY <2>6, <3>1 DEF ThunksListed
    <3> QED
      BY <1>11, <1>13, <2>2, <3>1, <3>2 DEF ModuleListed
  <2>8. /\ outcome' = outcome
        /\ IF ThunkArray(d) = 0 THEN tables' = <<last>>
           ELSE tables' = <<last, second>>
    <3>1. [Loop EXCEPT !.i = @ + 1] = last
      BY <1>3
    <3> HIDE DEF last
    <3>2. CASE ThunkArray(d) = 0
      <4>1. GoOn
        BY <1>13, <3>2 DEF Descriptor
      <4> QED
        BY <1>3, <3>1, <3>2, <4>1, OneLeft DEF GoOn, GoOnAfter
    <3>3. CASE ThunkArray(d) # 0
      <4>1. GoOnAfter(<<Table("thunk", ThunkArray(d), Cap["thunk"])>>)
        BY <1>13, <3>3 DEF Descriptor
      <4> QED
        BY <1>3, <3>1, <3>3, <4>1, OneLeft DEF GoOnAfter, Table
    <3> QED
      BY <3>2, <3>3
  <2>9. ThunkArray(d) = 0 => ThunksEnd(d, s.symbols)'
    BY DEF ThunksEnd
  <2>10. ASSUME NEW m \in 1 .. Len(found')
         PROVE  /\ ModuleListed(m, found[m])'
                /\ m < Len(found') \/ Len(tables') # 2 => ThunksEnd(DescriptorOf(m), found[m].symbols)'
    <3>1. CASE m \in 1 .. n
      <4>1. PICK q : q = found[m]
        OBVIOUS
      <4>2. found'[m] = q
        BY <2>5, <3>1, <4>1
      <4>3. ModuleListed(m, q)' /\ ThunksEnd(DescriptorOf(m), q.symbols)'
        BY <1>9, <3>1, <4>1
      <4> QED
        BY <4>2, <4>3
    <3>2. CASE m = n + 1
      <4>1. m = p /\ found'[m] = s
        BY <1>10, <2>5, <3>2
      <4>2. ASSUME Len(tables') # 2 PROVE ThunkArray(d) = 0
        BY <2>8, <4>2
      <4>3. ~(m < Len(found'))
        BY <1>2, <2>5, <3>2
      <4>4. Len(tables') # 2 => ThunksEnd(DescriptorOf(m), s.symbols)'
        BY <1>11, <2>9, <4>1, <4>2
      <4> QED
        BY <2>7, <4>1, <4>3, <4>4
    <3> QED
      BY <1>2, <2>5, <3>1, <3>2
  <2>11. ImportLoops'
    <3>1. Len(found') = p /\ found'[p] = s /\ s.symbols = <<>> /\ Len(s.symbols) = 0
      BY <1>10, <2>3, <2>4, <2>5
    <3>2. tables'[1] = [of |-> "descriptor", base |-> directory.va, i |-> Len(found'), n |-> Cap["descriptor"]]
          /\ Len(tables') <= 2
      <4>1. last = [of |-> "descriptor", base |-> directory.va, i |-> Len(found'), n |-> Cap["descriptor"]]
        BY <1>10, <3>1
      <4> HIDE DEF last, second
      <4>2. tables'[1] = last /\ Len(tables') <= 2
        <5>1. tables' = <<last>> \/ tables' = <<last, second>>
          BY <2>8, Zenon
        <5> QED
          BY <5>1, OneOrTwo, Zenon
      <4> QED
        BY <4>1, <4>2
    <3>3. Len(tables') = 2 =>
            /\ ThunkArray(d) # 0
            /\ tables'[2] = [of |-> "thunk", base |-> ThunkArray(d), i |-> 0, n |-> Cap["thunk"]]
      BY <2>8
    <3>4. DescriptorOf(Len(found))' = d /\ Len(found') # 0
      BY <1>2, <1>10, <1>11, <3>1
    <3> QED
      BY <1>1, <3>1, <3>2, <3>3, <3>4 DEF ImportLoops
  <2>12. ~Done("imports")'
    BY <1>1, <2>8 DEF Done
  <2>13. Len(found') <= Cap["descriptor"]
    BY <1>1, <1>2, <1>3, <2>5, <2>6
  <2> QED
    BY <2>5, <2>10, <2>11, <2>12, <2>13 DEF ImportsInv
<1> QED
  BY <1>12, <1>13

LEMMA TwoLeft == ASSUME NEW a, NEW b PROVE Append(<<a>>, b) \o <<>> = <<a, b>>
<1>1. PICK s : s = Append(<<a>>, b)
  OBVIOUS
<1>2. <<a>> \in Seq({a, b}) /\ Len(<<a>>) = 1 /\ <<a>>[1] = a
  OBVIOUS
<1>3. s \in Seq({a, b}) /\ Len(s) = 2 /\ s[1] = a /\ s[2] = b
  BY <1>1, <1>2, Appended
<1>4. s = <<a, b>>
  BY <1>3
<1> QED
  BY <1>1, <1>3, <1>4, NotPushed

LEMMA SymbolsChanged ==
  ASSUME NEW r \in ModuleType, NEW v
  PROVE  [r EXCEPT !.symbols = v] = [name |-> r.name, symbols |-> v]
BY DEF ModuleType

\* A thunk is read.
LEMMA ThunkStep ==
  ASSUME TypeOK, ImportsInv, kind = "imports", Reading("thunk"), NEW t \in Thunks, Thunk(t)
  PROVE  ImportsInv'
<1>1. /\ Running("thunk") /\ tables # <<>> /\ Loop.of = "thunk" /\ Loop.i < Loop.n
      /\ outcome = "pending" /\ UNCHANGED <<kind, directory>>
  BY DEF Reading, Running
<1>2. /\ found \in Seq(ModuleType) /\ Len(found) <= Cap["descriptor"] /\ ImportLoops /\ Len(found) \in Nat
      /\ \A m \in 1 .. Len(found) :
           /\ ModuleListed(m, found[m])
           /\ m < Len(found) \/ Len(tables) # 2 => ThunksEnd(DescriptorOf(m), found[m].symbols)
  BY DEF ImportsInv
<1>3. PICK n : n = Len(found)
  OBVIOUS
<1>4. PICK d : d = DescriptorOf(n)
  OBVIOUS
<1>5. PICK row : row = found[n]
  OBVIOUS
<1>6. PICK len : len = Len(row.symbols)
  OBVIOUS
<1> DEFINE second == [of |-> "thunk", base |-> ThunkArray(d), i |-> len, n |-> Cap["thunk"]]
           next == [of |-> "thunk", base |-> ThunkArray(d), i |-> len + 1, n |-> Cap["thunk"]]
<1>7. /\ Len(tables) = 2 /\ Front(tables) = <<tables[1]>> /\ n \in Nat /\ n # 0
      /\ Loop = second /\ NextRva = ThunkRva(d, len + 1) /\ ThunkArray(d) # 0
  BY <1>1, <1>2, <1>3, <1>4, <1>5, <1>6, ImportLoop
<1>8. /\ n \in 1 .. n /\ n \in 1 .. Len(found) /\ row \in ModuleType
      /\ row.symbols \in Seq(SymbolType) /\ row.name \in Nat \cup {None} /\ len \in Nat
  <2>1. n \in 1 .. n /\ n \in 1 .. Len(found)
    BY <1>3, <1>7
  <2>2. row \in ModuleType
    BY <1>2, <1>5, <2>1
  <2>3. row.symbols \in Seq(SymbolType) /\ row.name \in Nat \cup {None}
    BY <2>2 DEF ModuleType
  <2> QED
    BY <1>6, <2>1, <2>2, <2>3
<1>9. PICK rva : rva = NextRva
  OBVIOUS
<1>10. Kept /\ Known("thunk", rva)' /\ Value("thunk", rva)' = t
  <2>1. PICK payload : Read("thunk", t, payload)
    BY DEF Thunk
  <2> QED
    BY <1>9, <2>1, ReadIsKnown
<1>11. PICK p : p = len + 1
  OBVIOUS
<1>12. ThunkRva(d, p)' = rva
  BY <1>7, <1>9, <1>10, <1>11, ThunksKept
<1>13. ASSUME NEW m \in 1 .. n
       PROVE  ModuleListed(m, found[m]) /\ (m < n => ThunksEnd(DescriptorOf(m), found[m].symbols))
  BY <1>2, <1>3
<1>14. ASSUME NEW m \in 1 .. n, NEW r, r = found[m]
       PROVE  ModuleListed(m, r)' /\ (m < n => ThunksEnd(DescriptorOf(m), r.symbols)')
  <2>1. ModuleListed(m, r) /\ (m < n => ThunksEnd(DescriptorOf(m), r.symbols))
    BY <1>13, <1>14
  <2>2. Known("descriptor", DescriptorRva(m))
    BY <2>1 DEF ModuleListed
  <2> QED
    BY <1>10, <2>1, <2>2, ModulesKept
<1>15. ModuleListed(n, row) /\ ModuleListed(n, row)' /\ DescriptorOf(n)' = d
  <2>1. ModuleListed(n, row)
    BY <1>5, <1>8, <1>13
  <2> QED
    BY <1>4, <1>10, <2>1, ModulesKept
<1>16. ThunksListed(d, row.symbols)' /\ ThunksListed(d, row.symbols)
  BY <1>4, <1>15 DEF ModuleListed
<1>17. ~Done("imports")' /\ outcome' = outcome
  <2>1. outcome' = outcome
    BY <1>1, <1>7 DEF Thunk, Leave, GoOn, GoOnAfter
  <2> QED
    BY <1>1, <2>1 DEF Done
<1>18. tables[1] = [of |-> "descriptor", base |-> directory.va, i |-> n, n |-> Cap["descriptor"]]
  BY <1>1, <1>2, <1>3 DEF ImportLoops
<1>19. CASE t.null
  <2>1. tables' = <<tables[1]>> /\ found' = found /\ Len(tables') = 1
    BY <1>7, <1>19 DEF Thunk, Leave
  <2>2. ThunksEnd(d, row.symbols)'
    BY <1>6, <1>10, <1>11, <1>12, <1>19 DEF ThunksEnd
  <2>3. ASSUME NEW m \in 1 .. Len(found')
        PROVE  ModuleListed(m, found[m])' /\ ThunksEnd(DescriptorOf(m), found[m].symbols)'
    <3>1. PICK r : r = found[m]
      OBVIOUS
    <3>2. found'[m] = r /\ m \in 1 .. n
      BY <1>3, <2>1, <3>1
    <3>3. CASE m = n
      <4>1. r = row
        BY <1>5, <3>1, <3>3
      <4> QED
        BY <1>15, <2>2, <3>2, <3>3, <4>1
    <3>4. CASE m # n
      <4>1. m < n
        BY <1>7, <3>2, <3>4
      <4> QED
        BY <1>14, <3>1, <3>2, <4>1
    <3> QED
      BY <3>3, <3>4
  <2>4. ImportLoops'
    <3>1. Len(found') = n /\ tables'[1] = tables[1]
      BY <1>3, <2>1
    <3> QED
      BY <1>1, <1>18, <2>1, <3>1 DEF ImportLoops
  <2> QED
    BY <1>2, <1>17, <2>1, <2>3, <2>4 DEF ImportsInv
<1>20. CASE ~t.null
  <2> DEFINE symbols == Append(row.symbols, Symbol(t))
             new == [name |-> row.name, symbols |-> symbols]
  <2>1. GoOn /\ found' = [found EXCEPT ![Len(found)].symbols = Append(@, Symbol(t))]
    BY <1>20 DEF Thunk
  <2>2. Symbol(t) \in SymbolType
    BY SymbolIsTyped
  <2>3. /\ symbols \in Seq(SymbolType) /\ Len(symbols) = p
        /\ \A j \in 1 .. len : symbols[j] = row.symbols[j]
        /\ symbols[p] = Symbol(t)
    BY <1>6, <1>8, <1>11, <2>2, Appended
  <2>4. [row EXCEPT !.symbols = Append(@, Symbol(t))] = new
    BY <1>8, SymbolsChanged
  <2>5. new \in ModuleType /\ new.symbols = symbols /\ new.name = row.name
    <3> HIDE DEF symbols
    <3> QED
      BY <1>8, <2>3 DEF ModuleType
  <2>6. found' = [found EXCEPT ![n] = new]
    BY <1>3, <1>5, <2>1, <2>4
  <2>7. PICK s : s = symbols
    OBVIOUS
  <2>8. PICK q : q = new
    OBVIOUS
  <2> HIDE DEF symbols, new
  <2>9. /\ found' \in Seq(ModuleType) /\ Len(found') = n /\ found'[n] = q
        /\ \A m \in 1 .. n : m # n => found'[m] = found[m]
    BY <1>2, <1>3, <1>8, <2>5, <2>6, <2>8
  <2>10. q.symbols = s /\ q.name = row.name /\ Len(s) = p /\ s[p] = Symbol(t)
         /\ \A j \in 1 .. len : s[j] = row.symbols[j]
    BY <2>3, <2>5, <2>7, <2>8
  <2>11. tables' = <<tables[1], next>>
    <3>1. [Loop EXCEPT !.i = @ + 1] = next
      BY <1>7
    <3> HIDE DEF next
    <3>2. tables' = Append(<<tables[1]>>, next) \o <<>>
      BY <1>7, <2>1, <3>1 DEF GoOn, GoOnAfter
    <3> QED
      BY <3>2, TwoLeft
  <2>12. ThunkListed(d, p, Symbol(t))'
    <3>1. Symbol(t)' = Symbol(t)
      BY <1>10, PlacesKept DEF Kept
    <3> QED
      BY <1>10, <1>12, <1>20, <3>1 DEF ThunkListed
  <2>13. ThunksListed(d, s)'
    <3>1. Len(s) <= Cap["thunk"]
      <4>1. Cap["thunk"] \in Nat
        BY SizeTypes DEF Entries
      <4>2. len < Cap["thunk"]
        BY <1>1, <1>7
      <4> QED
        BY <1>8, <1>11, <2>10, <4>1, <4>2
    <3>2. ASSUME NEW j \in 1 .. Len(s) PROVE ThunkListed(d, j, s[j])'
      <4>1. CASE j \in 1 .. len
        <5>1. ThunkListed(d, j, row.symbols[j])
          BY <1>6, <1>16, <4>1 DEF ThunksListed
        <5> QED
          BY <1>10, <2>10, <4>1, <5>1, ThunksKept
      <4>2. CASE j = p
        <5>1. PICK y : y = Symbol(t)
          OBVIOUS
        <5>2. Symbol(t)' = y
          BY <1>10, <5>1, PlacesKept DEF Kept
        <5>3. s[j] = y
          BY <2>10, <4>2, <5>1
        <5> QED
          BY <2>12, <4>2, <5>2, <5>3
      <4> QED
        BY <1>8, <1>11, <2>10, <4>1, <4>2
    <3> QED
      BY <1>7, <3>1, <3>2 DEF ThunksListed
  <2>14. ModuleListed(n, q)'
    BY <1>15, <2>10, <2>13 DEF ModuleListed
  <2>15. ASSUME NEW m \in 1 .. Len(found')
         PROVE  /\ ModuleListed(m, found[m])'
                /\ m < Len(found') \/ Len(tables') # 2 => ThunksEnd(DescriptorOf(m), found[m].symbols)'
    <3>1. Len(tables') = 2
      BY <2>11
    <3>2. CASE m = n
      <4>1. found'[m] = q /\ ~(m < Len(found'))
        BY <1>7, <2>9, <3>2
      <4> QED
        BY <2>14, <3>1, <3>2, <4>1
    <3>3. CASE m # n
      <4>1. PICK r : r = found[m]
        OBVIOUS
      <4>2. found'[m] = r /\ m \in 1 .. n /\ m < n
        BY <1>7, <2>9, <3>3, <4>1
      <4> QED
        BY <1>14, <3>1, <4>1, <4>2
    <3> QED
      BY <3>2, <3>3
  <2>16. ImportLoops'
    <3>1. Len(tables') = 2 /\ tables'[1] = tables[1] /\ tables'[2] = next
      <4> HIDE DEF next
      <4> QED
        BY <2>11
    <3>2. Len(found') = n /\ found'[n].symbols = s /\ Len(s) = len + 1
      BY <1>11, <2>9, <2>10
    <3>3. DescriptorOf(Len(found))' = d
      BY <1>15, <3>2
    <3> QED
      BY <1>1, <1>7, <1>18, <3>1, <3>2, <3>3 DEF ImportLoops
  <2> QED
    BY <1>2, <1>3, <1>17, <2>9, <2>15, <2>16 DEF ImportsInv
<1> QED
  BY <1>19, <1>20

\* A table of imports ends.
LEMMA ImportsTableEnds ==
  ASSUME TypeOK, ImportsInv, kind = "imports", EndOfTable
  PROVE  ImportsInv'
<1>1. /\ tables # <<>> /\ outcome = "pending" /\ Leave
      /\ UNCHANGED <<parserVars, kind, directory, found, content>>
  BY DEF EndOfTable
<1>2. /\ found \in Seq(ModuleType) /\ Len(found) <= Cap["descriptor"] /\ ImportLoops /\ Len(found) \in Nat
      /\ \A m \in 1 .. Len(found) :
           /\ ModuleListed(m, found[m])
           /\ m < Len(found) \/ Len(tables) # 2 => ThunksEnd(DescriptorOf(m), found[m].symbols)
  BY DEF ImportsInv
<1>3. Kept
  BY <1>1 DEF Kept
<1>4. PICK n : n = Len(found)
  OBVIOUS
<1>5. ASSUME NEW m \in 1 .. n, NEW r, r = found[m]
      PROVE  /\ ModuleListed(m, r)'
             /\ ThunksEnd(DescriptorOf(m), r.symbols) => ThunksEnd(DescriptorOf(m), r.symbols)'
  <2>1. ModuleListed(m, r)
    BY <1>2, <1>4, <1>5
  <2>2. Known("descriptor", DescriptorRva(m))
    BY <2>1 DEF ModuleListed
  <2> QED
    BY <1>3, <2>1, <2>2, ModulesKept
<1>6. Loop.of = "descriptor" \/ Loop.of = "thunk"
  BY <1>1, <1>2, ImportLoop
<1>7. Loop.i >= Loop.n \/ ~CanRead(Loop.of, NextRva)
  BY <1>6 DEF EndOfTable, HasCursor
<1>8. Cap["descriptor"] \in Nat /\ Cap["thunk"] \in Nat
  BY SizeTypes DEF Entries
<1>9. CASE Loop.of = "descriptor"
  <2>1. Len(tables) = 1 /\ Front(tables) = <<>> /\ Loop.i = n /\ Loop.n = Cap["descriptor"]
        /\ NextRva = DescriptorRva(n + 1)
    BY <1>1, <1>2, <1>4, <1>9, ImportLoop
  <2>2. tables' = <<>>
    BY <1>1, <2>1 DEF Leave
  <2>3. ModulesEnd(n)
    BY <1>2, <1>4, <1>7, <1>8, <1>9, <2>1 DEF ModulesEnd
  <2>4. ModulesEnd(n)'
    <3>1. DescriptorRva(n + 1)' = DescriptorRva(n + 1)
      <4>1. PICK p : p = n + 1
        OBVIOUS
      <4> QED
        BY <1>3, <4>1, ModulesKept
    <3>2. CanRead("descriptor", DescriptorRva(n + 1))' = CanRead("descriptor", DescriptorRva(n + 1))
      BY <1>1, <3>1, PlacesKept
    <3>3. ~(n < Cap["descriptor"] /\ CanRead("descriptor", DescriptorRva(n + 1)))
      BY <1>2, <1>4, <1>7, <1>8, <1>9, <2>1
    <3> QED
      BY <3>2, <3>3 DEF ModulesEnd
  <2>5. Len(found') = n
    BY <1>1, <1>4
  <2>6. \A m \in 1 .. Len(found') :
          ModuleListed(m, found[m])' /\ ThunksEnd(DescriptorOf(m), found[m].symbols)'
    BY <1>1, <1>2, <1>4, <1>5, <2>1
  <2>7. ImportLoops'
    BY <2>2 DEF ImportLoops
  <2>8. ModulesEnd(Len(found))'
    BY <2>4, <2>5
  <2> QED
    BY <1>1, <1>2, <2>2, <2>6, <2>7, <2>8 DEF ImportsInv
<1>10. CASE Loop.of = "thunk"
  <2>1. PICK d : d = DescriptorOf(n)
    OBVIOUS
  <2>2. PICK row : row = found[n]
    OBVIOUS
  <2>3. /\ Len(tables) = 2 /\ Front(tables) = <<tables[1]>> /\ n # 0 /\ ThunkArray(d) # 0
        /\ Loop.i = Len(row.symbols) /\ Loop.n = Cap["thunk"] /\ NextRva = ThunkRva(d, Len(row.symbols) + 1)
    BY <1>1, <1>2, <1>4, <1>10, <2>1, <2>2, ImportLoop
  <2>4. n \in 1 .. n /\ Len(row.symbols) \in Nat
    <3>1. n \in 1 .. n
      BY <1>2, <1>4, <2>3
    <3>2. row \in ModuleType
      BY <1>2, <1>4, <2>2, <3>1
    <3>3. row.symbols \in Seq(SymbolType)
      BY <3>2 DEF ModuleType
    <3> QED
      BY <3>1, <3>3
  <2>5. tables' = <<tables[1]>> /\ Len(tables') = 1 /\ outcome' = outcome
    BY <1>1, <2>3 DEF Leave
  <2>6. ThunksEnd(d, row.symbols)
    BY <1>7, <1>8, <1>10, <2>3, <2>4 DEF ThunksEnd
  <2>7. \A m \in 1 .. Len(found') :
          ModuleListed(m, found[m])' /\ ThunksEnd(DescriptorOf(m), found[m].symbols)'
    <3> SUFFICES ASSUME NEW m \in 1 .. Len(found')
                 PROVE  ModuleListed(m, found[m])' /\ ThunksEnd(DescriptorOf(m), found[m].symbols)'
      OBVIOUS
    <3>1. PICK r : r = found[m]
      OBVIOUS
    <3>2. m \in 1 .. n /\ found'[m] = r
      BY <1>1, <1>4, <3>1
    <3>3. ThunksEnd(DescriptorOf(m), r.symbols)
      <4>1. CASE m = n
        BY <2>1, <2>2, <2>6, <3>1, <4>1
      <4>2. CASE m # n
        <5>1. m < n
          BY <1>2, <1>4, <3>2, <4>2
        <5> QED
          BY <1>2, <1>4, <3>1, <3>2, <5>1
      <4> QED
        BY <4>1, <4>2
    <3> QED
      BY <1>5, <3>1, <3>2, <3>3
  <2>8. ImportLoops'
    <3>1. tables[1] = [of |-> "descriptor", base |-> directory.va, i |-> n, n |-> Cap["descriptor"]]
      BY <1>1, <1>2, <1>4 DEF ImportLoops
    <3>2. tables'[1] = tables[1] /\ Len(found') = n
      BY <1>1, <1>4, <2>5
    <3> QED
      BY <1>1, <2>5, <3>1, <3>2 DEF ImportLoops
  <2>9. ~Done("imports")'
    BY <1>1, <2>5 DEF Done
  <2> QED
    BY <1>1, <1>2, <2>7, <2>8, <2>9 DEF ImportsInv
<1> QED
  BY <1>6, <1>9, <1>10

\* The loop that runs says which steps there are.
LEMMA StepsOf ==
  ASSUME Parse
  PROVE  /\ Loop.of = "descriptor" => EndOfTable \/ (Reading("descriptor") /\ \E d \in Descriptors : Descriptor(d))
         /\ Loop.of = "thunk" => EndOfTable \/ (Reading("thunk") /\ \E t \in Thunks : Thunk(t))
         /\ Loop.of = "exports" => EndOfTable \/ Unreadable
           \/ (Reading("exports") /\ \E x \in ExportHeaders : ExportHeader(x))
         /\ Loop.of = "name" => EndOfTable \/ SkipName
           \/ (Reading("name") /\ \E rva \in Rvas, index \in Counts : Name(rva, index))
         /\ Loop.of = "function" => EndOfTable \/ (Reading("function") /\ \E f \in Rvas : Function(f))
         /\ Loop.of = "directory" => EndOfTable \/ (Reading("directory") /\ \E c \in Counts : ResourceDirectory(c))
         /\ Loop.of = "node" => EndOfTable \/ (Reading("node") /\ \E e \in Nodes : Node(e))
<1>1. \A of : Reading(of) => Loop.of = of
  BY DEF Reading, Running
<1>2. Unreadable => Loop.of \in {"exports", "tls"}
  BY DEF Unreadable, Running
<1>3. SkipName => Loop.of = "name"
  BY DEF SkipName, Running
<1>4. \A of : Loop.of # of => ~Reading(of)
  BY <1>1
<1>5. ASSUME Loop.of = "descriptor" 
      PROVE  EndOfTable \/ (Reading("descriptor") /\ \E d \in Descriptors : Descriptor(d))
  <2>1. /\ ~Reading("thunk") /\ ~Reading("exports") /\ ~Reading("name") /\ ~Reading("function")
        /\ ~Reading("directory") /\ ~Reading("node") /\ ~Reading("tls") /\ ~Reading("callback")
        /\ ~Reading("debug") /\ ~Reading("block") /\ ~Reading("certificate") /\ ~Unreadable
        /\ ~SkipName
    BY <1>2, <1>3, <1>4, <1>5
  <2> QED
    BY <2>1, Zenon DEF Parse
<1>6. ASSUME Loop.of = "thunk" PROVE EndOfTable \/ (Reading("thunk") /\ \E t \in Thunks : Thunk(t))
  <2>1. /\ ~Reading("descriptor") /\ ~Reading("exports") /\ ~Reading("name") /\ ~Reading("function")
        /\ ~Reading("directory") /\ ~Reading("node") /\ ~Reading("tls") /\ ~Reading("callback")
        /\ ~Reading("debug") /\ ~Reading("block") /\ ~Reading("certificate") /\ ~Unreadable
        /\ ~SkipName
    BY <1>2, <1>3, <1>4, <1>6
  <2> QED
    BY <2>1, Zenon DEF Parse
<1>7. ASSUME Loop.of = "exports" PROVE EndOfTable \/ Unreadable
           \/ (Reading("exports") /\ \E x \in ExportHeaders : ExportHeader(x))
  <2>1. /\ ~Reading("descriptor") /\ ~Reading("thunk") /\ ~Reading("name") /\ ~Reading("function")
        /\ ~Reading("directory") /\ ~Reading("node") /\ ~Reading("tls") /\ ~Reading("callback")
        /\ ~Reading("debug") /\ ~Reading("block") /\ ~Reading("certificate") /\ ~SkipName
    BY <1>2, <1>3, <1>4, <1>7
  <2> QED
    BY <2>1, Zenon DEF Parse
<1>8. ASSUME Loop.of = "name" PROVE EndOfTable \/ SkipName
           \/ (Reading("name") /\ \E rva \in Rvas, index \in Counts : Name(rva, index))
  <2>1. /\ ~Reading("descriptor") /\ ~Reading("thunk") /\ ~Reading("exports") /\ ~Reading("function")
        /\ ~Reading("directory") /\ ~Reading("node") /\ ~Reading("tls") /\ ~Reading("callback")
        /\ ~Reading("debug") /\ ~Reading("block") /\ ~Reading("certificate") /\ ~Unreadable
    BY <1>2, <1>3, <1>4, <1>8
  <2> QED
    BY <2>1, Zenon DEF Parse
<1>9. ASSUME Loop.of = "function" PROVE EndOfTable \/ (Reading("function") /\ \E f \in Rvas : Function(f))
  <2>1. /\ ~Reading("descriptor") /\ ~Reading("thunk") /\ ~Reading("exports") /\ ~Reading("name")
        /\ ~Reading("directory") /\ ~Reading("node") /\ ~Reading("tls") /\ ~Reading("callback")
        /\ ~Reading("debug") /\ ~Reading("block") /\ ~Reading("certificate") /\ ~Unreadable
        /\ ~SkipName
    BY <1>2, <1>3, <1>4, <1>9
  <2> QED
    BY <2>1, Zenon DEF Parse
<1>10. ASSUME Loop.of = "directory" 
      PROVE  EndOfTable \/ (Reading("directory") /\ \E c \in Counts : ResourceDirectory(c))
  <2>1. /\ ~Reading("descriptor") /\ ~Reading("thunk") /\ ~Reading("exports") /\ ~Reading("name")
        /\ ~Reading("function") /\ ~Reading("node") /\ ~Reading("tls") /\ ~Reading("callback")
        /\ ~Reading("debug") /\ ~Reading("block") /\ ~Reading("certificate") /\ ~Unreadable
        /\ ~SkipName
    BY <1>2, <1>3, <1>4, <1>10
  <2> QED
    BY <2>1, Zenon DEF Parse
<1>11. ASSUME Loop.of = "node" PROVE EndOfTable \/ (Reading("node") /\ \E e \in Nodes : Node(e))
  <2>1. /\ ~Reading("descriptor") /\ ~Reading("thunk") /\ ~Reading("exports") /\ ~Reading("name")
        /\ ~Reading("function") /\ ~Reading("directory") /\ ~Reading("tls") /\ ~Reading("callback")
        /\ ~Reading("debug") /\ ~Reading("block") /\ ~Reading("certificate") /\ ~Unreadable
        /\ ~SkipName
    BY <1>2, <1>3, <1>4, <1>11
  <2> QED
    BY <2>1, Zenon DEF Parse
<1> QED
  BY <1>5, <1>6, <1>7, <1>8, <1>9, <1>10, <1>11

LEMMA ImportsStep ==
  ASSUME TypesInv, ImportsInv, [Next]_vars
  PROVE  ImportsInv'
<1>1. TypeOK /\ ParserTypeOK /\ PhaseInv /\ LoopsInv
  BY DEF TypesInv, TypeOK
<1>2. CASE ParserNext /\ UNCHANGED dirVars
  <2>1. kind = "none" /\ kind' = kind
    BY <1>1, <1>2, ParserStep DEF PhaseInv, dirVars
  <2> QED
    BY <2>1 DEF ImportsInv
<1>3. ASSUME NEW k \in Kinds, NEW d \in Directories, Begin(k, d) PROVE ImportsInv'
  BY <1>3, ImportsBegin
<1>4. CASE Parse
  <2>1. tables # <<>> /\ UNCHANGED kind
    BY <1>1, <1>4, ParseChanges
  <2> SUFFICES ASSUME kind = "imports" PROVE ImportsInv'
    BY <2>1 DEF ImportsInv
  <2>2. Loop.of = "descriptor" \/ Loop.of = "thunk"
    <3>1. found \in Seq(ModuleType) /\ ImportLoops
      BY DEF ImportsInv
    <3> QED
      BY <1>1, <2>1, <3>1, ImportLoop
  <2>3. \/ EndOfTable
        \/ Reading("descriptor") /\ \E d \in Descriptors : Descriptor(d)
        \/ Reading("thunk") /\ \E t \in Thunks : Thunk(t)
    BY <1>4, <2>2, StepsOf
  <2> QED
    BY <1>1, <2>3, DescriptorStep, ThunkStep, ImportsTableEnds
<1>5. CASE UNCHANGED vars
  <2>1. UNCHANGED <<parserVars, kind, directory, tables, found, outcome, content>>
    BY <1>5 DEF vars, dirVars
  <2> SUFFICES ASSUME kind = "imports" PROVE ImportsInv'
    BY <2>1 DEF ImportsInv
  <2>2. /\ found \in Seq(ModuleType) /\ Len(found) <= Cap["descriptor"] /\ ImportLoops
        /\ \A m \in 1 .. Len(found) :
             /\ ModuleListed(m, found[m])
             /\ m < Len(found) \/ Len(tables) # 2 => ThunksEnd(DescriptorOf(m), found[m].symbols)
        /\ Done("imports") => ModulesEnd(Len(found)) /\ tables = <<>>
    BY DEF ImportsInv
  <2>3. Kept
    BY <2>1 DEF Kept
  <2>4. \A of, rva : Place(of, rva)' = Place(of, rva) /\ CanRead(of, rva)' = CanRead(of, rva)
        /\ \A m : DescriptorRva(m)' = DescriptorRva(m)
    BY <2>1, <2>3, PlacesKept, ModulesKept
  <2>5. \A m : DescriptorOf(m)' = DescriptorOf(m)
    BY <2>1, <2>4 DEF DescriptorOf, Value
  <2>6. ImportLoops'
    <3>1. DescriptorOf(Len(found))' = DescriptorOf(Len(found))
      BY <2>1, <2>5
    <3> QED
      BY <2>1, <2>2, <3>1 DEF ImportLoops
  <2>7. ASSUME NEW m \in 1 .. Len(found')
        PROVE  /\ ModuleListed(m, found[m])'
               /\ m < Len(found') \/ Len(tables') # 2 => ThunksEnd(DescriptorOf(m), found[m].symbols)'
    <3>1. PICK r : r = found[m]
      OBVIOUS
    <3>2. ModuleListed(m, r) /\ (m < Len(found) \/ Len(tables) # 2 => ThunksEnd(DescriptorOf(m), r.symbols))
      BY <2>1, <2>2, <3>1
    <3>3. Known("descriptor", DescriptorRva(m))
      BY <3>2 DEF ModuleListed
    <3>4. ModuleListed(m, r)' /\ (m < Len(found) \/ Len(tables) # 2 => ThunksEnd(DescriptorOf(m), r.symbols)')
      BY <2>3, <3>2, <3>3, ModulesKept
    <3> QED
      BY <2>1, <3>1, <3>4
  <2>8. Done("imports")' => ModulesEnd(Len(found))' /\ tables' = <<>>
    <3>1. Done("imports")' = Done("imports") 
      BY <2>1 DEF Done
    <3>2. \A n : ModulesEnd(n)' = ModulesEnd(n)
      BY <2>1, <2>4, <2>5 DEF ModulesEnd, Known
    <3>3. ModulesEnd(Len(found))' = ModulesEnd(Len(found))
      BY <2>1, <3>2
    <3> QED
      BY <2>1, <2>2, <3>1, <3>3
  <2> QED
    BY <2>1, <2>2, <2>6, <2>7, <2>8 DEF ImportsInv
<1> QED
  BY <1>2, <1>3, <1>4, <1>5 DEF Next

LEMMA ImportsMirror ==
  ASSUME TypeOK, ImportsInv, Done("imports")
  PROVE  ImportsMirrorFile
<1>1. /\ found \in Seq(ModuleType) /\ Len(found) <= Cap["descriptor"] /\ Len(found) \in Nat
      /\ \A m \in 1 .. Len(found) :
           /\ ModuleListed(m, found[m])
           /\ m < Len(found) \/ Len(tables) # 2 => ThunksEnd(DescriptorOf(m), found[m].symbols)
      /\ ModulesEnd(Len(found)) /\ tables = <<>>
  BY DEF ImportsInv, Done
<1>2. Len(tables) # 2
  BY <1>1
<1>3. EndsAfter("descriptor", directory.va, Cap["descriptor"], Len(found), IsTerminator)
  <2>1. ASSUME NEW i \in 0 .. Len(found) - 1
        PROVE  /\ CanRead("descriptor", SlotRva("descriptor", directory.va, i))
               /\ ~IsTerminator(Value("descriptor", SlotRva("descriptor", directory.va, i)))
    <3>1. i + 1 \in 1 .. Len(found) /\ (i + 1) - 1 = i
      BY <1>1
    <3>2. ModuleListed(i + 1, found[i + 1])
      BY <1>1, <3>1
    <3> QED
      BY <3>1, <3>2 DEF ModuleListed, Known, DescriptorOf, DescriptorRva
  <2>2. Len(found) < Cap["descriptor"] /\ CanRead("descriptor", SlotRva("descriptor", directory.va, Len(found)))
          => IsTerminator(Value("descriptor", SlotRva("descriptor", directory.va, Len(found))))
    <3>1. (Len(found) + 1) - 1 = Len(found)
      BY <1>1
    <3> QED
      BY <1>1, <3>1 DEF ModulesEnd, DescriptorOf, DescriptorRva
  <2> QED
    BY <1>1, <2>1, <2>2 DEF EndsAfter
<1>4. ASSUME NEW m \in 1 .. Len(found), NEW d, d = DescriptorOf(m), NEW symbols, symbols = found[m].symbols
      PROVE  /\ found[m].name = TextAt(d.name)
             /\ ThunkArray(d) = 0 => symbols = <<>>
             /\ ThunkArray(d) # 0 =>
                  /\ Len(symbols) <= Cap["thunk"]
                  /\ \A i \in 0 .. Len(symbols) - 1 :
                       /\ CanRead("thunk", SlotRva("thunk", ThunkArray(d), i))
                       /\ ~Value("thunk", SlotRva("thunk", ThunkArray(d), i)).null
                  /\ Len(symbols) < Cap["thunk"] /\ CanRead("thunk", SlotRva("thunk", ThunkArray(d), Len(symbols)))
                       => Value("thunk", SlotRva("thunk", ThunkArray(d), Len(symbols))).null
             /\ \A j \in 1 .. Len(symbols) :
                  symbols[j] = Symbol(Value("thunk", SlotRva("thunk", ThunkArray(d), j - 1)))
  <2>1. symbols \in Seq(SymbolType) /\ Len(symbols) \in Nat
    <3>1. found[m] \in ModuleType
      BY <1>1
    <3> QED
      BY <1>4, <3>1 DEF ModuleType
  <2>2. ModuleListed(m, found[m]) /\ ThunksEnd(d, symbols)
    BY <1>1, <1>2, <1>4
  <2>3. ThunksListed(d, symbols) /\ found[m].name = TextAt(d.name)
    BY <1>4, <2>2 DEF ModuleListed
  <2>4. /\ Len(symbols) <= Cap["thunk"] /\ (ThunkArray(d) = 0 => symbols = <<>>)
        /\ \A j \in 1 .. Len(symbols) : ThunkListed(d, j, symbols[j])
    BY <2>3 DEF ThunksListed
  <2>5. ASSUME NEW i \in 0 .. Len(symbols) - 1
        PROVE  /\ CanRead("thunk", SlotRva("thunk", ThunkArray(d), i))
               /\ ~Value("thunk", SlotRva("thunk", ThunkArray(d), i)).null
    <3>1. i + 1 \in 1 .. Len(symbols) /\ (i + 1) - 1 = i
      BY <2>1
    <3>2. ThunkListed(d, i + 1, symbols[i + 1])
      BY <2>4, <3>1
    <3> QED
      BY <3>1, <3>2 DEF ThunkListed, Known, ThunkRva
  <2>6. ThunkArray(d) # 0 /\ Len(symbols) < Cap["thunk"]
          /\ CanRead("thunk", SlotRva("thunk", ThunkArray(d), Len(symbols)))
          => Value("thunk", SlotRva("thunk", ThunkArray(d), Len(symbols))).null
    <3>1. (Len(symbols) + 1) - 1 = Len(symbols)
      BY <2>1
    <3> QED
      BY <2>2, <3>1 DEF ThunksEnd, ThunkRva
  <2>7. \A j \in 1 .. Len(symbols) :
          symbols[j] = Symbol(Value("thunk", SlotRva("thunk", ThunkArray(d), j - 1)))
    BY <2>4 DEF ThunkListed, ThunkRva
  <2> QED
    BY <2>3, <2>4, <2>5, <2>6, <2>7
<1> DEFINE Row(m, d, symbols) ==
      LET IsNull(t) == t.null IN
      /\ found[m].name = TextAt(d.name)
      /\ IF ThunkArray(d) = 0 THEN symbols = <<>>
         ELSE EndsAfter("thunk", ThunkArray(d), Cap["thunk"], Len(symbols), IsNull)
      /\ \A j \in 1 .. Len(symbols) :
           symbols[j] = Symbol(Value("thunk", SlotRva("thunk", ThunkArray(d), j - 1)))
<1>5. ASSUME NEW m \in 1 .. Len(found) PROVE Row(m, DescriptorOf(m), found[m].symbols)
  <2>1. PICK d : d = DescriptorOf(m)
    OBVIOUS
  <2>2. PICK symbols : symbols = found[m].symbols
    OBVIOUS
  <2>3. Row(m, d, symbols)
    <3>1. CASE ThunkArray(d) = 0
      BY <1>4, <2>1, <2>2, <3>1
    <3>2. CASE ThunkArray(d) # 0
      BY <1>4, <2>1, <2>2, <3>2 DEF EndsAfter
    <3> QED
      BY <3>1, <3>2
  <2> QED
    BY <2>1, <2>2, <2>3
<1> QED
  BY <1>3, <1>5 DEF ImportsMirrorFile, DescriptorOf, DescriptorRva

LEMMA HeaderTypes ==
  ASSUME NEW x \in ExportHeaders
  PROVE  /\ x.nameCount \in Nat /\ x.functionCount \in Nat /\ x.functionCount \in 0 .. RvaModulus - 1
         /\ x.names \in 0 .. RvaModulus - 1 /\ x.functions \in 0 .. RvaModulus - 1
BY FieldTypes DEF ExportHeaders

LEMMA ExportPlacesKept ==
  ASSUME Kept
  PROVE  /\ \A x, j : NameRva(x, j)' = NameRva(x, j) /\ FunctionRva(x, j)' = FunctionRva(x, j)
         /\ \A x, j : NameReadable(x, j)' <=> NameReadable(x, j)
         /\ \A f : InRegion(f)' = InRegion(f)
<1>1. UNCHANGED parserVars /\ UNCHANGED directory
  BY DEF Kept
<1>2. \A x, j : NameRva(x, j)' = NameRva(x, j) /\ FunctionRva(x, j)' = FunctionRva(x, j)
  BY <1>1, PlacesKept DEF NameRva, FunctionRva
<1>3. \A x, j : NameReadable(x, j)' <=> NameReadable(x, j)
  BY <1>1, <1>2, PlacesKept DEF NameReadable
<1>4. \A f : InRegion(f)' = InRegion(f)
  BY <1>1 DEF InRegion, RegionEnd
<1> QED
  BY <1>2, <1>3, <1>4

\* A name that was read, or cannot be, is of the same index afterwards.
LEMMA NameKept ==
  ASSUME Kept, NEW x, NEW j, NameReadable(x, j) => Known("name", NameRva(x, j))
  PROVE  /\ NameReadable(x, j) => Known("name", NameRva(x, j))'
         /\ \A index : IsNameOf(x, index, j)' <=> IsNameOf(x, index, j)
         /\ NameReadable(x, j) => Value("name", NameRva(x, j))' = Value("name", NameRva(x, j))
<1>1. PICK rva : rva = NameRva(x, j)
  OBVIOUS
<1>2. NameRva(x, j)' = rva
  BY <1>1, ExportPlacesKept
<1>3. NameReadable(x, j)' <=> NameReadable(x, j)
  BY ExportPlacesKept
<1>4. NameReadable(x, j) => Known("name", rva)' /\ Value("name", rva)' = Value("name", rva)
  BY <1>1, KnownKept
<1>5. PICK text : text = TextAt(Value("name", rva).rva)
  OBVIOUS
<1>6. NameReadable(x, j) => TextAt(Value("name", rva).rva)' = text
  BY <1>4, <1>5, PlacesKept DEF Kept
<1>7. ASSUME NEW index PROVE IsNameOf(x, index, j)' <=> IsNameOf(x, index, j)
  <2>1. IsNameOf(x, index, j) <=> NameReadable(x, j) /\ Value("name", rva).index = index /\ text # None
    BY <1>1, <1>5 DEF IsNameOf
  <2>2. IsNameOf(x, index, j)' <=> NameReadable(x, j)' /\ Value("name", rva)'.index = index
                                     /\ TextAt(Value("name", rva).rva)' # None
    BY <1>2 DEF IsNameOf
  <2> QED
    BY <1>3, <1>4, <1>6, <2>1, <2>2
<1> QED
  BY <1>1, <1>2, <1>4, <1>7

\* The name that goes with an index.
NameAt(x, index, j) ==
  IsNameOf(x, index, j) /\ names[index] = TextAt(Value("name", NameRva(x, j)).rva)

LEMMA NameAtKept ==
  ASSUME Kept, NEW x, NEW j, NameReadable(x, j) => Known("name", NameRva(x, j)),
         NEW index, NameAt(x, index, j), names'[index] = names[index]
  PROVE  NameAt(x, index, j)'
<1>1. NameReadable(x, j) /\ IsNameOf(x, index, j)
  BY DEF NameAt, IsNameOf
<1>2. IsNameOf(x, index, j)' /\ Value("name", NameRva(x, j))' = Value("name", NameRva(x, j))
  BY <1>1, NameKept
<1>3. PICK v : v = Value("name", NameRva(x, j))
  OBVIOUS
<1>4. TextAt(v.rva)' = TextAt(v.rva)
  BY PlacesKept DEF Kept
<1> QED
  BY <1>2, <1>3, <1>4 DEF NameAt

\* NamesListed, with the first n entries read.
LEMMA NamesListedDef ==
  ASSUME NEW x, NEW n
  PROVE  NamesListed(x, n) <=>
           /\ n \in 0 .. x.nameCount
           /\ \A j \in 0 .. n - 1 : NameReadable(x, j) => Known("name", NameRva(x, j))
           /\ \A index \in 0 .. RvaModulus - 1 :
                IF index \in DOMAIN names
                THEN \E j \in 0 .. n - 1 :
                       NameAt(x, index, j) /\ \A l \in 0 .. j - 1 : ~IsNameOf(x, index, l)
                ELSE \A j \in 0 .. n - 1 : ~IsNameOf(x, index, j)
BY DEF NamesListed, NameAt

LEMMA NamesKept ==
  ASSUME Kept, UNCHANGED names, NEW x, NEW n \in Nat, NamesListed(x, n)
  PROVE  NamesListed(x, n)'
<1>1. /\ n \in 0 .. x.nameCount
      /\ \A j \in 0 .. n - 1 : NameReadable(x, j) => Known("name", NameRva(x, j))
      /\ \A index \in 0 .. RvaModulus - 1 :
           IF index \in DOMAIN names
           THEN \E j \in 0 .. n - 1 :
                  NameAt(x, index, j) /\ \A l \in 0 .. j - 1 : ~IsNameOf(x, index, l)
           ELSE \A j \in 0 .. n - 1 : ~IsNameOf(x, index, j)
  BY NamesListedDef
<1>2. \A j \in 0 .. n - 1 : /\ (NameReadable(x, j) => Known("name", NameRva(x, j)))'
                            /\ \A index : IsNameOf(x, index, j)' <=> IsNameOf(x, index, j)
  BY <1>1, NameKept, ExportPlacesKept
<1>3. ASSUME NEW index \in 0 .. RvaModulus - 1
      PROVE  IF index \in DOMAIN names'
             THEN \E j \in 0 .. n - 1 :
                    NameAt(x, index, j)' /\ \A l \in 0 .. j - 1 : ~IsNameOf(x, index, l)'
             ELSE \A j \in 0 .. n - 1 : ~IsNameOf(x, index, j)'
  <2>1. CASE index \in DOMAIN names
    <3>1. PICK j \in 0 .. n - 1 : NameAt(x, index, j) /\ \A l \in 0 .. j - 1 : ~IsNameOf(x, index, l)
      BY <1>1, <2>1
    <3>2. NameAt(x, index, j)'
      BY <1>1, <3>1, NameAtKept
    <3>3. \A l \in 0 .. j - 1 : l \in 0 .. n - 1
      OBVIOUS
    <3> QED
      BY <1>2, <2>1, <3>1, <3>2, <3>3
  <2>2. CASE index \notin DOMAIN names
    BY <1>1, <1>2, <2>2
  <2> QED
    BY <2>1, <2>2
<1> QED
  BY <1>1, <1>2, <1>3, NamesListedDef DEF NamesListed, NameAt

\* One more name is read.
LEMMA OneMoreName ==
  ASSUME TypeOK, NEW x \in ExportHeaders, NEW n \in Nat, n < x.nameCount, NamesListed(x, n), Kept,
         NEW rva, NEW index, NameReadable(x, n),
         Known("name", NameRva(x, n))', Value("name", NameRva(x, n))' = [rva |-> rva, index |-> index],
         names' = Named(TextAt(rva), index)
  PROVE  NamesListed(x, n + 1)'
<1>1. /\ \A j \in 0 .. n - 1 : NameReadable(x, j) => Known("name", NameRva(x, j))
      /\ \A i \in 0 .. RvaModulus - 1 :
           IF i \in DOMAIN names
           THEN \E j \in 0 .. n - 1 :
                  NameAt(x, i, j) /\ \A l \in 0 .. j - 1 : ~IsNameOf(x, i, l)
           ELSE \A j \in 0 .. n - 1 : ~IsNameOf(x, i, j)
  BY NamesListedDef
<1>2. \A j \in 0 .. n - 1 : /\ (NameReadable(x, j) => Known("name", NameRva(x, j)))'
                            /\ \A i : IsNameOf(x, i, j)' <=> IsNameOf(x, i, j)
  BY <1>1, NameKept, ExportPlacesKept
<1>3. PICK text : text = TextAt(rva)
  OBVIOUS
<1>4. TextAt(rva)' = text
  BY <1>3, PlacesKept DEF Kept
<1>5. NameReadable(x, n)'
  BY ExportPlacesKept
<1>6. TextAt(Value("name", NameRva(x, n)).rva)' = text
  BY <1>4
<1>7. \A i : IsNameOf(x, i, n)' <=> index = i /\ text # None
  BY <1>5, <1>6 DEF IsNameOf
<1>8. /\ text = None \/ index \in DOMAIN names => names' = names
      /\ ~(text = None \/ index \in DOMAIN names) =>
           /\ DOMAIN names' = DOMAIN names \cup {index} /\ names'[index] = text
           /\ \A k \in DOMAIN names : names'[k] = names[k]
  BY <1>3 DEF Named
<1>9. n + 1 \in 0 .. x.nameCount /\ (n + 1) - 1 = n /\ 0 .. n = (0 .. n - 1) \cup {n} /\ x.nameCount \in Nat
  BY HeaderTypes
<1>10. \A j \in 0 .. (n + 1) - 1 : (NameReadable(x, j) => Known("name", NameRva(x, j)))'
  BY <1>2, <1>9
<1>11. ASSUME NEW i \in 0 .. RvaModulus - 1
       PROVE  IF i \in DOMAIN names'
              THEN \E j \in 0 .. (n + 1) - 1 :
                     NameAt(x, i, j)' /\ \A l \in 0 .. j - 1 : ~IsNameOf(x, i, l)'
              ELSE \A j \in 0 .. (n + 1) - 1 : ~IsNameOf(x, i, j)'
  <2>1. CASE i \in DOMAIN names
    <3>1. PICK j \in 0 .. n - 1 : NameAt(x, i, j) /\ \A l \in 0 .. j - 1 : ~IsNameOf(x, i, l)
      BY <1>1, <2>1
    <3>2. names'[i] = names[i] /\ i \in DOMAIN names'
      BY <1>8, <2>1
    <3>3. NameAt(x, i, j)'
      BY <1>1, <3>1, <3>2, NameAtKept
    <3>4. j \in 0 .. (n + 1) - 1 /\ \A l \in 0 .. j - 1 : l \in 0 .. n - 1
      OBVIOUS
    <3> QED
      BY <1>2, <3>1, <3>2, <3>3, <3>4
  <2>2. CASE i \notin DOMAIN names /\ i = index /\ text # None
    <3>1. i \in DOMAIN names' /\ names'[i] = text
      BY <1>8, <2>2
    <3>2. NameAt(x, i, n)'
      BY <1>6, <1>7, <2>2, <3>1 DEF NameAt
    <3>3. \A l \in 0 .. n - 1 : ~IsNameOf(x, i, l)'
      BY <1>1, <1>2, <2>2
    <3> QED
      BY <1>9, <3>1, <3>2, <3>3
  <2>3. CASE i \notin DOMAIN names /\ ~(i = index /\ text # None)
    <3>1. i \notin DOMAIN names'
      BY <1>8, <2>3
    <3>2. ~IsNameOf(x, i, n)'
      BY <1>7, <2>3
    <3>3. \A l \in 0 .. n - 1 : ~IsNameOf(x, i, l)'
      BY <1>1, <1>2, <2>3
    <3> QED
      BY <1>9, <3>1, <3>2, <3>3
  <2> QED
    BY <2>1, <2>2, <2>3
<1> QED
  BY <1>9, <1>10, <1>11 DEF NamesListed, NameAt

\* One more name cannot be read.
LEMMA OneNameLess ==
  ASSUME NEW x \in ExportHeaders, NEW n \in Nat, n < x.nameCount, NamesListed(x, n), Kept,
         UNCHANGED names, ~NameReadable(x, n)
  PROVE  NamesListed(x, n + 1)'
<1>1. NamesListed(x, n)'
  BY NamesKept
<1>2. ~NameReadable(x, n)' /\ \A i : ~IsNameOf(x, i, n)'
  BY ExportPlacesKept DEF IsNameOf
<1>3. n + 1 \in 0 .. x.nameCount /\ (n + 1) - 1 = n /\ 0 .. n = (0 .. n - 1) \cup {n}
  BY HeaderTypes
<1> QED
  BY <1>1, <1>2, <1>3 DEF NamesListed

\* A function that was read is listed as it was.
LEMMA FunctionKept ==
  ASSUME Kept, UNCHANGED names, NEW x, NEW r, Known("function", FunctionRva(x, r.index)), FunctionListed(x, r)
  PROVE  FunctionListed(x, r)'
<1>1. PICK rva : rva = FunctionRva(x, r.index)
  OBVIOUS
<1>2. FunctionRva(x, r.index)' = rva
  BY <1>1, ExportPlacesKept
<1>3. PICK f : f = Value("function", rva)
  OBVIOUS
<1>4. Value("function", rva)' = f
  BY <1>1, <1>3, KnownKept
<1>5. InRegion(f)' = InRegion(f) /\ TextAt(f)' = TextAt(f)
  BY ExportPlacesKept, PlacesKept DEF Kept
<1>6. NameOf(r.index)' = NameOf(r.index)
  BY DEF NameOf
<1>7. /\ f # 0 /\ r.forward = InRegion(f)
      /\ r.target = IF InRegion(f) THEN TextAt(f) ELSE f
      /\ r.name = NameOf(r.index)
  BY <1>1, <1>3 DEF FunctionListed
<1> QED
  BY <1>2, <1>4, <1>5, <1>6, <1>7 DEF FunctionListed

LEMMA FunctionsKept ==
  ASSUME Kept, UNCHANGED <<names, found>>, NEW x, NEW n \in Nat, FunctionsListed(x, n)
  PROVE  FunctionsListed(x, n)'
<1>1. /\ n \in 0 .. x.functionCount /\ found \in Seq(ExportType)
      /\ \A j \in 0 .. n - 1 : Known("function", FunctionRva(x, j))
      /\ \A m \in 1 .. Len(found) :
           /\ found[m].index \in 0 .. n - 1 /\ FunctionListed(x, found[m])
           /\ \A l \in 1 .. m - 1 : found[l].index < found[m].index
      /\ \A j \in 0 .. n - 1 :
           Value("function", FunctionRva(x, j)) # 0 => \E m \in 1 .. Len(found) : found[m].index = j
  BY DEF FunctionsListed
<1>2. ASSUME NEW j \in 0 .. n - 1
      PROVE  /\ Known("function", FunctionRva(x, j))'
             /\ Value("function", FunctionRva(x, j))' = Value("function", FunctionRva(x, j))
  <2>1. PICK rva : rva = FunctionRva(x, j)
    OBVIOUS
  <2>2. FunctionRva(x, j)' = rva
    BY <2>1, ExportPlacesKept
  <2>3. Known("function", rva)' /\ Value("function", rva)' = Value("function", rva)
    BY <1>1, <2>1, KnownKept
  <2> QED
    BY <2>1, <2>2, <2>3
<1>3. ASSUME NEW m \in 1 .. Len(found) PROVE FunctionListed(x, found[m])'
  <2>1. PICK r : r = found[m]
    OBVIOUS
  <2>2. Known("function", FunctionRva(x, r.index)) /\ FunctionListed(x, r)
    BY <1>1, <2>1
  <2>3. FunctionListed(x, r)'
    BY <2>2, FunctionKept
  <2>4. found'[m] = r
    BY <2>1
  <2> QED
    BY <2>3, <2>4
<1>4. found' = found
  OBVIOUS
<1> QED
  BY <1>1, <1>2, <1>3, <1>4 DEF FunctionsListed

\* One more function is read: an unused slot, or one that is listed.
LEMMA OneMoreFunction ==
  ASSUME TypeOK, NEW x \in ExportHeaders, NEW n \in Nat, n < x.functionCount, FunctionsListed(x, n), Kept,
         UNCHANGED names, NEW f \in Rvas,
         Known("function", FunctionRva(x, n))', Value("function", FunctionRva(x, n))' = f,
         NEW r, r = [index |-> n, name |-> NameOf(n), forward |-> InRegion(f),
                     target |-> IF InRegion(f) THEN TextAt(f) ELSE f],
         found' = IF f = 0 THEN found ELSE Append(found, r)
  PROVE  FunctionsListed(x, n + 1)'
<1>1. /\ n \in 0 .. x.functionCount /\ found \in Seq(ExportType) /\ Len(found) \in Nat
      /\ \A j \in 0 .. n - 1 : Known("function", FunctionRva(x, j))
      /\ \A m \in 1 .. Len(found) :
           /\ found[m].index \in 0 .. n - 1 /\ FunctionListed(x, found[m])
           /\ \A l \in 1 .. m - 1 : found[l].index < found[m].index
      /\ \A j \in 0 .. n - 1 :
           Value("function", FunctionRva(x, j)) # 0 => \E m \in 1 .. Len(found) : found[m].index = j
  BY DEF FunctionsListed
<1>2. x.functionCount \in Nat /\ n + 1 \in 0 .. x.functionCount /\ (n + 1) - 1 = n
      /\ 0 .. n = (0 .. n - 1) \cup {n}
  BY HeaderTypes
<1>3. ASSUME NEW j \in 0 .. n - 1
      PROVE  /\ Known("function", FunctionRva(x, j))'
             /\ Value("function", FunctionRva(x, j))' = Value("function", FunctionRva(x, j))
  <2>1. PICK rva : rva = FunctionRva(x, j)
    OBVIOUS
  <2>2. FunctionRva(x, j)' = rva
    BY <2>1, ExportPlacesKept
  <2>3. Known("function", rva)' /\ Value("function", rva)' = Value("function", rva)
    BY <1>1, <2>1, KnownKept
  <2> QED
    BY <2>1, <2>2, <2>3
<1>4. ASSUME NEW m \in 1 .. Len(found), NEW q, q = found[m] PROVE FunctionListed(x, q)'
  <2>1. Known("function", FunctionRva(x, q.index)) /\ FunctionListed(x, q)
    BY <1>1, <1>4
  <2> QED
    BY <2>1, FunctionKept
<1>5. r.index = n /\ r.name = NameOf(n) /\ r.forward = InRegion(f)
      /\ r.target = (IF InRegion(f) THEN TextAt(f) ELSE f)
  OBVIOUS
<1>6. f # 0 => FunctionListed(x, r)'
  <2>1. InRegion(f)' = InRegion(f) /\ TextAt(f)' = TextAt(f)
    BY ExportPlacesKept, PlacesKept DEF Kept
  <2>2. NameOf(n)' = NameOf(n)
    BY DEF NameOf
  <2> QED
    BY <1>5, <2>1, <2>2 DEF FunctionListed
<1>7. \A j \in 0 .. (n + 1) - 1 : Known("function", FunctionRva(x, j))'
  BY <1>2, <1>3
<1>8. CASE f = 0
  <2>1. found' = found
    BY <1>8
  <2>2. ASSUME NEW m \in 1 .. Len(found')
        PROVE  /\ found'[m].index \in 0 .. (n + 1) - 1 /\ FunctionListed(x, found[m])'
               /\ \A l \in 1 .. m - 1 : found'[l].index < found'[m].index
    <3>1. PICK q : q = found[m]
      OBVIOUS
    <3>2. m \in 1 .. Len(found) /\ found'[m] = q
      BY <2>1, <3>1
    <3>3. FunctionListed(x, q)'
      BY <1>4, <3>1, <3>2
    <3> QED
      BY <1>1, <1>2, <2>1, <3>2, <3>3
  <2>3. ASSUME NEW j \in 0 .. (n + 1) - 1, Value("function", FunctionRva(x, j))' # 0
        PROVE  \E m \in 1 .. Len(found') : found'[m].index = j
    <3>1. j \in 0 .. n - 1
      BY <1>2, <1>8, <2>3
    <3> QED
      BY <1>1, <1>3, <2>1, <2>3, <3>1
  <2> QED
    BY <1>1, <1>2, <1>7, <2>1, <2>2, <2>3 DEF FunctionsListed
<1>9. CASE f # 0
  <2>1. r \in ExportType
    <3>1. n \in Nat /\ InRegion(f) \in BOOLEAN /\ f \in Nat
      BY FieldTypes DEF InRegion
    <3>2. TextAt(f) \in Nat \cup {None}
      BY TextType
    <3>3. NameOf(n) \in Nat \cup {None}
      BY DEF NameOf, TypeOK
    <3>4. (IF InRegion(f) THEN TextAt(f) ELSE f) \in Nat \cup {None}
      BY <3>1, <3>2
    <3> QED
      BY <3>1, <3>3, <3>4 DEF ExportType
  <2>2. /\ found' \in Seq(ExportType) /\ Len(found') = Len(found) + 1
        /\ \A k \in 1 .. Len(found) : found'[k] = found[k]
        /\ found'[Len(found) + 1] = r
    BY <1>1, <1>9, <2>1, Appended
  <2>3. ASSUME NEW m \in 1 .. Len(found')
        PROVE  /\ found'[m].index \in 0 .. (n + 1) - 1 /\ FunctionListed(x, found[m])'
               /\ \A l \in 1 .. m - 1 : found'[l].index < found'[m].index
    <3>1. CASE m \in 1 .. Len(found)
      <4>1. PICK q : q = found[m]
        OBVIOUS
      <4>2. found'[m] = q
        BY <2>2, <3>1, <4>1
      <4>3. FunctionListed(x, q)'
        BY <1>4, <3>1, <4>1
      <4>4. \A l \in 1 .. m - 1 : found'[l] = found[l]
        BY <1>1, <2>2, <3>1
      <4> QED
        BY <1>1, <1>2, <3>1, <4>1, <4>2, <4>3, <4>4
    <3>2. CASE m = Len(found) + 1
      <4>1. found'[m] = r /\ r.index = n
        BY <1>5, <2>2, <3>2
      <4>2. \A l \in 1 .. m - 1 : l \in 1 .. Len(found) /\ found'[l] = found[l] /\ found[l].index \in 0 .. n - 1
        BY <1>1, <2>2, <3>2
      <4>3. \A l \in 1 .. m - 1 : found'[l].index < n
        BY <4>2
      <4> QED
        BY <1>2, <1>6, <1>9, <4>1, <4>3
    <3> QED
      BY <1>1, <2>2, <3>1, <3>2
  <2>4. ASSUME NEW j \in 0 .. (n + 1) - 1, Value("function", FunctionRva(x, j))' # 0
        PROVE  \E m \in 1 .. Len(found') : found'[m].index = j
    <3>1. CASE j \in 0 .. n - 1
      <4>1. PICK m \in 1 .. Len(found) : found[m].index = j
        BY <1>1, <1>3, <2>4, <3>1
      <4>2. m \in 1 .. Len(found') /\ found'[m] = found[m]
        BY <1>1, <2>2, <4>1
      <4> QED
        BY <4>1, <4>2
    <3>2. CASE j = n
      <4>1. Len(found) + 1 \in 1 .. Len(found')
        BY <1>1, <2>2
      <4> QED
        BY <1>5, <2>2, <3>2, <4>1
    <3> QED
      BY <1>2, <3>1, <3>2
  <2> QED
    BY <1>1, <1>2, <1>7, <2>2, <2>3, <2>4 DEF FunctionsListed
<1> QED
  BY <1>8, <1>9

LEMMA NoneListed ==
  ASSUME NEW x \in ExportHeaders
  PROVE  /\ FunctionsListed(x, 0) => found = <<>>
         /\ found' = <<>> => FunctionsListed(x, 0)'
<1>1. x.functionCount \in Nat
  BY HeaderTypes
<1>2. ASSUME FunctionsListed(x, 0) PROVE found = <<>>
  <2>1. found \in Seq(ExportType) /\ \A m \in 1 .. Len(found) : found[m].index \in 0 .. 0 - 1
    BY <1>2 DEF FunctionsListed
  <2>2. Len(found) \in Nat /\ \A m \in 1 .. Len(found) : FALSE
    BY <2>1
  <2>3. Len(found) = 0
    BY <2>2
  <2> QED
    BY <2>1, <2>3
<1>3. ASSUME found' = <<>> PROVE FunctionsListed(x, 0)'
  <2>1. found' \in Seq(ExportType) /\ Len(found') = 0 /\ 0 \in 0 .. x.functionCount
    BY <1>1, <1>3
  <2>2. /\ \A j \in 0 .. 0 - 1 : FALSE
        /\ \A m \in 1 .. Len(found') : FALSE
    BY <2>1
  <2> QED
    BY <2>1, <2>2 DEF FunctionsListed
<1> QED
  BY <1>2, <1>3

\* What ExportLoops says of the loop that runs.
LEMMA ExportLoop ==
  ASSUME TypeOK, tables # <<>>, NEW x, ExportLoops(x)
  PROVE  \/ /\ Len(tables) = 1 /\ Front(tables) = <<>> /\ Loop.of = "exports"
            /\ NextRva = directory.va /\ Loop.i = 0 /\ Loop.n = 1 /\ found = <<>> /\ names = <<>>
         \/ /\ x \in ExportHeaders /\ Known("exports", directory.va) /\ ordinals = x.ordinals
            /\ Len(tables) = 1 /\ Front(tables) = <<>> /\ Loop.of = "function"
            /\ Loop.base = x.functions /\ Loop.n = x.functionCount
            /\ NextRva = FunctionRva(x, Loop.i)
            /\ FunctionsListed(x, Loop.i) /\ NamesListed(x, x.nameCount)
         \/ /\ x \in ExportHeaders /\ Known("exports", directory.va) /\ ordinals = x.ordinals
            /\ Len(tables) = 2 /\ Front(tables) = <<tables[1]>> /\ Loop.of = "name"
            /\ tables[1].of = "function" /\ tables[1].base = x.functions /\ tables[1].n = x.functionCount
            /\ tables[1].i = 0 /\ found = <<>>
            /\ Loop.base = x.names /\ Loop.n = x.nameCount
            /\ NextRva = NameRva(x, Loop.i) /\ OrdinalRva(Loop.i) = IndexRva(x, Loop.i)
            /\ NamesListed(x, Loop.i)
<1>1. CASE /\ tables = <<[of |-> "exports", base |-> directory.va, i |-> 0, n |-> 1]>>
           /\ found = <<>> /\ names = <<>>
  <2>1. Len(tables) = 1 /\ tables[1] = [of |-> "exports", base |-> directory.va, i |-> 0, n |-> 1]
    BY <1>1
  <2>2. Loop = tables[1] /\ Front(tables) = <<>>
    BY <2>1, Stack
  <2>3. Loop.of = "exports" /\ Loop.base = directory.va /\ Loop.i = 0 /\ Loop.n = 1
    BY <2>1, <2>2
  <2>4. NextRva = directory.va
    <3>1. directory.va \in 0 .. RvaModulus - 1 /\ directory.va \in Nat
      BY FieldTypes DEF TypeOK
    <3>2. Width("exports") \in Nat
      BY WidthType DEF Entries
    <3>3. 0 * Width("exports") = 0
      BY <3>2
    <3>4. Wrap(0) = 0 /\ Wrap(directory.va + 0) = directory.va
      BY <3>1, WrapType, SizeTypes
    <3> QED
      BY <2>3, <3>3, <3>4 DEF NextRva, SlotRva, HasCursor
  <2> QED
    BY <1>1, <2>1, <2>2, <2>3, <2>4
<1>2. CASE /\ Len(tables) \in {1, 2} /\ Known("exports", directory.va) /\ x \in ExportHeaders
           /\ tables[1].of = "function" /\ tables[1].base = x.functions /\ tables[1].n = x.functionCount
           /\ FunctionsListed(x, tables[1].i) /\ ordinals = x.ordinals
           /\ Len(tables) = 1 => NamesListed(x, x.nameCount)
           /\ Len(tables) = 2 =>
                /\ tables[2].of = "name" /\ tables[2].base = x.names /\ tables[2].n = x.nameCount
                /\ tables[1].i = 0 /\ NamesListed(x, tables[2].i)
  <2>1. CASE Len(tables) = 1
    <3>1. Loop = tables[1] /\ Front(tables) = <<>>
      BY <2>1, Stack
    <3>2. NextRva = FunctionRva(x, Loop.i)
      BY <1>2, <3>1 DEF NextRva, FunctionRva
    <3> QED
      BY <1>2, <2>1, <3>1, <3>2
  <2>2. CASE Len(tables) = 2
    <3>1. Loop = tables[2] /\ Front(tables) = <<tables[1]>>
      BY <2>2, Stack
    <3>2. NextRva = NameRva(x, Loop.i) /\ OrdinalRva(Loop.i) = IndexRva(x, Loop.i)
      BY <1>2, <2>2, <3>1 DEF NextRva, NameRva, OrdinalRva, IndexRva
    <3>3. found = <<>>
      BY <1>2, <2>2, NoneListed
    <3> QED
      BY <1>2, <2>2, <3>1, <3>2, <3>3
  <2> QED
    BY <1>2, <2>1, <2>2
<1> QED
  BY <1>1, <1>2 DEF ExportLoops

LEMMA HeaderKept ==
  ASSUME Kept, Known("exports", directory.va), NEW x, x = Header
  PROVE  Known("exports", directory.va)' /\ Header' = x
<1>1. PICK rva : rva = directory.va
  OBVIOUS
<1>2. directory'.va = rva
  BY <1>1 DEF Kept
<1>3. Known("exports", rva)' /\ Value("exports", rva)' = x
  BY <1>1, KnownKept DEF Header
<1> QED
  BY <1>2, <1>3 DEF Header

LEMMA ExportsBegin ==
  ASSUME TypesInv, ExportsInv, NEW k \in Kinds, NEW d \in Directories, Begin(k, d)
  PROVE  ExportsInv'
<1>1. kind = "none" /\ kind' = k /\ directory' = d /\ UNCHANGED <<found, names>>
  BY DEF Begin
<1>2. found = <<>> /\ names = <<>> /\ outcome = "pending"
  BY <1>1 DEF TypesInv, PhaseInv, ExportsInv
<1>3. k # "none"
  BY DEF Kinds
<1> SUFFICES ASSUME k = "exports" PROVE ExportsInv'
  BY <1>1, <1>3 DEF ExportsInv
<1>4. CASE d.va = 0 \/ d.size = 0
  <2>1. outcome' = "ok" /\ ~Done("exports")'
    BY <1>1, <1>4 DEF Begin, Done
  <2> QED
    BY <1>1, <2>1 DEF ExportsInv
<1>5. CASE ~(d.va = 0 \/ d.size = 0)
  <2>1. tables' = <<[of |-> "exports", base |-> d.va, i |-> 0, n |-> 1]>> /\ outcome' = "pending"
    BY <1>2, <1>5 DEF Begin, Opening, Table
  <2>2. ~Done("exports")'
    BY <2>1 DEF Done
  <2>3. ASSUME NEW x PROVE ExportLoops(x)'
    BY <1>1, <1>2, <2>1 DEF ExportLoops
  <2> QED
    BY <1>1, <2>1, <2>2, <2>3 DEF ExportsInv
<1> QED
  BY <1>4, <1>5

\* The header is read.
LEMMA HeaderStep ==
  ASSUME TypeOK, ExportsInv, kind = "exports", Reading("exports"), NEW x \in ExportHeaders, ExportHeader(x)
  PROVE  ExportsInv'
<1>1. tables # <<>> /\ outcome = "pending" /\ Loop.of = "exports" /\ UNCHANGED <<kind, directory>>
  BY DEF Reading, Running
<1>2. NextRva = directory.va /\ found = <<>> /\ names = <<>>
  BY <1>1, ExportLoop DEF ExportsInv
<1>3. PICK rva : rva = NextRva
  OBVIOUS
<1>4. Kept /\ Known("exports", rva)' /\ Value("exports", rva)' = x
  BY <1>3, ReadIsKnown DEF ExportHeader
<1>5. Known("exports", directory.va)' /\ Header' = x
  BY <1>1, <1>2, <1>3, <1>4 DEF Header
<1>6. found' = <<>> /\ names' = <<>> /\ kind' = "exports"
  BY <1>1, <1>2 DEF ExportHeader
<1>7. CASE x.functionCount > Cap["function"] \/ x.nameCount > Cap["name"]
  <2>1. outcome' = "error"
    BY <1>7 DEF ExportHeader
  <2> QED
    BY <1>6, <2>1 DEF ExportsInv, Done
<1>8. CASE ~(x.functionCount > Cap["function"] \/ x.nameCount > Cap["name"])
  <2> DEFINE first == [of |-> "function", base |-> x.functions, i |-> 0, n |-> x.functionCount]
             second == [of |-> "name", base |-> x.names, i |-> 0, n |-> x.nameCount]
  <2>1. tables' = <<first, second>> /\ ordinals' = x.ordinals /\ outcome' = "pending"
    BY <1>1, <1>8 DEF ExportHeader, Table
  <2>2. /\ first.of = "function" /\ first.base = x.functions /\ first.i = 0 /\ first.n = x.functionCount
        /\ second.of = "name" /\ second.base = x.names /\ second.i = 0 /\ second.n = x.nameCount
    OBVIOUS
  <2> HIDE DEF first, second
  <2>3. Len(tables') = 2 /\ tables'[1] = first /\ tables'[2] = second
    BY <2>1
  <2>4. FunctionsListed(x, 0)'
    BY <1>6, NoneListed
  <2>5. NamesListed(x, 0)'
    <3>1. x.nameCount \in Nat
      BY HeaderTypes
    <3>2. 0 \in 0 .. x.nameCount /\ \A j \in 0 .. 0 - 1 : FALSE
      BY <3>1
    <3>3. DOMAIN names' = {}
      BY <1>6
    <3> QED
      BY <3>2, <3>3 DEF NamesListed
  <2>6. ExportLoops(x)'
    BY <1>5, <2>1, <2>2, <2>3, <2>4, <2>5 DEF ExportLoops
  <2>7. ~Done("exports")'
    BY <2>1 DEF Done
  <2> QED
    BY <1>5, <1>6, <2>6, <2>7 DEF ExportsInv
<1> QED
  BY <1>7, <1>8

\* What a loop has become that goes on.
LEMMA NextOf ==
  ASSUME TypeOK, tables # <<>>, GoOn, NEW next, next = [Loop EXCEPT !.i = @ + 1]
  PROVE  /\ next.of = Loop.of /\ next.base = Loop.base /\ next.n = Loop.n /\ next.i = Loop.i + 1
         /\ Front(tables) = <<>> => tables' = <<next>>
         /\ Front(tables) = <<tables[1]>> => tables' = <<tables[1], next>>
         /\ outcome' = outcome
<1>1. Loop \in LoopType
  BY LoopFacts
<1>2. next.of = Loop.of /\ next.base = Loop.base /\ next.n = Loop.n /\ next.i = Loop.i + 1
  BY <1>1 DEF LoopType
<1>3. tables' = Append(Front(tables), next) \o <<>> /\ outcome' = outcome
  BY DEF GoOn, GoOnAfter
<1> QED
  BY <1>2, <1>3, OneLeft, TwoLeft

\* A name was read or skipped.
LEMMA NamesGoOn ==
  ASSUME TypeOK, tables # <<>>, outcome = "pending", NEW x, x = Header, ExportLoops(x), Loop.of = "name",
         Kept, UNCHANGED <<kind, ordinals, found>>, kind = "exports", GoOn, NEW i, i = Loop.i + 1,
         NamesListed(x, i)'
  PROVE  ExportsInv'
<1>1. /\ x \in ExportHeaders /\ Known("exports", directory.va) /\ ordinals = x.ordinals
      /\ Len(tables) = 2 /\ Front(tables) = <<tables[1]>>
      /\ tables[1].of = "function" /\ tables[1].base = x.functions /\ tables[1].n = x.functionCount
      /\ tables[1].i = 0 /\ found = <<>>
      /\ Loop.base = x.names /\ Loop.n = x.nameCount
  BY ExportLoop
<1>2. PICK next : next = [Loop EXCEPT !.i = @ + 1]
  OBVIOUS
<1>3. /\ tables' = <<tables[1], next>> /\ outcome' = outcome
      /\ next.of = "name" /\ next.base = x.names /\ next.n = x.nameCount /\ next.i = Loop.i + 1
  BY <1>1, <1>2, NextOf
<1>4. Len(tables') = 2 /\ tables'[1] = tables[1] /\ tables'[2] = next
  BY <1>3
<1>5. Known("exports", directory.va)' /\ Header' = x
  BY <1>1, HeaderKept
<1>6. FunctionsListed(x, 0)'
  BY <1>1, NoneListed
<1>8. tables'[2].i = i
  BY <1>3, <1>4
<1>9. ExportLoops(x)'
  BY <1>1, <1>3, <1>4, <1>5, <1>6, <1>8 DEF ExportLoops
<1>10. ~Done("exports")'
  BY <1>3 DEF Done
<1> QED
  BY <1>5, <1>9, <1>10 DEF ExportsInv

\* A name is read.
LEMMA NameStep ==
  ASSUME TypeOK, ExportsInv, kind = "exports", Reading("name"),
         NEW rva \in Rvas, NEW index \in Counts, Name(rva, index)
  PROVE  ExportsInv'
<1>1. /\ tables # <<>> /\ outcome = "pending" /\ Loop.of = "name" /\ Loop.i < Loop.n
      /\ CanRead("name", NextRva) /\ UNCHANGED <<kind, directory>>
  BY DEF Reading, Running
<1>2. PICK x : x = Header
  OBVIOUS
<1>3. ExportLoops(x)
  BY <1>1, <1>2 DEF ExportsInv
<1>4. /\ x \in ExportHeaders /\ ordinals = x.ordinals /\ Loop.n = x.nameCount
      /\ NextRva = NameRva(x, Loop.i) /\ OrdinalRva(Loop.i) = IndexRva(x, Loop.i)
      /\ NamesListed(x, Loop.i)
  BY <1>1, <1>3, ExportLoop
<1>5. PICK i : i = Loop.i
  OBVIOUS
<1>6. PICK slot : slot = NextRva
  OBVIOUS
<1>7. PICK v : v = [rva |-> rva, index |-> index]
  OBVIOUS
<1>8. Kept /\ Known("name", slot)' /\ Value("name", slot)' = v
  BY <1>6, <1>7, ReadIsKnown DEF Name
<1>9. NameRva(x, i)' = slot
  BY <1>4, <1>5, <1>6, <1>8, ExportPlacesKept
<1>10. NameReadable(x, i)
  BY <1>1, <1>4, <1>5 DEF NameReadable, Name
<1>11. i \in Nat
  BY <1>1, <1>5, LoopFacts
<1>12. NamesListed(x, i + 1)'
  <2>1. Known("name", NameRva(x, i))' /\ Value("name", NameRva(x, i))' = [rva |-> rva, index |-> index]
    BY <1>7, <1>8, <1>9
  <2>2. names' = Named(TextAt(rva), index)
    BY DEF Name
  <2> QED
    BY <1>1, <1>4, <1>5, <1>8, <1>10, <1>11, <2>1, <2>2, OneMoreName
<1>13. PICK p : p = i + 1
  OBVIOUS
<1> QED
  BY <1>1, <1>2, <1>3, <1>5, <1>8, <1>12, <1>13, NamesGoOn DEF Name

\* A name is skipped.
LEMMA SkipStep ==
  ASSUME TypeOK, ExportsInv, kind = "exports", SkipName
  PROVE  ExportsInv'
<1>1. /\ tables # <<>> /\ outcome = "pending" /\ Loop.of = "name" /\ Loop.i < Loop.n
      /\ ~(CanRead("name", NextRva) /\ CanRead("ordinal", OrdinalRva(Loop.i)))
      /\ UNCHANGED <<parserVars, kind, directory, ordinals, names, found, content>>
  BY DEF SkipName, Running
<1>2. PICK x : x = Header
  OBVIOUS
<1>3. ExportLoops(x)
  BY <1>1, <1>2 DEF ExportsInv
<1>4. /\ x \in ExportHeaders /\ ordinals = x.ordinals /\ Loop.n = x.nameCount
      /\ NextRva = NameRva(x, Loop.i) /\ OrdinalRva(Loop.i) = IndexRva(x, Loop.i)
      /\ NamesListed(x, Loop.i)
  BY <1>1, <1>3, ExportLoop
<1>5. PICK i : i = Loop.i
  OBVIOUS
<1>6. Kept
  BY <1>1 DEF Kept
<1>7. ~NameReadable(x, i)
  BY <1>1, <1>4, <1>5 DEF NameReadable
<1>8. i \in Nat
  BY <1>1, <1>5, LoopFacts
<1>9. NamesListed(x, i + 1)'
  BY <1>1, <1>4, <1>5, <1>6, <1>7, <1>8, OneNameLess
<1>10. PICK p : p = i + 1
  OBVIOUS
<1> QED
  BY <1>1, <1>2, <1>3, <1>5, <1>6, <1>9, <1>10, NamesGoOn DEF SkipName

\* A function is read.
LEMMA FunctionStep ==
  ASSUME TypeOK, ExportsInv, kind = "exports", Reading("function"), NEW f \in Rvas, Function(f)
  PROVE  ExportsInv'
<1>1. /\ tables # <<>> /\ outcome = "pending" /\ Loop.of = "function" /\ Loop.i < Loop.n
      /\ UNCHANGED <<kind, directory>>
  BY DEF Reading, Running
<1>2. PICK x : x = Header
  OBVIOUS
<1>3. ExportLoops(x)
  BY <1>1, <1>2 DEF ExportsInv
<1>4. /\ x \in ExportHeaders /\ Known("exports", directory.va) /\ ordinals = x.ordinals
      /\ Front(tables) = <<>> /\ Loop.base = x.functions /\ Loop.n = x.functionCount
      /\ NextRva = FunctionRva(x, Loop.i)
      /\ FunctionsListed(x, Loop.i) /\ NamesListed(x, x.nameCount)
  BY <1>1, <1>3, ExportLoop
<1>5. PICK i : i = Loop.i
  OBVIOUS
<1>6. PICK slot : slot = NextRva
  OBVIOUS
<1>7. Kept /\ Known("function", slot)' /\ Value("function", slot)' = f
  BY <1>6, ReadIsKnown DEF Function
<1>8. FunctionRva(x, i)' = slot
  BY <1>4, <1>5, <1>6, <1>7, ExportPlacesKept
<1>9. i \in Nat
  BY <1>1, <1>5, LoopFacts
<1>10. GoOn /\ UNCHANGED <<ordinals, names>>
  BY DEF Function, Unnamed
<1>11. FunctionsListed(x, i + 1)'
  <2>1. PICK r : r = [index |-> i, name |-> NameOf(i), forward |-> InRegion(f),
                      target |-> IF InRegion(f) THEN TextAt(f) ELSE f]
    OBVIOUS
  <2>2. found' = IF f = 0 THEN found ELSE Append(found, r)
    BY <1>5, <2>1 DEF Function, Add
  <2>3. Known("function", FunctionRva(x, i))' /\ Value("function", FunctionRva(x, i))' = f
    BY <1>7, <1>8
  <2> QED
    BY <1>1, <1>4, <1>5, <1>7, <1>9, <1>10, <2>1, <2>2, <2>3, OneMoreFunction
<1>12. NamesListed(x, x.nameCount)'
  BY <1>4, <1>7, <1>10, NamesKept, HeaderTypes
<1>13. Known("exports", directory.va)' /\ Header' = x
  BY <1>2, <1>4, <1>7, HeaderKept
<1>14. PICK next : next = [Loop EXCEPT !.i = @ + 1]
  OBVIOUS
<1>15. /\ tables' = <<next>> /\ outcome' = outcome
       /\ next.of = "function" /\ next.base = x.functions /\ next.n = x.functionCount /\ next.i = i + 1
  BY <1>1, <1>4, <1>5, <1>10, <1>14, NextOf
<1>16. Len(tables') = 1 /\ tables'[1] = next
  BY <1>15
<1>17. PICK p : p = i + 1
  OBVIOUS
<1>18. FunctionsListed(x, p)' /\ tables'[1].i = p
  BY <1>11, <1>15, <1>16, <1>17
<1>19. ExportLoops(x)'
  BY <1>4, <1>10, <1>12, <1>13, <1>15, <1>16, <1>18 DEF ExportLoops
<1>20. ~Done("exports")'
  BY <1>1, <1>15 DEF Done
<1> QED
  BY <1>1, <1>13, <1>19, <1>20 DEF ExportsInv

\* A table of exports ends.
LEMMA ExportsTableEnds ==
  ASSUME TypeOK, ExportsInv, kind = "exports", EndOfTable
  PROVE  ExportsInv'
<1>1. /\ tables # <<>> /\ outcome = "pending" /\ Leave
      /\ UNCHANGED <<parserVars, kind, directory, ordinals, names, found, content>>
  BY DEF EndOfTable
<1>2. PICK x : x = Header
  OBVIOUS
<1>3. ExportLoops(x)
  BY <1>1, <1>2 DEF ExportsInv
<1>4. Kept
  BY <1>1 DEF Kept
<1>5. Loop.of \in {"exports", "name", "function"}
  BY <1>1, <1>3, ExportLoop
<1>6. Loop.i >= Loop.n \/ (Loop.of = "function" /\ ~CanRead("function", NextRva))
  BY <1>5 DEF EndOfTable, HasCursor
<1>7. Loop.i \in Nat /\ Loop.n \in Nat
  BY <1>1, LoopFacts
<1>8. CASE Loop.of = "exports"
  BY <1>1, <1>3, <1>6, <1>8, ExportLoop
<1>9. CASE Loop.of = "name"
  <2>1. /\ x \in ExportHeaders /\ Known("exports", directory.va) /\ ordinals = x.ordinals
        /\ Len(tables) = 2 /\ Front(tables) = <<tables[1]>>
        /\ tables[1].of = "function" /\ tables[1].base = x.functions /\ tables[1].n = x.functionCount
        /\ tables[1].i = 0 /\ found = <<>> /\ Loop.n = x.nameCount /\ NamesListed(x, Loop.i)
    BY <1>1, <1>3, <1>9, ExportLoop
  <2>2. Known("exports", directory.va)' /\ Header' = x
    BY <1>2, <1>4, <2>1, HeaderKept
  <2>3. tables' = <<tables[1]>> /\ outcome' = outcome
    BY <1>1, <2>1 DEF Leave
  <2>4. Len(tables') = 1 /\ tables'[1] = tables[1]
    BY <2>3
  <2>5. Loop.i = x.nameCount
    <3>1. Loop.i \in 0 .. x.nameCount /\ x.nameCount \in Nat
      BY <2>1, HeaderTypes DEF NamesListed
    <3> QED
      BY <1>6, <1>9, <2>1, <3>1
  <2>6. NamesListed(x, x.nameCount)'
    BY <1>1, <1>4, <2>1, <2>5, NamesKept, HeaderTypes
  <2>7. FunctionsListed(x, 0)'
    BY <1>1, <2>1, NoneListed
  <2>8. ExportLoops(x)'
    BY <1>1, <2>1, <2>2, <2>4, <2>6, <2>7 DEF ExportLoops
  <2>9. ~Done("exports")'
    BY <1>1, <2>3 DEF Done
  <2> QED
    BY <1>1, <2>2, <2>8, <2>9 DEF ExportsInv
<1>10. CASE Loop.of = "function"
  <2>1. /\ x \in ExportHeaders /\ Known("exports", directory.va)
        /\ Len(tables) = 1 /\ Loop.n = x.functionCount /\ NextRva = FunctionRva(x, Loop.i)
        /\ FunctionsListed(x, Loop.i) /\ NamesListed(x, x.nameCount)
    BY <1>1, <1>3, <1>10, ExportLoop
  <2>2. Known("exports", directory.va)' /\ Header' = x
    BY <1>2, <1>4, <2>1, HeaderKept
  <2>3. outcome' = "ok"
    BY <1>1, <2>1 DEF Leave
  <2>4. NamesListed(x, x.nameCount)'
    BY <1>1, <1>4, <2>1, NamesKept, HeaderTypes
  <2>5. PICK n : n = Loop.i
    OBVIOUS
  <2>6. FunctionsListed(x, n)'
    BY <1>1, <1>4, <1>7, <2>1, <2>5, FunctionsKept
  <2>7. n \in 0 .. x.functionCount /\ (n = x.functionCount \/ ~CanRead("function", FunctionRva(x, n)))
    <3>1. n \in 0 .. x.functionCount /\ x.functionCount \in Nat
      BY <2>1, <2>5, HeaderTypes DEF FunctionsListed
    <3> QED
      BY <1>6, <1>10, <2>1, <2>5, <3>1
  <2>8. n = x.functionCount \/ ~CanRead("function", FunctionRva(x, n))'
    <3>1. FunctionRva(x, n)' = FunctionRva(x, n)
      BY <1>4, ExportPlacesKept
    <3>2. CanRead("function", FunctionRva(x, n))' = CanRead("function", FunctionRva(x, n))
      BY <1>1, <3>1, PlacesKept
    <3> QED
      BY <2>7, <3>2
  <2>9. ExportsEnd(x)'
    BY <2>1, <2>2, <2>4, <2>6, <2>7, <2>8 DEF ExportsEnd
  <2> QED
    BY <1>1, <2>2, <2>3, <2>9 DEF ExportsInv
<1> QED
  BY <1>5, <1>8, <1>9, <1>10

\* Nothing changes.
LEMMA ExportsStutter ==
  ASSUME TypeOK, ExportsInv, kind = "exports",
         UNCHANGED <<parserVars, kind, directory, tables, ordinals, names, found, outcome, content>>
  PROVE  ExportsInv'
<1>1. Kept
  BY DEF Kept
<1>2. PICK x : x = Header
  OBVIOUS
<1>3. ASSUME outcome = "pending" PROVE ExportLoops(Header)'
  <2>1. ExportLoops(x)
    BY <1>2, <1>3 DEF ExportsInv
  <2>2. CASE /\ tables = <<[of |-> "exports", base |-> directory.va, i |-> 0, n |-> 1]>>
             /\ found = <<>> /\ names = <<>>
    <3>1. \A y : ExportLoops(y)'
      BY <2>2 DEF ExportLoops
    <3> QED
      BY <3>1
  <2>3. CASE ~(/\ tables = <<[of |-> "exports", base |-> directory.va, i |-> 0, n |-> 1]>>
               /\ found = <<>> /\ names = <<>>)
    <3>1. /\ Len(tables) \in {1, 2} /\ Known("exports", directory.va) /\ x \in ExportHeaders
          /\ tables[1].of = "function" /\ tables[1].base = x.functions /\ tables[1].n = x.functionCount
          /\ FunctionsListed(x, tables[1].i) /\ ordinals = x.ordinals
          /\ Len(tables) = 1 => NamesListed(x, x.nameCount)
          /\ Len(tables) = 2 =>
               /\ tables[2].of = "name" /\ tables[2].base = x.names /\ tables[2].n = x.nameCount
               /\ tables[1].i = 0 /\ NamesListed(x, tables[2].i)
      BY <2>1, <2>3 DEF ExportLoops
    <3>2. Known("exports", directory.va)' /\ Header' = x
      BY <1>1, <1>2, <3>1, HeaderKept
    <3>3. /\ Len(tables) = 1 => tables[1].i \in Nat
          /\ Len(tables) = 2 => tables[1].i \in Nat /\ tables[2].i \in Nat
      <4>1. tables \in Seq(LoopType)
        BY DEF TypeOK, LoopType
      <4>2. \A k \in 1 .. Len(tables) : tables[k] \in LoopType
        BY <4>1
      <4>3. \A k \in 1 .. Len(tables) : tables[k].i \in Nat
        BY <4>2 DEF LoopType
      <4> QED
        BY <4>3
    <3>4. PICK i : i = tables[1].i
      OBVIOUS
    <3>5. PICK j : j = tables[2].i
      OBVIOUS
    <3>6. FunctionsListed(x, i)' /\ tables'[1].i = i
      BY <1>1, <3>1, <3>3, <3>4, FunctionsKept
    <3>7. Len(tables) = 1 => NamesListed(x, x.nameCount)'
      BY <1>1, <3>1, NamesKept, HeaderTypes
    <3>8. (Len(tables) = 2 => NamesListed(x, j)') /\ tables'[2].i = j
      BY <1>1, <3>1, <3>3, <3>5, NamesKept
    <3>9. ExportLoops(x)'
      BY <3>1, <3>2, <3>6, <3>7, <3>8 DEF ExportLoops
    <3> QED
      BY <3>2, <3>9
  <2> QED
    BY <2>2, <2>3
<1>4. ASSUME Done("exports") PROVE ExportsEnd(Header)'
  <2>1. ExportsEnd(x)
    BY <1>2, <1>4 DEF ExportsInv
  <2>2. Known("exports", directory.va) /\ x \in ExportHeaders /\ NamesListed(x, x.nameCount)
    BY <2>1 DEF ExportsEnd
  <2>3. PICK n \in 0 .. x.functionCount :
          FunctionsListed(x, n) /\ (n = x.functionCount \/ ~CanRead("function", FunctionRva(x, n)))
    BY <2>1 DEF ExportsEnd
  <2>4. Known("exports", directory.va)' /\ Header' = x
    BY <1>1, <1>2, <2>2, HeaderKept
  <2>5. NamesListed(x, x.nameCount)' /\ FunctionsListed(x, n)'
    BY <1>1, <2>2, <2>3, NamesKept, FunctionsKept, HeaderTypes
  <2>6. n = x.functionCount \/ ~CanRead("function", FunctionRva(x, n))'
    <3>1. FunctionRva(x, n)' = FunctionRva(x, n)
      BY <1>1, ExportPlacesKept
    <3>2. CanRead("function", FunctionRva(x, n))' = CanRead("function", FunctionRva(x, n))
      BY <3>1, PlacesKept
    <3> QED
      BY <2>3, <3>2
  <2>7. ExportsEnd(x)'
    BY <2>2, <2>3, <2>4, <2>5, <2>6 DEF ExportsEnd
  <2> QED
    BY <2>4, <2>7
<1>5. Done("exports")' = Done("exports")
  BY DEF Done
<1> QED
  BY <1>3, <1>4, <1>5 DEF ExportsInv

LEMMA ExportsStep ==
  ASSUME TypesInv, ExportsInv, [Next]_vars
  PROVE  ExportsInv'
<1>1. TypeOK /\ ParserTypeOK /\ PhaseInv /\ LoopsInv
  BY DEF TypesInv, TypeOK
<1>2. CASE ParserNext /\ UNCHANGED dirVars
  <2>1. kind = "none" /\ kind' = kind /\ UNCHANGED names
    BY <1>1, <1>2, ParserStep DEF PhaseInv, dirVars
  <2> QED
    BY <2>1 DEF ExportsInv
<1>3. ASSUME NEW k \in Kinds, NEW d \in Directories, Begin(k, d) PROVE ExportsInv'
  BY <1>3, ExportsBegin
<1>4. CASE Parse
  <2>1. tables # <<>> /\ outcome = "pending" /\ UNCHANGED kind
    BY <1>1, <1>4, ParseChanges
  <2>2. kind # "none"
    BY <1>1, <2>1 DEF PhaseInv
  <2> SUFFICES ASSUME kind = "exports" PROVE ExportsInv'
    BY <2>1, <2>2 DEF ExportsInv
  <2>3. Loop.of \in {"exports", "name", "function"}
    <3>1. ExportLoops(Header)
      BY <2>1 DEF ExportsInv
    <3> QED
      BY <1>1, <2>1, <3>1, ExportLoop
  <2>4. \/ EndOfTable \/ SkipName \/ Unreadable
        \/ Reading("exports") /\ \E x \in ExportHeaders : ExportHeader(x)
        \/ Reading("name") /\ \E rva \in Rvas, index \in Counts : Name(rva, index)
        \/ Reading("function") /\ \E f \in Rvas : Function(f)
    BY <1>4, <2>3, StepsOf
  <2>5. CASE Unreadable
    <3>1. outcome' = "error"
      BY <2>5 DEF Unreadable
    <3> QED
      BY <2>1, <3>1 DEF ExportsInv, Done
  <2> QED
    BY <1>1, <2>4, <2>5, HeaderStep, NameStep, SkipStep, FunctionStep, ExportsTableEnds
<1>5. CASE UNCHANGED vars
  <2>1. UNCHANGED <<parserVars, kind, directory, tables, ordinals, names, found, outcome, content>>
    BY <1>5 DEF vars, dirVars
  <2>2. CASE kind = "exports"
    BY <1>1, <2>1, <2>2, ExportsStutter
  <2>3. CASE kind # "exports"
    BY <2>1, <2>3 DEF ExportsInv
  <2> QED
    BY <2>2, <2>3
<1> QED
  BY <1>2, <1>3, <1>4, <1>5 DEF Next

LEMMA ExportsMirror ==
  ASSUME TypeOK, ExportsInv, Done("exports")
  PROVE  ExportsMirrorFile
<1> DEFINE x == Header
<1>1. ExportsEnd(x)
  BY DEF ExportsInv, Done
<1>2. x \in ExportHeaders /\ NamesListed(x, x.nameCount)
  BY <1>1 DEF ExportsEnd
<1>3. PICK n \in 0 .. x.functionCount :
        FunctionsListed(x, n) /\ (n = x.functionCount \/ ~CanRead("function", FunctionRva(x, n)))
  BY <1>1 DEF ExportsEnd
<1> HIDE DEF x
<1>4. /\ found \in Seq(ExportType)
      /\ \A j \in 0 .. n - 1 : Known("function", FunctionRva(x, j))
      /\ \A m \in 1 .. Len(found) :
           /\ found[m].index \in 0 .. n - 1 /\ FunctionListed(x, found[m])
           /\ \A l \in 1 .. m - 1 : found[l].index < found[m].index
      /\ \A j \in 0 .. n - 1 :
           Value("function", FunctionRva(x, j)) # 0 => \E m \in 1 .. Len(found) : found[m].index = j
  BY <1>3 DEF FunctionsListed
<1>5. x.functionCount \in Nat /\ x.functionCount \in 0 .. RvaModulus - 1 /\ x.nameCount \in Nat /\ n \in Nat
      /\ RvaModulus \in Nat
  BY <1>2, <1>3, HeaderTypes, SizeTypes
<1> DEFINE Listed == {k \in 0 .. x.functionCount - 1 :
                        /\ \A j \in 0 .. k : CanRead("function", FunctionRva(x, j))
                        /\ Value("function", FunctionRva(x, k)) # 0}
<1>6. {found[m].index : m \in 1 .. Len(found)} = Listed
  <2>1. ASSUME NEW m \in 1 .. Len(found) PROVE found[m].index \in Listed
    <3>1. found[m].index \in 0 .. n - 1 /\ Value("function", FunctionRva(x, found[m].index)) # 0
      BY <1>4 DEF FunctionListed
    <3>2. found[m].index \in 0 .. x.functionCount - 1 /\ \A j \in 0 .. found[m].index : j \in 0 .. n - 1
      BY <1>5, <3>1
    <3>3. \A j \in 0 .. n - 1 : CanRead("function", FunctionRva(x, j))
      BY <1>4 DEF Known
    <3> QED
      BY <3>1, <3>2, <3>3
  <2>2. ASSUME NEW k \in Listed PROVE \E m \in 1 .. Len(found) : found[m].index = k
    <3>1. k \in 0 .. n - 1
      BY <1>3, <1>5
    <3> QED
      BY <1>4, <3>1
  <2> QED
    BY <2>1, <2>2
<1>7. ASSUME NEW index \in 0 .. n - 1, NEW own, own = {j \in 0 .. x.nameCount - 1 : IsNameOf(x, index, j)}
      PROVE  NameOf(index) = IF own = {} THEN None
                             ELSE TextAt(Value("name", NameRva(x, FirstOf(own))).rva)
  <2>1. index \in 0 .. RvaModulus - 1
    BY <1>5
  <2>2. IF index \in DOMAIN names
        THEN \E j \in 0 .. x.nameCount - 1 :
               NameAt(x, index, j) /\ \A l \in 0 .. j - 1 : ~IsNameOf(x, index, l)
        ELSE \A j \in 0 .. x.nameCount - 1 : ~IsNameOf(x, index, j)
    BY <1>2, <1>5, <2>1, NamesListedDef
  <2>3. CASE index \in DOMAIN names
    <3>1. PICK j \in 0 .. x.nameCount - 1 :
            NameAt(x, index, j) /\ \A l \in 0 .. j - 1 : ~IsNameOf(x, index, l)
      BY <2>2, <2>3
    <3>2. j \in own
      BY <1>7, <3>1 DEF NameAt
    <3>3. ASSUME NEW k \in own PROVE j <= k
      <4>1. k \in 0 .. x.nameCount - 1 /\ IsNameOf(x, index, k)
        BY <1>7, <3>3
      <4> QED
        BY <1>5, <3>1, <4>1
    <3>4. FirstOf(own) = j
      <4>1. \E i \in own : \A k \in own : i <= k
        BY <3>2, <3>3
      <4>2. FirstOf(own) \in own /\ \A k \in own : FirstOf(own) <= k
        BY <4>1 DEF FirstOf
      <4>3. FirstOf(own) \in Nat /\ j \in Nat
        BY <1>5, <1>7, <4>2
      <4> QED
        BY <3>2, <3>3, <4>2, <4>3
    <3> QED
      BY <2>3, <3>1, <3>2, <3>4 DEF NameAt, NameOf
  <2>4. CASE index \notin DOMAIN names
    <3>1. own = {}
      BY <1>7, <2>2, <2>4
    <3> QED
      BY <2>4, <3>1 DEF NameOf
  <2> QED
    BY <2>3, <2>4
<1>8. \A index : NamesOf(x, index) = {j \in 0 .. x.nameCount - 1 : IsNameOf(x, index, j)}
  BY DEF NamesOf, IsNameOf, NameReadable, NameRva, IndexRva
<1>9. ASSUME NEW m \in 1 .. Len(found)
      PROVE  LET f == Value("function", FunctionRva(x, found[m].index))
                 own == NamesOf(x, found[m].index)
             IN /\ \A l \in 1 .. m - 1 : found[l].index < found[m].index
                /\ found[m].forward <=> InRegion(f)
                /\ found[m].target = IF InRegion(f) THEN TextAt(f) ELSE f
                /\ found[m].name =
                     IF own = {} THEN None
                     ELSE TextAt(Value("name", NameRva(x, FirstOf(own))).rva)
  <2>1. found[m].index \in 0 .. n - 1 /\ FunctionListed(x, found[m])
        /\ \A l \in 1 .. m - 1 : found[l].index < found[m].index
    BY <1>4
  <2>2. PICK own : own = NamesOf(x, found[m].index)
    OBVIOUS
  <2>3. NameOf(found[m].index) = IF own = {} THEN None
                                 ELSE TextAt(Value("name", NameRva(x, FirstOf(own))).rva)
    BY <1>7, <1>8, <2>1, <2>2
  <2> QED
    BY <2>1, <2>2, <2>3 DEF FunctionListed
<1> QED
  BY <1>6, <1>9 DEF ExportsMirrorFile, x, Header, FunctionRva, NameRva

\* PEImports.hpp:3-4 and PEExports.hpp:3-5: for every file and every directory,
\* what parseImports and parseExports list is what the tables say, all of it and
\* in their order.
THEOREM SymbolsAlwaysMirrorFile == Spec => []SymbolsMirrorFile
<1>1. Init => ImportsInv /\ ExportsInv
  BY DEF Init, ImportsInv, ExportsInv
<1>2. TypesInv /\ TypesInv' /\ ImportsInv /\ ExportsInv /\ [Next]_vars => ImportsInv' /\ ExportsInv'
  BY ImportsStep, ExportsStep
<1>3. TypesInv /\ ImportsInv /\ ExportsInv => SymbolsMirrorFile
  BY ImportsMirror, ExportsMirror DEF TypesInv, SymbolsMirrorFile
<1> QED
  BY <1>1, <1>2, <1>3, TypesHold, PTL DEF Spec

-----------------------------------------------------------------------------
(* Resources.                                                              *)

IdentityType == [named : BOOLEAN, id : Nat \cup {None}]
NodeType == [depth : Nat, at : Nat, leaf : BOOLEAN, data : Nat \cup {None}, identity : IdentityType]

\* Row r is of the entry it was read from.
NodeListed(r) ==
  LET e == Value("node", r.at) IN
  /\ Known("node", r.at) /\ e \in Nodes
  /\ r.depth <= Cap["depth"] /\ r.identity = Identity(e) /\ r.leaf = ~e.sub /\ r.data = DataOf(e)

\* How deep the nodes directly below position m are.
DepthBelow(m) == IF m = 0 THEN 0 ELSE found[m].depth + 1

\* The node at position m, or the root, leads to a directory that is walked.
IsParent(m) == m # 0 => Value("node", found[m].at).sub /\ found[m].depth < Cap["depth"]

\* That directory.
TableRva(m) == IF m = 0 THEN directory.va ELSE ResourceRva(Value("node", found[m].at).offset)

\* How many entries it has, and where they are.
EntryCount(rva) == IF Value("directory", rva) > Cap["node"] THEN 0 ELSE Value("directory", rva)
EntryRva(rva, i) == SlotRva("node", Wrap(rva + Size["directory"]), i)

\* Its first k entries can be read; and they are all that can.
Readable(rva, k) ==
  k \in 0 .. EntryCount(rva) /\ \A i \in 0 .. k - 1 : CanRead("node", EntryRva(rva, i))
AllRead(rva, k) ==
  Readable(rva, k) /\ (k = EntryCount(rva) \/ ~CanRead("node", EntryRva(rva, k)))

\* Loop t is over the directory of position m: before it is read, or after.
LoopOf(t, m) ==
  \/ /\ t.of = "directory" /\ t.base = TableRva(m) /\ t.i = 0 /\ t.n = 1
     /\ Below(m) = {}
  \/ /\ t.of = "node" /\ Known("directory", TableRva(m)) /\ Value("directory", TableRva(m)) \in Counts
     /\ t.base = Wrap(TableRva(m) + Size["directory"]) /\ t.n = EntryCount(TableRva(m))
     /\ t.i = Cardinality(Below(m)) /\ Readable(TableRva(m), t.i)

\* Loop t, at level k of the stack, lists what is below position m, the last one
\* that is so deep.
Lists(t, k, m) ==
  /\ DepthBelow(m) = k - 1 /\ \A j \in m + 1 .. Len(found) : found[j].depth >= k - 1
  /\ IsParent(m) /\ LoopOf(t, m)

\* Everything below position m is listed.
Complete(m) ==
  IF IsParent(m) /\ CanRead("directory", TableRva(m))
  THEN /\ Known("directory", TableRva(m)) /\ Value("directory", TableRva(m)) \in Counts
       /\ AllRead(TableRva(m), Cardinality(Below(m)))
  ELSE Below(m) = {}

\* The inductive invariant of the resources.
TreeInv ==
  /\ Len(tables) <= Cap["depth"] + 1
  /\ \A k \in 1 .. Len(tables) : \E m \in 0 .. Len(found) : Lists(tables[k], k, m)
  /\ \A m \in 0 .. Len(found) : (\E k \in 1 .. Len(tables) : Lists(tables[k], k, m)) \/ Complete(m)

ResourcesInv ==
  kind = "resources" /\ directory.va # 0 /\ directory.size # 0 =>
    /\ found \in Seq(NodeType) /\ \A m \in 1 .. Len(found) : NodeListed(found[m])
    /\ TreeInv
    /\ outcome # "pending" => tables = <<>>

\* A node that is listed stays so.
LEMMA NodeKept ==
  ASSUME Kept, NEW r, NodeListed(r)
  PROVE  NodeListed(r)' /\ Known("node", r.at) /\ Known("node", r.at)'
<1>1. PICK e : e = Value("node", r.at)
  OBVIOUS
<1>2. Known("node", r.at)' /\ Value("node", r.at)' = e
  BY <1>1, KnownKept DEF NodeListed
<1>3. UNCHANGED parserVars /\ UNCHANGED directory
  BY DEF Kept
<1>4. \A o : ResourceRva(o)' = ResourceRva(o)
  BY <1>3 DEF ResourceRva
<1>5. Identity(e)' = Identity(e)
  <2>1. \A rva : RvaToOffset(rva)' = RvaToOffset(rva) /\ CanRead("length", rva)' = CanRead("length", rva)
    BY <1>3, PlacesKept DEF TextAt
  <2>2. \A rva : NamePlace(rva)' = NamePlace(rva)
    BY <2>1 DEF NamePlace
  <2> QED
    BY <1>4, <2>2 DEF Identity
<1>6. DataOf(e)' = DataOf(e)
  <2>1. \A rva : RvaToOffset(rva)' = RvaToOffset(rva)
    BY <1>3, PlacesKept DEF TextAt
  <2> QED
    BY <1>3, <1>4, <2>1, PlacesKept DEF DataOf
<1> QED
  BY <1>1, <1>2, <1>5, <1>6 DEF NodeListed

LEMMA PositionsKept ==
  ASSUME Kept, NEW m, m # 0 => Known("node", found[m].at) /\ found'[m] = found[m]
  PROVE  /\ DepthBelow(m)' = DepthBelow(m) /\ (IsParent(m)' <=> IsParent(m))
         /\ TableRva(m)' = TableRva(m)
<1>1. UNCHANGED directory
  BY DEF Kept
<1>2. CASE m = 0
  BY <1>1, <1>2 DEF DepthBelow, IsParent, TableRva
<1>3. CASE m # 0
  <2>1. PICK r : r = found[m]
    OBVIOUS
  <2>2. found'[m] = r
    BY <1>3, <2>1
  <2>3. Value("node", r.at)' = Value("node", r.at)
    BY <1>3, <2>1, KnownKept
  <2>4. \A o : ResourceRva(o)' = ResourceRva(o)
    BY <1>1 DEF ResourceRva
  <2>5. PICK e : e = Value("node", r.at)
    OBVIOUS
  <2>6. Value("node", found[m].at)' = e
    BY <2>2, <2>3, <2>5
  <2>7. Value("node", found[m].at) = e
    BY <2>1, <2>5
  <2> QED
    BY <1>3, <2>1, <2>2, <2>4, <2>6, <2>7 DEF DepthBelow, IsParent, TableRva
<1> QED
  BY <1>2, <1>3

LEMMA DirectoryKept ==
  ASSUME Kept, NEW rva, Known("directory", rva)
  PROVE  /\ Known("directory", rva)' /\ Value("directory", rva)' = Value("directory", rva)
         /\ EntryCount(rva)' = EntryCount(rva)
         /\ \A k : Readable(rva, k) => Readable(rva, k)'
         /\ \A k : AllRead(rva, k) => AllRead(rva, k)'
<1>1. Known("directory", rva)' /\ Value("directory", rva)' = Value("directory", rva)
  BY KnownKept
<1>2. EntryCount(rva)' = EntryCount(rva)
  BY <1>1 DEF EntryCount
<1>3. \A i : EntryRva(rva, i)' = EntryRva(rva, i)
  BY PlacesKept DEF EntryRva, Kept
<1>4. \A i : CanRead("node", EntryRva(rva, i))' = CanRead("node", EntryRva(rva, i))
  BY <1>3, PlacesKept DEF Kept
<1>5. \A k : Readable(rva, k) => Readable(rva, k)'
  BY <1>2, <1>4 DEF Readable
<1>6. \A k : AllRead(rva, k) => AllRead(rva, k)'
  BY <1>2, <1>4, <1>5 DEF AllRead
<1> QED
  BY <1>1, <1>2, <1>5, <1>6

\* A directory below which no node is added is listed as it was.
LEMMA ListsKept ==
  ASSUME Kept, NEW m, m # 0 => Known("node", found[m].at) /\ found'[m] = found[m],
         Below(m)' = Below(m), NEW t, NEW k, Lists(t, k, m),
         \A j \in m + 1 .. Len(found') : found'[j].depth >= k - 1
  PROVE  Lists(t, k, m)'
<1>1. /\ DepthBelow(m)' = DepthBelow(m) /\ (IsParent(m)' <=> IsParent(m))
      /\ TableRva(m)' = TableRva(m)
  BY PositionsKept
<1>2. DepthBelow(m) = k - 1 /\ IsParent(m) /\ LoopOf(t, m)
  BY DEF Lists
<1>3. PICK rva : rva = TableRva(m)
  OBVIOUS
<1>4. LoopOf(t, m)'
  <2>1. CASE /\ t.of = "directory" /\ t.base = TableRva(m) /\ t.i = 0 /\ t.n = 1
             /\ Below(m) = {}
    BY <1>1, <2>1 DEF LoopOf
  <2>2. CASE /\ t.of = "node" /\ Known("directory", rva) /\ Value("directory", rva) \in Counts
             /\ t.base = Wrap(rva + Size["directory"]) /\ t.n = EntryCount(rva)
             /\ t.i = Cardinality(Below(m)) /\ Readable(rva, t.i)
    <3>1. /\ Known("directory", rva)' /\ Value("directory", rva)' = Value("directory", rva)
          /\ EntryCount(rva)' = EntryCount(rva) /\ Readable(rva, t.i)'
      BY <2>2, DirectoryKept
    <3>2. TableRva(m)' = rva /\ t.i = Cardinality(Below(m)')
      BY <1>1, <1>3, <2>2
    <3> QED
      BY <2>2, <3>1, <3>2 DEF LoopOf
  <2> QED
    BY <1>2, <1>3, <2>1, <2>2 DEF LoopOf
<1> QED
  BY <1>1, <1>2, <1>4 DEF Lists

LEMMA CompleteKept ==
  ASSUME Kept, NEW m, m # 0 => Known("node", found[m].at) /\ found'[m] = found[m],
         Below(m)' = Below(m), Complete(m)
  PROVE  Complete(m)'
<1>1. (IsParent(m)' <=> IsParent(m)) /\ TableRva(m)' = TableRva(m)
  BY PositionsKept
<1>2. PICK rva : rva = TableRva(m)
  OBVIOUS
<1>3. CanRead("directory", rva)' = CanRead("directory", rva)
  BY PlacesKept DEF Kept
<1>4. PICK c : c = Cardinality(Below(m))
  OBVIOUS
<1>5. Cardinality(Below(m)') = c /\ TableRva(m)' = rva
  BY <1>1, <1>2, <1>4
<1>6. CASE IsParent(m) /\ CanRead("directory", rva)
  <2>1. Known("directory", rva) /\ Value("directory", rva) \in Counts /\ AllRead(rva, c)
    BY <1>2, <1>4, <1>6 DEF Complete
  <2>2. Known("directory", rva)' /\ Value("directory", rva)' \in Counts /\ AllRead(rva, c)'
    BY <2>1, DirectoryKept
  <2> QED
    BY <1>1, <1>3, <1>5, <1>6, <2>2 DEF Complete
<1>7. CASE ~(IsParent(m) /\ CanRead("directory", rva))
  <2>1. Below(m) = {}
    BY <1>2, <1>7 DEF Complete
  <2> QED
    BY <1>1, <1>3, <1>5, <1>7, <2>1 DEF Complete
<1> QED
  BY <1>6, <1>7

\* Of the positions so deep, one is the last.
LEMMA OnePosition ==
  ASSUME found \in Seq(NodeType), NEW d \in Nat, NEW m \in 0 .. Len(found), NEW l \in 0 .. Len(found),
         DepthBelow(m) = d, \A j \in m + 1 .. Len(found) : found[j].depth >= d,
         DepthBelow(l) = d, \A j \in l + 1 .. Len(found) : found[j].depth >= d
  PROVE  m = l
<1>1. ASSUME NEW a \in 0 .. Len(found), NEW b \in 0 .. Len(found), a < b, DepthBelow(b) = d,
             \A j \in a + 1 .. Len(found) : found[j].depth >= d
      PROVE  FALSE
  <2>1. b # 0 /\ b \in a + 1 .. Len(found) /\ b \in 1 .. Len(found)
    BY <1>1
  <2>2. found[b].depth >= d /\ found[b].depth + 1 = d
    BY <1>1, <2>1 DEF DepthBelow
  <2>3. found[b].depth \in Nat
    <3>1. found[b] \in NodeType
      BY <2>1
    <3> QED
      BY <3>1 DEF NodeType
  <2> QED
    BY <2>2, <2>3
<1>2. ~(m < l) /\ ~(l < m)
  BY <1>1
<1> QED
  BY <1>2

\* A loop lists what is below one position only.
LEMMA OneOwner ==
  ASSUME found \in Seq(NodeType), NEW k \in Nat \ {0}, NEW m \in 0 .. Len(found), NEW l \in 0 .. Len(found),
         NEW t, NEW u, Lists(t, k, m), Lists(u, k, l)
  PROVE  m = l
<1>1. k - 1 \in Nat
  OBVIOUS
<1> QED
  BY <1>1, OnePosition DEF Lists

\* A node is added: what becomes of those below a position.
LEMMA BelowGrows ==
  ASSUME found \in Seq(NodeType), NEW r \in NodeType, found' = Append(found, r), NEW m \in 0 .. Len(found)
  PROVE  /\ IsFiniteSet(Below(m)) /\ Len(found) + 1 \notin Below(m)
         /\ IF r.depth = DepthBelow(m) /\ \A j \in m + 1 .. Len(found) : found[j].depth >= DepthBelow(m)
            THEN Below(m)' = Below(m) \cup {Len(found) + 1}
            ELSE Below(m)' = Below(m)
<1> DEFINE n == Len(found)
<1>1. /\ n \in Nat /\ Len(found') = n + 1 /\ found'[n + 1] = r
      /\ \A j \in 1 .. n : found'[j] = found[j]
  BY Appended
<1>2. DepthBelow(m)' = DepthBelow(m)
  BY <1>1 DEF DepthBelow
<1>3. Below(m) = {j \in m + 1 .. n : /\ found[j].depth = DepthBelow(m)
                                     /\ \A l \in m + 1 .. j : found[l].depth >= DepthBelow(m)}
  BY DEF Below, DepthBelow
<1>4. Below(m)' = {j \in m + 1 .. n + 1 : /\ found'[j].depth = DepthBelow(m)
                                          /\ \A l \in m + 1 .. j : found'[l].depth >= DepthBelow(m)}
  BY <1>1, <1>2 DEF Below, DepthBelow
<1>5. PICK d : d = DepthBelow(m)
  OBVIOUS
<1>6. IsFiniteSet(Below(m))
  <2>1. IsFiniteSet(m + 1 .. n)
    BY <1>1, FS_Interval
  <2>2. Below(m) \in SUBSET (m + 1 .. n)
    BY <1>3
  <2> QED
    BY <2>1, <2>2, FS_Subset
<1>7. n + 1 \notin Below(m)
  BY <1>1, <1>3
<1>8. ASSUME NEW j \in m + 1 .. n PROVE j \in Below(m)' <=> j \in Below(m)
  <2>1. \A l \in m + 1 .. j : found'[l] = found[l]
    BY <1>1
  <2>2. found'[j] = found[j] /\ j \in m + 1 .. n + 1
    BY <1>1
  <2> QED
    BY <1>3, <1>4, <2>1, <2>2
<1>9. r.depth \in Nat /\ \A j \in 1 .. n : found[j].depth \in Nat
  <2>1. \A j \in 1 .. n : found[j] \in NodeType
    OBVIOUS
  <2> QED
    BY <2>1 DEF NodeType
<1>10. n + 1 \in Below(m)' <=> r.depth = d /\ \A j \in m + 1 .. n : found[j].depth >= d
  <2>1. n + 1 \in Below(m)' <=> r.depth = d /\ \A j \in m + 1 .. n + 1 : found'[j].depth >= d
    BY <1>1, <1>4, <1>5
  <2>2. ASSUME r.depth = d, \A j \in m + 1 .. n : found[j].depth >= d
        PROVE  \A j \in m + 1 .. n + 1 : found'[j].depth >= d
    <3> SUFFICES ASSUME NEW j \in m + 1 .. n + 1 PROVE found'[j].depth >= d
      OBVIOUS
    <3>1. CASE j = n + 1
      BY <1>1, <1>9, <2>2, <3>1
    <3>2. CASE j \in m + 1 .. n
      BY <1>1, <2>2, <3>2
    <3> QED
      BY <1>1, <3>1, <3>2
  <2>3. ASSUME NEW j \in m + 1 .. n PROVE found'[j] = found[j] /\ j \in m + 1 .. n + 1
    BY <1>1
  <2> QED
    BY <2>1, <2>2, <2>3
<1>11. \A j \in Below(m)' : j = n + 1 \/ j \in m + 1 .. n
  BY <1>1, <1>4
<1>12. \A j \in Below(m) : j \in m + 1 .. n
  BY <1>3
<1> QED
  BY <1>5, <1>6, <1>7, <1>8, <1>10, <1>11, <1>12

\* What the resources rest on, while there is a directory.
Tree == found \in Seq(NodeType) /\ (\A m \in 1 .. Len(found) : NodeListed(found[m])) /\ TreeInv

LEMMA ResourcesBegin ==
  ASSUME TypesInv, NEW k \in Kinds, NEW d \in Directories, Begin(k, d)
  PROVE  ResourcesInv'
<1>1. kind = "none" /\ kind' = k /\ directory' = d /\ UNCHANGED found
  BY DEF Begin
<1>2. found = <<>> /\ outcome = "pending"
  BY <1>1 DEF TypesInv, PhaseInv
<1> SUFFICES ASSUME k = "resources", d.va # 0, d.size # 0 PROVE ResourcesInv'
  BY <1>1 DEF ResourcesInv
<1> DEFINE t == [of |-> "directory", base |-> d.va, i |-> 0, n |-> 1]
<1>3. tables' = <<t>> /\ outcome' = "pending"
  BY <1>2 DEF Begin, Opening, Table
<1>4. t.of = "directory" /\ t.base = d.va /\ t.i = 0 /\ t.n = 1
  OBVIOUS
<1> HIDE DEF t
<1>5. Len(tables') = 1 /\ tables'[1] = t
  BY <1>3
<1>6. found' = <<>> /\ Len(found') = 0 /\ found' \in Seq(NodeType)
  BY <1>1, <1>2
<1>7. Below(0)' = {}
  BY <1>6 DEF Below
<1>8. DepthBelow(0)' = 0 /\ IsParent(0)' /\ TableRva(0)' = d.va
  BY <1>1 DEF DepthBelow, IsParent, TableRva
<1>9. LoopOf(t, 0)'
  BY <1>4, <1>7, <1>8 DEF LoopOf
<1>10. Lists(t, 1, 0)'
  BY <1>6, <1>8, <1>9 DEF Lists
<1>11. Cap["depth"] \in Nat
  BY SizeTypes
<1>12. TreeInv'
  BY <1>5, <1>6, <1>10, <1>11 DEF TreeInv
<1> QED
  BY <1>3, <1>6, <1>12 DEF ResourcesInv

\* The loop that runs is over the directory of a position.
LEMMA RunningLists ==
  ASSUME TypeOK, TreeInv, tables # <<>>
  PROVE  /\ \E o \in 0 .. Len(found) : Lists(Loop, Len(tables), o)
         /\ Loop.of \in {"directory", "node"}
         /\ Len(tables) \in Nat \ {0} /\ Len(tables) \in 1 .. Len(tables) /\ Loop = tables[Len(tables)]
<1>1. Loop = tables[Len(tables)] /\ Len(tables) \in Nat \ {0}
  BY LoopFacts
<1>2. Len(tables) \in 1 .. Len(tables)
  BY <1>1
<1>3. PICK o \in 0 .. Len(found) : Lists(Loop, Len(tables), o)
  BY <1>1, <1>2 DEF TreeInv
<1>4. LoopOf(Loop, o)
  BY <1>3 DEF Lists
<1> QED
  BY <1>1, <1>2, <1>3, <1>4 DEF LoopOf

\* The RVA of a directory of the tree.
LEMMA TableRvaType ==
  ASSUME TypeOK, NEW m \in 0 .. Len(found), found \in Seq(NodeType),
         m # 0 => NodeListed(found[m])
  PROVE  TableRva(m) \in 0 .. RvaModulus - 1 /\ TableRva(m) \in Nat
<1>1. RvaModulus \in Nat /\ \A r \in 0 .. RvaModulus - 1 : r \in Nat
  BY SizeTypes
<1>2. directory.va \in 0 .. RvaModulus - 1 /\ directory.va \in Nat
  BY FieldTypes DEF TypeOK
<1>3. CASE m = 0
  BY <1>1, <1>2, <1>3 DEF TableRva
<1>4. CASE m # 0
  <2>1. Value("node", found[m].at) \in Nodes
    BY <1>4 DEF NodeListed
  <2>2. Value("node", found[m].at).offset \in Offsets
    BY <2>1 DEF Nodes
  <2>3. Value("node", found[m].at).offset \in Nat
    BY <2>2, FieldTypes
  <2>4. ResourceRva(Value("node", found[m].at).offset) \in 0 .. RvaModulus - 1
    <3>1. PICK o \in Nat : o = Value("node", found[m].at).offset
      BY <2>3
    <3>2. directory.va + o \in Int
      BY <1>2
    <3> QED
      BY <3>1, <3>2, WrapType DEF ResourceRva
  <2> QED
    BY <1>1, <1>4, <2>4 DEF TableRva
<1> QED
  BY <1>3, <1>4

\* The array after a header that is not indexed.
LEMMA HeaderSlot ==
  ASSUME TypeOK, NEW rva \in 0 .. RvaModulus - 1
  PROVE  SlotRva("directory", rva, 0) = rva
<1>1. rva \in Nat /\ RvaModulus \in Nat
  BY SizeTypes
<1>2. Width("directory") \in Nat
  BY WidthType DEF Entries
<1>3. 0 * Width("directory") = 0
  BY <1>2
<1>4. Wrap(0) = 0 /\ Wrap(rva + 0) = rva
  BY <1>1, WrapType
<1> QED
  BY <1>3, <1>4 DEF SlotRva, HasCursor

\* The innermost loop ends: its directory is complete.
LEMMA TreeTableEnds ==
  ASSUME TypeOK, Tree, EndOfTable
  PROVE  Tree' /\ (outcome' # "pending" => tables' = <<>>)
<1> DEFINE n == Len(found)
           L == Len(tables)
<1>1. /\ tables # <<>> /\ outcome = "pending" /\ Leave
      /\ UNCHANGED <<parserVars, kind, directory, found, content>>
  BY DEF EndOfTable
<1>2. /\ found \in Seq(NodeType) /\ TreeInv /\ n \in Nat
      /\ \A m \in 1 .. n : NodeListed(found[m])
  BY DEF Tree
<1>3. PICK o \in 0 .. n : Lists(Loop, L, o)
  BY <1>1, <1>2, RunningLists
<1>4. L \in Nat \ {0} /\ L \in 1 .. L /\ Loop = tables[L] /\ Loop.of \in {"directory", "node"}
  BY <1>1, <1>2, RunningLists
<1>5. Kept
  BY <1>1 DEF Kept
<1>6. ASSUME NEW m \in 0 .. n
      PROVE  (m # 0 => Known("node", found[m].at) /\ found'[m] = found[m]) /\ Below(m)' = Below(m)
             /\ (m # 0 => NodeListed(found[m]))
  <2>1. m # 0 => NodeListed(found[m])
    BY <1>2
  <2>2. Below(m)' = Below(m)
    BY <1>1 DEF Below
  <2> QED
    BY <1>1, <2>1, <2>2 DEF NodeListed
<1>7. \A m \in 1 .. n : NodeListed(found[m])'
  <2> SUFFICES ASSUME NEW m \in 1 .. n PROVE NodeListed(found[m])'
    OBVIOUS
  <2>1. PICK r : r = found[m]
    OBVIOUS
  <2>2. NodeListed(r)'
    BY <1>2, <1>5, <2>1, NodeKept
  <2>3. found'[m] = r
    BY <1>1, <2>1
  <2> QED
    BY <2>2, <2>3
<1>8. tables' = Front(tables) /\ (outcome' # "pending" => L = 1)
  BY <1>1 DEF Leave
<1>9. /\ Front(tables) \in Seq(LoopType) /\ Len(Front(tables)) = L - 1
      /\ \A k \in 1 .. L - 1 : Front(tables)[k] = tables[k]
  <2>1. tables \in Seq(LoopType)
    BY DEF TypeOK, LoopType
  <2> QED
    BY <1>1, <2>1, FrontFacts
<1>10. tables' \in Seq(LoopType) /\ Len(tables') = L - 1 /\ \A k \in 1 .. L - 1 : tables'[k] = tables[k]
  BY <1>8, <1>9
<1>11. Complete(o)
  <2>1. IsParent(o) /\ LoopOf(Loop, o)
    BY <1>3 DEF Lists
  <2>2. Loop.i >= Loop.n \/ ~CanRead(Loop.of, NextRva)
    BY <1>4 DEF EndOfTable, HasCursor
  <2>3. PICK rva : rva = TableRva(o)
    OBVIOUS
  <2>4. rva \in 0 .. RvaModulus - 1
    BY <1>2, <1>6, <2>3, TableRvaType
  <2>5. CASE /\ Loop.of = "directory" /\ Loop.base = TableRva(o) /\ Loop.i = 0 /\ Loop.n = 1
             /\ Below(o) = {}
    <3>1. NextRva = rva
      BY <2>3, <2>4, <2>5, HeaderSlot DEF NextRva
    <3>2. ~CanRead("directory", rva)
      BY <2>2, <2>5, <3>1
    <3> QED
      BY <2>3, <2>5, <3>2 DEF Complete
  <2>6. CASE /\ Loop.of = "node" /\ Known("directory", TableRva(o)) /\ Value("directory", TableRva(o)) \in Counts
             /\ Loop.base = Wrap(TableRva(o) + Size["directory"]) /\ Loop.n = EntryCount(TableRva(o))
             /\ Loop.i = Cardinality(Below(o)) /\ Readable(TableRva(o), Loop.i)
    <3>1. NextRva = EntryRva(rva, Loop.i)
      BY <2>3, <2>6 DEF NextRva, EntryRva
    <3>2. Loop.i \in 0 .. Loop.n /\ Loop.n \in Nat
      BY <1>1, <2>6, LoopFacts DEF Readable
    <3>3. Loop.i = Loop.n \/ ~CanRead("node", EntryRva(rva, Loop.i))
      BY <2>2, <2>6, <3>1, <3>2
    <3>4. AllRead(rva, Loop.i)
      BY <2>3, <2>6, <3>3 DEF AllRead
    <3> QED
      BY <2>1, <2>3, <2>6, <3>4 DEF Complete, Known
  <2> QED
    BY <2>1, <2>5, <2>6 DEF LoopOf
<1>12. ASSUME NEW k \in 1 .. L - 1, NEW m \in 0 .. n, NEW t, t = tables[k], Lists(t, k, m)
       PROVE  tables'[k] = t /\ Lists(t, k, m)' /\ k \in 1 .. Len(tables')
  <2>1. \A j \in m + 1 .. Len(found') : found'[j].depth >= k - 1
    BY <1>1, <1>12 DEF Lists
  <2>2. Lists(t, k, m)'
    BY <1>5, <1>6, <1>12, <2>1, ListsKept
  <2> QED
    BY <1>10, <1>12, <2>2
<1>13. \A k \in 1 .. Len(tables') : \E m \in 0 .. Len(found') : Lists(tables[k], k, m)'
  <2> SUFFICES ASSUME NEW k \in 1 .. Len(tables')
               PROVE  \E m \in 0 .. Len(found') : Lists(tables[k], k, m)'
    OBVIOUS
  <2>1. k \in 1 .. L - 1 /\ k \in 1 .. L
    BY <1>4, <1>10
  <2>2. PICK m \in 0 .. n : Lists(tables[k], k, m)
    BY <1>2, <2>1 DEF TreeInv
  <2>3. PICK t : t = tables[k]
    OBVIOUS
  <2>4. tables'[k] = t /\ Lists(t, k, m)'
    BY <1>12, <2>1, <2>2, <2>3
  <2>5. Lists(tables[k], k, m)'
    BY <2>4
  <2> QED
    BY <1>1, <2>5
<1>14. \A m \in 0 .. Len(found') : (\E k \in 1 .. Len(tables') : Lists(tables[k], k, m)') \/ Complete(m)'
  <2> SUFFICES ASSUME NEW m \in 0 .. n
               PROVE  (\E k \in 1 .. Len(tables') : Lists(tables[k], k, m)') \/ Complete(m)'
    BY <1>1
  <2>1. Complete(m) => Complete(m)'
    BY <1>5, <1>6, CompleteKept
  <2>2. CASE m = o
    BY <1>11, <2>1, <2>2
  <2>3. CASE m # o /\ ~Complete(m)
    <3>1. PICK k \in 1 .. L : Lists(tables[k], k, m)
      BY <1>2, <2>3 DEF TreeInv
    <3>2. k # L
      BY <1>2, <1>3, <1>4, <2>3, <3>1, OneOwner
    <3>3. k \in 1 .. L - 1
      BY <1>4, <3>1, <3>2
    <3>4. PICK t : t = tables[k]
      OBVIOUS
    <3>5. tables'[k] = t /\ Lists(t, k, m)' /\ k \in 1 .. Len(tables')
      BY <1>12, <3>1, <3>3, <3>4
    <3>6. Lists(tables[k], k, m)'
      BY <3>5
    <3> QED
      BY <3>5, <3>6
  <2> QED
    BY <2>1, <2>2, <2>3
<1>15. Len(tables') <= Cap["depth"] + 1
  BY <1>2, <1>4, <1>10, SizeTypes DEF TreeInv
<1>16. TreeInv'
  BY <1>13, <1>14, <1>15 DEF TreeInv
<1>17. outcome' # "pending" => tables' = <<>>
  BY <1>8, <1>10
<1> QED
  BY <1>1, <1>2, <1>7, <1>16, <1>17 DEF Tree

\* A directory is read: the loop that runs is now over its entries.
LEMMA DirectoryStep ==
  ASSUME TypeOK, Tree, Reading("directory"), NEW c \in Counts, ResourceDirectory(c)
  PROVE  Tree' /\ outcome' = "pending"
<1> DEFINE n == Len(found)
           L == Len(tables)
<1>1. /\ tables # <<>> /\ outcome = "pending" /\ Loop.of = "directory"
      /\ UNCHANGED <<parserVars, kind, directory, found>> /\ outcome' = outcome
  BY DEF Reading, Running, ResourceDirectory
<1>2. /\ found \in Seq(NodeType) /\ TreeInv /\ n \in Nat
      /\ \A m \in 1 .. n : NodeListed(found[m])
  BY DEF Tree
<1>3. PICK o \in 0 .. n : Lists(Loop, L, o)
  BY <1>1, <1>2, RunningLists
<1>4. L \in Nat \ {0} /\ L \in 1 .. L /\ Loop = tables[L]
  BY <1>1, <1>2, RunningLists
<1>5. PICK rva : rva = TableRva(o)
  OBVIOUS
<1>6. /\ DepthBelow(o) = L - 1 /\ \A j \in o + 1 .. n : found[j].depth >= L - 1
      /\ IsParent(o) /\ Loop.base = rva /\ Loop.i = 0 /\ Below(o) = {}
  BY <1>1, <1>3, <1>5 DEF Lists, LoopOf
<1>7. rva \in 0 .. RvaModulus - 1 /\ rva \in Nat
  BY <1>2, <1>5, TableRvaType
<1>8. NextRva = rva
  BY <1>1, <1>6, <1>7, HeaderSlot DEF NextRva
<1>9. Kept /\ Known("directory", rva)' /\ Value("directory", rva)' = c
  BY <1>8, ReadIsKnown DEF ResourceDirectory
<1>10. ASSUME NEW m \in 0 .. n
       PROVE  (m # 0 => Known("node", found[m].at) /\ found'[m] = found[m]) /\ Below(m)' = Below(m)
  <2>1. Below(m)' = Below(m)
    BY <1>1 DEF Below
  <2> QED
    BY <1>1, <1>2, <2>1 DEF NodeListed
<1>11. \A m \in 1 .. n : NodeListed(found[m])'
  <2> SUFFICES ASSUME NEW m \in 1 .. n PROVE NodeListed(found[m])'
    OBVIOUS
  <2>1. PICK r : r = found[m]
    OBVIOUS
  <2>2. NodeListed(r)'
    BY <1>2, <1>9, <2>1, NodeKept
  <2>3. found'[m] = r
    BY <1>1, <2>1
  <2> QED
    BY <2>2, <2>3
<1> DEFINE count == IF c > Cap["node"] THEN 0 ELSE c
           new == [of |-> "node", base |-> Wrap(rva + Size["directory"]), i |-> 0, n |-> count]
<1>12. tables' = Append(Front(tables), new)
  BY <1>6 DEF ResourceDirectory, Table
<1>13. new.of = "node" /\ new.base = Wrap(rva + Size["directory"]) /\ new.i = 0 /\ new.n = count
  OBVIOUS
<1>14. count \in Nat
  BY FieldTypes
<1>15. new \in LoopType
  <2>1. Wrap(rva + Size["directory"]) \in 0 .. RvaModulus - 1
    <3>1. rva + Size["directory"] \in Int
      <4>1. Size["directory"] \in Nat
        BY SizeTypes DEF Entries
      <4>2. rva \in Nat
        BY <1>7
      <4> QED
        BY <4>1, <4>2
    <3> QED
      BY <3>1, WrapType
  <2> QED
    BY <1>14, <2>1 DEF LoopType, Entries
<1>16. PICK t, h : t = new /\ h = L
  OBVIOUS
<1> HIDE DEF new
<1>17. /\ Front(tables) \in Seq(LoopType) /\ Len(Front(tables)) = L - 1
       /\ \A k \in 1 .. L - 1 : Front(tables)[k] = tables[k]
  <2>1. tables \in Seq(LoopType)
    BY DEF TypeOK, LoopType
  <2> QED
    BY <1>1, <2>1, FrontFacts
<1>18. /\ Len(tables') = L /\ tables'[L] = t /\ \A k \in 1 .. L - 1 : tables'[k] = tables[k]
  BY <1>4, <1>12, <1>15, <1>16, <1>17, Appended
<1>19. Lists(t, h, o)'
  <2>1. DepthBelow(o)' = DepthBelow(o) /\ (IsParent(o)' <=> IsParent(o)) /\ TableRva(o)' = rva
    BY <1>5, <1>9, <1>10, PositionsKept
  <2>2. EntryCount(rva)' = count
    BY <1>9 DEF EntryCount
  <2>3. Below(o)' = {} /\ Cardinality({}) = 0
    BY <1>6, <1>10, FS_EmptySet
  <2>4. Readable(rva, 0)'
    <3>1. 0 \in 0 .. count /\ \A i \in 0 .. 0 - 1 : FALSE
      BY <1>14
    <3> QED
      BY <2>2, <3>1 DEF Readable
  <2>5. LoopOf(t, o)'
    BY <1>9, <1>13, <1>16, <2>1, <2>2, <2>3, <2>4 DEF LoopOf
  <2> QED
    BY <1>1, <1>6, <1>16, <2>1, <2>5 DEF Lists
<1>20. ASSUME NEW k \in 1 .. L - 1, NEW m \in 0 .. n, NEW u, u = tables[k], Lists(u, k, m)
       PROVE  tables'[k] = u /\ Lists(u, k, m)' /\ k \in 1 .. Len(tables')
  <2>1. \A j \in m + 1 .. Len(found') : found'[j].depth >= k - 1
    BY <1>1, <1>20 DEF Lists
  <2>2. Lists(u, k, m)'
    BY <1>9, <1>10, <1>20, <2>1, ListsKept
  <2> QED
    BY <1>4, <1>18, <1>20, <2>2
<1>21. h \in 1 .. Len(tables') /\ Lists(tables[h], h, o)'
  BY <1>4, <1>16, <1>18, <1>19
<1>22. \A k \in 1 .. Len(tables') : \E m \in 0 .. Len(found') : Lists(tables[k], k, m)'
  <2> SUFFICES ASSUME NEW k \in 1 .. L PROVE \E m \in 0 .. n : Lists(tables[k], k, m)'
    BY <1>1, <1>18
  <2>1. CASE k = L
    BY <1>16, <1>21, <2>1
  <2>2. CASE k # L
    <3>1. k \in 1 .. L - 1
      BY <1>4, <2>2
    <3>2. PICK m \in 0 .. n : Lists(tables[k], k, m)
      BY <1>2 DEF TreeInv
    <3>3. PICK u : u = tables[k]
      OBVIOUS
    <3>4. tables'[k] = u /\ Lists(u, k, m)'
      BY <1>20, <3>1, <3>2, <3>3
    <3>5. Lists(tables[k], k, m)'
      BY <3>4
    <3> QED
      BY <3>5
  <2> QED
    BY <2>1, <2>2
<1>23. \A m \in 0 .. Len(found') : (\E k \in 1 .. Len(tables') : Lists(tables[k], k, m)') \/ Complete(m)'
  <2> SUFFICES ASSUME NEW m \in 0 .. n
               PROVE  (\E k \in 1 .. Len(tables') : Lists(tables[k], k, m)') \/ Complete(m)'
    BY <1>1
  <2>1. CASE m = o
    BY <1>21, <2>1
  <2>2. CASE m # o /\ Complete(m)
    BY <1>9, <1>10, <2>2, CompleteKept
  <2>3. CASE m # o /\ ~Complete(m)
    <3>1. PICK k \in 1 .. L : Lists(tables[k], k, m)
      BY <1>2, <2>3 DEF TreeInv
    <3>2. k # L
      BY <1>2, <1>3, <1>4, <2>3, <3>1, OneOwner
    <3>3. k \in 1 .. L - 1
      BY <1>4, <3>1, <3>2
    <3>4. PICK u : u = tables[k]
      OBVIOUS
    <3>5. tables'[k] = u /\ Lists(u, k, m)' /\ k \in 1 .. Len(tables')
      BY <1>20, <3>1, <3>3, <3>4
    <3>6. Lists(tables[k], k, m)'
      BY <3>5
    <3> QED
      BY <3>5, <3>6
  <2> QED
    BY <2>1, <2>2, <2>3
<1>24. TreeInv'
  BY <1>2, <1>18, <1>22, <1>23 DEF TreeInv
<1> QED
  BY <1>1, <1>2, <1>11, <1>24 DEF Tree

\* The stack after an entry is read.
LEMMA NodeLoops ==
  ASSUME TypeOK, tables # <<>>, Loop.of = "node", NEW e \in Nodes, Node(e),
         NEW next, next = [Loop EXCEPT !.i = @ + 1],
         NEW t, t = [of |-> "directory", base |-> ResourceRva(e.offset), i |-> 0, n |-> 1],
         NEW h, h = Len(tables)
  PROVE  /\ next.of = "node" /\ next.base = Loop.base /\ next.n = Loop.n /\ next.i = Loop.i + 1
         /\ tables'[h] = next /\ \A k \in 1 .. h - 1 : tables'[k] = tables[k]
         /\ e.sub /\ h <= Cap["depth"] => Len(tables') = h + 1 /\ tables'[h + 1] = t
         /\ ~(e.sub /\ h <= Cap["depth"]) => Len(tables') = h
         /\ outcome' = outcome
<1>1. tables \in Seq(LoopType) /\ Loop \in LoopType /\ h \in Nat \ {0}
  BY LoopFacts DEF TypeOK, LoopType
<1>2. next.of = "node" /\ next.base = Loop.base /\ next.n = Loop.n /\ next.i = Loop.i + 1
  BY <1>1 DEF LoopType
<1>3. next \in LoopType
  BY <1>1, NextLoop DEF LoopType
<1>4. t \in LoopType
  <2>1. ResourceRva(e.offset) \in 0 .. RvaModulus - 1
    BY ResourceRvaType DEF Nodes
  <2> QED
    BY <2>1 DEF LoopType, Entries
<1>5. PICK s : s = Append(Front(tables), next)
  OBVIOUS
<1>6. s \in Seq(LoopType) /\ Len(s) = h /\ s[h] = next /\ \A k \in 1 .. h - 1 : s[k] = tables[k]
  BY <1>1, <1>3, <1>5, Replaced
<1>7. CASE e.sub /\ h <= Cap["depth"]
  <2>1. tables' = s \o <<t>> /\ outcome' = outcome
    BY <1>5, <1>7 DEF Node, GoOnAfter, Table
  <2>2. /\ Len(s \o <<t>>) = h + 1 /\ (s \o <<t>>)[h + 1] = t
        /\ \A k \in 1 .. h : (s \o <<t>>)[k] = s[k]
    BY <1>4, <1>6, Pushed
  <2>3. h \in 1 .. h /\ \A k \in 1 .. h - 1 : k \in 1 .. h
    BY <1>1
  <2>4. Len(tables') = h + 1 /\ tables'[h + 1] = t /\ \A k \in 1 .. h : tables'[k] = s[k]
    BY <2>1, <2>2, Zenon
  <2> QED
    BY <1>2, <1>6, <1>7, <2>1, <2>3, <2>4
<1>8. CASE ~(e.sub /\ h <= Cap["depth"])
  <2>1. tables' = s \o <<>> /\ outcome' = outcome
    BY <1>5, <1>8 DEF Node, GoOn, GoOnAfter
  <2>2. tables' = s
    BY <1>6, <2>1, NotPushed
  <2> QED
    BY <1>2, <1>6, <1>8, <2>1, <2>2
<1> QED
  BY <1>7, <1>8

\* The row of an entry.
LEMMA NodeTyped ==
  ASSUME TypeOK, tables # <<>>, NEW e \in Nodes, NEW d \in Nat
  PROVE  NodeOf(e, d) \in NodeType /\ NodeOf(e, d).depth = d
<1>1. NextRva \in Nat
  BY LoopFacts
<1>2. ResourceRva(e.id) \in Nat /\ ResourceRva(e.offset) \in Nat /\ e.id \in Nat
  <2>1. e.id \in Offsets /\ e.offset \in Offsets
    BY DEF Nodes
  <2>2. ResourceRva(e.id) \in 0 .. RvaModulus - 1 /\ ResourceRva(e.offset) \in 0 .. RvaModulus - 1
    BY <2>1, ResourceRvaType
  <2> QED
    BY <2>1, <2>2, FieldTypes, SizeTypes
<1>3. e.named \in BOOLEAN /\ e.sub \in BOOLEAN
  BY DEF Nodes
<1>4. NamePlace(ResourceRva(e.id)) \in Nat \cup {None}
  <2>1. RvaToOffset(ResourceRva(e.id)) \in Nat \cup {None}
    BY <1>2, TextType DEF TextAt
  <2> QED
    BY <2>1 DEF NamePlace
<1>5. RvaToOffset(ResourceRva(e.offset)) \in Nat \cup {None}
  BY <1>2, TextType DEF TextAt
<1>6. Identity(e) \in IdentityType
  BY <1>2, <1>3, <1>4 DEF Identity, IdentityType
<1>7. DataOf(e) \in Nat \cup {None}
  BY <1>5 DEF DataOf
<1> QED
  BY <1>1, <1>3, <1>6, <1>7 DEF NodeOf, NodeType

\* An entry is read: it is one more below the position whose directory is
\* listed, and none below any other.
LEMMA NodeStep ==
  ASSUME TypeOK, Tree, Reading("node"), NEW e \in Nodes, Node(e)
  PROVE  Tree' /\ outcome' = "pending"
<1>1. /\ tables # <<>> /\ outcome = "pending" /\ Loop.of = "node" /\ Loop.i < Loop.n /\ CanRead("node", NextRva)
      /\ UNCHANGED <<parserVars, kind, directory>>
  BY DEF Reading, Running
<1>2. /\ found \in Seq(NodeType) /\ TreeInv /\ Len(found) \in Nat
      /\ \A m \in 1 .. Len(found) : NodeListed(found[m])
  BY DEF Tree
<1>3. PICK n, h : n = Len(found) /\ h = Len(tables)
  OBVIOUS
<1>4. PICK o \in 0 .. n : Lists(Loop, h, o)
  BY <1>1, <1>2, <1>3, RunningLists
<1>5. n \in Nat /\ h \in Nat \ {0} /\ h \in 1 .. h /\ Loop = tables[h]
  BY <1>1, <1>2, <1>3, RunningLists
<1>6. PICK rva, i : rva = TableRva(o) /\ i = Loop.i
  OBVIOUS
<1>7. /\ DepthBelow(o) = h - 1 /\ \A j \in o + 1 .. n : found[j].depth >= h - 1
      /\ IsParent(o) /\ Known("directory", rva) /\ Value("directory", rva) \in Counts
      /\ Loop.base = Wrap(rva + Size["directory"]) /\ Loop.n = EntryCount(rva)
      /\ i = Cardinality(Below(o)) /\ Readable(rva, i)
  BY <1>1, <1>3, <1>4, <1>6 DEF Lists, LoopOf
<1>8. PICK slot : slot = NextRva
  OBVIOUS
<1>9. slot = EntryRva(rva, i) /\ CanRead("node", slot) /\ slot \in Nat
  BY <1>1, <1>6, <1>7, <1>8, LoopFacts DEF NextRva, EntryRva
<1>10. Kept /\ Known("node", slot)' /\ Value("node", slot)' = e
  BY <1>8, ReadIsKnown DEF Node
<1>11. PICK r : r = NodeOf(e, h - 1)
  OBVIOUS
<1>12. r \in NodeType /\ r.depth = h - 1 /\ r.at = slot
  <2>1. h - 1 \in Nat
    BY <1>5
  <2>2. NodeOf(e, h - 1) \in NodeType /\ NodeOf(e, h - 1).depth = h - 1
    BY <1>1, <2>1, NodeTyped
  <2>3. NodeOf(e, h - 1).at = NextRva
    BY DEF NodeOf
  <2> QED
    BY <1>8, <1>11, <2>2, <2>3
<1>13. PICK p : p = n + 1
  OBVIOUS
<1>14. found' = Append(found, r)
  BY <1>3, <1>11 DEF Node, Add
<1>15. /\ found' \in Seq(NodeType) /\ Len(found') = p /\ found'[p] = r
       /\ \A m \in 1 .. n : found'[m] = found[m]
  BY <1>2, <1>3, <1>12, <1>13, <1>14, Appended
<1>16. h <= Cap["depth"] + 1 /\ Cap["depth"] \in Nat
  BY <1>2, <1>3, SizeTypes DEF TreeInv
<1>17. NodeListed(r)'
  <2>1. UNCHANGED directory /\ \A q : RvaToOffset(q)' = RvaToOffset(q)
    BY <1>1, PlacesKept DEF TextAt
  <2>2. \A q : ResourceRva(q)' = ResourceRva(q)
    BY <2>1 DEF ResourceRva
  <2>3. Identity(e)' = Identity(e)
    BY <1>1, <2>1, <2>2, PlacesKept DEF Identity, NamePlace
  <2>4. DataOf(e)' = DataOf(e)
    BY <1>1, <2>1, <2>2, PlacesKept DEF DataOf
  <2>5. r.identity = Identity(e) /\ r.leaf = ~e.sub /\ r.data = DataOf(e)
    BY <1>11 DEF NodeOf
  <2>6. r.depth <= Cap["depth"]
    BY <1>5, <1>12, <1>16
  <2> QED
    BY <1>10, <1>12, <2>3, <2>4, <2>5, <2>6 DEF NodeListed
<1>18. \A m \in 1 .. Len(found') : NodeListed(found[m])'
  <2> SUFFICES ASSUME NEW m \in 1 .. p PROVE NodeListed(found[m])'
    BY <1>15
  <2>1. CASE m = p
    BY <1>15, <1>17, <2>1
  <2>2. CASE m # p
    <3>1. m \in 1 .. n
      BY <1>5, <1>13, <2>2
    <3>2. PICK q : q = found[m]
      OBVIOUS
    <3>3. NodeListed(q)' /\ found'[m] = q
      BY <1>2, <1>3, <1>10, <1>15, <3>1, <3>2, NodeKept
    <3> QED
      BY <3>3
  <2> QED
    BY <2>1, <2>2
<1>19. ASSUME NEW m \in 0 .. n
       PROVE  m # 0 => Known("node", found[m].at) /\ found'[m] = found[m]
  BY <1>2, <1>3, <1>15 DEF NodeListed
<1>20. ASSUME NEW m \in 0 .. n, m # o PROVE Below(m)' = Below(m)
  <2>1. CASE r.depth = DepthBelow(m) /\ \A j \in m + 1 .. n : found[j].depth >= DepthBelow(m)
    <3>1. h - 1 \in Nat
      BY <1>5
    <3>2. m = o
      BY <1>2, <1>3, <1>7, <1>12, <2>1, <3>1, OnePosition
    <3> QED
      BY <1>20, <3>2
  <2>2. CASE ~(r.depth = DepthBelow(m) /\ \A j \in m + 1 .. n : found[j].depth >= DepthBelow(m))
    BY <1>2, <1>3, <1>12, <1>14, <2>2, BelowGrows
  <2> QED
    BY <2>1, <2>2
<1>21. Below(o)' = Below(o) \cup {p} /\ Cardinality(Below(o)') = i + 1
  <2>1. Below(o)' = Below(o) \cup {p} /\ IsFiniteSet(Below(o)) /\ p \notin Below(o)
    BY <1>2, <1>3, <1>7, <1>12, <1>13, <1>14, BelowGrows
  <2> QED
    BY <1>7, <2>1, FS_AddElement
<1>22. PICK next : next = [Loop EXCEPT !.i = @ + 1]
  OBVIOUS
<1>23. PICK t : t = [of |-> "directory", base |-> ResourceRva(e.offset), i |-> 0, n |-> 1]
  OBVIOUS
<1>24. /\ next.of = "node" /\ next.base = Loop.base /\ next.n = Loop.n /\ next.i = i + 1
       /\ tables'[h] = next /\ \A k \in 1 .. h - 1 : tables'[k] = tables[k]
       /\ e.sub /\ h <= Cap["depth"] => Len(tables') = h + 1 /\ tables'[h + 1] = t
       /\ ~(e.sub /\ h <= Cap["depth"]) => Len(tables') = h
       /\ outcome' = outcome
  <2>1. h = Len(tables) /\ i = Loop.i
    BY <1>3, <1>6
  <2>2. tables # <<>> /\ Loop.of = "node"
    BY <1>1
  <2> QED
    BY <1>22, <1>23, <2>1, <2>2, NodeLoops, SMTT(30)
<1>25. Lists(next, h, o)'
  <2>1. DepthBelow(o)' = DepthBelow(o) /\ (IsParent(o)' <=> IsParent(o)) /\ TableRva(o)' = rva
    BY <1>6, <1>10, <1>19, PositionsKept
  <2>2. /\ Known("directory", rva)' /\ Value("directory", rva)' = Value("directory", rva)
        /\ EntryCount(rva)' = EntryCount(rva) /\ Readable(rva, i)'
    BY <1>7, <1>10, DirectoryKept
  <2>3. PICK c : c = EntryCount(rva)
    OBVIOUS
  <2>4. EntryCount(rva)' = c /\ i \in 0 .. c /\ i < c /\ c \in Nat
    <3>1. Loop.n \in Nat
      BY <1>1, LoopFacts
    <3> QED
      BY <1>1, <1>6, <1>7, <2>2, <2>3, <3>1 DEF Readable
  <2>5. PICK s : s = i + 1
    OBVIOUS
  <2>6. Readable(rva, s)'
    <3>1. \A l \in 0 .. i - 1 : CanRead("node", EntryRva(rva, l))'
      BY <2>2 DEF Readable
    <3>2. CanRead("node", EntryRva(rva, i))'
      <4>1. EntryRva(rva, i)' = slot
        BY <1>9, <1>10, PlacesKept DEF EntryRva, Kept
      <4> QED
        BY <1>10, <4>1 DEF Known
    <3>3. s \in 0 .. c /\ \A l \in 0 .. s - 1 : l = i \/ l \in 0 .. i - 1
      BY <2>4, <2>5
    <3> QED
      BY <2>4, <3>1, <3>2, <3>3 DEF Readable
  <2>7. LoopOf(next, o)'
    <3>1. next.i = s /\ Cardinality(Below(o))' = s
      BY <1>21, <1>24, <2>5
    <3>2. next.base = Wrap(rva + Size["directory"]) /\ next.n = c /\ next.of = "node"
      BY <1>7, <1>24, <2>3
    <3> QED
      BY <1>7, <2>1, <2>2, <2>4, <2>6, <3>1, <3>2 DEF LoopOf
  <2>8. \A j \in o + 1 .. Len(found') : found'[j].depth >= h - 1
    <3> SUFFICES ASSUME NEW j \in o + 1 .. p PROVE found'[j].depth >= h - 1
      BY <1>15
    <3>1. CASE j = p
      BY <1>5, <1>12, <1>15, <3>1
    <3>2. CASE j # p
      BY <1>5, <1>7, <1>13, <1>15, <3>2
    <3> QED
      BY <3>1, <3>2
  <2> QED
    BY <1>7, <2>1, <2>7, <2>8 DEF Lists
<1>26. ASSUME NEW k \in 1 .. h - 1, NEW m \in 0 .. n, NEW u, u = tables[k], Lists(u, k, m)
       PROVE  tables'[k] = u /\ Lists(u, k, m)'
  <2>1. DepthBelow(m) = k - 1 /\ \A j \in m + 1 .. n : found[j].depth >= k - 1
    BY <1>3, <1>26 DEF Lists
  <2>2. m # o
    BY <1>5, <1>7, <2>1
  <2>3. \A j \in m + 1 .. Len(found') : found'[j].depth >= k - 1
    <3> SUFFICES ASSUME NEW j \in m + 1 .. p PROVE found'[j].depth >= k - 1
      BY <1>15
    <3>1. CASE j = p
      BY <1>5, <1>12, <1>15, <3>1
    <3>2. CASE j # p
      BY <1>5, <1>13, <1>15, <2>1, <3>2
    <3> QED
      BY <3>1, <3>2
  <2>4. Lists(u, k, m)'
    BY <1>10, <1>19, <1>20, <1>26, <2>2, <2>3, ListsKept
  <2> QED
    BY <1>24, <1>26, <2>4
<1>27. DepthBelow(p)' = h /\ Below(p)' = {} /\ TableRva(p)' = ResourceRva(e.offset)
       /\ (IsParent(p)' <=> e.sub /\ h <= Cap["depth"])
  <2>1. p # 0 /\ Value("node", found[p].at)' = e
    BY <1>5, <1>10, <1>12, <1>13, <1>15
  <2>2. ResourceRva(e.offset)' = ResourceRva(e.offset)
    BY <1>1 DEF ResourceRva
  <2>3. DepthBelow(p)' = h
    BY <1>5, <1>12, <1>15, <2>1 DEF DepthBelow
  <2>4. Below(p)' = {}
    <3>1. p + 1 .. Len(found') = {}
      BY <1>5, <1>13, <1>15
    <3> QED
      BY <3>1 DEF Below
  <2>5. TableRva(p)' = ResourceRva(e.offset)
    BY <2>1, <2>2 DEF TableRva
  <2>6. IsParent(p)' <=> e.sub /\ h <= Cap["depth"]
    <3>1. found'[p].depth < Cap["depth"] <=> h <= Cap["depth"]
      BY <1>5, <1>12, <1>15, <1>16
    <3> QED
      BY <2>1, <3>1 DEF IsParent
  <2> QED
    BY <2>3, <2>4, <2>5, <2>6
<1>28. PICK g : g = h + 1
  OBVIOUS
<1>29. e.sub /\ h <= Cap["depth"] => Lists(t, g, p)'
  <2> SUFFICES ASSUME e.sub /\ h <= Cap["depth"] PROVE Lists(t, g, p)'
    OBVIOUS
  <2>1. LoopOf(t, p)'
    BY <1>23, <1>27 DEF LoopOf
  <2>2. g - 1 = h /\ p + 1 .. Len(found') = {}
    <3>1. g - 1 = h
      BY <1>5, <1>28
    <3>2. p + 1 .. Len(found') = {}
      BY <1>5, <1>13, <1>15
    <3> QED
      BY <3>1, <3>2
  <2> QED
    BY <1>27, <2>1, <2>2 DEF Lists
<1>30. ~(e.sub /\ h <= Cap["depth"]) => Complete(p)'
  BY <1>27 DEF Complete
<1>31. h \in 1 .. Len(tables') /\ Len(tables') <= Cap["depth"] + 1
       /\ \A k \in 1 .. Len(tables') : k = h \/ k \in 1 .. h - 1 \/ (k = g /\ e.sub /\ h <= Cap["depth"])
  BY <1>5, <1>16, <1>24, <1>28
<1>32. Lists(tables[h], h, o)'
  BY <1>24, <1>25
<1>33. \A k \in 1 .. Len(tables') : \E m \in 0 .. Len(found') : Lists(tables[k], k, m)'
  <2> SUFFICES ASSUME NEW k \in 1 .. Len(tables')
               PROVE  \E m \in 0 .. p : Lists(tables[k], k, m)'
    BY <1>15
  <2>1. 0 .. n \subseteq 0 .. p /\ p \in 0 .. p
    BY <1>5, <1>13
  <2>2. CASE k = h
    BY <1>32, <2>1, <2>2
  <2>3. CASE k \in 1 .. h - 1
    <3>1. k \in 1 .. h
      BY <1>5, <2>3
    <3>2. PICK m \in 0 .. n : Lists(tables[k], k, m)
      BY <1>2, <1>3, <3>1 DEF TreeInv
    <3>3. PICK u : u = tables[k]
      OBVIOUS
    <3>4. tables'[k] = u /\ Lists(u, k, m)'
      BY <1>26, <2>3, <3>2, <3>3
    <3>5. Lists(tables[k], k, m)'
      BY <3>4
    <3> QED
      BY <2>1, <3>5
  <2>4. CASE k = g /\ e.sub /\ h <= Cap["depth"]
    <3>1. tables'[k] = t /\ Lists(t, k, p)'
      BY <1>24, <1>28, <1>29, <2>4
    <3>2. Lists(tables[k], k, p)'
      BY <3>1
    <3> QED
      BY <2>1, <3>2
  <2> QED
    BY <1>31, <2>2, <2>3, <2>4
<1>34. \A m \in 0 .. Len(found') : (\E k \in 1 .. Len(tables') : Lists(tables[k], k, m)') \/ Complete(m)'
  <2> SUFFICES ASSUME NEW m \in 0 .. p
               PROVE  (\E k \in 1 .. Len(tables') : Lists(tables[k], k, m)') \/ Complete(m)'
    BY <1>15
  <2>1. CASE m = p
    <3>1. CASE e.sub /\ h <= Cap["depth"]
      <4>1. tables'[g] = t /\ Lists(t, g, p)' /\ g \in 1 .. Len(tables')
        BY <1>5, <1>24, <1>28, <1>29, <3>1
      <4>2. Lists(tables[g], g, p)'
        BY <4>1
      <4> QED
        BY <2>1, <4>1, <4>2
    <3>2. CASE ~(e.sub /\ h <= Cap["depth"])
      BY <1>30, <2>1, <3>2
    <3> QED
      BY <3>1, <3>2
  <2>2. CASE m = o
    BY <1>31, <1>32, <2>2
  <2>3. CASE m # p /\ m # o
    <3>1. m \in 0 .. n
      BY <1>5, <1>13, <2>3
    <3>2. CASE Complete(m)
      BY <1>10, <1>19, <1>20, <2>3, <3>1, <3>2, CompleteKept
    <3>3. CASE ~Complete(m)
      <4>1. PICK k \in 1 .. h : Lists(tables[k], k, m)
        BY <1>2, <1>3, <3>1, <3>3 DEF TreeInv
      <4>2. k # h
        BY <1>2, <1>3, <1>4, <1>5, <2>3, <3>1, <4>1, OneOwner
      <4>3. k \in 1 .. h - 1 /\ k \in 1 .. Len(tables')
        BY <1>5, <1>31, <4>1, <4>2
      <4>4. PICK u : u = tables[k]
        OBVIOUS
      <4>5. tables'[k] = u /\ Lists(u, k, m)'
        BY <1>26, <3>1, <4>1, <4>3, <4>4
      <4>6. Lists(tables[k], k, m)'
        BY <4>5
      <4> QED
        BY <4>3, <4>6
    <3> QED
      BY <3>2, <3>3
  <2> QED
    BY <2>1, <2>2, <2>3
<1>35. TreeInv'
  BY <1>31, <1>33, <1>34 DEF TreeInv
<1> QED
  BY <1>1, <1>15, <1>18, <1>24, <1>35 DEF Tree

\* What is counted is how many entries can be read.
LEMMA ChildCountIs ==
  ASSUME NEW rva, CanRead("directory", rva), Value("directory", rva) \in Nat, NEW c, AllRead(rva, c)
  PROVE  ChildCount(rva) = c
<1> DEFINE n == Value("directory", rva)
           P(k) == /\ \A i \in 0 .. k - 1 :
                        CanRead("node", SlotRva("node", Wrap(rva + Size["directory"]), i))
                   /\ k = n \/ ~CanRead("node", SlotRva("node", Wrap(rva + Size["directory"]), k))
<1>1. Cap["node"] \in Nat
  BY SizeTypes DEF Entries
<1>2. c \in 0 .. EntryCount(rva)
  BY DEF AllRead, Readable
<1>3. CASE n > Cap["node"]
  BY <1>1, <1>2, <1>3 DEF EntryCount, ChildCount
<1>4. CASE ~(n > Cap["node"])
  <2>1. ChildCount(rva) = CHOOSE k \in 0 .. n : P(k)
    BY <1>4 DEF ChildCount
  <2>2. c \in 0 .. n /\ P(c)
    BY <1>2, <1>4 DEF AllRead, Readable, EntryCount, EntryRva
  <2>3. ASSUME NEW k \in 0 .. n, NEW l \in 0 .. n, P(k), P(l), k < l PROVE FALSE
    <3>1. k \in 0 .. l - 1 /\ k # n
      BY <2>3
    <3> QED
      BY <2>3, <3>1
  <2> HIDE DEF P
  <2>4. \A k \in 0 .. n : P(k) => k = c
    BY <2>2, <2>3
  <2> QED
    BY <2>1, <2>2, <2>4
<1> QED
  BY <1>3, <1>4

\* Nothing changes.
LEMMA TreeStutter ==
  ASSUME TypeOK, Tree, UNCHANGED <<parserVars, directory, tables, found, content>>
  PROVE  Tree'
<1>1. Kept
  BY DEF Kept
<1>2. \A m \in 1 .. Len(found) : NodeListed(found[m])
  BY DEF Tree
<1>3. \A m \in 1 .. Len(found') : NodeListed(found[m])'
  <2> SUFFICES ASSUME NEW m \in 1 .. Len(found) PROVE NodeListed(found[m])'
    OBVIOUS
  <2>1. PICK r : r = found[m]
    OBVIOUS
  <2>2. NodeListed(r)' /\ found'[m] = r
    BY <1>1, <1>2, <2>1, NodeKept
  <2> QED
    BY <2>2
<1>4. ASSUME NEW m \in 0 .. Len(found)
      PROVE  (m # 0 => Known("node", found[m].at) /\ found'[m] = found[m]) /\ Below(m)' = Below(m)
  BY <1>2 DEF NodeListed, Below
<1>5. ASSUME NEW m \in 0 .. Len(found), NEW k \in 1 .. Len(tables), Lists(tables[k], k, m)
      PROVE  Lists(tables[k], k, m)'
  <2>1. PICK t : t = tables[k]
    OBVIOUS
  <2>2. \A j \in m + 1 .. Len(found') : found'[j].depth >= k - 1
    BY <1>5 DEF Lists
  <2>3. Lists(t, k, m)' /\ tables'[k] = t
    BY <1>1, <1>4, <1>5, <2>1, <2>2, ListsKept
  <2> QED
    BY <2>3
<1>6. \A m \in 0 .. Len(found) : Complete(m) => Complete(m)'
  BY <1>1, <1>4, CompleteKept
<1>7. TreeInv
  BY DEF Tree
<1>8. TreeInv'
  <2>1. \A k \in 1 .. Len(tables) : \E m \in 0 .. Len(found) : Lists(tables[k], k, m)'
    BY <1>5, <1>7 DEF TreeInv
  <2>2. \A m \in 0 .. Len(found) :
          (\E k \in 1 .. Len(tables) : Lists(tables[k], k, m)') \/ Complete(m)'
    BY <1>5, <1>6, <1>7 DEF TreeInv
  <2> QED
    BY <1>7, <2>1, <2>2 DEF TreeInv
<1> QED
  BY <1>3, <1>8 DEF Tree

LEMMA ResourcesStep ==
  ASSUME TypesInv, ResourcesInv, [Next]_vars
  PROVE  ResourcesInv'
<1>1. TypeOK /\ ParserTypeOK /\ PhaseInv /\ LoopsInv
  BY DEF TypesInv, TypeOK
<1>2. CASE ParserNext /\ UNCHANGED dirVars
  <2>1. kind = "none" /\ kind' = kind
    BY <1>1, <1>2, ParserStep DEF PhaseInv, dirVars
  <2> QED
    BY <2>1 DEF ResourcesInv
<1>3. ASSUME NEW k \in Kinds, NEW d \in Directories, Begin(k, d) PROVE ResourcesInv'
  BY <1>3, ResourcesBegin
<1>4. CASE Parse
  <2>1. tables # <<>> /\ UNCHANGED <<kind, directory>>
    BY <1>1, <1>4, ParseChanges
  <2> SUFFICES ASSUME kind = "resources", directory.va # 0, directory.size # 0 PROVE ResourcesInv'
    BY <2>1 DEF ResourcesInv
  <2>2. Tree
    BY DEF ResourcesInv, Tree
  <2>3. Loop.of \in {"directory", "node"}
    BY <1>1, <2>1, <2>2, RunningLists DEF Tree
  <2>4. \/ EndOfTable
        \/ Reading("directory") /\ \E c \in Counts : ResourceDirectory(c)
        \/ Reading("node") /\ \E e \in Nodes : Node(e)
    BY <1>4, <2>3, StepsOf
  <2>5. Tree' /\ (outcome' # "pending" => tables' = <<>>)
    BY <1>1, <2>2, <2>4, TreeTableEnds, DirectoryStep, NodeStep
  <2> QED
    BY <2>5 DEF ResourcesInv, Tree
<1>5. CASE UNCHANGED vars
  <2>1. UNCHANGED <<parserVars, kind, directory, tables, found, outcome, content>>
    BY <1>5 DEF vars, dirVars
  <2> SUFFICES ASSUME kind = "resources", directory.va # 0, directory.size # 0 PROVE ResourcesInv'
    BY <2>1 DEF ResourcesInv
  <2>2. Tree
    BY DEF ResourcesInv, Tree
  <2>3. Tree'
    BY <1>1, <2>1, <2>2, TreeStutter
  <2> QED
    BY <2>1, <2>3 DEF ResourcesInv, Tree
<1> QED
  BY <1>2, <1>3, <1>4, <1>5 DEF Next

LEMMA ResourcesMirror ==
  ASSUME TypeOK, ResourcesInv
  PROVE  ResourcesMirrorFile
<1> SUFFICES ASSUME Done("resources") PROVE /\ Cardinality(Below(0)) = ChildCount(directory.va)
                                            /\ \A m \in 1 .. Len(found) :
                                                 LET e == Value("node", found[m].at) IN
                                                 /\ found[m].depth <= Cap["depth"]
                                                 /\ found[m].identity = Identity(e)
                                                 /\ found[m].leaf = ~e.sub /\ found[m].data = DataOf(e)
                                                 /\ Cardinality(Below(m)) =
                                                      IF e.sub /\ found[m].depth < Cap["depth"]
                                                      THEN ChildCount(ResourceRva(e.offset)) ELSE 0
  BY DEF ResourcesMirrorFile
<1>1. /\ found \in Seq(NodeType) /\ (\A m \in 1 .. Len(found) : NodeListed(found[m]))
      /\ TreeInv /\ tables = <<>>
  BY DEF ResourcesInv, Done
<1>2. \A m \in 0 .. Len(found) : Complete(m)
  <2>1. \A k \in 1 .. Len(tables) : FALSE
    BY <1>1
  <2> QED
    BY <1>1, <2>1 DEF TreeInv
<1>3. Cardinality({}) = 0
  BY FS_EmptySet
<1>4. ASSUME NEW m \in 0 .. Len(found)
      PROVE  Cardinality(Below(m)) = IF IsParent(m) THEN ChildCount(TableRva(m)) ELSE 0
  <2>1. CASE IsParent(m) /\ CanRead("directory", TableRva(m))
    <3>1. Value("directory", TableRva(m)) \in Counts /\ AllRead(TableRva(m), Cardinality(Below(m)))
      BY <1>2, <2>1 DEF Complete
    <3>2. Value("directory", TableRva(m)) \in Nat
      BY <3>1, FieldTypes
    <3> QED
      BY <2>1, <3>1, <3>2, ChildCountIs
  <2>2. CASE ~(IsParent(m) /\ CanRead("directory", TableRva(m)))
    <3>1. Below(m) = {}
      BY <1>2, <2>2 DEF Complete
    <3>2. ~CanRead("directory", TableRva(m)) => ChildCount(TableRva(m)) = 0
      BY DEF ChildCount
    <3> QED
      BY <1>3, <2>2, <3>1, <3>2
  <2> QED
    BY <2>1, <2>2
<1>5. Len(found) \in Nat
  BY <1>1
<1>6. Cardinality(Below(0)) = ChildCount(directory.va)
  <2>1. IsParent(0) /\ TableRva(0) = directory.va /\ 0 \in 0 .. Len(found)
    BY <1>5 DEF IsParent, TableRva
  <2> QED
    BY <1>4, <2>1
<1>7. ASSUME NEW m \in 1 .. Len(found), NEW e, e = Value("node", found[m].at)
      PROVE  /\ found[m].depth <= Cap["depth"]
             /\ found[m].identity = Identity(e)
             /\ found[m].leaf = ~e.sub /\ found[m].data = DataOf(e)
             /\ Cardinality(Below(m)) =
                  IF e.sub /\ found[m].depth < Cap["depth"] THEN ChildCount(ResourceRva(e.offset)) ELSE 0
  <2>1. m # 0 /\ m \in 0 .. Len(found) /\ NodeListed(found[m])
    BY <1>1, <1>5
  <2>2. (IsParent(m) <=> e.sub /\ found[m].depth < Cap["depth"]) /\ TableRva(m) = ResourceRva(e.offset)
    BY <1>7, <2>1 DEF IsParent, TableRva
  <2>3. Cardinality(Below(m)) = IF IsParent(m) THEN ChildCount(TableRva(m)) ELSE 0
    BY <1>4, <2>1
  <2> QED
    BY <1>7, <2>1, <2>2, <2>3 DEF NodeListed
<1> QED
  BY <1>6, <1>7

\* PEResources.hpp:3-5: for every file, however its directories are shared or
\* lead back to one another, the tree that parseResources lists is the one in
\* the file, down to the depth that is allowed.
THEOREM ResourcesAlwaysMirrorFile == Spec => []ResourcesMirrorFile
<1>1. Init => ResourcesInv
  BY DEF Init, ResourcesInv
<1>2. TypesInv /\ ResourcesInv /\ [Next]_vars => ResourcesInv'
  BY ResourcesStep
<1>3. TypesInv /\ ResourcesInv => ResourcesMirrorFile
  BY ResourcesMirror DEF TypesInv
<1> QED
  BY <1>1, <1>2, <1>3, TypesHold, PTL DEF Spec

=============================================================================
