------------------------------ MODULE PEParser ------------------------------
(***************************************************************************)
(* core/pe: PEParser::parseFile, from a mapped file of at least one byte   *)
(* to a PEFile, and PEFile::rvaToOffset, the translation every directory   *)
(* parser goes through.                                                    *)
(*                                                                         *)
(* The bytes are whatever they are: what a header holds is chosen when it  *)
(* is read, and of a header only the fields that steer the parser and the  *)
(* translation are kept.  Headers that overlap in the file are chosen      *)
(* independently.  size_t is wider than the 32 bits of an RVA.             *)
(***************************************************************************)
EXTENDS Integers, Sequences

CONSTANTS
  FileSizes,       \* sizes of the mapped file
  DosSize, SignatureSize, FileHeaderSize, MagicSize, SectionSize,
                   \* sizeof of the headers
  OptionalSize,    \* sizeof of the optional header, of each magic
  RvaModulus,      \* 2^32
  SizeModulus,     \* 2^w of size_t
  NewOffsets,      \* e_lfanew as a size_t: a negative one is huge
  OptionalSizes,   \* SizeOfOptionalHeader as the file records it
  SectionCounts,   \* NumberOfSections
  HeaderSizes,     \* SizeOfHeaders
  SectionHeaders,  \* section headers
  None             \* an RVA no byte of the file backs

Magics == {"pe32", "pe32+"}

SectionHeader == [va : 0 .. RvaModulus - 1, virtual : 0 .. RvaModulus - 1,
                  raw : 0 .. RvaModulus - 1, pointer : 0 .. RvaModulus - 1]

ASSUME ParserAssumption ==
  /\ RvaModulus \in Nat \ {0} /\ SizeModulus \in Nat \ {0}
  /\ FileSizes \subseteq 1 .. SizeModulus - 1
  /\ {DosSize, SignatureSize, FileHeaderSize, MagicSize, SectionSize} \subseteq Nat \ {0}
  /\ OptionalSize \in [Magics -> Nat \ {0}]
  /\ NewOffsets \subseteq 0 .. SizeModulus - 1
  /\ OptionalSizes \subseteq Nat /\ SectionCounts \subseteq Nat
  /\ HeaderSizes \subseteq 0 .. RvaModulus - 1
  /\ SectionHeaders \subseteq SectionHeader
  /\ None \notin Nat

VARIABLES
  fileSize,
  stage,    \* the header that is read next, "parsed" or "failed"
  at,       \* file offset of that header
  header,   \* of FileHeaderInfo: the number of sections and the optional header's size
  pe,       \* PEFile: is64Bit, SizeOfHeaders and the sections
  touched   \* history: the ranges of the file the last step read

parserVars == <<fileSize, stage, at, header, pe>>

Stages == {"dos", "signature", "file", "optional", "table", "sections", "parsed", "failed"}

NoHeader == [count |-> 0, optional |-> 0]
NoFile   == [is64 |-> FALSE, headers |-> 0, sections |-> <<>>]

ParserTypeOK ==
  /\ fileSize \in FileSizes
  /\ stage \in Stages
  /\ at \in 0 .. SizeModulus - 1
  /\ header \in [count : SectionCounts \cup {0}, optional : OptionalSizes \cup {0}]
  /\ pe \in [is64 : BOOLEAN, headers : HeaderSizes \cup {0}, sections : Seq(SectionHeaders)]
  /\ touched \subseteq [at : Nat, size : Nat]

ParserInit ==
  /\ fileSize \in FileSizes
  /\ stage = "dos" /\ at = 0
  /\ header = NoHeader /\ pe = NoFile
  /\ touched = {}

-----------------------------------------------------------------------------
(* Reading.                                                                *)

Extent(offset, n) == [at |-> offset, size |-> n]

\* The test for the start only.
StartsInside(offset, n) == offset <= fileSize

\* readAt, readAtOffset: the whole of it lies in the file.
Fits(offset, n) == offset <= fileSize /\ fileSize - offset >= n

\* The bytes at `at` are read and the next header lies at `offset`.
ReadHeader(n, next, offset) ==
  /\ Fits(at, n)
  /\ touched' = {Extent(at, n)}
  /\ stage' = next
  /\ at' = offset % SizeModulus

-----------------------------------------------------------------------------
(* parseFile                                                               *)

DosHeader(newOffset) ==
  /\ stage = "dos"
  /\ ReadHeader(DosSize, "signature", newOffset)
  /\ UNCHANGED <<fileSize, header, pe>>

NtSignature ==
  /\ stage = "signature"
  /\ ReadHeader(SignatureSize, "file", at + SignatureSize)
  /\ UNCHANGED <<fileSize, header, pe>>

FileHeader(count, optional) ==
  /\ stage = "file"
  /\ ReadHeader(FileHeaderSize, "optional", at + FileHeaderSize)
  /\ header' = [count |-> count, optional |-> optional]
  /\ UNCHANGED <<fileSize, pe>>

\* The magic word first, then the header it announces; the section table
\* follows at the size the file records, not at the size of what was read.
OptionalHeader(magic, headers) ==
  /\ stage = "optional"
  /\ Fits(at, MagicSize)
  /\ ReadHeader(OptionalSize[magic], "table", at + header.optional)
  /\ pe' = [pe EXCEPT !.is64 = magic = "pe32+", !.headers = headers]
  /\ UNCHANGED <<fileSize, header>>

\* The room the whole section table needs is tested before its first entry.
SectionTable ==
  /\ stage = "table"
  /\ Fits(at, header.count * SectionSize)
  /\ stage' = IF header.count = 0 THEN "parsed" ELSE "sections"
  /\ touched' = {}
  /\ UNCHANGED <<fileSize, at, header, pe>>

Section(s) ==
  /\ stage = "sections"
  /\ ReadHeader(SectionSize,
                IF Len(pe.sections) + 1 = header.count THEN "parsed" ELSE "sections",
                at + SectionSize)
  /\ pe' = [pe EXCEPT !.sections = Append(@, s)]
  /\ UNCHANGED <<fileSize, header>>

\* Too short for the header, or for the whole table.
Truncated ==
  \/ stage = "dos" /\ ~Fits(at, DosSize)
  \/ stage = "signature" /\ ~Fits(at, SignatureSize)
  \/ stage = "file" /\ ~Fits(at, FileHeaderSize)
  \/ stage = "optional" /\ (~Fits(at, MagicSize) \/ \E m \in Magics : ~Fits(at, OptionalSize[m]))
  \/ stage = "table" /\ ~Fits(at, header.count * SectionSize)
  \/ stage = "sections" /\ ~Fits(at, SectionSize)

\* An error; the mapping is released with the local that owns it.
Reject ==
  /\ Truncated \/ stage \in {"dos", "signature", "optional"}  \* or a wrong signature
  /\ stage' = "failed"
  /\ touched' = {}
  /\ UNCHANGED <<fileSize, at, header, pe>>

ParserNext ==
  \/ \E o \in NewOffsets : DosHeader(o)
  \/ NtSignature
  \/ \E c \in SectionCounts, o \in OptionalSizes : FileHeader(c, o)
  \/ \E m \in Magics, h \in HeaderSizes : OptionalHeader(m, h)
  \/ SectionTable
  \/ \E s \in SectionHeaders : Section(s)
  \/ Reject

-----------------------------------------------------------------------------
(* PEFile::rvaToOffset                                                     *)

\* In memory a section spans the larger of its two sizes.
Span(s) == IF s.virtual > s.raw THEN s.virtual ELSE s.raw

Holds(s, rva) == s.va <= rva /\ rva < (s.va + Span(s)) % RvaModulus

Holding(rva) == {i \in 1 .. Len(pe.sections) : Holds(pe.sections[i], rva)}

\* The first of some sections, in the order of the table.
FirstOf(sections) == CHOOSE i \in sections : \A j \in sections : i <= j

\* The offset without the test for the uninitialised tail.
OffsetOrTail(s, rva) ==
  LET offset == s.pointer + (rva - s.va)
  IN IF offset < fileSize THEN offset ELSE None

OffsetIn(s, rva) ==
  LET offset == s.pointer + (rva - s.va)
  IN IF rva - s.va < s.raw /\ offset < fileSize THEN offset ELSE None

RvaToOffset(rva) ==
  IF rva < pe.headers THEN IF rva < fileSize THEN rva ELSE None
  ELSE LET holding == Holding(rva)
       IN IF holding = {} THEN None ELSE OffsetIn(pe.sections[FirstOf(holding)], rva)

-----------------------------------------------------------------------------
(* Properties.                                                             *)

\* PEParser.cpp:12-13 and PEReader.hpp:19,41-42: whatever the headers, the sections
\* and the directories say, what is copied lies in the mapped file: every header,
\* entry and payload whole, and of a string every byte.
ReadsStayInFile == \A r \in touched : r.at + r.size <= fileSize

\* A layout a loader accepts: sections behind the headers that do not overlap.
WellLaid ==
  LET S == pe.sections IN
  /\ \A i \in 1 .. Len(S) : pe.headers <= S[i].va /\ S[i].va + Span(S[i]) < RvaModulus
  /\ \A i, j \in 1 .. Len(S) :
       i # j => S[i].va + Span(S[i]) <= S[j].va \/ S[j].va + Span(S[j]) <= S[i].va

\* The bytes of the file that the image has at an RVA.
BytesAt(rva) ==
  LET S         == pe.sections
      InRaw(i)  == S[i].va <= rva /\ rva < S[i].va + S[i].raw
      ofHeaders == IF rva < pe.headers THEN {rva} ELSE {}
      ofSections == {S[i].pointer + (rva - S[i].va) : i \in {j \in 1 .. Len(S) : InRaw(j)}}
  IN (ofHeaders \cup ofSections) \cap 0 .. fileSize - 1

\* PEFile.hpp:50-52: of a well laid image every RVA is translated to the byte
\* of the file it is backed by, and to nothing when no byte backs it, whatever
\* the order of the sections and wherever they are cut off by the end of file.
TranslationFollowsLayout ==
  stage = "parsed" /\ WellLaid =>
    \A rva \in 0 .. RvaModulus - 1 :
      LET bytes == BytesAt(rva) IN
      IF bytes = {} THEN RvaToOffset(rva) = None ELSE bytes = {RvaToOffset(rva)}

=============================================================================
