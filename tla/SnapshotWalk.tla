---------------------------- MODULE SnapshotWalk ----------------------------
(***************************************************************************)
(* core/detail/SnapshotWalk.hpp: forEachProcess over the answer of         *)
(* NtQuerySystemInformation, and its two callers: ProcessManager::snapshot *)
(* lists every record, ThreadManager::snapshot the threads of one process. *)
(*                                                                         *)
(* The bytes are whatever they are: a record is chosen when its header is  *)
(* read, which is as good as choosing all of them first because no offset  *)
(* is read twice.  Of a record only the fields that steer the walk are     *)
(* modelled; a row of the result is the offset it was copied from.         *)
(***************************************************************************)
EXTENDS Integers, Sequences, SequencesExt

CONSTANTS
  HeaderSize,    \* sizeof(SystemProcessInformation)
  ThreadSize,    \* sizeof(SystemThreadInformation)
  SizeModulus,   \* 2^w of size_t
  UlongModulus,  \* 2^w of ULONG, the type of lengths, counts and offsets
  Totals,        \* sizes the buffer can have
  ThreadCounts,  \* values of NumberOfThreads
  Nexts,         \* values of NextEntryOffset
  Pids,
  Everybody      \* the target of ProcessManager::snapshot

ASSUME WalkAssumption ==
  /\ HeaderSize \in Nat \ {0} /\ ThreadSize \in Nat \ {0}
  /\ UlongModulus \in Nat /\ SizeModulus \in Nat \ {0}
  /\ Totals \subseteq 0 .. UlongModulus - 1
  /\ ThreadCounts \subseteq 0 .. UlongModulus - 1
  /\ Nexts \subseteq 0 .. UlongModulus - 1
  /\ Everybody \notin Pids

\* On x64 a size_t holds every sum and product of these.
ASSUME WidthAssumption ==
  \A n \in 0 .. UlongModulus - 1 :
    UlongModulus + UlongModulus + HeaderSize + n * ThreadSize < SizeModulus

VARIABLES
  total,    \* size of the buffer
  target,   \* the process asked for, or Everybody
  offset,   \* of the record that is read next
  outcome,  \* "pending", "ok" or "error"
  list,     \* rows: the offsets they were read from
  chain     \* history: the headers read, each with its offset

vars == <<total, target, offset, outcome, list, chain>>

Record == [pid : Pids, threads : ThreadCounts, next : Nexts]

\* Types; the walk is always at an offset inside the buffer, or at its start.
TypeOK ==
  /\ total \in Totals
  /\ target \in Pids \cup {Everybody}
  /\ offset \in Nat /\ (offset = 0 \/ offset < total)
  /\ outcome \in {"pending", "ok", "error"}
  /\ list \in Seq(Nat)
  /\ chain \in Seq([at : Nat, rec : Record])

Init ==
  /\ total \in Totals
  /\ target \in Pids \cup {Everybody}
  /\ offset = 0
  /\ outcome = "pending"
  /\ list = <<>>
  /\ chain = <<>>

-----------------------------------------------------------------------------

Plus(a, b) == (a + b) % SizeModulus

\* The test without the size of what is to be read.
HeaderStartsInside == offset <= total

HeaderFits == Plus(offset, HeaderSize) <= total

\* The test with a strict comparison.
ThreadsFitWithRoom(r) ==
  r.threads > 0 =>
    Plus(Plus(offset, HeaderSize), (r.threads * ThreadSize) % SizeModulus) < total

ThreadsFit(r) ==
  r.threads > 0 =>
    Plus(Plus(offset, HeaderSize), (r.threads * ThreadSize) % SizeModulus) <= total

NextIsInside(r) ==
  /\ Plus(offset, r.next) > offset
  /\ Plus(offset, r.next) < total

\* The rows of a record: the record itself, or each of its threads.
Rows(r) ==
  IF target = Everybody THEN <<offset>>
  ELSE IF r.pid = target
  THEN [i \in 1 .. r.threads |-> offset + HeaderSize + (i - 1) * ThreadSize]
  ELSE <<>>

\* The callers drop what they have when the walk fails.
Fail ==
  /\ outcome' = "error"
  /\ list' = <<>>
  /\ UNCHANGED <<total, target, offset>>

Read(r) ==
  /\ outcome = "pending" /\ HeaderFits
  /\ chain' = Append(chain, [at |-> offset, rec |-> r])

\* The callback is called.
Visit(r) ==
  /\ Read(r) /\ ThreadsFit(r)
  /\ list' = list \o Rows(r)
  /\ UNCHANGED <<total, target>>

TruncatedHeader ==
  /\ outcome = "pending" /\ ~HeaderFits
  /\ Fail
  /\ UNCHANGED chain

ThreadsOutOfRange(r) == Read(r) /\ ~ThreadsFit(r) /\ Fail

\* The process asked for ends the walk.
Stop(r) ==
  /\ Visit(r) /\ r.pid = target
  /\ outcome' = "ok"
  /\ UNCHANGED offset

LastEntry(r) ==
  /\ Visit(r) /\ r.pid # target /\ r.next = 0
  /\ outcome' = "ok"
  /\ UNCHANGED offset

InvalidNext(r) ==
  /\ Read(r) /\ ThreadsFit(r)
  /\ r.pid # target /\ r.next # 0 /\ ~NextIsInside(r)
  /\ Fail

\* A record that ends the buffer taken for the last one.
AdvanceToEnd(r) ==
  /\ Visit(r) /\ r.pid # target /\ r.next # 0 /\ NextIsInside(r)
  /\ offset' = Plus(offset, r.next)
  /\ outcome' = IF Plus(offset', HeaderSize) >= total THEN "ok" ELSE outcome

Advance(r) ==
  /\ Visit(r) /\ r.pid # target /\ r.next # 0 /\ NextIsInside(r)
  /\ offset' = Plus(offset, r.next)
  /\ UNCHANGED outcome

Next ==
  \/ TruncatedHeader
  \/ \E r \in Record :
       ThreadsOutOfRange(r) \/ Stop(r) \/ LastEntry(r) \/ InvalidNext(r) \/ Advance(r)

Spec == Init /\ [][Next]_vars

-----------------------------------------------------------------------------
(* Properties.                                                             *)

\* SnapshotWalk.hpp:10-11: whatever the bytes are, a header that is read, the
\* threads of a record that is visited and so every row lie in the buffer.
ReadsStayInBuffer ==
  /\ \A i \in 1 .. Len(chain) : chain[i].at + HeaderSize <= total
  /\ \A i \in 1 .. Len(list) :
       list[i] + (IF target = Everybody THEN HeaderSize ELSE ThreadSize) <= total

\* The record and its threads lie in the buffer, and so does the next header.
WellFormed(entry) ==
  /\ entry.at + HeaderSize + entry.rec.threads * ThreadSize <= total
  /\ entry.rec.next # 0 => entry.at + entry.rec.next + HeaderSize <= total

\* forEachProcess: a buffer that holds the first header and whose records are
\* well formed is never rejected, however tightly it is filled.
WellFormedIsAccepted ==
  outcome = "error" =>
    total < HeaderSize \/ \E i \in 1 .. Len(chain) : ~WellFormed(chain[i])

Linked ==
  \A i \in 1 .. Len(chain) - 1 : chain[i + 1].at = chain[i].at + chain[i].rec.next

ChainEnded == chain # <<>> /\ Last(chain).rec.next = 0

\* ProcessManager::snapshot and ThreadManager::snapshot: a result without error
\* is the whole chain from the first record to the one nothing follows, or the
\* threads of the first record of the process, and no threads only when the
\* whole chain has no such record or that record has none.
ResultIsTheChain ==
  /\ Linked
  /\ outcome = "ok" =>
       IF target = Everybody
       THEN ChainEnded /\ list = [i \in 1 .. Len(chain) |-> chain[i].at]
       ELSE /\ \A i \in 1 .. Len(chain) - 1 : chain[i].rec.pid # target
            /\ \/ Last(chain).rec.pid = target /\ Len(list) = Last(chain).rec.threads
               \/ ChainEnded /\ list = <<>>

=============================================================================
