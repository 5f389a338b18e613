---------------------------- MODULE QueryBuffer ----------------------------
(***************************************************************************)
(* ntapi/detail/QueryBuffer.hpp: queryIntoGrowingBuffer, the loop every    *)
(* variable-length native query of ntapi runs in.  The kernel is asked     *)
(* again with a larger buffer until the answer fits; what the answer needs *)
(* changes between two asks, because the tables it lists do.               *)
(*                                                                         *)
(* Lengths are in bytes of LengthType, so they wrap at Modulus (2^32 for   *)
(* ULONG, 2^64 for SIZE_T).  The bytes themselves are not modelled: of an  *)
(* answer only how many of them the kernel wrote.                          *)
(***************************************************************************)
EXTENDS Integers

CONSTANTS
  InitialSize,  \* the caller's first guess
  MaxAttempts,  \* maxAttempts
  Modulus,      \* 2^w of LengthType
  MaxNeed       \* bound: bytes an answer can need

ASSUME QueryAssumption ==
  /\ Modulus \in Nat \ {0}
  /\ InitialSize \in 1 .. Modulus - 1
  /\ MaxAttempts \in Nat \ {0}
  /\ MaxNeed \in 0 .. Modulus - 1

VARIABLES
  need,      \* kernel: bytes the answer needs now
  size,      \* length passed to the next call
  attempt,   \* calls made so far that were too small
  result,    \* "pending", "ok", "error" or "no_convergence"
  buffer,    \* on success: bytes returned and bytes the kernel wrote
  lastAsk,   \* history: length passed to the last call and the length it reported
  wrapped    \* history: a next length did not fit LengthType

loopVars  == <<size, attempt, result, buffer, lastAsk, wrapped>>
queryVars == <<need, loopVars>>

QueryTypeOK ==
  /\ need \in 0 .. MaxNeed
  /\ size \in 0 .. Modulus - 1
  /\ attempt \in 0 .. MaxAttempts
  /\ result \in {"pending", "ok", "error", "no_convergence"}
  /\ buffer \in [length : Nat, written : Nat]
  /\ lastAsk \in [size : Nat, reported : Nat]
  /\ wrapped \in BOOLEAN

QueryInit ==
  /\ need \in 0 .. MaxNeed
  /\ size = InitialSize
  /\ attempt = 0
  /\ result = "pending"
  /\ buffer = [length |-> 0, written |-> 0]
  /\ lastAsk = [size |-> 0, reported |-> 0]
  /\ wrapped = FALSE

-----------------------------------------------------------------------------

\* Processes, handles and names appear and go while nobody asks.
KernelChanges ==
  /\ result = "pending"
  /\ need' \in 0 .. MaxNeed \ {need}
  /\ UNCHANGED loopVars

\* The shrinking without its test for "nothing reported".
ShrunkToReported(reported) == IF reported <= size THEN reported ELSE size

\* A reported length is used only when it lies within what was asked for.
Shrunk(reported) == IF reported > 0 /\ reported <= size THEN reported ELSE size

\* The answer fits.  A query class reports its length on success or leaves 0.
AnswerFits(reported) ==
  /\ result = "pending"
  /\ need <= size
  /\ reported \in {0, need}
  /\ result' = "ok"
  /\ buffer' = [length |-> Shrunk(reported), written |-> need]
  /\ lastAsk' = [size |-> size, reported |-> reported]
  /\ UNCHANGED <<need, size, attempt, wrapped>>

\* The reported length, without headroom.
WantedExact(reported) == IF reported > size THEN reported ELSE size * 2

\* Half as much again as reported, or twice the last size.
Wanted(reported) == IF reported > size THEN reported + reported \div 2 ELSE size * 2

NextSize(reported) == Wanted(reported) % Modulus

\* The loop that retries without counting.
TooSmallForEver(reported) ==
  /\ result = "pending"
  /\ need > size
  /\ reported \in {0, need}
  /\ size' = NextSize(reported)
  /\ lastAsk' = [size |-> size, reported |-> reported]
  /\ wrapped' = (wrapped \/ Wanted(reported) >= Modulus)
  /\ UNCHANGED <<need, attempt, result, buffer>>

\* The answer does not fit, whether or not the call says how long it is.
TooSmall(reported) ==
  /\ result = "pending"
  /\ need > size
  /\ reported \in {0, need}
  /\ size' = NextSize(reported)
  /\ attempt' = attempt + 1
  /\ result' = IF attempt + 1 < MaxAttempts THEN "pending" ELSE "no_convergence"
  /\ lastAsk' = [size |-> size, reported |-> reported]
  /\ wrapped' = (wrapped \/ Wanted(reported) >= Modulus)
  /\ UNCHANGED <<need, buffer>>

\* Any other status ends the query.
AskFails ==
  /\ result = "pending"
  /\ result' = "error"
  /\ UNCHANGED <<need, size, attempt, buffer, lastAsk, wrapped>>

Invoke == AskFails \/ \E reported \in 0 .. MaxNeed : AnswerFits(reported) \/ TooSmall(reported)

QueryNext == KernelChanges \/ Invoke

QuerySpec == QueryInit /\ [][QueryNext]_queryVars

\* The loop runs on in its thread, and every call of the kernel returns.
FairSpec == QuerySpec /\ WF_queryVars(Invoke)

-----------------------------------------------------------------------------
(* Properties.                                                             *)

\* A successful query returns all the kernel wrote in the one call that
\* succeeded, never the length of another ask: exactly that much when the call
\* reported it, and nothing past the length that was asked for otherwise.
AnswerIsComplete ==
  result = "ok" =>
    /\ buffer.written <= buffer.length
    /\ lastAsk.reported > 0 => buffer.length = buffer.written
    /\ buffer.length <= lastAsk.size

\* QueryBuffer.hpp:46-47: a table that grew by no more than half since it was
\* reported fits the next attempt.  (The length type must hold that length.)
HeadroomAbsorbsGrowth ==
  LET withHeadroom == lastAsk.reported + lastAsk.reported \div 2 IN
  (/\ result = "pending"
   /\ lastAsk.reported > lastAsk.size
   /\ withHeadroom < Modulus
   /\ need <= withHeadroom) => need <= size

\* b to the power n.
Power(b) == LET p[n \in 0 .. MaxAttempts] == IF n = 0 THEN 1 ELSE b * p[n - 1] IN p

\* The sizes asked for grow by at least half per attempt, so giving up means
\* that the answer outgrew (3/2)^(MaxAttempts - 1) times the first guess, or
\* that a size did not fit the length type.
GivesUpOnlyIfOutgrown ==
  result = "no_convergence" /\ ~wrapped =>
    need * Power(2)[MaxAttempts - 1] > InitialSize * Power(3)[MaxAttempts - 1]

\* The loop ends whatever the kernel answers, even one that always needs more.
Terminates == <>(result # "pending")

\* SystemInformation.cpp:55, "A system with no pagefile returns STATUS_SUCCESS
\* with a zero-length buffer": when the kernel has nothing to list, the caller
\* gets a buffer it can tell to be empty.
NothingWrittenIsEmpty ==
  result = "ok" /\ buffer.written = 0 => buffer.length = 0

=============================================================================
