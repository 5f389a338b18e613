-------------------------- MODULE MCPEDirectories --------------------------
(***************************************************************************)
(* The instance of PEDirectories that TLC checks.  A unit of size stands   *)
(* for two bytes at most: a header or an entry has one or two, a character *)
(* one.                                                                    *)
(***************************************************************************)
EXTENDS PEDirectories, TLC

MCOptionalSize == [m \in Magics |-> IF m = "pe32+" THEN 2 ELSE 1]

\* A section with a tail that no byte backs, and one that is larger in the file
\* than in memory and cut off by the end of the file: a string that begins at its
\* last RVA runs into that end.
MCSectionHeaders ==
  {[va |-> 4, virtual |-> 4, raw |-> 3, pointer |-> 3],
   [va |-> 9, virtual |-> 2, raw |-> 6, pointer |-> 7]}

\* From the start of a section across its end, and to the end of the address space.
MCDirectories ==
  {Nothing, [va |-> 4, size |-> 7], [va |-> 6, size |-> 10]}

MCSize ==
  [k \in Entries \cup Payloads |-> IF k \in {"block", "certificate", "rsds"} THEN 2 ELSE 1]

MCCap ==
  [k \in Entries \cup {"depth", "text"} |->
     CASE k \in {"block", "certificate"} -> 4 [] k = "debug" -> 8 [] OTHER -> 2]

=============================================================================
