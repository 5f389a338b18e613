----------------------------- MODULE HandleName -----------------------------
(***************************************************************************)
(* What IHandleManager::resolveName promises its callers, with nothing     *)
(* about threads, handles and clocks: a call that was asked is answered    *)
(* once; it may be answered at any time with "unresolved" or, since the    *)
(* query can block, "timed out"; but it is answered with a name only after *)
(* the object manager has decided what the object's name is, and with that *)
(* name.                                                                   *)
(***************************************************************************)
CONSTANTS
  Calls,    \* the calls of resolveName; call c asks about object c
  NoName,   \* the empty name: an unnamed object, or a query that failed
  Pending   \* the object manager has not decided yet, maybe never will

VARIABLES
  phase,    \* call -> "idle", "asked", "answered"
  outcome,  \* call -> what the object manager says: Pending, NoName or the name of c
  answer    \* call -> HandleObjectName

absVars == <<phase, outcome, answer>>

Nothing    == [resolved |-> FALSE, timedOut |-> FALSE, name |-> NoName]
TimedOut   == [resolved |-> FALSE, timedOut |-> TRUE, name |-> NoName]
Resolved(n) == [resolved |-> TRUE, timedOut |-> FALSE, name |-> n]

Init ==
  /\ phase = [c \in Calls |-> "idle"]
  /\ outcome = [c \in Calls |-> Pending]
  /\ answer = [c \in Calls |-> Nothing]

Ask(c) ==
  /\ phase[c] = "idle"
  /\ phase' = [phase EXCEPT ![c] = "asked"]
  /\ UNCHANGED <<outcome, answer>>

\* The object manager may decide before or after the caller has given up.
Decide(c) ==
  /\ phase[c] # "idle"
  /\ outcome[c] = Pending
  /\ outcome' \in {[outcome EXCEPT ![c] = n] : n \in {c, NoName}}
  /\ UNCHANGED <<phase, answer>>

AnswerWith(c, a) ==
  /\ phase[c] = "asked"
  /\ phase' = [phase EXCEPT ![c] = "answered"]
  /\ answer' = [answer EXCEPT ![c] = a]
  /\ UNCHANGED outcome

AnswerName(c) == outcome[c] # Pending /\ AnswerWith(c, Resolved(outcome[c]))
GiveUp(c)     == AnswerWith(c, Nothing) \/ AnswerWith(c, TimedOut)

Next == \E c \in Calls : Ask(c) \/ Decide(c) \/ AnswerName(c) \/ GiveUp(c)

Spec == Init /\ [][Next]_absVars

=============================================================================
