--------------------------- MODULE ServerRefinement ---------------------------
(***************************************************************************)
(* The server's handlers and managers implement AbstractDecryption.        *)
(* Operations that need nobody are not covered: the abstract specification *)
(* has nothing to say about them.                                          *)
(***************************************************************************)
EXTENDS ServerProperties

StageOf(o) ==
    CASE prep[o] # Absent -> "looking"
      [] collected[o] # Absent -> "collecting"
      [] prep[o] = Absent /\ collected[o] = Absent /\ team[o] # Absent ->
            IF HasResult(o) THEN "reported" ELSE "complete"
      [] OTHER -> "none"

JoinedIn(o) ==
    CASE StageOf(o) = "looking" -> prep[o].owners_found \cup prep[o].reg_members_found
      [] StageOf(o) = "none" -> {}
      [] OTHER -> Participants(o)

ContributedTo(o) ==
    CASE StageOf(o) = "collecting" -> Contributors(o)
      [] StageOf(o) \in {"complete", "reported"} -> Participants(o)
      [] OTHER -> {}

Abstract == INSTANCE AbstractDecryption WITH
    stage <- [o \in OpIDs |-> StageOf(o)],
    joined <- [o \in OpIDs |-> JoinedIn(o)],
    contributed <- [o \in OpIDs |-> ContributedTo(o)]

\* Every step of the server is one of AbstractDecryption's, or none: members
\* join while they are looked for and never twice, each joined member
\* contributes exactly once, and the operation completes with the last of them.
ImplementsAbstractDecryption == Abstract!ASpec

\* Under the clients' fairness, what has enough participants gets reported.
ImplementsAbstractLiveness == Abstract!AFairSpec
==============================================================================
