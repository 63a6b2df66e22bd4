----------------------------- MODULE OnceOutcome -----------------------------
(***************************************************************************)
(* What initialization promises the threads that call it: the process      *)
(* settles on one outcome, once, and every answer a call gives afterwards  *)
(* agrees with it.                                                         *)
(***************************************************************************)
EXTENDS LogConfig

VARIABLES
    outcome,   \* "undecided", or the outcome the process settled on
    returned   \* every answer given so far, with the call it was given to

Outcomes ==
    {"Ok", "ForeignGlobalLogger", "ForeignGlobalSubscriber", "InstallationIncomplete"}

\* A bad configuration is reported only while nothing of ours is installed.  A
\* strict call is told Ok only if no call was told so before it.
Agrees(answer, o, earlier) ==
    \/ answer.verdict = "panic"
    \/ answer.verdict \in ConfigErrors /\ o \in {"undecided", "ForeignGlobalSubscriber"}
    \/ answer.verdict = "AlreadyInitialized" /\ o = "Ok" /\ ~answer.idempotent
    \/ /\ answer.verdict = "Ok" /\ o = "Ok"
       /\ \/ answer.idempotent
          \/ \A e \in earlier : e.verdict \notin {"Ok", "AlreadyInitialized"}
    \/ answer.verdict = o /\ o \notin {"Ok", "undecided"}

Settle ==
    IF outcome = "undecided" THEN outcome' \in Outcomes \cup {"undecided"}
                             ELSE outcome' = outcome

Init == outcome = "undecided" /\ returned = {}

\* A foreign subscriber may take the slot before any call is made.
Next ==
    /\ Settle
    /\ \/ returned' = returned
       \/ \E answer \in returned' :
            /\ returned' = returned \cup {answer}
            /\ Agrees(answer, outcome', returned)

Spec == Init /\ [][Next]_<<outcome, returned>>

=============================================================================
