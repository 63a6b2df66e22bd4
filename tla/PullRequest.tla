----------------------------- MODULE PullRequest -----------------------------
(***************************************************************************)
(* One run of on-pr-synced.yml: the changes job classifies the diff, every *)
(* other job is gated on one class and on the jobs it needs, and           *)
(* ci-success turns their results into the check a merge requires.         *)
(*                                                                         *)
(* That a job is skipped unless its condition holds and all it needs       *)
(* succeeded, and that alls-green accepts the skips it is told to, is      *)
(* GitHub's and the action's part.                                         *)
(***************************************************************************)
EXTENDS CiPaths

CONSTANTS
    Proposals,   \* what a pull request may change: sets of [from, to] of Path
    MaxFailures  \* bound: how many jobs of one run fail

ASSUME PullRequestAssumption ==
    /\ \A p \in Proposals : p \subseteq [from : Path, to : Path]
    /\ MaxFailures \in Nat

VARIABLES
    changes,  \* what the pull request changes
    fired,    \* the outputs of the changes job
    result,   \* what became of each job
    verdict   \* ci-success: pending, green, red

vars == <<changes, fired, result, verdict>>

Gate(class, needs) == [class |-> class, needs |-> needs]

\* The jobs behind changes, each with the class in its condition and the jobs in
\* its needs list.
Jobs ==
    [fmt                |-> Gate("rust", {}),
     clippyWorkspace    |-> Gate("rust", {"fmt"}),
     clippyIso          |-> Gate("iso", {"fmt"}),
     clippyLogging      |-> Gate("log", {"fmt"}),
     clippySnap         |-> Gate("snap", {"fmt"}),
     testWorkspace      |-> Gate("rust", {"fmt", "clippyWorkspace"}),
     testIso            |-> Gate("iso", {"fmt", "clippyIso"}),
     noStdBuild         |-> Gate("iso", {}),
     buildWasm          |-> Gate("log", {}),
     docsWorkspace      |-> Gate("rust", {}),
     docsIso            |-> Gate("iso", {}),
     deny               |-> Gate("rust", {}),
     lintDocs           |-> Gate("lint", {}),
     testPolicy         |-> Gate("lint", {}),
     checkWorkerExample |-> Gate("worker", {}),
     checkExamples      |-> Gate("rust", {}),
     publishDryRun      |-> Gate("rust", {}),
     coverageIso        |-> Gate("iso", {}),
     coverageLogging    |-> Gate("log", {}),
     buildWasmSnap      |-> Gate("snap", {}),
     coverageSnapCrypto |-> Gate("snap", {}),
     coverageSnapResp   |-> Gate("snap", {}),
     clippyMoney        |-> Gate("money", {"fmt"}),
     testMoney          |-> Gate("money", {"fmt", "clippyMoney"}),
     testMoneyDb        |-> Gate("money", {"fmt", "clippyMoney"}),
     docsMoney          |-> Gate("money", {"fmt"}),
     coverageMoney      |-> Gate("money", {}),
     lintShell          |-> Gate("shell", {})]

Job == DOMAIN Jobs

Results == {"waiting", "success", "failure", "skipped"}

TypeOK ==
    /\ changes \in Proposals
    /\ fired \subseteq Classes
    /\ result \in [Job \cup {"changes"} -> Results]
    /\ verdict \in {"pending", "green", "red"}
    /\ \A j \in Job : result[j] = "success" => Jobs[j].class \in fired

ReportedPaths == UNION {Reported(c) : c \in changes}

Init ==
    /\ changes \in Proposals
    /\ fired = {}
    /\ result = [j \in Job \cup {"changes"} |-> "waiting"]
    /\ verdict = "pending"

Failures == Cardinality({j \in DOMAIN result : result[j] = "failure"})

\* The classifier fails on a path nobody owns; the job may fail for itself.
Classify ==
    /\ result["changes"] = "waiting"
    /\ \/ /\ AllOwned(ReportedPaths)
          /\ fired' = Fired(ReportedPaths)
          /\ result' = [result EXCEPT !["changes"] = "success"]
       \/ /\ ~AllOwned(ReportedPaths) \/ Failures < MaxFailures
          /\ result' = [result EXCEPT !["changes"] = "failure"]
          /\ UNCHANGED fired
    /\ UNCHANGED <<changes, verdict>>

Needs(j) == Jobs[j].needs \cup {"changes"}

Ready(j) == \A n \in Needs(j) : result[n] = "success"

\* Mutant: the condition of a job is not looked at.
RunUngated(j) ==
    /\ result[j] = "waiting" /\ Ready(j)
    /\ \/ result' = [result EXCEPT ![j] = "success"]
       \/ Failures < MaxFailures /\ result' = [result EXCEPT ![j] = "failure"]
    /\ UNCHANGED <<changes, fired, verdict>>

Run(j) ==
    /\ result[j] = "waiting" /\ Ready(j) /\ Jobs[j].class \in fired
    /\ \/ result' = [result EXCEPT ![j] = "success"]
       \/ Failures < MaxFailures /\ result' = [result EXCEPT ![j] = "failure"]
    /\ UNCHANGED <<changes, fired, verdict>>

Skip(j) ==
    /\ result[j] = "waiting"
    /\ \A n \in Needs(j) : result[n] # "waiting"
    /\ ~(Ready(j) /\ Jobs[j].class \in fired)
    /\ result' = [result EXCEPT ![j] = "skipped"]
    /\ UNCHANGED <<changes, fired, verdict>>

\* Jobs influence each other through needs alone, so one order stands for all:
\* of the jobs that could go on, one is chosen.
MayGoOn == {j \in Job : result[j] = "waiting" /\ \A n \in Needs(j) : result[n] # "waiting"}
Turn    == IF MayGoOn = {} THEN {} ELSE {CHOOSE j \in MayGoOn : TRUE}

\* alls-green: every job but changes may be skipped.
CiSuccess ==
    /\ verdict = "pending" /\ \A j \in DOMAIN result : result[j] # "waiting"
    /\ verdict' = IF /\ result["changes"] = "success"
                     /\ \A j \in Job : result[j] \in {"success", "skipped"}
                  THEN "green" ELSE "red"
    /\ UNCHANGED <<changes, fired, result>>

Decided == verdict # "pending" /\ UNCHANGED vars

Next ==
    \/ Classify
    \/ \E j \in Turn : Run(j) \/ Skip(j)
    \/ CiSuccess
    \/ Decided

Spec == Init /\ [][Next]_vars

-----------------------------------------------------------------------------
(* Properties *)

\* The jobs a set of paths calls for.
Owners(paths) ==
    {j \in Job : \E p \in paths : ClassifyPath(p) \cap Sources[Jobs[j].class] # {}}

\* A green check means that every reported path has an owner, and that every job a
\* reported path calls for ran and passed: no path nobody owns is carried by the
\* others, no job is gated on another class, and no skip handed down through needs
\* lets one be skipped (ci_paths.rs:3-4, on-pr-synced.yml:611-645).
GreenMeansOwnersPassed ==
    verdict = "green" =>
      /\ \A p \in ReportedPaths : ClassifyPath(p) # {}
      /\ \A j \in Owners(ReportedPaths) : result[j] = "success"

\* What on-pr-synced.yml:47 promises, and ci_paths.rs:57-59 calls the fail-closed
\* direction: every changed path is classified, so a green check covers the jobs
\* of each path the pull request touched.
EveryChangedPathClassified ==
    verdict = "green" =>
      \A c \in changes : \A j \in Owners(Touched(c)) : result[j] = "success"

=============================================================================
