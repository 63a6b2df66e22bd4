------------------------------ MODULE MainPush ------------------------------
(***************************************************************************)
(* One pull request from its event to main, and on-main-pushed.yml, which  *)
(* compiles nothing and asks whether a green ci-success stands behind the  *)
(* tree that landed.                                                       *)
(*                                                                         *)
(* A pull_request run tests the merge of the head with main as main was at *)
(* the event; the certificate is filed under the head alone.  Meanwhile    *)
(* main moves, the run is run again, the branch is updated, and an         *)
(* administrator may push or merge past the ruleset.                       *)
(***************************************************************************)
EXTENDS PullRequest, Sequences

CONSTANTS
    MaxAttempts,  \* bound: the attempts of one run
    MaxMain       \* bound: the commits of main

ASSUME MainPushAssumption == MaxAttempts \in Nat \ {0} /\ MaxMain \in Nat \ {0, 1}

VARIABLES
    main,        \* the trees of main's commits, oldest first
    headBase,    \* the commit of main the head was last brought up to
    eventBase,   \* main's last commit at the event that started the run
    attempts,    \* the ci-success check runs of the head that have concluded
    landing,     \* how main's last commit got there
    certificate  \* the verified job on main's last commit: none, green, red

mainVars == <<main, headBase, eventBase, attempts, landing, certificate>>

\* A tree is told by what main brought to it and by whether it has the change.
Tree == [base : 0..1, changed : BOOLEAN]

Unchanged(b) == [base |-> b, changed |-> FALSE]
With(tree)   == [tree EXCEPT !.changed = TRUE]

Tip      == main[Len(main)]
HeadTree == With(main[headBase])
Tested   == With(main[eventBase])

MainTypeOK ==
    /\ TypeOK
    /\ main \in Seq(Tree) /\ Len(main) \in 1..MaxMain
    /\ headBase \in 1..eventBase /\ eventBase \in 1..Len(main)
    /\ attempts \in Seq([conclusion : {"green", "red"}, covered : BOOLEAN])
    /\ Len(attempts) <= MaxAttempts
    /\ landing \in {"pushed", "merged", "overridden"}
    /\ certificate \in {"none", "green", "red"}

\* The pull request is opened on a branch of main, up to date or one behind.
MainInit ==
    /\ Init
    /\ main \in {<<Unchanged(0)>>, <<Unchanged(0), Unchanged(1)>>}
    /\ headBase = 1 /\ eventBase = Len(main)
    /\ attempts = <<>> /\ landing = "pushed" /\ certificate = "none"

\* A run and main do not look at each other before the run has concluded, so one
\* order stands for all: a run goes on before main moves, or not at all.
Concluded == verdict # "pending"
MayRun    == landing = "pushed" /\ Len(main) = eventBase
AtRest    == Concluded \/ ~MayRun \/ result["changes"] = "waiting"

OwnersPassed == \A j \in Owners(ReportedPaths) : result[j] = "success"

\* A run's step; ci-success concludes an attempt.  What it covered is history.
CiStep ==
    /\ MayRun /\ Next
    /\ attempts' =
         IF verdict' = verdict THEN attempts
         ELSE Append(attempts, [conclusion |-> verdict', covered |-> OwnersPassed])
    /\ UNCHANGED <<main, headBase, eventBase, landing, certificate>>

\* A run starts over, keeping the results of the jobs in kept.
Restart(kept) ==
    /\ result' = [j \in DOMAIN result |-> IF j \in kept THEN "success" ELSE "waiting"]
    /\ fired' = IF "changes" \in kept THEN fired ELSE {}
    /\ verdict' = "pending"
    /\ UNCHANGED changes

\* Re-run all jobs, or the failed ones and what they kept from running; a re-run
\* is of the same commit, whatever main has become.
Rerun ==
    /\ Concluded /\ Len(attempts) < MaxAttempts /\ certificate = "none"
    /\ \E kept \in {{}, {j \in DOMAIN result : result[j] = "success"}} : Restart(kept)
    /\ UNCHANGED mainVars

\* The branch is brought up to main: a new head, a new event, no check runs yet.
Update ==
    /\ Concluded /\ landing = "pushed" /\ headBase < Len(main)
    /\ Restart({})
    /\ headBase' = Len(main) /\ eventBase' = Len(main)
    /\ attempts' = <<>>
    /\ UNCHANGED <<main, landing, certificate>>

Land(tree, how) ==
    /\ landing = "pushed" /\ Len(main) < MaxMain
    /\ main' = Append(main, tree)
    /\ landing' = how /\ certificate' = "none"
    /\ UNCHANGED <<vars, headBase, eventBase, attempts>>

\* Past the ruleset: new content, an earlier state of main, or the head's own tree.
Push == AtRest /\ \E tree \in {Unchanged(1 - Tip.base), HeadTree} \ {Tip} : Land(tree, "pushed")

\* The ruleset wants a green check and a branch that has main's last commit.
Merge ==
    /\ verdict = "green" /\ headBase = Len(main)
    /\ Land(With(Tip), "merged")

Override == AtRest /\ Land(With(Tip), "overridden")

\* The latest ci-success of the head; one that is running has no conclusion, and
\* the list may hold it or end with the attempt before.
Conclusions ==
    (IF attempts = <<>> THEN {} ELSE {attempts[Len(attempts)].conclusion})
    \cup (IF Concluded THEN {} ELSE {"absent"})

\* Mutant: any merged pull request behind the commit certifies it.
CertifiedByAnyTree(conclusion) == landing # "pushed" /\ conclusion = "green"

\* A pull request behind the commit certifies it if it was merged, its head has
\* the tree that landed, and its check is green.
Certified(conclusion) ==
    landing # "pushed" /\ HeadTree = Tip /\ conclusion = "green"

\* The verified job; a call to GitHub that fails proves nothing and is red.
Verify ==
    /\ AtRest /\ certificate = "none"
    /\ \/ certificate' = "red"
       \/ \E c \in Conclusions :
            certificate' = IF Certified(c) THEN "green" ELSE "red"
    /\ UNCHANGED <<vars, main, headBase, eventBase, attempts, landing>>

Judged == certificate # "none" /\ UNCHANGED <<vars, mainVars>>

MainNext ==
    CiStep \/ Rerun \/ Update \/ Push \/ Merge \/ Override \/ Verify \/ Judged

MainSpec == MainInit /\ [][MainNext]_<<vars, mainVars>>

-----------------------------------------------------------------------------
(* Properties *)

\* Main took back, between two of its commits, something it had brought.
Restored ==
    \E i, j, k \in DOMAIN main :
      i < j /\ j < k /\ main[i].base = main[k].base /\ main[i].base # main[j].base

\* A green certificate means that main got its last commit by a merge, that an
\* attempt ran every job the change calls for and all passed, and that what they
\* tested is the very tree that landed; the last holds of a merge the ruleset let
\* through always, and of an override unless main went back to an earlier state
\* after the run began (on-main-pushed.yml:3-5, 81).
CertifiedTreePassed ==
    certificate = "green" =>
      /\ landing \in {"merged", "overridden"}
      /\ attempts # <<>> /\ attempts[Len(attempts)] = [conclusion |-> "green", covered |-> TRUE]
      /\ landing = "merged" \/ ~Restored => Tested = Tip

=============================================================================
