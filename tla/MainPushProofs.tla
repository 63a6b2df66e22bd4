--------------------------- MODULE MainPushProofs ---------------------------
(***************************************************************************)
(* Proofs about the pull request and main for any set of proposals, any    *)
(* number of failing jobs and attempts, and any length of main.            *)
(***************************************************************************)
EXTENDS MainPush, TLAPS

\* Every job is gated on a class that the classifier knows.
LEMMA JobClass == ASSUME NEW j \in Job PROVE Jobs[j].class \in Classes
<1>1. Classes = {"rust", "iso", "log", "money", "snap", "worker", "lint", "shell"}
  BY DEF Classes, Sources
<1>2. QED BY <1>1 DEF Job, Jobs, Gate

\* A job needs jobs whose classes fire whenever its own does: a skip of one of
\* them is not handed down to a job that is called for.
LEMMA NeedsFire ==
    ASSUME NEW j \in Job, NEW n \in Jobs[j].needs
    PROVE  n \in Job /\ Sources[Jobs[j].class] \subseteq Sources[Jobs[n].class]
BY DEF Job, Jobs, Gate, Sources

\* The needs of jobs are two deep.
LEMMA NeedsDepth ==
    ASSUME NEW j \in Job, NEW n \in Jobs[j].needs, NEW m \in Jobs[n].needs
    PROVE  Jobs[m].needs = {}
BY DEF Job, Jobs, Gate

\* The job changes is not one of those behind it.
LEMMA ChangesFirst == "changes" \notin Job
BY DEF Job, Jobs

-----------------------------------------------------------------------------

\* Why a job was skipped: its class did not fire, or what it needs was no success.
SkipInv ==
    \A j \in Job : result[j] = "skipped" =>
      \/ Jobs[j].class \notin fired
      \/ \E n \in Needs(j) : result[n] \in {"failure", "skipped"}

\* The classes fired are those of the reported paths, once the classifier passed.
FiredInv ==
    /\ fired = IF result["changes"] = "success" THEN Fired(ReportedPaths) ELSE {}
    /\ result["changes"] = "success" => AllOwned(ReportedPaths)
    /\ result["changes"] = "waiting" => \A j \in Job : result[j] = "waiting"

GreenInv ==
    verdict = "green" =>
      /\ result["changes"] = "success"
      /\ \A j \in Job : result[j] \in {"success", "skipped"}

RunInv == TypeOK /\ SkipInv /\ FiredInv /\ GreenInv

\* A green attempt covered what its change calls for; a run under way has an
\* attempt left.
AttemptInv ==
    /\ attempts \in Seq([conclusion : {"green", "red"}, covered : BOOLEAN])
    /\ Len(attempts) <= MaxAttempts
    /\ verdict = "pending" => Len(attempts) < MaxAttempts
    /\ \A i \in 1 .. Len(attempts) :
         attempts[i].conclusion = "green" => attempts[i].covered = TRUE

\* What the ruleset let through was brought up to main, so its event saw all of
\* main; what went past it was not the event's own commit of main.
LandInv ==
    /\ main \in Seq(Tree) /\ Len(main) \in 1..MaxMain
    /\ headBase \in 1..eventBase /\ eventBase \in 1..Len(main)
    /\ landing \in {"pushed", "merged", "overridden"}
    /\ landing = "merged" => headBase = eventBase
    /\ landing = "overridden" => eventBase < Len(main)

\* What a green certificate was given for, none of which changes any more.
CertificateInv ==
    /\ certificate \in {"none", "green", "red"}
    /\ certificate = "green" =>
         /\ landing # "pushed" /\ HeadTree = Tip
         /\ attempts # <<>> /\ attempts[Len(attempts)].conclusion = "green"

MainInv == RunInv /\ AttemptInv /\ LandInv /\ CertificateInv

-----------------------------------------------------------------------------

\* A called-for job has its class fired.
LEMMA CalledFor ==
    ASSUME NEW paths, NEW j \in Owners(paths)
    PROVE  j \in Job /\ Jobs[j].class \in Fired(paths)
           /\ \A n \in Jobs[j].needs : n \in Owners(paths)
<1>1. j \in Job /\ \E p \in paths : ClassifyPath(p) \cap Sources[Jobs[j].class] # {}
  BY DEF Owners
<1>2. Jobs[j].class \in Fired(paths)
  BY <1>1, JobClass DEF Fired
<1>3. ASSUME NEW n \in Jobs[j].needs PROVE n \in Owners(paths)
  BY <1>1, NeedsFire DEF Owners
<1>4. QED BY <1>1, <1>2, <1>3

\* In a green run no job that is called for was skipped: the skip would come from
\* one that it needs, which is called for too, and that one has nothing to blame.
LEMMA GreenCovers == RunInv => GreenMeansOwnersPassed
<1> SUFFICES ASSUME RunInv, verdict = "green"
             PROVE  /\ \A p \in ReportedPaths : ClassifyPath(p) # {}
                    /\ \A j \in Owners(ReportedPaths) : result[j] = "success"
  BY DEF GreenMeansOwnersPassed
<1> DEFINE called == Owners(ReportedPaths)
<1>1. result["changes"] = "success" /\ fired = Fired(ReportedPaths)
      /\ \A p \in ReportedPaths : ClassifyPath(p) # {}
  BY DEF RunInv, GreenInv, FiredInv, AllOwned
<1>2. \A j \in called : j \in Job /\ Jobs[j].class \in fired /\ Jobs[j].needs \subseteq called
  BY <1>1, CalledFor
<1>3. \A j \in called : result[j] \in {"success", "skipped"}
  BY <1>2 DEF RunInv, GreenInv
<1>4. ASSUME NEW j \in called, \A n \in Jobs[j].needs : result[n] = "success"
      PROVE  result[j] = "success"
  <2>1. j \in Job /\ Jobs[j].class \in fired
    BY <1>2
  <2>2. \A n \in Needs(j) : result[n] = "success"
    BY <1>1, <1>4 DEF Needs
  <2>3. QED BY <1>3, <2>1, <2>2 DEF RunInv, SkipInv
<1> HIDE DEF called
<1>5. \A j \in called : Jobs[j].needs = {} => result[j] = "success"
  BY <1>4
<1>6. ASSUME NEW j \in called, NEW n \in Jobs[j].needs PROVE result[n] = "success"
  <2>1. n \in called
    BY <1>2
  <2>2. \A m \in Jobs[n].needs : m \in called /\ Jobs[m].needs = {}
    BY <1>2, <2>1, NeedsDepth
  <2>3. QED BY <1>4, <1>5, <2>1, <2>2
<1>7. QED BY <1>1, <1>4, <1>6 DEF called

\* A step of a run keeps what is known of it, and ci-success changes no job.
LEMMA RunStep ==
    ASSUME RunInv, Next
    PROVE  /\ RunInv'
           /\ verdict' # verdict => verdict = "pending" /\ UNCHANGED <<changes, fired, result>>
<1> USE ChangesFirst DEF RunInv, TypeOK, Results
<1>1. CASE Classify
  <2>1. UNCHANGED <<changes, verdict>> /\ result["changes"] = "waiting" /\ verdict # "green"
    BY <1>1 DEF Classify, GreenInv
  <2>2. \A j \in Job : result[j] = "waiting" /\ result'[j] = "waiting"
    BY <1>1, <2>1 DEF Classify, FiredInv
  <2>3. SkipInv' /\ GreenInv'
    BY <2>1, <2>2 DEF SkipInv, GreenInv
  <2>4. CASE /\ AllOwned(ReportedPaths) /\ fired' = Fired(ReportedPaths)
             /\ result' = [result EXCEPT !["changes"] = "success"]
    <3>1. Fired(ReportedPaths) \subseteq Classes /\ ReportedPaths' = ReportedPaths
      BY <2>1 DEF Fired, ReportedPaths
    <3>2. TypeOK'
      BY <2>1, <2>2, <2>4, <3>1
    <3>3. FiredInv'
      BY <2>4, <3>1 DEF FiredInv
    <3>4. QED BY <2>1, <2>3, <3>2, <3>3
  <2>5. CASE result' = [result EXCEPT !["changes"] = "failure"] /\ UNCHANGED fired
    <3>1. TypeOK'
      BY <2>1, <2>2, <2>5
    <3>2. FiredInv'
      BY <2>1, <2>5 DEF FiredInv
    <3>3. QED BY <2>1, <2>3, <3>1, <3>2
  <2>6. QED BY <1>1, <2>4, <2>5 DEF Classify
<1>2. ASSUME NEW j \in Turn, Run(j) \/ Skip(j)
      PROVE  RunInv' /\ verdict' = verdict
  <2>1. j \in Job /\ result[j] = "waiting" /\ UNCHANGED <<changes, fired, verdict>>
        /\ \A n \in Needs(j) : result[n] # "waiting"
    BY <1>2 DEF Turn, MayGoOn, Run, Skip
  <2>2. PICK x \in {"success", "failure", "skipped"} :
           /\ result' = [result EXCEPT ![j] = x]
           /\ x = "success" => Jobs[j].class \in fired
           /\ x = "skipped" => ~(Ready(j) /\ Jobs[j].class \in fired)
    BY <1>2 DEF Run, Skip
  <2>3. result["changes"] # "waiting" /\ result'["changes"] = result["changes"]
    BY <2>1, <2>2 DEF Needs
  <2>4. TypeOK'
    BY <2>1, <2>2
  <2>5. FiredInv'
    BY <2>1, <2>3 DEF FiredInv, ReportedPaths
  <2>6. GreenInv'
    BY <2>1 DEF GreenInv
  <2>7. \A n \in Job \cup {"changes"} : n # j => result'[n] = result[n]
    BY <2>2
  <2>8. \A i \in Job : Needs(i) \subseteq Job \cup {"changes"}
    BY NeedsFire DEF Needs
  <2>9. SkipInv'
    <3>1. SUFFICES ASSUME NEW i \in Job, result'[i] = "skipped", Jobs[i].class \in fired
                   PROVE  \E n \in Needs(i) : result'[n] \in {"failure", "skipped"}
      BY <2>1 DEF SkipInv
    <3>2. CASE i # j
      <4>1. PICK n \in Needs(i) : result[n] \in {"failure", "skipped"}
        BY <2>7, <3>1, <3>2 DEF SkipInv
      <4>2. n \in Job \cup {"changes"} /\ n # j
        BY <2>1, <2>8, <4>1
      <4>3. QED BY <2>7, <4>1, <4>2
    <3>3. CASE i = j
      <4>1. x = "skipped"
        BY <2>2, <3>1, <3>3
      <4>2. PICK n \in Needs(j) : result[n] # "success"
        BY <2>2, <3>1, <3>3, <4>1 DEF Ready
      <4>3. n \in Job \cup {"changes"} /\ result[n] \in {"failure", "skipped"} /\ n # j
        BY <2>1, <2>8, <4>2
      <4>4. QED BY <2>7, <3>3, <4>2, <4>3
    <3>4. QED BY <3>2, <3>3
  <2>10. QED BY <2>1, <2>4, <2>5, <2>6, <2>9
<1>3. CASE CiSuccess
  <2>1. verdict = "pending" /\ UNCHANGED <<changes, fired, result>>
    BY <1>3 DEF CiSuccess
  <2>2. verdict' \in {"green", "red"} /\ GreenInv'
    BY <1>3 DEF CiSuccess, GreenInv
  <2>3. TypeOK' /\ SkipInv' /\ FiredInv'
    BY <2>1, <2>2 DEF SkipInv, FiredInv, ReportedPaths
  <2>4. QED BY <2>1, <2>2, <2>3
<1>4. CASE Decided
  BY <1>4 DEF Decided, vars, SkipInv, FiredInv, GreenInv, ReportedPaths
<1>5. QED BY <1>1, <1>2, <1>3, <1>4 DEF Next, Classify

\* A run that starts over keeps results only of what is still called for.
LEMMA RestartStep ==
    ASSUME RunInv, NEW kept \in {{}, {j \in DOMAIN result : result[j] = "success"}},
           Restart(kept)
    PROVE  RunInv' /\ verdict' = "pending"
<1> USE ChangesFirst DEF RunInv, TypeOK, Results
<1>1. /\ result' = [j \in DOMAIN result |-> IF j \in kept THEN "success" ELSE "waiting"]
      /\ fired' = IF "changes" \in kept THEN fired ELSE {}
      /\ verdict' = "pending" /\ UNCHANGED changes
  BY DEF Restart
<1>2. DOMAIN result = Job \cup {"changes"} /\ \A j \in kept : result[j] = "success"
  OBVIOUS
<1>3. \A j \in DOMAIN result : result'[j] = IF j \in kept THEN "success" ELSE "waiting"
  BY <1>1
<1>4. SkipInv' /\ GreenInv'
  BY <1>1, <1>2, <1>3 DEF SkipInv, GreenInv
<1>5. CASE "changes" \in kept
  <2>1. result["changes"] = "success" /\ result'["changes"] = "success" /\ fired' = fired
    BY <1>1, <1>2, <1>3, <1>5
  <2>2. FiredInv'
    BY <1>1, <2>1 DEF FiredInv, ReportedPaths
  <2>3. TypeOK'
    BY <1>1, <1>2, <1>3, <2>1
  <2>4. QED BY <1>1, <1>4, <2>2, <2>3
<1>6. CASE "changes" \notin kept
  <2>1. kept = {}
    <3>1. SUFFICES ASSUME kept # {} PROVE FALSE
      OBVIOUS
    <3>2. kept = {j \in DOMAIN result : result[j] = "success"}
      BY <3>1
    <3>3. PICK j \in kept : j \in Job
      BY <1>2, <1>6, <3>1, <3>2
    <3>4. result["changes"] # "success"
      BY <1>2, <1>6, <3>2
    <3>5. QED BY <1>2, <3>3, <3>4 DEF FiredInv
  <2>2. \A j \in Job \cup {"changes"} : result'[j] = "waiting"
    BY <1>2, <1>3, <2>1
  <2>3. FiredInv'
    BY <1>1, <1>6, <2>2 DEF FiredInv
  <2>4. TypeOK'
    BY <1>1, <1>2, <1>6, <2>2
  <2>5. QED BY <1>1, <1>4, <2>3, <2>4
<1>7. QED BY <1>5, <1>6

-----------------------------------------------------------------------------

\* A step of main, of the certificate or none leaves the run as it is.
LEMMA RunKept == RunInv /\ UNCHANGED vars => RunInv'
BY DEF RunInv, TypeOK, SkipInv, FiredInv, GreenInv, ReportedPaths, vars

\* The initial states satisfy the invariant.
LEMMA MainInitInv == MainInit => MainInv
<1> SUFFICES ASSUME MainInit PROVE MainInv
  OBVIOUS
<1> USE MainPushAssumption DEF MainInit, Init
<1>1. \A j \in Job \cup {"changes"} : result[j] = "waiting"
  OBVIOUS
<1>2. RunInv
  BY <1>1, ChangesFirst DEF RunInv, TypeOK, Results, SkipInv, FiredInv, GreenInv
<1>3. AttemptInv
  BY DEF AttemptInv
<1>4. LandInv
  <2>1. Unchanged(0) \in Tree /\ Unchanged(1) \in Tree
    BY DEF Tree, Unchanged
  <2>2. main \in Seq(Tree) /\ Len(main) \in 1 .. 2
    BY <2>1
  <2>3. QED BY <2>2 DEF LandInv
<1>5. QED BY <1>2, <1>3, <1>4 DEF MainInv, CertificateInv

\* A step of the run.
LEMMA CiStepInv == ASSUME MainInv, CiStep PROVE MainInv'
<1> USE DEF MainInv
<1>1. Next /\ landing = "pushed" /\ UNCHANGED <<main, headBase, eventBase, landing, certificate>>
  BY DEF CiStep, MayRun
<1>2. RunInv' /\ (verdict' # verdict => verdict = "pending" /\ UNCHANGED <<changes, fired, result>>)
  BY <1>1, RunStep
<1>3. AttemptInv'
  <2>1. CASE verdict' = verdict
    BY <2>1 DEF CiStep, AttemptInv
  <2>2. CASE verdict' # verdict
    <3> DEFINE a == [conclusion |-> verdict', covered |-> OwnersPassed]
    <3>1. attempts' = Append(attempts, a) /\ verdict = "pending" /\ verdict' \in {"green", "red"}
      BY <1>2, <2>2 DEF CiStep, RunInv, TypeOK
    <3>2. OwnersPassed \in BOOLEAN
      BY DEF OwnersPassed
    <3>3. a \in [conclusion : {"green", "red"}, covered : BOOLEAN]
      BY <3>1, <3>2
    <3>4. verdict' = "green" => OwnersPassed
      <4>1. RunInv' => GreenMeansOwnersPassed'
        BY GreenCovers, PTL
      <4>2. UNCHANGED <<changes, result>>
        BY <1>2, <2>2
      <4>3. QED BY <1>2, <4>1, <4>2 DEF GreenMeansOwnersPassed, OwnersPassed, ReportedPaths
    <3>5. a.conclusion = "green" => a.covered = TRUE
      BY <3>2, <3>4
    <3> HIDE DEF a
    <3>6. QED BY <3>1, <3>3, <3>5, MainPushAssumption DEF AttemptInv
  <2>3. QED BY <2>1, <2>2
<1>4. LandInv' /\ CertificateInv'
  BY <1>1 DEF LandInv, CertificateInv
<1>5. QED BY <1>2, <1>3, <1>4

\* A run is run again.
LEMMA RerunInv == ASSUME MainInv, Rerun PROVE MainInv'
<1> USE DEF MainInv
<1>1. PICK kept \in {{}, {j \in DOMAIN result : result[j] = "success"}} : Restart(kept)
  BY DEF Rerun
<1>2. RunInv' /\ verdict' = "pending"
  BY <1>1, RestartStep
<1>3. AttemptInv' /\ LandInv' /\ CertificateInv'
  BY <1>2 DEF Rerun, mainVars, AttemptInv, LandInv, CertificateInv, HeadTree, Tip, With
<1>4. QED BY <1>2, <1>3

\* The branch is brought up to main.
LEMMA UpdateInv == ASSUME MainInv, Update PROVE MainInv'
<1> USE DEF MainInv
<1>1. Restart({}) /\ landing = "pushed" /\ UNCHANGED <<main, landing, certificate>>
      /\ headBase' = Len(main) /\ eventBase' = Len(main) /\ attempts' = <<>>
  BY DEF Update
<1>2. RunInv' /\ verdict' = "pending"
  BY <1>1, RestartStep
<1>3. AttemptInv'
  BY <1>1, MainPushAssumption DEF AttemptInv
<1>4. LandInv' /\ CertificateInv'
  BY <1>1, MainPushAssumption DEF LandInv, CertificateInv
<1>5. QED BY <1>2, <1>3, <1>4

\* Main gets a commit.
LEMMA LandStep ==
    ASSUME MainInv, NEW tree \in Tree, NEW how \in {"pushed", "merged", "overridden"},
           Land(tree, how), how = "merged" => headBase = Len(main)
    PROVE  MainInv'
<1> USE DEF MainInv
<1>1. /\ landing = "pushed" /\ Len(main) < MaxMain /\ main' = Append(main, tree)
      /\ landing' = how /\ certificate' = "none"
      /\ UNCHANGED <<vars, headBase, eventBase, attempts>>
  BY DEF Land
<1>2. RunInv'
  BY <1>1, RunKept
<1>3. AttemptInv' /\ CertificateInv'
  BY <1>1 DEF AttemptInv, CertificateInv, vars
<1>4. LandInv'
  <2>1. main' \in Seq(Tree) /\ Len(main') = Len(main) + 1
    BY <1>1 DEF LandInv
  <2>2. QED BY <1>1, <2>1, MainPushAssumption DEF LandInv
<1>5. QED BY <1>2, <1>3, <1>4

\* Every tree of main, with the change or without, is a tree.
LEMMA TreeType ==
    ASSUME LandInv
    PROVE  /\ Tip \in Tree /\ HeadTree \in Tree /\ With(Tip) \in Tree
           /\ \A i \in 1 .. Len(main) : main[i] \in Tree
           /\ Unchanged(1 - Tip.base) \in Tree
<1>1. \A i \in 1 .. Len(main) : main[i] \in Tree
  BY DEF LandInv
<1>2. Tip \in Tree /\ main[headBase] \in Tree
  BY <1>1, MainPushAssumption DEF LandInv, Tip
<1>3. \A t \in Tree : With(t) \in Tree
  BY DEF With, Tree
<1>4. Unchanged(1 - Tip.base) \in Tree
  BY <1>2 DEF Unchanged, Tree
<1>5. QED BY <1>1, <1>2, <1>3, <1>4 DEF HeadTree

\* The certificate is judged.
LEMMA VerifyInv == ASSUME MainInv, Verify PROVE MainInv'
<1> USE DEF MainInv
<1>1. UNCHANGED <<vars, main, headBase, eventBase, attempts, landing>>
  BY DEF Verify
<1>2. RunInv' /\ AttemptInv' /\ LandInv'
  BY <1>1, RunKept DEF AttemptInv, LandInv, vars
<1>3. CertificateInv'
  <2>1. CASE certificate' = "red"
    BY <2>1 DEF CertificateInv
  <2>2. CASE certificate' # "red"
    <3>1. PICK c \in Conclusions : certificate' = IF Certified(c) THEN "green" ELSE "red"
      BY <2>2 DEF Verify
    <3>2. Certified(c) /\ certificate' = "green"
      BY <2>2, <3>1
    <3>3. landing # "pushed" /\ HeadTree = Tip /\ c = "green"
      BY <3>2 DEF Certified
    <3>4. attempts # <<>> /\ attempts[Len(attempts)].conclusion = "green"
      BY <3>1, <3>3 DEF Conclusions
    <3>5. HeadTree' = Tip'
      BY <1>1, <3>3 DEF HeadTree, Tip
    <3>6. QED BY <1>1, <3>2, <3>3, <3>4, <3>5 DEF CertificateInv
  <2>3. QED BY <2>1, <2>2
<1>4. QED BY <1>2, <1>3

\* A step that changes nothing.
LEMMA MainStutter == MainInv /\ UNCHANGED <<vars, mainVars>> => MainInv'
BY RunKept DEF MainInv, AttemptInv, LandInv, CertificateInv, HeadTree, Tip, vars, mainVars

\* Every step preserves the invariant.
LEMMA MainNextInv == MainInv /\ [MainNext]_<<vars, mainVars>> => MainInv'
<1> SUFFICES ASSUME MainInv, [MainNext]_<<vars, mainVars>> PROVE MainInv'
  OBVIOUS
<1>1. LandInv
  BY DEF MainInv
<1>2. CASE Push
  BY <1>1, <1>2, LandStep, TreeType DEF Push
<1>3. CASE Merge
  BY <1>1, <1>3, LandStep, TreeType DEF Merge
<1>4. CASE Override
  BY <1>1, <1>4, LandStep, TreeType DEF Override
<1>5. CASE Judged \/ UNCHANGED <<vars, mainVars>>
  BY <1>5, MainStutter DEF Judged
<1>6. QED BY <1>2, <1>3, <1>4, <1>5, CiStepInv, RerunInv, UpdateInv, VerifyInv DEF MainNext

\* The invariant holds in every behaviour.
LEMMA MainInvariance == MainSpec => []MainInv
BY MainInitInv, MainNextInv, PTL DEF MainSpec

\* Every state has its type, the attempts of a run and the commits of main stay
\* within their bounds, and a job ran only if its class fired.
THEOREM MainTypeCorrect == MainSpec => []MainTypeOK
<1>1. MainInv => MainTypeOK
  BY DEF MainInv, RunInv, AttemptInv, LandInv, CertificateInv, MainTypeOK
<1>2. QED BY <1>1, MainInvariance, PTL

\* A green check covers every job of every path git reports, whatever a pull
\* request changes and however many jobs fail or are run again
\* (ci_paths.rs:3-4, on-pr-synced.yml:611-645).
THEOREM GreenCorrect == MainSpec => []GreenMeansOwnersPassed
<1>1. MainInv => GreenMeansOwnersPassed
  BY GreenCovers DEF MainInv
<1>2. QED BY <1>1, MainInvariance, PTL

\* What was tested is the tree that landed, if the head has that tree.
LEMMA TestedLanded ==
    ASSUME LandInv, landing # "pushed", HeadTree = Tip, landing = "merged" \/ ~Restored
    PROVE  Tested = Tip
<1>1. CASE headBase = eventBase
  BY <1>1 DEF Tested, HeadTree
<1>2. CASE headBase # eventBase
  <2>1. ~Restored /\ headBase < eventBase /\ eventBase < Len(main)
        /\ headBase \in 1 .. Len(main) /\ eventBase \in 1 .. Len(main) /\ Len(main) \in 1 .. Len(main)
    BY <1>2, MainPushAssumption DEF LandInv
  <2>2. main[headBase] \in Tree /\ main[eventBase] \in Tree /\ Tip \in Tree
    BY <2>1, TreeType
  <2>3. main[headBase].base = main[Len(main)].base
    BY <2>2 DEF HeadTree, Tip, With, Tree
  <2>4. main[eventBase].base = main[headBase].base
    <3>1. DOMAIN main = 1 .. Len(main)
      BY DEF LandInv
    <3>2. QED BY <2>1, <2>3, <3>1 DEF Restored
  <2>5. With(main[eventBase]) = With(main[headBase])
    BY <2>2, <2>4 DEF With, Tree
  <2>6. QED BY <2>5 DEF Tested, HeadTree
<1>3. QED BY <1>1, <1>2

\* A certificate stands for a run that covered the change on the tree that landed
\* (on-main-pushed.yml:3-5, 81).
THEOREM CertificateCorrect == MainSpec => []CertifiedTreePassed
<1>1. ASSUME MainInv, certificate = "green"
      PROVE  /\ landing \in {"merged", "overridden"}
             /\ attempts # <<>> /\ attempts[Len(attempts)] = [conclusion |-> "green", covered |-> TRUE]
             /\ landing = "merged" \/ ~Restored => Tested = Tip
  <2>1. landing # "pushed" /\ HeadTree = Tip
        /\ attempts # <<>> /\ attempts[Len(attempts)].conclusion = "green"
    BY <1>1 DEF MainInv, CertificateInv
  <2>2. Len(attempts) \in 1 .. Len(attempts)
        /\ attempts[Len(attempts)] \in [conclusion : {"green", "red"}, covered : BOOLEAN]
    <3> DEFINE S == [conclusion : {"green", "red"}, covered : BOOLEAN]
    <3>1. attempts \in Seq(S)
      BY <1>1 DEF MainInv, AttemptInv
    <3> HIDE DEF S
    <3>2. Len(attempts) \in Nat \ {0}
      BY <2>1, <3>1
    <3>3. attempts[Len(attempts)] \in S
      BY <3>1, <3>2
    <3>4. QED BY <3>2, <3>3 DEF S
  <2>3. attempts[Len(attempts)].covered = TRUE
    BY <1>1, <2>1, <2>2 DEF MainInv, AttemptInv
  <2>4. attempts[Len(attempts)] = [conclusion |-> "green", covered |-> TRUE]
    BY <2>1, <2>2, <2>3
  <2>5. landing \in {"merged", "overridden"}
    BY <1>1, <2>1 DEF MainInv, LandInv
  <2>6. QED BY <1>1, <2>1, <2>4, <2>5, TestedLanded DEF MainInv
<1>2. MainInv => CertifiedTreePassed
  BY <1>1 DEF CertifiedTreePassed
<1>3. QED BY <1>2, MainInvariance, PTL

=============================================================================
