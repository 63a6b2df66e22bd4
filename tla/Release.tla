------------------------------- MODULE Release -------------------------------
(***************************************************************************)
(* The release pipeline: maintainers merge commits and publish GitHub      *)
(* Releases, on-release-published.yml checks each and publishes one crate, *)
(* operators wait for the index or yank.  Runs for different tags overlap; *)
(* the concurrency group keeps those for one tag apart.                    *)
(*                                                                         *)
(* cargo, GitHub and crates.io are not in this repository: a cargo command *)
(* may fail at any time, cargo publish also after the upload, and that     *)
(* cargo refuses to package what it cannot resolve is not counted on.      *)
(***************************************************************************)
EXTENDS Registry

CONSTANTS
    Runs,        \* workflow runs, clients of the registry
    Operators,   \* people who run just crates-io, clients as well
    Tags,        \* [crate, version, commit]: the releases that are published
    Manifest,    \* Manifest[k][c]: the version of crate c at commit k
    Requires,    \* Requires[c][v]: [dep, admits], what version v of c depends on
    Publishable, \* the crates the tag pattern names
    Retries      \* how often the dry run is tried

Requirement == [dep : Crates, admits : SUBSET Versions]

ASSUME ReleaseAssumption ==
    /\ Clients = Runs \cup Operators /\ Runs \cap Operators = {}
    /\ Tags # {} /\ Tags \subseteq [crate : Crates, version : Versions, commit : DOMAIN Manifest]
    /\ \A k \in DOMAIN Manifest : \A c \in Crates : Manifest[k][c] \in Versions
    /\ \A c \in Crates : \A v \in Versions : Requires[c][v] \subseteq Requirement
    /\ Publishable \subseteq Crates
    /\ Retries \in Nat \ {0}

VARIABLES
    main,     \* the commits on main
    step,     \* where a run is
    tag,      \* the tag a run was started for
    todo,     \* the dependencies a run has still to check
    tries,    \* how often a run's dry run was tried
    reason,   \* why a failed run failed
    unlisted, \* history: the runs that could not read their dependencies
    uploads   \* history: the uploads crates.io accepted, with their runs

release == <<main, step, tag, todo, tries, reason, unlisted, uploads>>
vars    == <<registry, probes, release>>

Steps == {"waiting", "approval", "parse", "manifest", "ancestor", "absent", "list", "deps",
          "dryrun", "publish", "owner", "succeeded", "failed"}

Reasons == {"none", "tag", "manifest", "ancestor", "published", "missing", "unreadable",
            "cargo", "broken"}

TypeOK ==
    /\ RegistryTypeOK
    /\ main \subseteq DOMAIN Manifest
    /\ step \in [Runs -> Steps]
    /\ tag \in [Runs -> Tags]
    /\ todo \in [Runs -> SUBSET Requirement]
    /\ tries \in [Runs -> 0 .. Retries]
    /\ reason \in [Runs -> Reasons]
    /\ \A r \in Runs : reason[r] # "none" <=> step[r] = "failed"
    /\ unlisted \subseteq Runs
    /\ uploads \subseteq Runs \X Release

Init ==
    /\ RegistryInit
    /\ main = {}
    /\ step = [r \in Runs |-> "waiting"]
    /\ tag = [r \in Runs |-> CHOOSE t \in Tags : TRUE]
    /\ todo = [r \in Runs |-> {}]
    /\ tries = [r \in Runs |-> 0]
    /\ reason = [r \in Runs |-> "none"]
    /\ unlisted = {} /\ uploads = {}

Active(r) == step[r] \notin {"waiting", "succeeded", "failed"}

\* A check of run r: on to the next step, or the run fails.
Check(r, passed, to, why) ==
    /\ step' = [step EXCEPT ![r] = IF passed THEN to ELSE "failed"]
    /\ reason' = [reason EXCEPT ![r] = IF passed THEN "none" ELSE why]

Merge(k) ==
    /\ k \in DOMAIN Manifest \ main
    /\ main' = main \cup {k}
    /\ UNCHANGED <<registry, probes, step, tag, todo, tries, reason, unlisted, uploads>>

\* A release is published, or a finished run is started over.  The job waits for
\* the approval of its environment before its first step.
Start(r, t) ==
    /\ step[r] = "waiting"
    /\ \A q \in Runs : Active(q) => tag[q] # t
    /\ tag' = [tag EXCEPT ![r] = t]
    /\ step' = [step EXCEPT ![r] = "approval"]
    /\ UNCHANGED <<registry, probes, main, todo, tries, reason, unlisted, uploads>>

Approve(r) ==
    /\ step[r] = "approval"
    /\ step' = [step EXCEPT ![r] = "parse"]
    /\ UNCHANGED <<registry, probes, main, tag, todo, tries, reason, unlisted, uploads>>

Parse(r) ==
    /\ step[r] = "parse"
    /\ Check(r, tag[r].crate \in Publishable, "manifest", "tag")
    /\ UNCHANGED <<registry, probes, main, tag, todo, tries, unlisted, uploads>>

\* Mutant: a tag may name any version.
VerifyAnyManifest(r) ==
    /\ step[r] = "manifest"
    /\ Check(r, TRUE, "ancestor", "manifest")
    /\ UNCHANGED <<registry, probes, main, tag, todo, tries, unlisted, uploads>>

\* A manifest that cargo metadata could not read has no version to match.
VerifyManifest(r) ==
    /\ step[r] = "manifest"
    /\ \E read \in BOOLEAN :
         Check(r, read /\ Manifest[tag[r].commit][tag[r].crate] = tag[r].version,
               "ancestor", "manifest")
    /\ UNCHANGED <<registry, probes, main, tag, todo, tries, unlisted, uploads>>

VerifyAncestor(r) ==
    /\ step[r] = "ancestor"
    /\ IF tag[r].commit \in main
       THEN /\ step' = [step EXCEPT ![r] = "absent"]
            /\ Ask(r, "absent", tag[r].crate, {tag[r].version}, 0)
            /\ UNCHANGED reason
       ELSE Check(r, FALSE, "absent", "ancestor") /\ UNCHANGED probes
    /\ UNCHANGED <<registry, main, tag, todo, tries, unlisted, uploads>>

EnsureAbsent(r) ==
    /\ step[r] = "absent" /\ probe[r].doing = "answered"
    /\ Check(r, probe[r].answer = "yes", "list",
             CASE probe[r].answer = "no"         -> "published"
               [] probe[r].answer = "unreadable" -> "unreadable"
               [] OTHER                          -> "broken")
    /\ probe' = [probe EXCEPT ![r] = NoProbe]
    /\ UNCHANGED <<registry, faulty, died, main, tag, todo, tries, unlisted, uploads>>

\* The dependencies come out of a pipe whose last command is sort, in a shell
\* without pipefail: when cargo metadata or jq fails, the list is empty.
ListDependencies(r) ==
    /\ step[r] = "list"
    /\ step' = [step EXCEPT ![r] = "deps"]
    /\ \/ /\ todo' = [todo EXCEPT ![r] = Requires[tag[r].crate][tag[r].version]]
          /\ UNCHANGED unlisted
       \/ /\ todo' = [todo EXCEPT ![r] = {}]
          /\ unlisted' = unlisted \cup {r}
    /\ UNCHANGED <<registry, probes, main, tag, tries, reason, uploads>>

AskDependency(r) ==
    /\ step[r] = "deps" /\ probe[r].doing = "idle"
    /\ \E q \in todo[r] : /\ todo' = [todo EXCEPT ![r] = @ \ {q}]
                          /\ Ask(r, "require", q.dep, q.admits, 0)
    /\ UNCHANGED <<registry, main, step, tag, tries, reason, unlisted, uploads>>

\* Mutant: only a plain no stops the loop over the dependencies.
RequireUnlessNo(r) ==
    /\ step[r] = "deps" /\ probe[r].doing = "answered"
    /\ Check(r, probe[r].answer # "no", "deps", "missing")
    /\ probe' = [probe EXCEPT ![r] = NoProbe]
    /\ UNCHANGED <<registry, faulty, died, main, tag, todo, tries, unlisted, uploads>>

\* Every failure but the exit code 2 is reported as a version that is missing.
RequireDependency(r) ==
    /\ step[r] = "deps" /\ probe[r].doing = "answered"
    /\ Check(r, probe[r].answer = "yes", "deps",
             IF probe[r].answer = "unreadable" THEN "unreadable" ELSE "missing")
    /\ probe' = [probe EXCEPT ![r] = NoProbe]
    /\ UNCHANGED <<registry, faulty, died, main, tag, todo, tries, unlisted, uploads>>

DependenciesDone(r) ==
    /\ step[r] = "deps" /\ probe[r].doing = "idle" /\ todo[r] = {}
    /\ step' = [step EXCEPT ![r] = "dryrun"]
    /\ UNCHANGED <<registry, probes, main, tag, todo, tries, reason, unlisted, uploads>>

DryRunPasses(r) ==
    /\ step[r] = "dryrun"
    /\ step' = [step EXCEPT ![r] = "publish"]
    /\ UNCHANGED <<registry, probes, main, tag, todo, tries, reason, unlisted, uploads>>

DryRunFails(r) ==
    /\ step[r] = "dryrun"
    /\ tries' = [tries EXCEPT ![r] = @ + 1]
    /\ Check(r, tries[r] + 1 < Retries, "dryrun", "cargo")
    /\ UNCHANGED <<registry, probes, main, tag, todo, unlisted, uploads>>

\* cargo uploads the version the manifest has; crates.io takes a version once.
\* The command may fail before the upload or after it, and is not repeated.
Publish(r) ==
    LET c == tag[r].crate
        v == Manifest[tag[r].commit][c] IN
    /\ step[r] = "publish" /\ v \notin published[c]
    /\ published' = [published EXCEPT ![c] = @ \cup {v}]
    /\ uploads' = uploads \cup {<<r, <<c, v>>>>}
    /\ \E passed \in BOOLEAN : Check(r, passed, "owner", "cargo")
    /\ UNCHANGED <<yanked, served, probes, main, tag, todo, tries, unlisted>>

PublishFails(r) ==
    /\ step[r] = "publish"
    /\ Check(r, FALSE, "owner", "cargo")
    /\ UNCHANGED <<registry, probes, main, tag, todo, tries, unlisted, uploads>>

\* A failure to add the owner is a warning.
AddOwner(r) ==
    /\ step[r] = "owner"
    /\ step' = [step EXCEPT ![r] = "succeeded"]
    /\ UNCHANGED <<registry, probes, main, tag, todo, tries, reason, unlisted, uploads>>

\* A setup step or git fetch fails, the job is cancelled, or its runner is lost.
Abort(r) ==
    /\ Active(r)
    /\ Check(r, FALSE, "failed", "broken")
    /\ probe' = [probe EXCEPT ![r] = NoProbe]
    /\ UNCHANGED <<registry, faulty, died, main, tag, todo, tries, unlisted, uploads>>

\* An operator waits for a version between the tiers (CONTRIBUTING.md:115).
Operate(p) ==
    /\ probe[p].doing = "idle"
    /\ \E c \in Crates, v \in Versions : Ask(p, "require", c, {v}, MaxPolls)
    /\ UNCHANGED <<registry, release>>

Lookup(p) == (Fetched(p) \/ Transient(p) \/ Refused(p) \/ Dies(p)) /\ UNCHANGED release

Proceed(r) ==
    \/ Approve(r) \/ Parse(r) \/ VerifyManifest(r) \/ VerifyAncestor(r)
    \/ EnsureAbsent(r) \/ ListDependencies(r)
    \/ AskDependency(r) \/ RequireDependency(r) \/ DependenciesDone(r)
    \/ DryRunPasses(r) \/ DryRunFails(r) \/ Publish(r) \/ PublishFails(r) \/ AddOwner(r)
    \/ Abort(r)

Withdraw == (\E c \in Crates, v \in Versions : Yank(c, v)) /\ UNCHANGED release

CatchUp == (\E c \in Crates : Refresh(c)) /\ UNCHANGED release

AllDone ==
    /\ \A r \in Runs : ~Active(r) /\ step[r] # "waiting"
    /\ UNCHANGED vars

Next ==
    \/ \E k \in DOMAIN Manifest : Merge(k)
    \/ \E r \in Runs : (\E t \in Tags : Start(r, t)) \/ Proceed(r)
    \/ \E p \in Operators : Operate(p)
    \/ \E p \in Clients : Lookup(p)
    \/ Withdraw
    \/ CatchUp
    \/ AllDone

Spec == Init /\ [][Next]_vars

-----------------------------------------------------------------------------
(* Properties *)

\* What is on crates.io is what a Release said: every upload was made by a run
\* whose tag names it, from a commit that is on main (on-release-published.yml
\* lines 51-73).
OnlyWhatWasTagged ==
    \A u \in uploads :
      /\ u[2] = <<tag[u[1]].crate, tag[u[1]].version>>
      /\ tag[u[1]].commit \in main
      /\ tag[u[1]].crate \in Publishable

\* A requirement that some published version meets.
Met(q) == published[q.dep] \cap q.admits # {}

\* What a run uploaded came after everything it requires, whatever order the
\* releases were published in, whatever the index did and however often lookups
\* failed, on the strength of the run's own check; unless the list of what to
\* check came up empty because it could not be made, which that step takes for a
\* crate without dependencies (CONTRIBUTING.md:109-117,
\* on-release-published.yml:81-101; DependenciesVerified is the claim without the
\* exception).
DependenciesFirst ==
    \A u \in uploads : u[1] \notin unlisted =>
      \A q \in Requires[u[2][1]][u[2][2]] : Met(q)

\* What is said of the registry was read there: a run that reports a version as
\* already published, or a dependency as missing, read the index to say so, one
\* that could not read it says that, and so does the command itself, whose exit
\* code is 2 exactly if its last lookup met a fault (registry.rs:3-4, 146-147,
\* on-release-published.yml:94-98); unless the command died without an answer,
\* which the workflow words as a missing version.
HonestAnswer ==
    /\ \A r \in Runs :
         /\ reason[r] = "published" => tag[r].version \in published[tag[r].crate]
         /\ reason[r] = "published" \/ (reason[r] = "missing" /\ r \notin died)
              => r \notin faulty
         /\ reason[r] = "unreadable" => r \in faulty
    /\ \A p \in Clients : probe[p].doing = "answered" /\ p \notin died =>
         (probe[p].answer = "unreadable" <=> p \in faulty)

\* What CONTRIBUTING.md:100-102 says of the order: the checks are made before the
\* protected environment approves.
CheckedBeforeApproval ==
    \A r \in Runs : step[r] = "parse" =>
      /\ Manifest[tag[r].commit][tag[r].crate] = tag[r].version
      /\ tag[r].commit \in main

\* What CONTRIBUTING.md:100-102 says the workflow verifies, and the name of its
\* step, on-release-published.yml:81: a run that is past the step has every
\* dependency of its crate on crates.io.
DependenciesVerified ==
    \A r \in Runs : step[r] \in {"dryrun", "publish"} =>
      \A q \in Requires[tag[r].crate][tag[r].version] : Met(q)

=============================================================================
