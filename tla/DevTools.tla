------------------------------ MODULE DevTools ------------------------------
(* What .config/dev-tools.json pins and how dev_env.rs reads the version of an
   installed tool: banners, package.json files, and the two classes of pins.   *)
EXTENDS Integers, Sequences, FiniteSets, SequencesExt

(* A version is a nonempty sequence of numbers; None stands for no version. A text is a sequence of lines, a line the
   sequence of its maximal runs of digits and dots, a run the sequence of its
   parts between dots; Blank is an empty part ("9." is <<9, Blank>>, a build
   date <<20260818>>).                                                         *)
None  == <<>>
Blank == -1

Versions == {v \in Seq(Nat) : Len(v) >= 2}
Texts    == Seq(Seq(Seq(Int)))

IsVersion(run) == Len(run) >= 2 /\ \A i \in 1..Len(run) : run[i] # Blank

\* The first run that is a version.
VersionIn(runs) ==
    LET found == {i \in 1..Len(runs) : IsVersion(runs[i])}
    IN  IF found = {} THEN None ELSE runs[Min(found)]

Line(text, i) == IF i <= Len(text) THEN text[i] ELSE <<>>

\* No run goes over the end of a line.
VersionInText(text) ==
    LET holding == {i \in 1..Len(text) : VersionIn(text[i]) # None}
    IN  IF holding = {} THEN None ELSE VersionIn(text[Min(holding)])

\* The banner line wins; the rest is a fallback.
ParseVersion(text) ==
    IF VersionIn(Line(text, 1)) # None THEN VersionIn(Line(text, 1)) ELSE VersionInText(text)

\* A version as a token that stands alone: one whole run.
ContainsVersion(text, version) ==
    \E i \in 1..Len(text) : \E j \in 1..Len(text[i]) : text[i][j] = version

Part(version, i) == IF i <= Len(version) THEN version[i] ELSE 0

SatisfiesFloor(installed, floor) ==
    LET Equal(i) == Part(installed, i) = Part(floor, i)
        Width    == Len(installed) + Len(floor)
    IN  \A i \in 1..Width :
           (\A j \in 1..(i - 1) : Equal(j)) => Part(installed, i) >= Part(floor, i)

(* A process that ran: its exit status and what it wrote on each stream.
   capture joins the two, stdout first; a command that cannot start is 127.    *)
\* Mutant: stderr first.
CaptureStderrFirst(answer) == [status |-> answer.status, text |-> answer.stderr \o answer.stdout]

Capture(answer) == [status |-> answer.status, text |-> answer.stdout \o answer.stderr]

NotExecutable == [status |-> 127, text |-> <<>>]

ReadVersion(answer) ==
    IF Capture(answer).status = 0 THEN ParseVersion(Capture(answer).text) ELSE None

(* The package.json of a directory, as its package and version: NoPackage where
   there is none or it cannot be read. The walk goes from the resolved binary up
   to the root; a repository-local binary is answered by node_modules first.   *)
NoPackage == [package |-> "", version |-> None]

NodePackageVersion(local, own, ancestors, package) ==
    LET candidates == (IF local THEN <<own>> ELSE <<>>) \o ancestors
        owning == {i \in 1..Len(candidates) : candidates[i].package = package}
    IN  IF owning = {} THEN None
        ELSE candidates[Min(owning)].version

\* A pin is a floor unless its entry says why it must be exact.
SatisfiedBy(pin, exact, installed) ==
    /\ installed # None
    /\ IF exact THEN installed = pin ELSE SatisfiesFloor(installed, pin)

(* The sections of the manifest. Doctor owns three and installs from CI sections
   nothing; setup installs from the first two.                                 *)
OwnedSections == {"cargo_tools", "node_tools", "system_tools"}
CiSections    == {"ci_tools"}
Sections      == OwnedSections \cup CiSections \cup {"other_tools"}

SectionsAgree(stated) ==
    /\ stated \ OwnedSections \subseteq CiSections
    /\ OwnedSections \subseteq stated
=============================================================================
