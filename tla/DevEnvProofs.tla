---------------------------- MODULE DevEnvProofs ----------------------------
(***************************************************************************)
(* Proofs about DevEnv for any manifest, any host and any number of        *)
(* changes.  First what the readers of a version return on the copies a    *)
(* machine may have, then IInv: what a setup has done when it is at a      *)
(* step, and what of it outlives the setup.                                *)
(***************************************************************************)
EXTENDS DevEnv, WellFoundedInduction, TLAPS

-----------------------------------------------------------------------------
(* Readers of versions. *)

\* A nonempty set of naturals has a least element.
LEMMA Least ==
    ASSUME NEW T, T \subseteq Nat, T # {}
    PROVE  Min(T) \in T /\ \A y \in T : Min(T) <= y
<1> DEFINE R == {ss \in Nat \X Nat : ss[1] < ss[2]}
<1>1. IsWellFoundedOn(R, Nat)
  BY NatLessThanWellFounded DEF OpToRel
<1>2. \A x, y \in Nat : y < x => <<y, x>> \in R
  OBVIOUS
<1> HIDE DEF R
<1>3. PICK x \in T : \A y \in T : ~ (<<y, x>> \in R)
  BY <1>1, WFMin
<1>4. \A y \in T : ~ (y < x)
  BY <1>2, <1>3
<1>5. x \in T /\ \A y \in T : x <= y
  BY <1>4
<1>6. QED
  BY <1>5 DEF Min

\* What parse_version reads is the first version of the text, whichever of its
\* two attempts finds it.
LEMMA ParsesFirst ==
    ASSUME NEW text \in Texts, NEW real,
           \A i \in 1..Len(text) :
              VersionIn(text[i]) # None /\ (\A j \in 1..(i - 1) : VersionIn(text[j]) = None)
                  => VersionIn(text[i]) = real
    PROVE  /\ ParseVersion(text) \in {None, real}
           /\ (\E i \in 1..Len(text) : VersionIn(text[i]) # None) => ParseVersion(text) = real
<1> DEFINE holding == {i \in 1..Len(text) : VersionIn(text[i]) # None}
<1>1. Len(text) \in Nat
  BY DEF Texts
<1>2. CASE holding = {}
  <2>1. VersionIn(<<>>) = None
    BY DEF VersionIn
  <2>2. VersionIn(Line(text, 1)) = None
    BY <1>1, <1>2, <2>1 DEF Line
  <2>3. VersionInText(text) = None
    BY <1>2 DEF VersionInText
  <2>4. QED
    BY <1>2, <2>2, <2>3 DEF ParseVersion
<1>3. CASE holding # {}
  <2>1. Min(holding) \in holding /\ \A j \in holding : Min(holding) <= j
    <3>1. holding \subseteq Nat
      BY <1>1
    <3> HIDE DEF holding
    <3>2. QED
      BY <1>3, <3>1, Least
  <2>2. VersionIn(text[Min(holding)]) = real
    <3>1. PICK m \in 1..Len(text) : m = Min(holding)
      BY <2>1
    <3>2. VersionIn(text[m]) # None
      BY <2>1, <3>1
    <3>3. \A j \in 1..(m - 1) : VersionIn(text[j]) = None
      <4> SUFFICES ASSUME NEW j \in 1..(m - 1), j \in holding PROVE FALSE
        BY <1>1
      <4>1. QED
        BY <1>1, <2>1, <3>1
    <3>4. QED
      BY <3>1, <3>2, <3>3
  <2>3. VersionInText(text) = real
    BY <1>3, <2>2 DEF VersionInText
  <2>4. VersionIn(Line(text, 1)) # None => VersionIn(Line(text, 1)) = real
    <3>1. VersionIn(<<>>) = None
      BY DEF VersionIn
    <3>2. QED
      BY <1>1, <3>1 DEF Line
  <2>5. QED
    BY <2>3, <2>4 DEF ParseVersion
<1>4. QED
  BY <1>2, <1>3

\* A copy that writes its version is read as that version or not at all.
LEMMA ReadsTruly ==
    ASSUME NEW copy, IsBinary(copy), WritesItsVersion(copy)
    PROVE  ReadVersion(copy.answer) \in {None, copy.real}
<1>1. copy.answer.stdout \o copy.answer.stderr \in Texts
  BY DEF IsBinary, Texts
<1>2. ParseVersion(copy.answer.stdout \o copy.answer.stderr) \in {None, copy.real}
  BY <1>1, ParsesFirst DEF WritesItsVersion
<1>3. QED
  BY <1>2 DEF ReadVersion, Capture

LEMMA ConcatIndex ==
    ASSUME NEW S, NEW a \in Seq(S), NEW b \in Seq(S), NEW i \in 1..Len(a)
    PROVE  i \in 1..Len(a \o b) /\ (a \o b)[i] = a[i]
OBVIOUS

\* A copy that cargo installed is read as the version it was installed at.
LEMMA InstalledReads ==
    ASSUME NEW t \in CargoTools, NEW v \in Pins
    PROVE  ReadVersion(CargoCopy(t, v).answer) = v
<1> DEFINE c == CargoCopy(t, v)
           out == c.answer.stdout
           err == c.answer.stderr
<1>1. /\ IsBinary(c) /\ c.real = v /\ WritesItsVersion(c) /\ c.answer.status = 0
      /\ \E i \in 1..Len(out) : VersionIn(out[i]) # None
  BY CopiesAssumption
<1> HIDE DEF c
<1>2. out \in Texts /\ err \in Texts /\ out \o err \in Texts
  BY <1>1 DEF IsBinary, Texts
<1>3. \E i \in 1..Len(out \o err) : VersionIn((out \o err)[i]) # None
  <2>1. PICK i \in 1..Len(out) : VersionIn(out[i]) # None
    BY <1>1
  <2>2. i \in 1..Len(out \o err) /\ (out \o err)[i] = out[i]
    <3> HIDE DEF out, err
    <3>1. QED
      BY <1>2, <2>1, ConcatIndex DEF Texts
  <2>3. QED
    BY <2>1, <2>2
<1>4. ParseVersion(out \o err) = v
  BY <1>1, <1>2, <1>3, ParsesFirst DEF WritesItsVersion
<1>5. QED
  BY <1>1, <1>4 DEF ReadVersion, Capture, c

\* The version of a Node tool is that of its own package, found from the binary
\* up, and of a local one that of the package beside it.
LEMMA NodeReads ==
    ASSUME NEW t \in NodeTools, NEW copy, IsBinary(copy), StatesItsVersion(t, copy), NEW own
    PROVE  NodePackageVersion(FALSE, own, copy.above, t) \in {None, copy.real}
<1> DEFINE above == copy.above
           owning == {i \in 1..Len(above) : above[i].package = t}
<1>1. above \in Seq([package : STRING, version : {None} \cup Versions]) /\ Len(above) \in Nat
  BY DEF IsBinary
<1>2. <<>> \o above = above
  BY <1>1
<1>3. CASE owning = {}
  BY <1>2, <1>3 DEF NodePackageVersion
<1>4. CASE owning # {}
  <2>1. owning \subseteq Nat
    BY <1>1
  <2> HIDE DEF owning
  <2>2. Min(owning) \in owning /\ \A j \in owning : Min(owning) <= j
    BY <1>4, <2>1, Least
  <2>3. PICK m \in 1..Len(above) : m = Min(owning)
    BY <2>2 DEF owning
  <2>4. above[m].package = t
    BY <2>2, <2>3 DEF owning
  <2>5. \A j \in 1..(m - 1) : above[j].package # t
    <3> SUFFICES ASSUME NEW j \in 1..(m - 1), above[j].package = t PROVE FALSE
      OBVIOUS
    <3>1. j \in owning
      BY <1>1 DEF owning
    <3>2. QED
      BY <2>2, <2>3, <3>1
  <2>6. above[m].version = copy.real
    BY <2>4, <2>5 DEF StatesItsVersion
  <2>7. NodePackageVersion(FALSE, own, above, t) = above[m].version
    BY <1>2, <1>4, <2>3 DEF NodePackageVersion, owning
  <2>8. QED
    BY <2>6, <2>7
<1>5. QED
  BY <1>3, <1>4

LEMMA LocalNodeReads ==
    ASSUME NEW t \in NodeTools, NEW v \in Pins
    PROVE  NodePackageVersion(TRUE, NodeCopy(t, v).own, NodeCopy(t, v).above, t) = v
<1> DEFINE c == NodeCopy(t, v)
           candidates == <<c.own>> \o c.above
           owning == {i \in 1..Len(candidates) : candidates[i].package = t}
<1>1. IsBinary(c) /\ c.own = [package |-> t, version |-> v]
  BY CopiesAssumption
<1> HIDE DEF c
<1>2. candidates[1] = c.own /\ Len(candidates) \in Nat /\ 1 \in 1..Len(candidates)
  BY <1>1 DEF IsBinary
<1>3. 1 \in owning /\ owning \subseteq Nat
  BY <1>1, <1>2
<1>4. Min(owning) = 1
  <2>1. \A i \in owning : 1 <= i
    BY <1>2
  <2> HIDE DEF owning
  <2>2. Min(owning) \in owning /\ Min(owning) <= 1
    BY <1>3, Least
  <2>3. PICK m \in Nat : m = Min(owning)
    BY <1>3, <2>2
  <2>4. m <= 1 /\ 1 <= m
    BY <2>1, <2>2, <2>3
  <2>5. QED
    BY <2>3, <2>4
<1>5. NodePackageVersion(TRUE, c.own, c.above, t) = candidates[1].version
  BY <1>3, <1>4 DEF NodePackageVersion
<1>6. NodePackageVersion(TRUE, c.own, c.above, t) = v
  <2>1. c.own.version = v
    BY <1>1
  <2> HIDE DEF candidates
  <2>2. candidates[1].version = c.own.version
    BY <1>2
  <2>3. QED
    BY <1>5, <2>1, <2>2
<1>7. QED
  BY <1>6 DEF c

\* What is at its pin to the reader serves: an exact pin is met to the letter,
\* and a version that is not below a floor does not rank below it.
LEMMA SatisfiedServes ==
    ASSUME NEW pin \in Pins, NEW version \in Versions, NEW exact \in BOOLEAN,
           SatisfiedBy(pin, exact, version)
    PROVE  IF exact THEN version = pin ELSE Rank(version) >= Rank(pin)
<1> SUFFICES ASSUME ~exact PROVE Rank(version) >= Rank(pin)
  BY DEF SatisfiedBy
<1>1. SatisfiesFloor(version, pin)
  BY DEF SatisfiedBy
<1>2. pin \in Seq(Nat) /\ Len(pin) \in Nat /\ Len(pin) >= 2 /\ Len(pin) <= 3
  BY DevEnvAssumption DEF Versions
<1>3. \A i \in 1..Len(pin) : pin[i] < 1000 /\ pin[i] \in Nat
  BY <1>2, DevEnvAssumption
<1>4. version \in Seq(Nat) /\ Len(version) \in Nat /\ Len(version) >= 2
  BY DEF Versions
<1> DEFINE a(i) == Part(version, i)
           b(i) == Part(pin, i)
<1>5. \A i \in 1..3 : a(i) \in Nat /\ b(i) \in Nat /\ b(i) < 1000
  <2> SUFFICES ASSUME NEW i \in 1..3 PROVE a(i) \in Nat /\ b(i) \in Nat /\ b(i) < 1000
    OBVIOUS
  <2>1. a(i) \in Nat
    BY <1>4 DEF Part
  <2>2. b(i) \in Nat /\ b(i) < 1000
    BY <1>2, <1>3 DEF Part
  <2>3. QED
    BY <2>1, <2>2
<1>6. \A i \in 1..(Len(version) + Len(pin)) :
         (\A j \in 1..(i - 1) : a(j) = b(j)) => a(i) >= b(i)
  BY <1>1 DEF SatisfiesFloor
<1> HIDE DEF a, b
<1>7. a(1) >= b(1)
  BY <1>2, <1>4, <1>6
<1>8. a(1) = b(1) => a(2) >= b(2)
  BY <1>2, <1>4, <1>6
<1>9. a(1) = b(1) /\ a(2) = b(2) => a(3) >= b(3)
  <2> SUFFICES ASSUME a(1) = b(1), a(2) = b(2) PROVE a(3) >= b(3)
    OBVIOUS
  <2>1. ASSUME NEW j \in 1..(3 - 1) PROVE a(j) = b(j)
    <3>1. j = 1 \/ j = 2
      OBVIOUS
    <3>2. QED
      BY <3>1
  <2>2. 3 \in 1..(Len(version) + Len(pin))
    BY <1>2, <1>4
  <2>3. QED
    BY <1>6, <2>1, <2>2
<1>10. 1000000 * a(1) + 1000 * a(2) + a(3) >= 1000000 * b(1) + 1000 * b(2) + b(3)
  BY <1>5, <1>7, <1>8, <1>9
<1>11. QED
  BY <1>10 DEF Rank, a, b

\* A copy at the pin satisfies it.
LEMMA PinSatisfied ==
    ASSUME NEW pin \in Pins, NEW exact \in BOOLEAN
    PROVE  SatisfiedBy(pin, exact, pin)
<1>1. pin # None
  BY DevEnvAssumption DEF Versions, None
<1>2. pin \in Seq(Nat) /\ Len(pin) \in Nat
  BY DevEnvAssumption DEF Versions
<1>3. SatisfiesFloor(pin, pin)
  BY <1>2 DEF SatisfiesFloor, Part
<1>4. QED
  BY <1>1, <1>3 DEF SatisfiedBy

-----------------------------------------------------------------------------
(* The invariant. *)

\* The functions have their domains, and a copy is one the machine may have.
ShapeInv ==
    /\ host = [t \in Tools |-> host[t]]
    /\ local = [t \in Owned |-> local[t]]

\* What setup has decided about a Cargo tool it has looked at.
Decided(t) == IF t \in shadowed THEN host[t].there /\ Unsatisfied(t) ELSE ~Unsatisfied(t)

\* What setup has done when it is at a step. While it runs nobody was answered.
ProgressInv ==
    /\ pc # "idle" => answer = NoAnswer /\ Found("rustup")
    /\ pc # "cargo" => todo = {}
    /\ pc \in ToSet(RustSteps) => shadowed = {}
    /\ pc \in {"primary", "msrv", "targets", "cargo", "shadows"} => submodule
    /\ pc \in {"msrv", "targets", "cargo", "shadows"} => {"primary", "primary component"} \subseteq rust
    /\ pc \in {"targets", "cargo", "shadows"} => {"msrv", "msrv component"} \subseteq rust
    /\ pc \in {"cargo", "shadows"} =>
         /\ "target" \in rust
         /\ shadowed \subseteq CargoTools \ todo
         /\ \A t \in CargoTools \ todo : Decided(t)
    /\ pc = "shadows" => \A t \in NodeTools : local[t] = NodeCopy(t, pins[t])

\* No Cargo tool is left for a setup that follows a complete one to install.
SettledInv == settled => \A t \in CargoTools : host[t].there \/ ~Unsatisfied(t)

\* An answer of 0 is still true of the machine.
AnswerInv ==
    /\ answer.by # "none" /\ answer.status = 0 => SectionsAgree(stated) /\ DoctorRows = {}

IInv == TypeOK /\ ShapeInv /\ ProgressInv /\ SettledInv /\ AnswerInv /\ SetupConverges

-----------------------------------------------------------------------------
(* Where setup goes from a command of RustSteps. *)
LEMMA Order ==
    /\ ToSet(RustSteps) = {"submodule", "primary", "msrv", "targets"}
    /\ RustSteps[1] = "submodule"
    /\ AfterRust("submodule") = "primary" /\ AfterRust("primary") = "msrv"
    /\ AfterRust("msrv") = "targets" /\ AfterRust("targets") = "cargo"
<1>1. Len(RustSteps) = 4
  BY DEF RustSteps
<1>2. /\ RustSteps[1] = "submodule" /\ RustSteps[2] = "primary"
      /\ RustSteps[3] = "msrv" /\ RustSteps[4] = "targets"
  BY DEF RustSteps
<1>3. DOMAIN RustSteps = 1..4
  BY DEF RustSteps
<1>4. ToSet(RustSteps) = {"submodule", "primary", "msrv", "targets"}
  BY <1>2, <1>3 DEF ToSet
<1> HIDE DEF RustSteps
<1>5. ASSUME NEW i \in 1..4
      PROVE  (CHOOSE k \in 1..Len(RustSteps) : RustSteps[k] = RustSteps[i]) = i
  BY <1>1, <1>2
<1>6. QED
  BY <1>1, <1>2, <1>4, <1>5 DEF AfterRust

LEMMA AddsAre ==
    /\ Adds("submodule") = {}
    /\ Adds("primary") = {"primary", "primary component"}
    /\ Adds("msrv") = {"msrv", "msrv component"}
    /\ Adds("targets") = {"target"}
BY DEF Adds

-----------------------------------------------------------------------------
(* What doctor's silence means. *)

LEMMA HostCopyIs ==
    ASSUME TypeOK, NEW t \in Tools, host[t].there
    PROVE  /\ IsBinary(host[t])
           /\ IF t \in NodeTools THEN StatesItsVersion(t, host[t]) ELSE WritesItsVersion(host[t])
<1>1. host[t] \in HostCopies(t) \ {Absent}
  BY DEF TypeOK, Absent
<1>2. QED
  BY <1>1, CopiesAssumption

LEMMA LocalCargoIs ==
    ASSUME TypeOK, NEW t \in CargoTools, local[t].there
    PROVE  \E v \in Pins : local[t] = CargoCopy(t, v)
BY DEF TypeOK, Absent

LEMMA LocalNodeIs ==
    ASSUME TypeOK, NEW t \in NodeTools, local[t].there
    PROVE  \E v \in Pins : local[t] = NodeCopy(t, v)
BY DEF TypeOK, Absent

\* The copy the lookup finds is the one a recipe runs.
LEMMA ResolvedRuns ==
    ASSUME NEW t \in Tools, Resolve(t).there
    PROVE  /\ RecipeRuns(t, Resolve(t))
           /\ Resolve(t) \in {host[t]} \cup (IF t \in Owned THEN {local[t]} ELSE {})
<1>1. CASE host[t].there
  <2>1. RecipeCopies(t)[1] = host[t] /\ 1 \in 1..Len(RecipeCopies(t))
    <3>1. CASE t \in Owned
      <4>1. RecipeCopies(t) = <<host[t], local[t]>>
        BY <3>1 DEF RecipeCopies
      <4>2. QED
        BY <4>1
    <3>2. CASE t \notin Owned
      <4>1. RecipeCopies(t) = <<host[t]>>
        BY <3>2 DEF RecipeCopies
      <4>2. QED
        BY <4>1
    <3>3. QED
      BY <3>1, <3>2
  <2>2. Resolve(t) = host[t]
    BY <1>1 DEF Resolve
  <2>3. QED
    BY <1>1, <2>1, <2>2 DEF RecipeRuns
<1>2. CASE ~host[t].there
  <2>1. t \in Owned /\ Resolve(t) = local[t]
    BY <1>2 DEF Resolve, Absent
  <2>2. RecipeCopies(t) = <<host[t], local[t]>>
    BY <2>1 DEF RecipeCopies
  <2>3. RecipeRuns(t, local[t])
    BY <1>2, <2>1, <2>2 DEF RecipeRuns
  <2>4. QED
    BY <2>1, <2>3
<1>3. QED
  BY <1>1, <1>2

\* What a reader says of the copy it resolved is true of that copy, if it says
\* anything.
LEMMA CargoVersionTrue ==
    ASSUME TypeOK, NEW t \in CargoTools, Resolve(t).there
    PROVE  Resolve(t).real \in Versions /\ CargoVersion(t) \in {None, Resolve(t).real}
<1>1. IsBinary(Resolve(t)) /\ WritesItsVersion(Resolve(t))
  <2>1. t \in Tools /\ t \in Owned /\ t \notin NodeTools
    BY DevEnvAssumption DEF Tools, Owned
  <2>2. CASE host[t].there
    BY <2>1, <2>2, HostCopyIs DEF Resolve
  <2>3. CASE ~host[t].there
    <3>1. Resolve(t) = local[t]
      BY <2>1, <2>3 DEF Resolve
    <3>2. PICK v \in Pins : local[t] = CargoCopy(t, v)
      BY <3>1, LocalCargoIs
    <3>3. QED
      BY <3>1, <3>2, CopiesAssumption
  <2>4. QED
    BY <2>2, <2>3
<1>2. QED
  BY <1>1, ReadsTruly DEF IsBinary, CargoVersion

LEMMA NodeVersionTrue ==
    ASSUME TypeOK, NEW t \in NodeTools, Resolve(t).there
    PROVE  Resolve(t).real \in Versions /\ NodeVersion(t) \in {None, Resolve(t).real}
<1>1. t \in Tools /\ t \in Owned
  BY DEF Tools, Owned
<1>2. CASE host[t].there
  <2>1. Resolve(t) = host[t] /\ IsRepositoryLocal(t) = FALSE
    BY <1>2 DEF Resolve, IsRepositoryLocal
  <2>2. IsBinary(host[t]) /\ StatesItsVersion(t, host[t])
    BY <1>1, <1>2, HostCopyIs
  <2>3. NodeVersion(t) = NodePackageVersion(FALSE, host[t].own, host[t].above, t)
    BY <2>1 DEF NodeVersion
  <2>4. NodeVersion(t) \in {None, host[t].real}
    BY <2>2, <2>3, NodeReads
  <2>5. QED
    BY <2>1, <2>2, <2>4 DEF IsBinary
<1>3. CASE ~host[t].there
  <2>1. Resolve(t) = local[t] /\ IsRepositoryLocal(t) = TRUE
    BY <1>1, <1>3 DEF Resolve, IsRepositoryLocal
  <2>2. PICK v \in Pins : local[t] = NodeCopy(t, v)
    BY <2>1, LocalNodeIs
  <2>3. IsBinary(NodeCopy(t, v)) /\ NodeCopy(t, v).real = v
    BY CopiesAssumption
  <2>4. NodeVersion(t) = v
    BY <2>1, <2>2, LocalNodeReads DEF NodeVersion
  <2>5. QED
    BY <2>1, <2>2, <2>3, <2>4 DEF IsBinary
<1>4. QED
  BY <1>2, <1>3

Version(t) == IF t \in NodeTools THEN NodeVersion(t) ELSE CargoVersion(t)

LEMMA OneRow ==
    ASSUME NEW t, NEW hint, NEW named
    PROVE  {Row(t, hint, named)} # {} /\ \A r \in {Row(t, hint, named)} : r.label = t
<1>1. Row(t, hint, named).label = t
  BY DEF Row
<1> HIDE DEF Row
<1>2. QED
  BY <1>1

\* A tool has a row unless its copy is there and at its pin, and the row is its own.
LEMMA VersionRowsAre ==
    ASSUME NEW t, NEW version, NEW hint, NEW shadowing \in BOOLEAN
    PROVE  /\ Satisfied(t, version) => VersionRows(t, version, hint, shadowing) = {}
           /\ VersionRows(t, version, hint, shadowing) = {} => Satisfied(t, version)
           /\ \A r \in VersionRows(t, version, hint, shadowing) : r.label = t
<1>1. CASE version = None
  <2>1. ~Satisfied(t, version)
    BY <1>1 DEF Satisfied, SatisfiedBy
  <2>2. VersionRows(t, version, hint, shadowing) = {Row(t, hint, FALSE)}
    BY <1>1 DEF VersionRows
  <2>3. QED
    BY <2>1, <2>2, OneRow
<1>2. CASE version # None /\ Satisfied(t, version)
  BY <1>2 DEF VersionRows
<1>3. CASE version # None /\ ~Satisfied(t, version)
  <2>1. VersionRows(t, version, hint, shadowing)
          \in {{Row(t, "upgrade or remove it", TRUE)}, {Row(t, hint, FALSE)}}
    BY <1>3 DEF VersionRows
  <2>2. QED
    BY <1>3, <2>1, OneRow
<1>4. QED
  BY <1>1, <1>2, <1>3

LEMMA OwnedRowsAre ==
    ASSUME NEW t \in Owned
    PROVE  /\ Resolve(t).there /\ Satisfied(t, Version(t)) => OwnedRows(t) = {}
           /\ OwnedRows(t) = {} => Resolve(t).there /\ Satisfied(t, Version(t))
           /\ \A r \in OwnedRows(t) : r.label = t
<1>1. CASE Resolve(t).there
  <2>1. OwnedRows(t) = VersionRows(t, Version(t), "run just setup", ~IsRepositoryLocal(t))
    BY <1>1 DEF OwnedRows, Version
  <2>2. (~IsRepositoryLocal(t)) \in BOOLEAN
    BY DEF IsRepositoryLocal
  <2> DEFINE R == VersionRows(t, Version(t), "run just setup", ~IsRepositoryLocal(t))
  <2>3. /\ Satisfied(t, Version(t)) => R = {}
        /\ R = {} => Satisfied(t, Version(t))
        /\ \A r \in R : r.label = t
    BY <2>2, VersionRowsAre
  <2> HIDE DEF R
  <2>4. QED
    BY <1>1, <2>1, <2>3 DEF R
<1>2. CASE ~Resolve(t).there
  <2>1. OwnedRows(t) = {Row(t, "run just setup", FALSE)}
    BY <1>2 DEF OwnedRows
  <2>2. Row(t, "run just setup", FALSE).label = t
    BY DEF Row
  <2>3. QED
    BY <1>2, <2>1, <2>2
<1>3. QED
  BY <1>1, <1>2

LEMMA SystemRowsAre ==
    ASSUME NEW t \in SystemTools
    PROVE  /\ host[t].there /\ Satisfied(t, ReadVersion(host[t].answer)) => SystemRows(t) = {}
           /\ SystemRows(t) = {} => host[t].there /\ Satisfied(t, ReadVersion(host[t].answer))
           /\ \A r \in SystemRows(t) : r.label = t
<1>1. CASE host[t].there
  <2> DEFINE R == VersionRows(t, ReadVersion(host[t].answer), "install the package", FALSE)
  <2>1. SystemRows(t) = R
    BY <1>1 DEF SystemRows
  <2>2. /\ Satisfied(t, ReadVersion(host[t].answer)) => R = {}
        /\ R = {} => Satisfied(t, ReadVersion(host[t].answer))
        /\ \A r \in R : r.label = t
    BY VersionRowsAre
  <2> HIDE DEF R
  <2>3. QED
    BY <1>1, <2>1, <2>2
<1>2. CASE ~host[t].there
  <2>1. SystemRows(t) = {Row(t, "install the package", FALSE)}
    BY <1>2 DEF SystemRows
  <2>2. Row(t, "install the package", FALSE).label = t
    BY DEF Row
  <2>3. QED
    BY <1>2, <2>1, <2>2
<1>3. QED
  BY <1>1, <1>2

\* The tools, when doctor has no row.
LEMMA SilenceServes ==
    ASSUME TypeOK, DoctorRows = {}, NEW t \in Tools
    PROVE  \E copy \in {host[t]} \cup (IF t \in Owned THEN {local[t]} ELSE {}) :
               RecipeRuns(t, copy) /\ Serves(t, copy)
<1>1. pins[t] \in Pins
  BY DEF TypeOK
<1>2. (t \in Exact) \in BOOLEAN
  OBVIOUS
<1>3. ASSUME Resolve(t).there, Resolve(t).real \in Versions, Satisfied(t, Resolve(t).real)
      PROVE  Serves(t, Resolve(t))
  <2>1. SatisfiedBy(pins[t], t \in Exact, Resolve(t).real)
    BY <1>3 DEF Satisfied
  <2>2. QED
    BY <1>1, <1>2, <1>3, <2>1, SatisfiedServes DEF Serves
<1>4. \A version : Satisfied(t, version) => version # None
  BY DEF Satisfied, SatisfiedBy
<1>5. CASE t \in SystemTools
  <2>1. SystemRows(t) = {}
    BY <1>5 DEF DoctorRows
  <2>2. host[t].there /\ Satisfied(t, ReadVersion(host[t].answer))
    BY <1>5, <2>1, SystemRowsAre
  <2>3. t \notin NodeTools
    BY <1>5, DevEnvAssumption DEF Owned
  <2>4. IsBinary(host[t]) /\ WritesItsVersion(host[t])
    BY <2>2, <2>3, HostCopyIs
  <2>5. ReadVersion(host[t].answer) = host[t].real
    BY <1>4, <2>2, <2>4, ReadsTruly
  <2>6. Resolve(t) = host[t] /\ host[t].real \in Versions
    BY <2>2, <2>4 DEF Resolve, IsBinary
  <2>7. QED
    BY <1>3, <2>2, <2>5, <2>6, ResolvedRuns
<1>6. CASE t \in Owned
  <2>1. OwnedRows(t) = {}
    BY <1>6 DEF DoctorRows
  <2>2. Resolve(t).there /\ Satisfied(t, Version(t))
    BY <1>6, <2>1, OwnedRowsAre
  <2>3. Resolve(t).real \in Versions /\ Version(t) = Resolve(t).real
    <3>1. CASE t \in NodeTools
      BY <1>4, <2>2, <3>1, NodeVersionTrue DEF Version
    <3>2. CASE t \in CargoTools /\ t \notin NodeTools
      BY <1>4, <2>2, <3>2, CargoVersionTrue DEF Version
    <3>3. QED
      BY <1>6, <3>1, <3>2 DEF Owned
  <2>4. QED
    BY <1>3, <2>2, <2>3, ResolvedRuns
<1>7. QED
  BY <1>5, <1>6 DEF Tools, Owned

\* The rest of the machine, when doctor has no row.
LEMMA SilenceMachine ==
    ASSUME TypeOK, DoctorRows = {}
    PROVE  /\ rust = RustItems /\ submodule
           /\ \A c \in Bootstrap : bootstrap[c] \notin {"absent", "broken", "other"}
<1>1. BootstrapRows = {} /\ RustRows = {} /\ VendoredRows = {}
  BY DEF DoctorRows
<1>2. \A i \in RustItems : i \in rust
  BY <1>1 DEF RustRows
<1>3. submodule
  BY <1>1 DEF VendoredRows
<1>4. ASSUME NEW c \in Bootstrap
      PROVE  bootstrap[c] \notin {"absent", "broken", "other"}
  <2>1. Found(c) /\ Answer(c).status = 0
    BY <1>1 DEF BootstrapRows
  <2>2. bootstrap[c] \notin {"absent", "broken"}
    BY <2>1 DEF Found, Answer
  <2>3. CASE c \in {"cargo", "rustc"}
    <3>1. Answer(c).primary
      BY <1>1, <2>1, <2>3 DEF BootstrapRows
    <3>2. QED
      BY <2>2, <3>1 DEF Answer
  <2>4. CASE c \notin {"cargo", "rustc"}
    <3>1. PICK s \in Situations : bootstrap = s.bootstrap
      BY DEF TypeOK
    <3>2. s.bootstrap[c] \in BootstrapAnswers(c)
      BY DevEnvAssumption
    <3>3. QED
      BY <2>2, <2>4, <3>1, <3>2 DEF BootstrapAnswers
  <2>5. QED
    BY <2>3, <2>4
<1>5. rust = RustItems
  BY <1>2 DEF TypeOK
<1>6. QED
  BY <1>3, <1>4, <1>5

LEMMA DoctorFromInv == TypeOK /\ AnswerInv => DoctorIsRight
<1> SUFFICES ASSUME TypeOK, AnswerInv, answer.by # "none", answer.status = 0
             PROVE  DoctorIsRight
  BY DEF DoctorIsRight
<1>1. SectionsAgree(stated) /\ DoctorRows = {}
  BY DEF AnswerInv
<1>2. stated \ CiSections = OwnedSections
  BY <1>1 DEF SectionsAgree, CiSections, OwnedSections
<1>3. QED
  BY <1>1, <1>2, SilenceServes, SilenceMachine DEF DoctorIsRight

-----------------------------------------------------------------------------
(* The steps. *)

\* A lookup whose copies and pin stay says what it said.
LEMMA SameLookup ==
    ASSUME NEW t \in Owned, pins'[t] = pins[t], host'[t] = host[t], local'[t] = local[t]
    PROVE  Resolve(t)' = Resolve(t) /\ Unsatisfied(t)' = Unsatisfied(t)
<1>1. Resolve(t)' = Resolve(t)
  BY DEF Resolve
<1>2. CargoVersion(t)' = CargoVersion(t)
  BY <1>1 DEF CargoVersion
<1>3. QED
  BY <1>1, <1>2 DEF Unsatisfied, Satisfied

LEMMA SameDoctor ==
    ASSUME UNCHANGED machine
    PROVE  DoctorRows' = DoctorRows
<1> USE DEF machine
<1>1. BootstrapRows' = BootstrapRows /\ RustRows' = RustRows /\ VendoredRows' = VendoredRows
  BY DEF BootstrapRows, RustRows, VendoredRows, Found, Answer
<1>2. \A t : OwnedRows(t)' = OwnedRows(t) /\ SystemRows(t)' = SystemRows(t)
  BY DEF OwnedRows, SystemRows, VersionRows, Satisfied, Resolve, IsRepositoryLocal,
         NodeVersion, CargoVersion
<1>3. QED
  BY <1>1, <1>2 DEF DoctorRows

LEMMA InitInv == Init => IInv
<1> SUFFICES ASSUME Init PROVE IInv
  OBVIOUS
<1> USE DEF Init
<1>1. TypeOK
  <2>1. \E s \in Situations : stated = s.stated /\ bootstrap = s.bootstrap
    OBVIOUS
  <2>2. /\ \A t \in Tools : host[t] \in HostCopies(t)
        /\ \A t \in CargoTools : local[t] = Absent
        /\ \A t \in NodeTools : local[t] = Absent
    BY DEF Owned
  <2>3. pins \in [Tools -> Pins] /\ changes \in 0..MaxChanges /\ answer.status = 0
    BY DevEnvAssumption DEF NoAnswer
  <2> HIDE DEF Init
  <2>4. /\ rust = {} /\ submodule = FALSE /\ pc = "idle" /\ settled = FALSE
        /\ todo = {} /\ shadowed = {} /\ installed = {}
    BY DEF Init
  <2>5. QED
    BY <2>1, <2>2, <2>3, <2>4 DEF TypeOK
<1>2. ShapeInv
  BY DEF ShapeInv
<1>3. ProgressInv
  BY Order DEF ProgressInv
<1>4. SettledInv /\ AnswerInv /\ SetupConverges
  BY DEF SettledInv, AnswerInv, SetupConverges, NoAnswer
<1>5. QED
  BY <1>1, <1>2, <1>3, <1>4 DEF IInv

LEMMA ChangeKeeps ==
    ASSUME IInv, Change
    PROVE  ProgressInv' /\ SettledInv' /\ AnswerInv' /\ SetupConverges'
<1>1. pc' = "idle" /\ settled' = FALSE /\ answer' = NoAnswer /\ todo' = todo
  BY DEF Change
<1>2. todo = {}
  BY DEF IInv, ProgressInv, Change
<1>3. ProgressInv'
  BY <1>1, <1>2, Order DEF ProgressInv
<1>4. SettledInv' /\ AnswerInv' /\ SetupConverges'
  BY <1>1 DEF SettledInv, AnswerInv, SetupConverges, NoAnswer
<1>5. QED
  BY <1>3, <1>4

LEMMA ChangeTypes ==
    ASSUME TypeOK, Change
    PROVE  /\ \E s \in Situations : stated' = s.stated /\ bootstrap' = s.bootstrap
           /\ submodule' \in BOOLEAN
           /\ pc' \in {"idle", "cargo", "shadows"} \cup ToSet(RustSteps)
           /\ todo' \subseteq CargoTools /\ installed' \subseteq CargoTools /\ shadowed' \subseteq Owned
           /\ answer'.status \in {0, 1, 101} /\ settled' \in BOOLEAN /\ changes' \in 0..MaxChanges
<1>1. changes' \in 0..MaxChanges
  BY DevEnvAssumption DEF TypeOK, Change
<1>2. answer'.status = 0
  BY DEF Change, NoAnswer
<1>3. QED
  BY <1>1, <1>2 DEF TypeOK, Change

LEMMA HostChangesInv == ASSUME IInv, NEW t \in Tools, HostChanges(t) PROVE IInv'
<1>1. Change /\ UNCHANGED <<pins, local, rust>>
  BY DEF HostChanges
<1>2. PICK c \in HostCopies(t) : host' = [host EXCEPT ![t] = c]
  BY DEF HostChanges
<1>3. host = [u \in Tools |-> host[u]] /\ local = [u \in Owned |-> local[u]]
  BY DEF IInv, ShapeInv
<1>4. host' = [u \in Tools |-> IF u = t THEN c ELSE host[u]]
  BY <1>2, <1>3
<1>5. ShapeInv'
  BY <1>1, <1>3, <1>4 DEF ShapeInv
<1>6. TypeOK'
  <2>1. TypeOK
    BY DEF IInv
  <2>2. \A u \in Tools : host'[u] \in HostCopies(u)
    BY <1>4, <2>1 DEF TypeOK
  <2>3. QED
    BY <1>1, <2>1, <2>2, ChangeTypes DEF TypeOK
<1>7. QED
  BY <1>1, <1>5, <1>6, ChangeKeeps DEF IInv

LEMMA PinMovesInv == ASSUME IInv, NEW t \in Tools, PinMoves(t) PROVE IInv'
<1>1. Change /\ UNCHANGED <<host, local, rust>>
  BY DEF PinMoves
<1>2. PICK v \in Pins : pins' = [pins EXCEPT ![t] = v]
  BY DEF PinMoves
<1>3. TypeOK /\ ShapeInv
  BY DEF IInv
<1>4. pins' \in [Tools -> Pins]
  BY <1>2, <1>3 DEF TypeOK
<1>5. TypeOK'
  BY <1>1, <1>3, <1>4, ChangeTypes DEF TypeOK
<1>6. ShapeInv'
  BY <1>1, <1>3 DEF ShapeInv
<1>7. QED
  BY <1>1, <1>5, <1>6, ChangeKeeps DEF IInv

LEMMA CleanedInv == ASSUME IInv, Cleaned PROVE IInv'
<1>1. Change /\ UNCHANGED <<pins, host, rust>> /\ local' = [u \in Owned |-> Absent]
  BY DEF Cleaned
<1>2. TypeOK /\ ShapeInv
  BY DEF IInv
<1>3. \A u \in Owned : local'[u] = Absent
  BY <1>1
<1>4. TypeOK'
  BY <1>1, <1>2, <1>3, ChangeTypes DEF TypeOK, Owned
<1>5. ShapeInv'
  BY <1>1, <1>2 DEF ShapeInv
<1>6. QED
  BY <1>1, <1>4, <1>5, ChangeKeeps DEF IInv

LEMMA DoctorAnswerIs ==
    ASSUME NEW by
    PROVE  /\ DoctorAnswer(by).by = by /\ DoctorAnswer(by).status \in {0, 1, 101}
           /\ DoctorAnswer(by).status = 0 => SectionsAgree(stated) /\ DoctorRows = {}
           /\ DoctorAnswer(by).rows \in {{}, DoctorRows}
BY DEF DoctorAnswer

\* An answer that is doctor's of a machine that stays is right about it.
LEMMA DoctorAnswers ==
    ASSUME UNCHANGED machine, NEW by, answer' = DoctorAnswer(by)
    PROVE  AnswerInv' /\ answer'.status \in {0, 1, 101} /\ answer'.by = by
<1>1. DoctorRows' = DoctorRows /\ stated' = stated
  BY SameDoctor DEF machine
<1>2. QED
  BY <1>1, DoctorAnswerIs DEF AnswerInv, SectionsAgree

LEMMA SameSettled ==
    ASSUME UNCHANGED <<pins, host, local>>
    PROVE  \A t \in CargoTools : /\ Unsatisfied(t)' = Unsatisfied(t)
                                 /\ UNCHANGED shadowed => Decided(t)' = Decided(t)
<1> SUFFICES ASSUME NEW t \in CargoTools
             PROVE  /\ Unsatisfied(t)' = Unsatisfied(t)
                    /\ UNCHANGED shadowed => Decided(t)' = Decided(t)
  OBVIOUS
<1>1. Unsatisfied(t)' = Unsatisfied(t)
  BY SameLookup DEF Owned
<1>2. QED
  BY <1>1 DEF Decided

LEMMA DoctorInv == ASSUME IInv, Doctor PROVE IInv'
<1>1. /\ UNCHANGED <<machine, pc, todo, shadowed, installed, settled, changes>>
      /\ pc = "idle" /\ answer' = DoctorAnswer("doctor")
  BY DEF Doctor
<1>2. AnswerInv' /\ answer'.status \in {0, 1, 101} /\ answer'.by = "doctor"
  BY <1>1, DoctorAnswers
<1>3. UNCHANGED <<pins, stated, host, local, bootstrap, rust, submodule>>
  BY <1>1 DEF machine
<1>4. TypeOK'
  BY <1>1, <1>2, <1>3 DEF IInv, TypeOK
<1>5. ShapeInv'
  BY <1>3 DEF IInv, ShapeInv
<1>6. ProgressInv'
  BY <1>1, Order DEF IInv, ProgressInv
<1>7. SettledInv'
  BY <1>1, <1>3, SameSettled DEF IInv, SettledInv
<1>8. SetupConverges'
  BY <1>2 DEF SetupConverges
<1>9. QED
  BY <1>2, <1>4, <1>5, <1>6, <1>7, <1>8 DEF IInv

LEMMA SetupInv == ASSUME IInv, Setup PROVE IInv'
<1>1. /\ UNCHANGED <<pins, stated, host, local, bootstrap, rust, submodule>>
      /\ UNCHANGED <<todo, settled, changes>>
      /\ pc = "idle" /\ shadowed' = {} /\ installed' = {}
  BY DEF Setup, machine
<1>2. \/ pc' = "submodule" /\ answer' = NoAnswer /\ Found("rustup")
      \/ pc' = "idle" /\ answer' = [by |-> "setup", status |-> 1, rows |-> {}]
  BY Order DEF Setup
<1>3. todo = {}
  BY <1>1 DEF IInv, ProgressInv
<1>4. answer'.status \in {0, 1} /\ (answer'.status = 0 => answer'.by = "none") /\ answer'.rows = {}
  BY <1>2 DEF NoAnswer
<1>5. TypeOK'
  <2>1. pc' \in {"idle"} \cup ToSet(RustSteps)
    BY <1>2, Order
  <2>2. QED
    BY <1>1, <1>4, <2>1 DEF IInv, TypeOK
<1>6. ShapeInv'
  BY <1>1 DEF IInv, ShapeInv
<1>7. ProgressInv'
  <2>1. Found("rustup")' = Found("rustup")
    BY <1>1 DEF Found
  <2>2. QED
    BY <1>1, <1>2, <1>3, <2>1 DEF ProgressInv
<1>8. SettledInv'
  BY <1>1, SameSettled DEF IInv, SettledInv
<1>9. AnswerInv' /\ SetupConverges'
  BY <1>4 DEF AnswerInv, SetupConverges
<1>10. QED
  BY <1>5, <1>6, <1>7, <1>8, <1>9 DEF IInv

LEMMA PanicAnswers ==
    ASSUME Panic
    PROVE  /\ pc' = "idle" /\ todo' = {} /\ answer'.status = 101
           /\ AnswerInv' /\ SetupConverges' /\ ProgressInv'
<1>1. pc' = "idle" /\ todo' = {} /\ answer' = [by |-> "setup", status |-> 101, rows |-> {}]
  BY DEF Panic, End
<1>2. AnswerInv' /\ SetupConverges'
  BY <1>1 DEF AnswerInv, SetupConverges
<1>3. ProgressInv'
  BY <1>1, Order DEF ProgressInv
<1>4. QED
  BY <1>1, <1>2, <1>3

LEMMA RunRustInv == ASSUME IInv, RunRust PROVE IInv'
<1>1. /\ UNCHANGED <<pins, stated, host, local, bootstrap, shadowed, installed, changes, settled>>
      /\ pc \in {"submodule", "primary", "msrv", "targets"}
      /\ rust' = rust \cup Adds(pc) /\ submodule' = (submodule \/ pc = "submodule")
  BY Order DEF RunRust
<1>2. TypeOK /\ ShapeInv /\ ProgressInv /\ SettledInv
  BY DEF IInv
<1>3. rust' \subseteq RustItems /\ submodule' \in BOOLEAN
  BY <1>1, <1>2, AddsAre DEF TypeOK, RustItems
<1>4. ShapeInv' /\ SettledInv'
  BY <1>1, <1>2, SameSettled DEF ShapeInv, SettledInv
<1>5. CASE Panic
  <2>1. TypeOK'
    BY <1>1, <1>2, <1>3, <1>5, PanicAnswers DEF TypeOK
  <2>2. QED
    BY <1>4, <1>5, <2>1, PanicAnswers DEF IInv
<1>6. CASE /\ pc' = AfterRust(pc)
           /\ todo' = IF pc' = "cargo" THEN CargoTools ELSE {}
           /\ UNCHANGED <<answer, settled>>
  <2>1. answer = NoAnswer /\ Found("rustup") /\ shadowed = {} /\ todo = {}
    BY <1>1, <1>2, Order DEF ProgressInv
  <2>2. pc' \in {"primary", "msrv", "targets", "cargo"}
    BY <1>1, <1>6, Order
  <2>3. TypeOK'
    BY <1>1, <1>2, <1>3, <1>6, <2>2, Order DEF TypeOK
  <2>4. Found("rustup")'
    BY <1>1, <2>1 DEF Found
  <2>5. ProgressInv'
    BY <1>1, <1>2, <1>6, <2>1, <2>2, <2>4, Order, AddsAre DEF ProgressInv
  <2>6. AnswerInv' /\ SetupConverges'
    BY <1>6, <2>1 DEF AnswerInv, SetupConverges, NoAnswer
  <2>7. QED
    BY <1>4, <2>3, <2>5, <2>6 DEF IInv
<1>7. QED
  BY <1>5, <1>6 DEF RunRust

LEMMA FailRustInv == ASSUME IInv, FailRust PROVE IInv'
<1>1. /\ UNCHANGED <<pins, stated, host, local, bootstrap, submodule, shadowed, installed, settled, changes>>
      /\ Panic
      /\ pc \in {"submodule", "primary", "msrv", "targets"}
  BY Order DEF FailRust
<1>2. rust' \subseteq rust \cup Adds(pc)
  BY DEF FailRust
<1>3. TypeOK /\ ShapeInv /\ SettledInv
  BY DEF IInv
<1>4. rust' \subseteq RustItems
  BY <1>1, <1>2, <1>3, AddsAre DEF TypeOK, RustItems
<1>5. TypeOK'
  BY <1>1, <1>3, <1>4, PanicAnswers DEF TypeOK
<1>6. ShapeInv' /\ SettledInv'
  BY <1>1, <1>3, SameSettled DEF ShapeInv, SettledInv
<1>7. QED
  BY <1>1, <1>5, <1>6, PanicAnswers DEF IInv

\* What cargo installs is at its pin and the reader sees it.
LEMMA InstalledServes ==
    ASSUME TypeOK', ShapeInv, NEW t \in CargoTools, InstallCargo(t), UNCHANGED <<pins, host>>
    PROVE  /\ local' = [u \in Owned |-> IF u = t THEN CargoCopy(t, pins[t]) ELSE local[u]]
           /\ ~host[t].there /\ ~Unsatisfied(t)'
           /\ local'[t].there /\ local'[t].real = pins'[t] /\ pins'[t] \in Pins
<1>1. t \in Tools /\ t \in Owned
  BY DEF Tools, Owned
<1>2. local = [u \in Owned |-> local[u]]
  BY DEF ShapeInv
<1>3. local' = [u \in Owned |-> IF u = t THEN CargoCopy(t, pins[t]) ELSE local[u]]
  BY <1>1, <1>2 DEF InstallCargo
<1>4. pins'[t] \in Pins
  BY <1>1 DEF TypeOK
<1>5. local'[t] = CargoCopy(t, pins'[t])
  BY <1>1, <1>3
<1>6. local'[t].there /\ local'[t].real = pins'[t]
  <2>1. IsBinary(CargoCopy(t, pins'[t])) /\ CargoCopy(t, pins'[t]).real = pins'[t]
    BY <1>4, CopiesAssumption
  <2>2. QED
    BY <1>5, <2>1 DEF IsBinary
<1>7. ~host[t].there
  BY DEF InstallCargo, IsRepositoryLocal
<1>8. Resolve(t)' = local'[t]
  BY <1>1, <1>7 DEF Resolve
<1>9. CargoVersion(t)' = pins'[t]
  BY <1>4, <1>5, <1>8, InstalledReads DEF CargoVersion
<1>10. Satisfied(t, CargoVersion(t))'
  <2>1. (t \in Exact) \in BOOLEAN
    OBVIOUS
  <2>2. SatisfiedBy(pins'[t], t \in Exact, pins'[t])
    BY <1>4, <2>1, PinSatisfied
  <2>3. QED
    BY <1>9, <2>2 DEF Satisfied
<1>11. QED
  BY <1>3, <1>4, <1>6, <1>7, <1>8, <1>10 DEF Unsatisfied

LEMMA CargoToolInv == ASSUME IInv, CargoTool PROVE IInv'
<1>1. PICK t : t = Current
  OBVIOUS
<1>2. /\ UNCHANGED <<pins, stated, host, bootstrap, rust, submodule, pc, answer, settled, changes>>
      /\ pc = "cargo" /\ t \in todo /\ todo' = todo \ {t}
      /\ KeepCargo(t) \/ ShadowCargo(t) \/ InstallCargo(t)
  BY <1>1 DEF CargoTool, Current
<1>3. TypeOK /\ ShapeInv /\ ProgressInv /\ SettledInv
  BY DEF IInv
<1>4. t \in CargoTools /\ t \in Owned /\ t \notin NodeTools
  BY <1>2, <1>3, DevEnvAssumption DEF TypeOK, Owned
<1>5. \/ UNCHANGED local
      \/ InstallCargo(t) /\ local' = [u \in Owned |-> IF u = t THEN CargoCopy(t, pins[t]) ELSE local[u]]
  BY <1>2, <1>3, <1>4 DEF KeepCargo, ShadowCargo, InstallCargo, ShapeInv
<1>6. /\ shadowed' \subseteq shadowed \cup {t} /\ shadowed \subseteq shadowed'
      /\ installed' \subseteq installed \cup {t}
  BY <1>2 DEF KeepCargo, ShadowCargo, InstallCargo
<1>7. TypeOK'
  <2>1. \A u \in CargoTools : local'[u] \in {CargoCopy(u, v) : v \in Pins} \cup {Absent}
    <3>1. pins[t] \in Pins
      BY <1>3, <1>4 DEF TypeOK, Tools
    <3>2. QED
      BY <1>3, <1>5, <3>1 DEF TypeOK, Owned
  <2>2. \A u \in NodeTools : local'[u] = local[u]
    BY <1>4, <1>5 DEF Owned
  <2>3. QED
    BY <1>2, <1>3, <1>4, <1>6, <2>1, <2>2 DEF TypeOK
<1>8. ShapeInv'
  BY <1>2, <1>3, <1>5 DEF ShapeInv
<1>9. \A u \in CargoTools : u # t => Unsatisfied(u)' = Unsatisfied(u) /\ (u \in shadowed' <=> u \in shadowed)
  <2> SUFFICES ASSUME NEW u \in CargoTools, u # t
               PROVE  Unsatisfied(u)' = Unsatisfied(u) /\ (u \in shadowed' <=> u \in shadowed)
    OBVIOUS
  <2>1. local'[u] = local[u]
    BY <1>5 DEF Owned
  <2>2. QED
    BY <1>2, <1>6, <2>1, SameLookup DEF Owned
<1>10. Decided(t)' /\ (host[t].there \/ ~Unsatisfied(t)')
  <2>1. t \notin shadowed
    BY <1>2, <1>3 DEF ProgressInv
  <2>2. CASE KeepCargo(t)
    BY <1>2, <1>4, <2>1, <2>2, SameSettled DEF KeepCargo, Decided
  <2>3. CASE ShadowCargo(t)
    BY <1>2, <1>4, <2>3, SameSettled DEF ShadowCargo, Decided, IsRepositoryLocal
  <2>4. CASE InstallCargo(t)
    <3>1. ~Unsatisfied(t)'
      BY <1>2, <1>3, <1>4, <1>7, <2>4, InstalledServes
    <3>2. QED
      BY <2>1, <2>4, <3>1 DEF InstallCargo, Decided
  <2>5. QED
    BY <1>2, <2>2, <2>3, <2>4
<1>11. ProgressInv'
  <2>1. \A u \in CargoTools \ todo' : Decided(u)'
    <3> SUFFICES ASSUME NEW u \in CargoTools \ todo' PROVE Decided(u)'
      OBVIOUS
    <3>1. CASE u = t
      BY <1>10, <3>1
    <3>2. CASE u # t
      <4>1. Decided(u)
        BY <1>2, <1>3, <3>2 DEF ProgressInv
      <4>2. QED
        BY <1>2, <1>9, <3>2, <4>1 DEF Decided
    <3>3. QED
      BY <3>1, <3>2
  <2>2. shadowed' \subseteq CargoTools \ todo'
    BY <1>2, <1>3, <1>4, <1>6 DEF ProgressInv
  <2>3. Found("rustup")' = Found("rustup")
    BY <1>2 DEF Found
  <2>4. QED
    BY <1>2, <1>3, <2>1, <2>2, <2>3, Order DEF ProgressInv
<1>12. SettledInv'
  BY <1>2, <1>3, <1>9, <1>10 DEF SettledInv
<1>13. AnswerInv' /\ SetupConverges'
  <2>1. answer' = NoAnswer
    BY <1>2, <1>3 DEF ProgressInv
  <2>2. QED
    BY <2>1 DEF AnswerInv, SetupConverges, NoAnswer
<1>14. QED
  BY <1>7, <1>8, <1>11, <1>12, <1>13 DEF IInv

LEMMA FailCargoInv == ASSUME IInv, FailCargo PROVE IInv'
<1>1. Panic /\ UNCHANGED <<machine, shadowed, installed, settled, changes>>
  BY DEF FailCargo
<1>2. TypeOK' /\ ShapeInv'
  BY <1>1, PanicAnswers DEF IInv, TypeOK, ShapeInv, machine
<1>3. SettledInv'
  BY <1>1, SameSettled DEF IInv, SettledInv, machine
<1>4. QED
  BY <1>1, <1>2, <1>3, PanicAnswers DEF IInv

\* What npm does, to its end or not, is about the Node tools.
LEMMA NpmTouches ==
    ASSUME IInv, NEW copies, UNCHANGED <<pins, host, settled, shadowed>>,
           local' = [t \in Owned |-> IF t \in NodeTools THEN copies[t] ELSE local[t]]
    PROVE  /\ local' = [t \in Owned |-> local'[t]]
           /\ SettledInv'
           /\ \A t \in CargoTools : local'[t] = local[t] /\ Decided(t)' = Decided(t)
<1>1. \A t \in CargoTools : t \in Owned /\ t \notin NodeTools
  BY DevEnvAssumption DEF Owned
<1>2. \A t \in CargoTools : local'[t] = local[t]
  BY <1>1
<1>3. \A t \in CargoTools : Unsatisfied(t)' = Unsatisfied(t)
  BY <1>1, <1>2, SameLookup
<1>4. \A t \in CargoTools : Decided(t)' = Decided(t)
  BY <1>3 DEF Decided
<1>5. SettledInv'
  BY <1>3 DEF IInv, SettledInv
<1>6. QED
  BY <1>2, <1>4, <1>5

LEMMA NpmInv == ASSUME IInv, Npm PROVE IInv'
<1>1. /\ UNCHANGED <<pins, stated, host, bootstrap, rust, submodule, shadowed, installed, settled, changes>>
      /\ pc = "cargo" /\ todo = {}
      /\ local' = [t \in Owned |-> IF t \in NodeTools THEN NodeCopy(t, pins[t]) ELSE local[t]]
      /\ (pc' = "shadows" /\ UNCHANGED <<todo, answer>>) \/ Panic
  BY DEF Npm
<1>2. TypeOK /\ ShapeInv /\ ProgressInv
  BY DEF IInv
<1>3. /\ local' = [t \in Owned |-> local'[t]] /\ SettledInv'
      /\ \A t \in CargoTools : local'[t] = local[t] /\ Decided(t)' = Decided(t)
  <2>1. PICK copies : copies = [t \in NodeTools |-> NodeCopy(t, pins[t])]
    OBVIOUS
  <2>2. local' = [t \in Owned |-> IF t \in NodeTools THEN copies[t] ELSE local[t]]
    BY <1>1, <2>1
  <2>3. QED
    BY <1>1, <2>2, NpmTouches
<1>4. ShapeInv'
  BY <1>1, <1>2, <1>3 DEF ShapeInv
<1>5. \A t \in NodeTools : local'[t] = NodeCopy(t, pins'[t]) /\ pins'[t] \in Pins
  BY <1>1, <1>2 DEF Owned, TypeOK, Tools
<1>6. ASSUME todo' = {}, answer'.status \in {0, 1, 101}, pc' \in {"idle", "shadows"} PROVE TypeOK'
  BY <1>1, <1>2, <1>3, <1>5, <1>6 DEF TypeOK
<1>7. CASE Panic
  <2>1. TypeOK'
    BY <1>6, <1>7, PanicAnswers
  <2>2. QED
    BY <1>3, <1>4, <1>7, <2>1, PanicAnswers DEF IInv
<1>8. CASE pc' = "shadows" /\ UNCHANGED <<todo, answer>>
  <2>1. answer = NoAnswer /\ todo' = {} /\ Found("rustup")
    BY <1>1, <1>2, <1>8 DEF ProgressInv
  <2>2. TypeOK'
    BY <1>6, <1>8, <2>1 DEF NoAnswer
  <2>3. Found("rustup")'
    BY <1>1, <2>1 DEF Found
  <2>4. \A t \in CargoTools \ todo' : Decided(t)'
    BY <1>1, <1>2, <1>3 DEF ProgressInv
  <2>5. ProgressInv'
    BY <1>1, <1>2, <1>5, <1>8, <2>1, <2>3, <2>4, Order DEF ProgressInv
  <2>6. AnswerInv' /\ SetupConverges'
    BY <1>8, <2>1 DEF AnswerInv, SetupConverges, NoAnswer
  <2>7. QED
    BY <1>3, <1>4, <2>2, <2>5, <2>6 DEF IInv
<1>9. QED
  BY <1>1, <1>7, <1>8

LEMMA FailNpmInv == ASSUME IInv, FailNpm PROVE IInv'
<1>1. /\ UNCHANGED <<pins, stated, host, bootstrap, rust, submodule, shadowed, installed, settled, changes>>
      /\ Panic
      /\ \/ UNCHANGED local
         \/ local' = [t \in Owned |-> IF t \in NodeTools THEN Absent ELSE local[t]]
  BY DEF FailNpm
<1>2. TypeOK /\ ShapeInv /\ SettledInv
  BY DEF IInv
<1>3. CASE UNCHANGED local
  <2>1. TypeOK' /\ ShapeInv'
    BY <1>1, <1>2, <1>3, PanicAnswers DEF TypeOK, ShapeInv
  <2>2. SettledInv'
    BY <1>1, <1>2, <1>3, SameSettled DEF SettledInv
  <2>3. QED
    BY <1>1, <2>1, <2>2, PanicAnswers DEF IInv
<1>4. CASE local' = [t \in Owned |-> IF t \in NodeTools THEN Absent ELSE local[t]]
  <2>1. PICK copies : copies = [t \in NodeTools |-> Absent]
    OBVIOUS
  <2>2. local' = [t \in Owned |-> IF t \in NodeTools THEN copies[t] ELSE local[t]]
    BY <1>4, <2>1
  <2>3. /\ local' = [t \in Owned |-> local'[t]] /\ SettledInv'
        /\ \A t \in CargoTools : local'[t] = local[t]
    BY <1>1, <2>2, NpmTouches
  <2>4. \A t \in NodeTools : local'[t] = Absent
    BY <1>4 DEF Owned
  <2>5. TypeOK' /\ ShapeInv'
    BY <1>1, <1>2, <2>3, <2>4, PanicAnswers DEF TypeOK, ShapeInv
  <2>6. QED
    BY <1>1, <2>3, <2>5, PanicAnswers DEF IInv
<1>5. QED
  BY <1>1, <1>3, <1>4

\* When setup comes to its end, a tool it owns has a row exactly when it is shadowed.
LEMMA FinishRows ==
    ASSUME IInv, Finish, NEW t \in Owned
    PROVE  t \in shadowed' <=> OwnedRows(t) # {}
<1>1. /\ pc = "shadows"
      /\ shadowed' = shadowed \cup
           {u \in NodeTools : Resolve(u).there /\ ~IsRepositoryLocal(u) /\ ~Satisfied(u, NodeVersion(u))}
  BY DEF Finish
<1>2. TypeOK /\ ProgressInv
  BY DEF IInv
<1>3. /\ todo = {} /\ shadowed \subseteq CargoTools /\ \A u \in CargoTools : Decided(u)
      /\ \A u \in NodeTools : local[u] = NodeCopy(u, pins[u])
  BY <1>1, <1>2 DEF ProgressInv
<1>4. CASE t \in CargoTools
  <2>1. t \notin NodeTools
    BY <1>4, DevEnvAssumption
  <2>2. t \in shadowed' <=> t \in shadowed
    BY <1>1, <2>1
  <2>3. t \in shadowed <=> Unsatisfied(t)
    BY <1>3, <1>4 DEF Decided
  <2>4. Version(t) = CargoVersion(t)
    BY <2>1 DEF Version
  <2>5. QED
    BY <2>2, <2>3, <2>4, OwnedRowsAre DEF Unsatisfied
<1>5. CASE t \in NodeTools
  <2>1. t \notin shadowed /\ t \in Tools
    BY <1>3, <1>5, DevEnvAssumption DEF Tools, Owned
  <2>2. Version(t) = NodeVersion(t)
    BY <1>5 DEF Version
  <2>3. CASE host[t].there
    <3>1. Resolve(t).there /\ ~IsRepositoryLocal(t)
      BY <2>3 DEF Resolve, IsRepositoryLocal
    <3>2. t \in shadowed' <=> ~Satisfied(t, NodeVersion(t))
      BY <1>1, <1>5, <2>1, <3>1
    <3>3. QED
      BY <2>2, <3>1, <3>2, OwnedRowsAre
  <2>4. CASE ~host[t].there
    <3>1. IsRepositoryLocal(t) = TRUE /\ Resolve(t) = NodeCopy(t, pins[t])
      BY <1>3, <1>5, <2>4 DEF IsRepositoryLocal, Resolve
    <3>2. pins[t] \in Pins
      BY <1>2, <2>1 DEF TypeOK
    <3>3. IsBinary(NodeCopy(t, pins[t]))
      BY <1>5, <3>2, CopiesAssumption
    <3>4. Resolve(t).there
      BY <3>1, <3>3 DEF IsBinary
    <3>5. NodeVersion(t) = pins[t]
      BY <1>5, <3>1, <3>2, LocalNodeReads DEF NodeVersion
    <3>6. Satisfied(t, NodeVersion(t))
      <4>1. (t \in Exact) \in BOOLEAN
        OBVIOUS
      <4>2. SatisfiedBy(pins[t], t \in Exact, pins[t])
        BY <3>2, <4>1, PinSatisfied
      <4>3. QED
        BY <3>5, <4>2 DEF Satisfied
    <3>7. t \notin shadowed'
      BY <1>1, <2>1, <3>1
    <3>8. QED
      BY <2>2, <3>4, <3>6, <3>7, OwnedRowsAre
  <2>5. QED
    BY <2>3, <2>4
<1>6. QED
  BY <1>4, <1>5 DEF Owned

LEMMA FinishInv == ASSUME IInv, Finish PROVE IInv'
<1>1. /\ UNCHANGED <<machine, installed, changes>>
      /\ pc = "shadows" /\ pc' = "idle" /\ todo' = {} /\ settled' = TRUE
      /\ answer' = DoctorAnswer("setup")
  BY DEF Finish, End
<1>2. UNCHANGED <<pins, stated, host, local, bootstrap, rust, submodule>>
  BY <1>1 DEF machine
<1>3. TypeOK /\ ShapeInv /\ ProgressInv
  BY DEF IInv
<1>4. AnswerInv' /\ answer'.status \in {0, 1, 101} /\ answer'.by = "setup"
  BY <1>1, DoctorAnswers
<1>5. shadowed' \subseteq Owned
  BY <1>3 DEF Finish, TypeOK, Owned
<1>6. TypeOK'
  BY <1>1, <1>2, <1>3, <1>4, <1>5 DEF TypeOK
<1>7. ShapeInv'
  BY <1>2, <1>3 DEF ShapeInv
<1>8. ProgressInv'
  BY <1>1, Order DEF ProgressInv
<1>9. SettledInv'
  <2>1. \A t \in CargoTools : Decided(t)
    BY <1>1, <1>3 DEF ProgressInv
  <2>2. \A t \in CargoTools : host[t].there \/ ~Unsatisfied(t)
    BY <2>1 DEF Decided
  <2>3. QED
    BY <1>2, <2>2, SameSettled DEF SettledInv
<1>10. SetupConverges'
  <2> SUFFICES ASSUME answer'.rows # {}
               PROVE  /\ {r.label : r \in answer'.rows} \subseteq Bootstrap \cup SystemTools \cup shadowed'
                      /\ shadowed' \subseteq {r.label : r \in answer'.rows}
    BY DEF SetupConverges
  <2>1. answer'.rows = DoctorRows
    BY <1>1, DoctorAnswerIs
  <2>2. RustRows = {} /\ VendoredRows = {}
    <3>1. Found("rustup") /\ RustItems \subseteq rust /\ submodule
      BY <1>1, <1>3 DEF ProgressInv, RustItems
    <3>2. QED
      BY <3>1 DEF RustRows, VendoredRows
  <2>3. ASSUME NEW r \in DoctorRows PROVE r.label \in Bootstrap \cup SystemTools \cup shadowed'
    <3>1. CASE r \in BootstrapRows
      <4>1. \E c \in Bootstrap : \E remedy : r = Row(c, remedy, FALSE)
        BY <3>1 DEF BootstrapRows, Bootstrap
      <4>2. PICK c \in Bootstrap : \E remedy : r = Row(c, remedy, FALSE)
        BY <4>1
      <4>3. PICK remedy : r = Row(c, remedy, FALSE)
        BY <4>2
      <4>4. r.label = c
        BY <4>3 DEF Row
      <4>5. QED
        BY <4>4
    <3>2. CASE \E t \in Owned : r \in OwnedRows(t)
      BY <3>2, FinishRows, OwnedRowsAre
    <3>3. CASE \E t \in SystemTools : r \in SystemRows(t)
      BY <3>3, SystemRowsAre
    <3>4. QED
      BY <2>2, <3>1, <3>2, <3>3 DEF DoctorRows
  <2>4. ASSUME NEW t \in shadowed' PROVE \E r \in DoctorRows : r.label = t
    <3>1. t \in Owned /\ OwnedRows(t) # {}
      BY <1>5, FinishRows
    <3>2. PICK r \in OwnedRows(t) : r.label = t
      BY <3>1, OwnedRowsAre
    <3>3. r \in DoctorRows
      BY <3>1, <3>2 DEF DoctorRows
    <3>4. QED
      BY <3>2, <3>3
  <2>5. QED
    BY <2>1, <2>3, <2>4
<1>11. QED
  BY <1>4, <1>6, <1>7, <1>8, <1>9, <1>10 DEF IInv

LEMMA StutterInv == ASSUME IInv, UNCHANGED vars PROVE IInv'
<1>1. UNCHANGED <<pins, stated, host, local, bootstrap, rust, submodule>> /\ UNCHANGED machine
  BY DEF vars, machine
<1>2. UNCHANGED <<pc, todo, shadowed, installed, answer, settled, changes>>
  BY DEF vars
<1>3. TypeOK' /\ ShapeInv'
  BY <1>1, <1>2 DEF IInv, TypeOK, ShapeInv
<1>4. ProgressInv'
  <2>1. Found("rustup")' = Found("rustup")
    BY <1>1 DEF Found
  <2>2. \A t \in CargoTools : Decided(t)' = Decided(t)
    BY <1>1, <1>2, SameSettled
  <2>3. QED
    BY <1>1, <1>2, <2>1, <2>2 DEF IInv, ProgressInv
<1>5. SettledInv'
  BY <1>1, <1>2, SameSettled DEF IInv, SettledInv
<1>6. AnswerInv' /\ SetupConverges'
  BY <1>1, <1>2, SameDoctor DEF IInv, AnswerInv, SetupConverges, SectionsAgree
<1>7. QED
  BY <1>3, <1>4, <1>5, <1>6 DEF IInv

LEMMA NextInv == IInv /\ [Next]_vars => IInv'
<1> SUFFICES ASSUME IInv, [Next]_vars PROVE IInv'
  OBVIOUS
<1>1. CASE \E t \in Tools : HostChanges(t) \/ PinMoves(t)
  BY <1>1, HostChangesInv, PinMovesInv
<1>2. CASE Cleaned \/ Doctor \/ Setup
  BY <1>2, CleanedInv, DoctorInv, SetupInv
<1>3. CASE RunRust \/ FailRust \/ CargoTool \/ FailCargo
  BY <1>3, RunRustInv, FailRustInv, CargoToolInv, FailCargoInv
<1>4. CASE Npm \/ FailNpm \/ Finish
  BY <1>4, NpmInv, FailNpmInv, FinishInv
<1>5. QED
  BY <1>1, <1>2, <1>3, <1>4, StutterInv DEF Next

-----------------------------------------------------------------------------
(* The theorems. *)

THEOREM Invariance == Spec => []IInv
BY InitInv, NextInv, PTL DEF Spec

\* Every variable keeps its type: what is installed is what the host, cargo or npm
\* put there, and setup owns what it looks at.
THEOREM TypeCorrect == Spec => []TypeOK
<1>1. IInv => TypeOK
  BY DEF IInv
<1>2. QED
  BY <1>1, Invariance, PTL

\* When doctor answers 0, every tool that a recipe would run is at its pin, for any
\* manifest and any copies whose version query answers with their own version.
THEOREM DoctorRight == Spec => []DoctorIsRight
<1>1. IInv => DoctorIsRight
  BY DoctorFromInv DEF IInv
<1>2. QED
  BY <1>1, Invariance, PTL

\* A setup that ran to its end leaves of its own only what the host shadows.
THEOREM SetupConverging == Spec => []SetupConverges
<1>1. IInv => SetupConverges
  BY DEF IInv
<1>2. QED
  BY <1>1, Invariance, PTL

InstallStep ==
    \A t \in CargoTools : t \in installed' \ installed =>
        ~settled /\ ~host[t].there /\ RecipeRuns(t, local[t])' /\ Serves(t, local[t])'

LEMMA InstallFromInv == IInv /\ IInv' /\ [Next]_vars => [InstallStep]_vars
<1> SUFFICES ASSUME IInv, IInv', Next, NEW t \in CargoTools, t \in installed' \ installed
             PROVE  ~settled /\ ~host[t].there /\ RecipeRuns(t, local[t])' /\ Serves(t, local[t])'
  BY DEF InstallStep
<1>1. CargoTool
  BY DEF Next, HostChanges, PinMoves, Cleaned, Change, Doctor, Setup, RunRust, FailRust,
         FailCargo, Npm, FailNpm, Finish
<1>2. t = Current /\ t \in todo /\ InstallCargo(t) /\ UNCHANGED <<pins, host>>
  BY <1>1 DEF CargoTool, Current, KeepCargo, ShadowCargo, InstallCargo
<1>3. TypeOK' /\ ShapeInv /\ SettledInv
  BY DEF IInv
<1>4. /\ ~host[t].there
      /\ local'[t].there /\ local'[t].real = pins'[t] /\ pins'[t] \in Pins
  BY <1>2, <1>3, InstalledServes
<1>5. ~settled
  BY <1>2, <1>3, <1>4 DEF SettledInv, InstallCargo
<1>6. t \in Tools /\ t \in Owned
  BY DEF Tools, Owned
<1>7. Resolve(t)' = local'[t]
  BY <1>2, <1>4, <1>6 DEF Resolve
<1>8. RecipeRuns(t, local[t])'
  <2>1. RecipeCopies(t)' = <<host'[t], local'[t]>>
    BY <1>6 DEF RecipeCopies
  <2>2. QED
    BY <1>2, <1>4, <2>1 DEF RecipeRuns
<1>9. Serves(t, local[t])'
  <2>1. PICK pin \in Pins : pin = pins'[t]
    BY <1>4
  <2>2. (t \in Exact) \in BOOLEAN /\ pin \in Versions
    BY DevEnvAssumption
  <2>3. SatisfiedBy(pin, t \in Exact, pin)
    BY <2>2, PinSatisfied
  <2>4. IF t \in Exact THEN pin = pin ELSE Rank(pin) >= Rank(pin)
    BY <2>2, <2>3, SatisfiedServes
  <2>5. QED
    BY <1>4, <2>1, <2>4 DEF Serves
<1>10. QED
  BY <1>4, <1>5, <1>8, <1>9

\* Setup installs only what a recipe will run, at its pin, and after a complete
\* setup of the same machine nothing.
THEOREM InstallsRun == Spec => InstallsOnlyWhatRuns
<1>1. [InstallStep]_vars => [\A t \in CargoTools : t \in installed' \ installed =>
           ~settled /\ ~host[t].there /\ RecipeRuns(t, local[t])' /\ Serves(t, local[t])']_vars
  BY DEF InstallStep
<1>2. QED
  BY <1>1, Invariance, InstallFromInv, PTL DEF Spec, InstallsOnlyWhatRuns
=============================================================================
