------------------------------- MODULE DevEnv -------------------------------
(* A developer's machine under `setup` and `doctor` of dev_env.rs: what the host
   has, what setup put in .tools/bin, node_modules/.bin and rustup, and the
   commands in between, any of which may fail and end setup where it stands.   *)
EXTENDS DevTools

CONSTANTS
    CargoTools, NodeTools, SystemTools,  \* the names the manifest pins, by section
    Exact,                               \* the tools with an exact pin
    Pins,                                \* the versions a pin may be moved to
    HostCopies(_),                       \* the copies of a tool a host may have
    CargoCopy(_, _),                     \* what `cargo install` of a version leaves
    NodeCopy(_, _),                      \* what `npm ci` leaves at a version
    Situations,                          \* the sections a manifest states, with what
                                         \* the host has of the bootstrap commands
    MaxChanges                           \* bound: changes of the machine between commands

Tools == CargoTools \cup NodeTools \cup SystemTools
Owned == CargoTools \cup NodeTools       \* what setup installs

(* A copy is absent, or a binary with what it answers to its version query and
   the package.json files above it; real is the version it is.                 *)
Absent == [there |-> FALSE]

IsBinary(copy) ==
    /\ copy.there = TRUE /\ copy.real \in Versions
    /\ copy.answer.stdout \in Texts /\ copy.answer.stderr \in Texts
    /\ copy.above \in Seq([package : STRING, version : {None} \cup Versions])

(* What the version query of the manifest is chosen for: the first version that
   the tool writes, stdout before stderr, is its own.                          *)
WritesItsVersion(copy) ==
    LET text == copy.answer.stdout \o copy.answer.stderr
        Holding(i) == VersionIn(text[i]) # None
    IN  \A i \in 1..Len(text) :
           Holding(i) /\ (\A j \in 1..(i - 1) : ~Holding(j)) => VersionIn(text[i]) = copy.real

\* Of the packages around a Node binary the nearest of its name is its own.
StatesItsVersion(t, copy) ==
    \A i \in 1..Len(copy.above) :
        copy.above[i].package = t /\ (\A j \in 1..(i - 1) : copy.above[j].package # t)
            => copy.above[i].version = copy.real

Bootstrap == {"git", "rustup", "cargo", "rustc", "python3", "node", "npm"}

\* Only rustup's proxies answer for the toolchain the repository selects.
BootstrapAnswers(command) ==
    {"there", "absent", "broken"} \cup IF command \in {"cargo", "rustc"} THEN {"proxy", "other"} ELSE {}

ASSUME DevEnvAssumption ==
    /\ CargoTools \cap NodeTools = {} /\ Owned \cap SystemTools = {}
    /\ Exact \subseteq Tools
    /\ \A v \in Pins : v \in Versions /\ Len(v) <= 3 /\ \A i \in 1..Len(v) : v[i] < 1000
    /\ \A s \in Situations :
          s.stated \subseteq Sections /\ \A c \in Bootstrap : s.bootstrap[c] \in BootstrapAnswers(c)
    /\ MaxChanges \in Nat

ASSUME CopiesAssumption ==
    /\ \A t \in Tools : \A c \in HostCopies(t) \ {Absent} :
          /\ IsBinary(c)
          /\ IF t \in NodeTools THEN StatesItsVersion(t, c) ELSE WritesItsVersion(c)
    /\ \A t \in CargoTools, v \in Pins : LET c == CargoCopy(t, v) IN
          /\ IsBinary(c) /\ c.real = v /\ WritesItsVersion(c)
          /\ c.answer.status = 0 /\ \E i \in 1..Len(c.answer.stdout) : VersionIn(c.answer.stdout[i]) # None
    /\ \A t \in NodeTools, v \in Pins : LET c == NodeCopy(t, v) IN
          IsBinary(c) /\ c.real = v /\ c.own = [package |-> t, version |-> v]

RustItems == {"primary", "primary component", "msrv", "msrv component", "target"}

\* The commands of setup around the Cargo tools, in their order.
RustSteps == <<"submodule", "primary", "msrv", "targets">>

VARIABLES
    pins,        \* the manifest's versions
    stated,      \* the manifest's tool sections
    host,        \* the first copy of each tool on the host's PATH
    local,       \* the copies in .tools/bin and node_modules/.bin
    bootstrap,   \* the answers of git, rustup, cargo, rustc, python3, node, npm
    rust,        \* what rustup has installed
    submodule,   \* whether the vendored data is checked out
    pc,          \* where setup is; "idle" between commands
    todo,        \* the Cargo tools setup has not looked at
    shadowed,    \* the tools setup found a host copy in the way of
    installed,   \* the Cargo tools this setup has installed
    answer,      \* what the last command said
    settled,     \* the last setup ran to its end and nothing has changed since
    changes

machine == <<pins, stated, host, local, bootstrap, rust, submodule>>
vars == <<machine, pc, todo, shadowed, installed, answer, settled, changes>>

-----------------------------------------------------------------------------
(* Lookup. *)

\* The host's PATH, then what setup installs.
Resolve(t) ==
    IF host[t].there THEN host[t]
    ELSE IF t \in Owned THEN local[t] ELSE Absent

IsRepositoryLocal(t) == ~host[t].there

NodeVersion(t) ==
    NodePackageVersion(IsRepositoryLocal(t), Resolve(t).own, Resolve(t).above, t)

CargoVersion(t) == ReadVersion(Resolve(t).answer)

Satisfied(t, version) == SatisfiedBy(pins[t], t \in Exact, version)

\* A rustup proxy answers for the toolchain the repository selects.
Answer(command) ==
    IF bootstrap[command] = "proxy"
    THEN [status |-> IF "primary" \in rust THEN 0 ELSE 1, primary |-> "primary" \in rust]
    ELSE [status |-> IF bootstrap[command] = "broken" THEN 1 ELSE 0, primary |-> FALSE]

Found(command) == bootstrap[command] # "absent"

-----------------------------------------------------------------------------
(* Doctor. A failing row is its label, its remedy and whether it names a path. *)

Row(label, remedy, named) == [label |-> label, remedy |-> remedy, path |-> named]

BootstrapRows ==
    {Row(c, IF Found(c) THEN "exited" ELSE "install it before setup", FALSE) :
        c \in {d \in Bootstrap : ~Found(d) \/ Answer(d).status # 0}}
    \cup {Row(c, "expected the primary version", FALSE) :
            c \in {d \in {"cargo", "rustc"} :
                      Found(d) /\ Answer(d).status = 0 /\ ~Answer(d).primary}}

\* Everything about toolchains is asked of rustup: without it nothing is there.
RustRows ==
    {Row(i, IF i \in {"primary", "msrv"} THEN "run just setup" ELSE "rustup add", FALSE) :
        i \in {j \in RustItems : ~Found("rustup") \/ j \notin rust}}

\* check_version: unreadable first, then the remedy by where the copy was found.
VersionRows(t, version, hint, shadowing) ==
    IF version = None THEN {Row(t, hint, FALSE)}
    ELSE IF Satisfied(t, version) THEN {}
    ELSE IF shadowing THEN {Row(t, "upgrade or remove it", TRUE)}
    ELSE {Row(t, hint, FALSE)}

OwnedRows(t) ==
    IF ~Resolve(t).there THEN {Row(t, "run just setup", FALSE)}
    ELSE VersionRows(t, IF t \in NodeTools THEN NodeVersion(t) ELSE CargoVersion(t),
                     "run just setup", ~IsRepositoryLocal(t))

SystemRows(t) ==
    IF ~host[t].there THEN {Row(t, "install the package", FALSE)}
    ELSE VersionRows(t, ReadVersion(host[t].answer), "install the package", FALSE)

VendoredRows == IF submodule THEN {} ELSE {Row("submodule", "run just setup", FALSE)}

DoctorRows ==
    BootstrapRows \cup RustRows \cup VendoredRows
    \cup (UNION {OwnedRows(t) : t \in Owned}) \cup (UNION {SystemRows(t) : t \in SystemTools})

\* Doctor stops before its first row unless the manifest's sections are its own.
DoctorAnswer(by) ==
    IF ~SectionsAgree(stated) THEN [by |-> by, status |-> 101, rows |-> {}]
    ELSE [by |-> by, status |-> IF DoctorRows = {} THEN 0 ELSE 1, rows |-> DoctorRows]

-----------------------------------------------------------------------------
NoAnswer == [by |-> "none", status |-> 0, rows |-> {}]

Init ==
    /\ \E v \in Pins : pins = [t \in Tools |-> v]
    /\ \E s \in Situations : stated = s.stated /\ bootstrap = s.bootstrap
    /\ host \in {h \in [Tools -> UNION {HostCopies(t) : t \in Tools}] :
                    \A t \in Tools : h[t] \in HostCopies(t)}
    /\ local = [t \in Owned |-> Absent]
    /\ rust = {}
    /\ submodule = FALSE
    /\ pc = "idle" /\ todo = {} /\ shadowed = {} /\ installed = {}
    /\ answer = NoAnswer /\ settled = FALSE /\ changes = 0

\* A command ends with an answer; setup leaves the machine as far as it came.
End(a) == pc' = "idle" /\ todo' = {} /\ answer' = a

Panic == End([by |-> "setup", status |-> 101, rows |-> {}])

-----------------------------------------------------------------------------
(* The machine changes between commands. *)

Change == pc = "idle" /\ changes < MaxChanges /\ changes' = changes + 1
          /\ settled' = FALSE /\ answer' = NoAnswer
          /\ UNCHANGED <<pc, todo, shadowed, installed, stated, bootstrap, submodule>>

HostChanges(t) ==
    /\ Change
    /\ \E c \in HostCopies(t) \ {host[t]} : host' = [host EXCEPT ![t] = c]
    /\ UNCHANGED <<pins, local, rust>>

PinMoves(t) ==
    /\ Change
    /\ \E v \in Pins \ {pins[t]} : pins' = [pins EXCEPT ![t] = v]
    /\ UNCHANGED <<host, local, rust>>

Cleaned ==
    /\ Change
    /\ local' = [t \in Owned |-> Absent]
    /\ UNCHANGED <<pins, host, rust>>

-----------------------------------------------------------------------------
(* Commands. *)

Doctor ==
    /\ pc = "idle"
    /\ answer' = DoctorAnswer("doctor")
    /\ UNCHANGED <<machine, pc, todo, shadowed, installed, settled, changes>>

Setup ==
    /\ pc = "idle"
    /\ IF \A c \in {"git", "rustup", "cargo", "node", "npm"} : Found(c)
       THEN pc' = RustSteps[1] /\ answer' = NoAnswer
       ELSE answer' = [by |-> "setup", status |-> 1, rows |-> {}] /\ UNCHANGED pc
    /\ shadowed' = {} /\ installed' = {}
    /\ UNCHANGED <<machine, todo, settled, changes>>

\* Mutant: the target is recorded under the name of its step.
AddsTargetAsStep(step) == IF step = "targets" THEN {"targets"} ELSE {}

\* What a command of RustSteps adds; a failing rustup may have added a part.
Adds(step) ==
    CASE step = "primary" -> {"primary", "primary component"}
      [] step = "msrv"    -> {"msrv", "msrv component"}
      [] step = "targets" -> {"target"}
      [] OTHER            -> {}

AfterRust(step) ==
    LET i == CHOOSE k \in 1..Len(RustSteps) : RustSteps[k] = step
    IN  IF i < Len(RustSteps) THEN RustSteps[i + 1] ELSE "cargo"

RunRust ==
    /\ pc \in ToSet(RustSteps)
    /\ rust' = rust \cup Adds(pc)
    /\ submodule' = (submodule \/ pc = "submodule")
    /\ IF AfterRust(pc) = "cargo" /\ "cargo_tools" \notin stated THEN Panic /\ UNCHANGED settled
       ELSE /\ pc' = AfterRust(pc)
            /\ todo' = IF pc' = "cargo" THEN CargoTools ELSE {}
            /\ UNCHANGED <<answer, settled>>
    /\ UNCHANGED <<pins, stated, host, local, bootstrap, shadowed, installed, changes>>

FailRust ==
    /\ pc \in ToSet(RustSteps)
    /\ \E part \in SUBSET Adds(pc) :
          /\ part \cap {"primary component", "msrv component"} # {} =>
                part \cap {"primary", "msrv"} # {}
          /\ rust' = rust \cup part
    /\ Panic
    /\ UNCHANGED <<pins, stated, host, local, bootstrap, submodule, shadowed, installed, settled, changes>>

\* The Cargo tools in their order: kept, found shadowed, or installed.
Current == CHOOSE t \in todo : TRUE

\* Mutant: setup reads every pin as a floor.
UnsatisfiedAsFloor(t) == ~(Resolve(t).there /\ SatisfiedBy(pins[t], FALSE, CargoVersion(t)))

Unsatisfied(t) == ~(Resolve(t).there /\ Satisfied(t, CargoVersion(t)))

KeepCargo(t) ==
    /\ ~Unsatisfied(t)
    /\ UNCHANGED <<local, shadowed, installed>>

ShadowCargo(t) ==
    /\ Unsatisfied(t) /\ ~IsRepositoryLocal(t)
    /\ shadowed' = shadowed \cup {t}
    /\ UNCHANGED <<local, installed>>

\* Mutant: a tool the host answers for is installed all the same.
InstallCargoBeneath(t) ==
    /\ Unsatisfied(t)
    /\ local' = [local EXCEPT ![t] = CargoCopy(t, pins[t])]
    /\ installed' = installed \cup {t}
    /\ UNCHANGED shadowed

InstallCargo(t) ==
    /\ Unsatisfied(t) /\ IsRepositoryLocal(t)
    /\ local' = [local EXCEPT ![t] = CargoCopy(t, pins[t])]
    /\ installed' = installed \cup {t}
    /\ UNCHANGED shadowed

CargoTool ==
    /\ pc = "cargo" /\ todo # {}
    /\ KeepCargo(Current) \/ ShadowCargo(Current) \/ InstallCargo(Current)
    /\ todo' = todo \ {Current}
    /\ UNCHANGED <<pins, stated, host, bootstrap, rust, submodule, pc, answer, settled, changes>>

FailCargo ==
    /\ pc = "cargo" /\ todo # {}
    /\ Unsatisfied(Current) /\ IsRepositoryLocal(Current)
    /\ Panic
    /\ UNCHANGED <<machine, shadowed, installed, settled, changes>>

\* npm installs the whole tree; it removes what was there first.
Npm ==
    /\ pc = "cargo" /\ todo = {} /\ bootstrap["node"] # "broken"
    /\ local' = [t \in Owned |-> IF t \in NodeTools THEN NodeCopy(t, pins[t]) ELSE local[t]]
    /\ IF "node_tools" \in stated THEN pc' = "shadows" /\ UNCHANGED <<todo, answer>> ELSE Panic
    /\ UNCHANGED <<pins, stated, host, bootstrap, rust, submodule, shadowed, installed, settled, changes>>

FailNpm ==
    /\ pc = "cargo" /\ todo = {}
    /\ \/ UNCHANGED local
       \/ local' = [t \in Owned |-> IF t \in NodeTools THEN Absent ELSE local[t]]
    /\ Panic
    /\ UNCHANGED <<pins, stated, host, bootstrap, rust, submodule, shadowed, installed, settled, changes>>

\* Node tools the host shadows are reported with the others, then doctor runs.
Finish ==
    /\ pc = "shadows"
    /\ shadowed' = shadowed \cup
           {t \in NodeTools : Resolve(t).there /\ ~IsRepositoryLocal(t) /\ ~Satisfied(t, NodeVersion(t))}
    /\ End(DoctorAnswer("setup"))
    /\ settled' = TRUE
    /\ UNCHANGED <<machine, installed, changes>>

Next ==
    \/ \E t \in Tools : HostChanges(t) \/ PinMoves(t)
    \/ Cleaned \/ Doctor \/ Setup
    \/ RunRust \/ FailRust \/ CargoTool \/ FailCargo \/ Npm \/ FailNpm \/ Finish

Spec == Init /\ [][Next]_vars

-----------------------------------------------------------------------------
(* Properties. *)

\* The variables hold values of their kinds.
TypeOK ==
    /\ pins \in [Tools -> Pins]
    /\ \E s \in Situations : stated = s.stated /\ bootstrap = s.bootstrap
    /\ \A t \in Tools : host[t] \in HostCopies(t)
    /\ \A t \in CargoTools : local[t] \in {CargoCopy(t, v) : v \in Pins} \cup {Absent}
    /\ \A t \in NodeTools : local[t] \in {NodeCopy(t, v) : v \in Pins} \cup {Absent}
    /\ rust \subseteq RustItems
    /\ submodule \in BOOLEAN
    /\ pc \in {"idle", "cargo", "shadows"} \cup ToSet(RustSteps)
    /\ todo \subseteq CargoTools /\ installed \subseteq CargoTools /\ shadowed \subseteq Owned
    /\ answer.status \in {0, 1, 101}
    /\ settled \in BOOLEAN
    /\ changes \in 0..MaxChanges

\* The copy a recipe runs: the first directory of the exported PATH that has one.
RecipeCopies(t) == IF t \in Owned THEN <<host[t], local[t]>> ELSE <<host[t]>>

RecipeRuns(t, copy) ==
    \E i \in 1..Len(RecipeCopies(t)) :
        /\ copy = RecipeCopies(t)[i] /\ copy.there
        /\ \A j \in 1..(i - 1) : ~RecipeCopies(t)[j].there

\* The rank of a version among those with three parts below 1000.
Rank(version) == 1000000 * Part(version, 1) + 1000 * Part(version, 2) + Part(version, 3)

Serves(t, copy) ==
    IF t \in Exact THEN copy.real = pins[t] ELSE Rank(copy.real) >= Rank(pins[t])

(* When doctor exits 0, every tool a recipe would run is a copy that really is at
   its pin, or above it for a floor, whatever its banner looks like and whichever
   copy answers; toolchains, components, target and the vendored data are there,
   and every section the manifest states was among those checked
   (dev_env.rs:245-777; doctor's doc comment at 699-704).                       *)
DoctorIsRight ==
    answer.by # "none" /\ answer.status = 0 =>
        /\ \A t \in Tools : \E copy \in {host[t]} \cup (IF t \in Owned THEN {local[t]} ELSE {}) :
               RecipeRuns(t, copy) /\ Serves(t, copy)
        /\ rust = RustItems /\ submodule
        /\ \A c \in Bootstrap : bootstrap[c] \notin {"absent", "broken", "other"}
        /\ stated \ CiSections = OwnedSections

(* A setup that ran to its end leaves nothing of its own to fix, from whatever an
   earlier setup left when it failed: a tool it owns fails doctor exactly when
   setup reported a host copy in the way, and nothing of rustup or the vendored
   data is missing (docs/TOOLCHAIN-REALMS.md:27-37).                            *)
SetupConverges ==
    (answer.by = "setup" /\ settled /\ answer.rows # {}) =>
        {r.label : r \in answer.rows} \subseteq Bootstrap \cup SystemTools \cup shadowed
        /\ shadowed \subseteq {r.label : r \in answer.rows}

(* Setup never installs a binary no recipe will run, and what it installs serves;
   a setup that follows a complete one on the same machine installs nothing
   (dev_env.rs:856-879).                                                        *)
InstallsOnlyWhatRuns ==
    [][\A t \in CargoTools : t \in installed' \ installed =>
           ~settled /\ ~host[t].there /\ RecipeRuns(t, local[t])' /\ Serves(t, local[t])']_vars

=============================================================================
