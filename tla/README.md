# kamu-public-crates: a TLA+ verification project

The repository is a Cargo workspace of libraries — logging, money, ISO 3166, the
SNAP payment standard — and the tooling that gates and releases it. This
directory holds TLA+ models of its stateful parts, TLC runs over small
instances, and proofs checked by TLAPS.

Run `tlc -config X.cfg M` for a run of the table below, `tlapm MProofs.tla` for
a proof module.

## Inventory

| part | state | operations | talks to | what is hard |
|---|---|---|---|---|
| `logging/src/init.rs` | `INSTALL_GUARD`, `INSTALLED` (bridge state, OTLP provider) | `init`, `init_or_skip`, `init_with` | tracing's and log's process-global slots, the environment, journald, OpenTelemetry | other crates take the slots at any moment; half an install is committed before the other half fails; panics poison the guard |
| `logging/src/otlp.rs` | the provider in `INSTALLED`, its buffer | `build_layer`, `flush_otlp`, `shutdown_otlp` | init.rs, the OpenTelemetry SDK | reads `INSTALLED` without the guard while spans already flow |
| `logging/src/{correlation,actix}.rs` | none (a span per request) | trace-context and request-id parsing, middleware | HTTP requests | headers that proxies blank, pad, drop, add or malform |
| `money-core/.../kernel/sum.rs` | `UnitSum`, one per worker | `sum_units`, `add_units`, `merge`, `finish`, byte conversions | kamu-money-pg's parallel aggregates | partials leave the domain and return; merges in any order; damaged bytes |
| `money-core` kernel, `rounding.rs`, `rate/` | none | add, subtract, divide, allocate, convert, round | — | signs, ties, widths, one rounding only |
| `money-core` `allocation/`, `residue/` | obligations: `Division`, `Residue`, `SplitParts` | divide, split, resolve | — | a unit made or lost in a long sequence of legal calls |
| `money-core` text, locale, wire, adapters | none | render, parse, encode, decode | serde, sqlx, PostgreSQL | one value in six spellings, with and without its currency |
| `iso3166`, currency tables | none | lookups | generated | — |
| `snap-crypto`, adapters | none | sign and verify requests, token requests and callbacks | actix, axum | the string verified is rebuilt from what arrived |
| `snap-response`, adapters | none | response codes, envelopes, refusals | actix, axum, upstreams | status and body must agree when serialization fails half-way |
| `repo-policy/src/gate.rs` | a thread per group, one channel, the outcomes | `run` | every other recipe, as processes | completion order, dead threads, the last sender |
| `repo-policy/src/registry.rs` | none; one lookup at a time | `require`, `ensure-absent` | the crates.io sparse index | lag, transient failures, three answers |
| `repo-policy/src/dev_env.rs` | the developer's machine | `doctor`, `setup` | rustup, cargo, npm, git, the host's `PATH` | a setup that stops half-way; three lookups that must agree on one copy |
| `on-release-published.yml` | a job per release | nine steps, see `Release` | crates.io through the above, GitHub | overlapping releases, failure after the upload |
| `repo-policy/src/ci_paths.rs`, `on-pr-synced.yml` | a run per pull request | classify, gated jobs, `ci-success` | git, GitHub Actions | a skip that hides a failure; unclassified paths; re-runs |
| `on-main-pushed.yml` | none | compares the landed tree with a certificate | GitHub's check runs | which attempt is the latest, and what it tested |
| `repo-policy` `source_policy`, `justfile`, `actions` | none | linters | — | — |

What makes each part correct: *logging* — the process settles on one outcome and
no answer contradicts it, nothing started is left without an owner; *money* — no
unit is made or lost and no order of evaluation shows in a result; *gate, CI* —
green means that everything which had to run ran and passed; *release* — only
what was tagged is published, and after its dependencies; *SNAP* — what is verified is
what was signed, and what is read is what was meant; *the development
environment* — a machine that passes runs what the manifest pins.

## Modules

### Logging initialization: `LogConfig`, `LogInit`, `OnceOutcome`

`LogConfig` is the pure part: what a request and a host resolve to (`Chosen`,
`EffectiveSink`, `EffectiveFormat`, `Output`), and which of the checks of
`init_systemd` or `init_wasm32` refuses first (`ConfigError`). An environment
variable is unset, not Unicode, junk, or a word its parser knows.

`LogInit` is one process. Its variables are the two global slots (`subscriber`,
`logger`), `INSTALL_GUARD` (`guard`, `poisoned`), `INSTALLED` (`installed`,
`committed`), the providers that run (`live`), and each thread's place in its
call. The steps of a call are the ones another crate can observe:

| step | code |
|---|---|
| `CallInit`, `Lock`, `Repeat` or `Begin` | `init_with` up to the branch on `INSTALLED` |
| `Refuse` or `Prepare` | everything `init_systemd`/`init_wasm32` resolve and build before the first slot |
| `Claim` or `Lose` | `set_global_default`; a loser stops its provider |
| `Publish`, `Bridge`, `Store`, `Announce` | `INSTALLED.set`, `LogTracer::init`, the atomic store, the final event |

`Panic` may end any step that calls out of the crate; `ForeignSubscriber` and
`ForeignLogger` are other crates.

`OnceOutcome` is what initialization promises: one outcome, settled once, with
which every answer agrees. `LogInit!Once` is the instance with `outcome` mapped
to `Outcome`, an expression over the slots and `INSTALLED`; `OneOutcome` is the
abstract specification as a property.

### Closing the exporter: `LogOtlp`

`LogOtlp` puts spans, the batch timer and any number of `flush_otlp` and
`shutdown_otlp` calls beside `LogInit`. `queue` is the buffer of the provider our
subscriber writes to, `down` the SDK's shutdown flag, `closer` the closing calls.
The calls find the provider as `otlp_provider` does, through `INSTALLED` alone
(`OtlpProvider`), so there is a moment, between `set_global_default` and
`INSTALLED.set`, at which spans are buffered and a shutdown finds nothing to
drain. That is why `ClosedIsDrained` speaks of callers that were *told* that the
crate is installed (`ToldInstalled`): they are owed the drain, whatever became of
the log bridge. A call that found no provider before anyone was told leaves no
trace. A call told Ok while another one's shutdown drains returns before that
drain has ended; the property asks for the provider to be stopped only once no
shutdown is under way. The wasm32 build has no OTLP.

The SDK is external and taken at what otlp.rs relies on: a full buffer drops, a
provider that was shut down refuses to flush and answers `AlreadyShutdown`, and a
shutdown stops the provider whether or not its last export succeeded.

### Unit sums: `UnitSum`, `UnitAgg`

`UnitSum` has the operations of sum.rs over integers of given widths
(`DomainMax`, `NarrowMax`, `WideMax`), with the margins domain.rs asserts at
compile time as `DomainAssumption`. Conversions are two's complement.

`UnitAgg` is the parallel aggregate the kernel documents as its use: workers add
rows to their own sums, send them as bytes, merge what they receive, and the
leader finishes. The plan is not in this repository; each of its actions is one
kernel operation, and any row order and merge tree is possible. `Damage` may
replace one encoded partial by any byte string. `rows` is a history variable.

### Arithmetic: `MoneyKernel`, `MoneyCalls`

`MoneyKernel` has the pure operations as operators over the widths of `UnitSum`,
a scale and a largest divisor, related as domain.rs relates them
(`KernelAssumption`: the bound is the scale squared less one, and four factors of
the scale fit `I256`; a `usize` holds a `u32`, as the doc of `split` asks, and
`i128` the sum of the longest slice of weights). Truncation, the bump of the
quotient, the shares and the remainder of an allocation are each what the code
computes, in its order. The result `Panic` stands for these `expect`s and one
`assert`: those of an allocation (kernel/allocate.rs:38-70, allocation/allocate.rs:22),
the part counts, the sum and the domain of a part of a split (split.rs:36, 47-48,
104, 111), the narrowing of a quotient and its residue (divide.rs:30-31), and the
products of a conversion (convert.rs:23-25, 37-39). Those that restate what a type
holds (a `NonZeroU32` divides, `Money` is in its domain, a text is ASCII) and those
of the text modules have no counterpart, and `NeverPanics` says nothing of them.

`MoneyCalls` makes one call per behaviour, with every argument its types admit:
amounts and rates through their constructors, raw units where the function is
public. Its properties compare the results with definitions of another form:
`Rounded` picks between the two integers around a quotient, where the code
truncates and bumps; conversion is stated on the exact product; `Spells` reads a
text as a decimal fraction without the parser. `ReadsBack` has a part
for each way in and out: what is parsed (`ReadsAsSpelled`), what is written in a
form and read again (`FormsReadBack`), what a person is shown (`ShowsTheAmount`).
The last is claimed for decoration that can be told from a number (`Legible`):
symbol and separators without a digit, and a symbol that starts with no minus.

### Written money: `MoneyText`, `MoneyWire`

`MoneyText` has the trim rule (`FixedPointParts`), the parser with its unsigned
accumulator and its order of refusals (`ParseFixedPoint`), tagged texts, and the
locale policies with their grouping and separators. A number is a sequence of
characters, and so are a policy's symbol and separators, which may be any text the
code takes: any two that differ, the decimal one not empty (policy.rs:115-129).
A currency code is an atom in front of a number. `MoneyWire` has the
structured and transparent JSON forms, the binary one with its numeric codes, and
the database columns, each with the reader's check of the currencies it expects.
A native column cast to text is bare, so only its own currency is asked of it.

### Obligations: `MoneyLedger`

A purse of amounts, and the divisions, residues and split cursors a caller holds,
resolved in any order, half-consumed, cloned or given up. `Money` is `Copy`; the
caller of the model spends an amount once and hands the quotient of a division by
n to n payees. A clone of a split cursor replays what is ahead of it, by design;
the property counts it once.

### The gate: `Gate`

One thread per group with its position in the stage list, a channel, and the main
thread with `joining`, `draining` and `returned`/`unwound`. `Die` is the panic of
`println!` between a command and its report, and `Unwind` what
`std::thread::scope` does about it.

### Releases: `Registry`, `Release`, `Publication`

`Registry` is crates.io (`published`, `yanked`), the sparse index as served
(`served`, an older state of the two) and the `crates-io` command as a machine of
lookups and attempts, one per client. Any fetch may meet a transient fault or a
final one, and the command may die with a status that is none of its own (`Dies`).
`faulty` and `died` are history.

`Release` composes it with the steps of on-release-published.yml, run for run and
in the file's order, with GitHub's side (`Merge`, `Start`, `Approve`), yanks, and
operators who use `crates-io require` with a deadline. `cargo publish` may fail
before or after its upload. The list of dependencies comes from a pipe without
pipefail, so `ListDependencies` may come up empty (`unlisted`, a history variable),
and every status of a dependency check but 2 is worded as a missing version. A job
may be lost at any step (`Abort`). That `cargo publish` refuses to package what it
cannot resolve (CONTRIBUTING.md:115-117) is cargo's, and is not counted on.
`Publication` is what the pipeline promises of crates.io.

### Pull requests and main: `CiPaths`, `PullRequest`, `MainPush`

`CiPaths` classifies paths. A path is what `classify_path` looks at: the
directory that owns it, its suffix, whether it is on a list. `Reported` is what
`git diff --name-only --find-renames` tells of a change.

`PullRequest` is one run of on-pr-synced.yml: the table of jobs with their
condition and needs, jobs that succeed, fail or are skipped, and `ci-success`.
Jobs meet only through `needs`, so one order of execution stands for all
(`Turn`).

`MainPush` follows the pull request to main: runs that are run again in whole or
in part, a branch brought up to date, a main that moves or goes back meanwhile, a
merge by the ruleset or past it, and the `verified` job of on-main-pushed.yml. A
tree is told by what main brought to it and by whether it has the change. A
pull_request run checks out the merge of the head with main as it was at the
event (`Tested`), the certificate is filed under the head (`HeadTree`), and main
gets a third tree (`Tip`); `CertifiedTreePassed` says when the three are one. Run
and main do not look at each other before the run has concluded, so a run goes
on before main moves or not at all (`MayRun`).

### SNAP: `SnapRequest`, `SnapEnvelope`, `Correlation`, `SnapExchange`

`SnapRequest` is snap-crypto: the validated parts of a request, the strings to
sign, and the three verifications with their order of checks, behind each
adapter. A text is a sequence of lexemes, cut where the grammars of the code cut
it, so that a colon inside a path and a colon between two parts look alike.
Digests and signatures are ideal. `SnapEnvelope` is snap-response: codes, the 61
error classes, the class of a verification failure, the three states of a
response, and both responders. `Correlation` is `TraceParent::parse`, rule by
rule over the characters of a value at the offsets of the code, and
`extract_from_headers`. The lengths of the ids are constants. `SpanNamesTheCall`
compares the span with a grammar that knows no offsets: hyphens set the fields
of a traceparent apart, and the id is what stands between the first two
(`IsTraceIdOf`).

`SnapExchange` composes them: senders sign, a network delivers a message any
number of times or never, with one fault on the way, the server opens its span,
verifies behind one of the adapters, and succeeds, fails, refuses or relays an
upstream's answer; the client reads. The partner, the channel and the external id
are not part of the signed string, and the properties do not claim them.

### The development environment: `DevTools`, `DevEnv`

`DevTools` reads versions: banners as lines of maximal runs of digits and dots,
package.json files, exact pins and floors. `DevEnv` is a machine: the host's copy
of each tool, the local copies, what rustup has, and `setup` as its sequence of
commands, any of which may fail and end it there; `doctor` is one action. Between
commands the host, the manifest or the checkout may change.

## Runs

| run | properties | bounds | states |
|---|---|---|---|
| `log_init` | `OtlpTypeOK`, `OwnersAgree`, `NoOrphanProvider`, `ExplicitOptionsWin`, `ClosedIsDrained`, `OneOutcome`, `CallsReturn` | 2 threads, 2 calls each, 3 requests, 2 hosts, both builds, 2 closing calls at a time, a buffer of 1 | 534,301 |
| `unit_agg` | `TypeOK`, `PartialsExact`, `LikeSequential`, `AnswerExact` | 4 rows, 3 workers, domain ±3, `i128` as 4 bits, `I256` as 5 | 1.8 million |
| `money_kernel` | `TypeOK`, `NeverPanics`, `DivisionExact`, `AllocationFair`, `ConvertsOnce`, `ReadsBack`, `Conserved` | domain ±15, scale 4, divisors to 5, up to 4 weights of 0, 1, 2, 5, `usize` to 6, `i128` as 6 bits, `I256` as 9; 3 currencies, base 2 with 2 places, texts to 6 characters, symbols and separators to 2; 2 obligations, a purse of 4 | 340,322 |
| `gate` | `TypeOK`, `PassMeansAllPassed`, `ReplaysEveryFailure`, `Ends` | 3 groups, 5 stages, 3 exit codes | 210,802 |
| `release` | `TypeOK`, `OnlyWhatWasTagged`, `DependenciesFirst`, `HonestAnswer` | 2 runs, 1 operator, 3 crates, 2 versions, 2 commits, 4 tags, 1 poll, 2 attempts and 2 retries (3 in the code) | 2,539,980 |
| `release_approval` | `CheckedBeforeApproval`, violated | the same | |
| `release_unlisted` | `DependenciesVerified`, violated | the same | |
| `ci` | `MainTypeOK`, `GreenMeansOwnersPassed`, `CertifiedTreePassed` | 30 proposals over 13 paths, 1 failing job, 2 attempts, 4 commits of main; all 28 jobs | 691,342 |
| `ci_rename` | `EveryChangedPathClassified`, violated | 1 rename, 1 attempt, 3 commits | |
| `snap` | `TypeOK`, `OneReading`, `VerifiedAsSent`, `BlameIsRight`, `HonestStatus`, `ReadAsWritten`, `SpanNamesTheCall` | 20 requests, 3 token requests, 2 callbacks, 2 keys, one fault per delivery, 2 signed messages, 10 payloads of 6 types, 9 upstream bodies; trace and parent ids of 2 digits, request ids to 5 characters, 22 traceparents, 7 request ids | 129,460 |
| `snap_query` | `QueryFailsTheSignature`, violated | the same | |
| `dev_env` | `TypeOK`, `DoctorIsRight`, `SetupConverges`, `InstallsOnlyWhatRuns` | a tool of each kind (two from Cargo), 2 versions, 3 or 4 host copies of each, 9 situations, 1 change between commands | 947,457 |

Why the bounds suffice. *log_init*: a call is one of the first (it installs), or
a later one (it is told what happened); two threads with two calls each give
every order of an installing, a losing, a panicking and a repeated call, and
each of the hosts fails a different check; two closing calls overlap, and one
span is enough to be left behind. *unit_agg*: four rows of value ±3, 2 let a
partial pass the domain and `i128` and return, and three workers give every shape
of merge tree with a chain in it. *money_kernel*: the widths have the code's
proportions at their tightest, four factors of the scale just filling `I256`; the
scale and the divisors 2 and 4 have ties, on both signs and with odd and even
quotients; one product leaves `i128` and two leave `I256`; a remainder reaches
its largest, one less than the number of claims. Texts of six characters reach
past the unsigned accumulator and spell `i128::MIN`; whole parts have at most two
digits, so the repetition of the last group width is out of reach. Two
obligations meet in every order, and the purse can be summed between them.
*gate*: two groups own two stages, so a failure can precede and follow another in
the same group and in another one. *release*: a pair of dependent crates whose
runs overlap, and tags for each check that can refuse; two attempts tell a fault
that is overcome from one that is not. *ci*: the classes a set
fires are the union of those of its members, so a pair is needed only for a path
nobody owns, which goes with every other one, and for a few pairs of crates and
documents; four commits let main move before, during and after a run, and go
back. *snap*: two messages suffice for one signature to serve two, and no
component keeps state between messages; for each rule of the traceparent parser
there is a header that breaks it alone. *dev_env*: the copies cover each layout
of a banner or a package.json that the code tells apart; one change is followed by
a whole setup, doctor or both.

Fairness. `log_init`: weak fairness of each thread inside `init_with`. The code
waits only for `INSTALL_GUARD`; the calls of a thread are bounded, so it cannot
be overtaken for ever. Nothing makes a thread call or panic, another crate act, a
timer fire or an export end, so a span may stay buffered for ever. `gate`: weak
fairness of the threads and of main, that is, commands return; nothing makes a
thread die. The other runs state no liveness.

Deadlock is checked in every run: `AllDone`, `Answered`, `Returned`, `Ended`,
`Decided` and `Judged` are the explicit ends.

Each passing property comes with a *mutant*, a definition marked as such next to
the one it mutates (a dropped guard, a missing check, a swapped decision). Put in
the original's place it makes TLC refute the property under the same cfg. `ReadsBack`
has one for each of its parts. The
specifications do not use them.

## What the violation runs show

- `release_approval`: `environment: crates-io` is on the whole job, so it is
  approved before the checks CONTRIBUTING.md says come first.
- `ci_rename`: rename detection names the new end of a rename only; the jobs of
  the directory that lost the file are skipped.
- `release_unlisted`: the step that verifies the dependencies lists them with
  `cargo metadata | jq | sort` in a shell without pipefail; when the first command
  fails the list is empty, and the run is published with its dependency not there.
  `DependenciesFirst` therefore speaks of the runs that could list theirs.
- `snap_query`: the doc at snap-crypto-actix/src/lib.rs:38-41 says a path passed with
  its query "surfaces as a failed signature"; `CanonicalPath::parse` refuses it
  first, and the answer is a 400 and not a 401. `BlameIsRight` has what the code does.

Observations that have no run of their own:

- `CertifiedTreePassed` exempts an override after main went back to an earlier
  state: the head then has the tree that landed and its check is green, but the run
  tested a merge with a main that is no more, and on-main-pushed.yml:81 still says
  "certified this exact tree".
- gate.rs:114-121 provides for a group that died, but the scope at line 76 panics
  first: the gate does fail, with exit code 101 and without the NO VERDICT rows
  (`Unwind` of `Gate`).
- A host copy whose version cannot be read is answered by `doctor` with "run just
  setup", which refuses that very copy, and the row does not name its path, against
  dev_env.rs:470-472 and docs/TOOLCHAIN-REALMS.md:31.
- `try_with_separators` (policy.rs:115-129) accepts separators that hold digits. A
  display with one need not spell the amount, and `ShowsTheAmount` claims nothing of
  it.
- A success without a payload is written as no members (envelope.rs:250) and read as
  an object first (403-415): as an option of a map, of a struct whose members are all
  optional or of a JSON value it comes back as some value and not as none.
  `ReadAsWritten` names the case.

## Proofs

The modules named `...Proofs` prove, for every value of the constants allowed by
the assumptions of the modules:

| theorem | statement | by |
|---|---|---|
| `LogProofs!TypeCorrect`, `OwnersCorrect`, `ProvidersOwned` | `Spec => []TypeOK`, `[]OwnersAgree`, `[]NoOrphanProvider` | `Invariance` |
| `LogProofs!Refinement` | `Spec => OneOutcome` | `Invariance` and a step lemma per action |
| `LogProofs!OtlpTypeCorrect`, `OtlpOwnersCorrect`, `OtlpProvidersOwned`, `ClosedDrained` | the same beside closing calls, and `OtlpSpec => []ClosedIsDrained` | `OtlpInvariance` |
| `LogProofs!OtlpRefinement` | `OtlpSpec => OneOutcome` | `OtlpInvariance`, `StepRefines` |
| `LogProofs!CallsMayGoOn`, `CallsEnd` | `OtlpSpec => []NobodyBlocked`, `[][CallsRunDown]_allVars` | `OtlpInvariance`, `ThreadRunsDown` |
| `LogProofs!OptionsWin` | `OtlpSpec => []ExplicitOptionsWin` | `OptionsInv`, `EveryCheckPassed` |
| `UnitAggProofs!TypeCorrect`, `PartialsCorrect`, `AnswerCorrect` | `Spec => []TypeOK`, `[]PartialsExact`, `[]AnswerExact` | `Invariance` |
| `UnitAggProofs!ScansAgree` | `Spec => []LikeSequential` | `ExactFromInv`, `ScanReports` |
| `GateProofs!TypeCorrect`, `VerdictSound`, `ReplayComplete` | `Spec => []TypeOK`, `[]PassMeansAllPassed`, `[]ReplaysEveryFailure` | `Invariance` |
| `GateProofs!NeverStuck`, `EveryStepCounts` | `Spec => []NotStuck`, `[][Closer]_vars` | `Invariance`, `StepCloser` |
| `MoneyProofs!CallsTyped`, `NoPanic` | `LedgerSpec => []TypeOK`, `[]NeverPanics` | `CallsInvariance`, `LeftIs`, `AllocationFits`, `SplitAllIs` |
| `MoneyProofs!DivisionsExact`, `ConversionsRoundOnce` | `LedgerSpec => []DivisionExact`, `[]ConvertsOnce` | `DivRoundExact`, `TooWide`, `CallsInvariance` |
| `MoneyProofs!AllocationsPayOut` | `LedgerSpec => []AllocationFair` | `AllocationsFair`, `CallsInvariance` |
| `MoneyProofs!ReadBack` | `LedgerSpec => []ReadsBack` | `ParsesAsSpelled`, `MoneyCarried`, `RateCarried`, `DisplayShows`, `CallsInvariance` |
| `MoneyProofs!UnitsConserved` | `LedgerSpec => []Conserved` | `LedgerStep` |
| `DevEnvProofs!TypeCorrect`, `DoctorRight`, `SetupConverging` | `Spec => []TypeOK`, `[]DoctorIsRight`, `[]SetupConverges` | `Invariance` |
| `DevEnvProofs!InstallsRun` | `Spec => InstallsOnlyWhatRuns`, an action property | `Invariance` |
| `SnapExchangeProofs!TypeCorrect`, `OneReadingHolds`, `VerifiedMeansSent`, `RefusalsBlameTheFault`, `StatusesAreHonest`, `AnswersRoundTrip` | `Spec => []TypeOK`, `[]OneReading`, `[]VerifiedAsSent`, `[]BlameIsRight`, `[]HonestStatus`, `[]ReadAsWritten` | `Invariance`, `ServiceStringReads`, `Landing`, `VerdictsRight`, `GivenFaithful` |
| `SnapExchangeProofs!SpansNameTheirCalls` | `Spec => []SpanNamesTheCall` | `Grammar`, `FirstStated`, `Invariance` |
| `MainPushProofs!MainTypeCorrect`, `GreenCorrect`, `CertificateCorrect` | `MainSpec => []MainTypeOK`, `[]GreenMeansOwnersPassed`, `[]CertifiedTreePassed` | `MainInvariance` |
| `ReleaseProofs!TypeCorrect`, `TaggedOnly`, `DependenciesOrdered`, `AnswersHonest` | `Spec => []TypeOK`, `[]OnlyWhatWasTagged`, `[]DependenciesFirst`, `[]HonestAnswer` | `Invariance` |
| `ReleaseProofs!PublishesByTheBook` | `Spec => Shelf!Spec`, the specification `Publication` | `Invariance`, `StepShelves` |

The inductive invariants, and why the properties alone are not inductive:

- *LogInit*: `OwnersAgree` speaks of moments when nobody is installing. In
  between, what holds depends on the installing thread: only the holder of the
  guard is inside the call, and each program counter fixes how far the slots and
  `INSTALLED` have come. The refinement needs, besides, that the history of
  answers agrees with the outcome reached, or a later Ok could follow an earlier
  conflict.
- *LogOtlp*: the closing calls leave what `IInv` speaks of alone but for stopping
  providers, so `IInv` carries over. `ClosedIsDrained` needs to know where a span
  can be: `CloseInv` says that a buffered span belongs to a provider that
  `INSTALLED` holds or is about to, and that after a shutdown nothing is left
  unless one is under way. `ToldInv` ties what a caller was told to `INSTALLED`.
- *UnitAgg*: that partials are exact needs that the row sets of the workers, the
  wire and the unread rows are disjoint, and that they cover the table for the
  answer to be the total. `Total` is characterised, not computed: zero on the
  empty set, the term on a singleton, additive on disjoint sets
  (`UnitAggAssumption`, which TLC evaluates on the tables of the run). The
  sequential sum it is compared with *is* computed, term by term: `SumsDef`
  unfolds its recursion, and a scan that reports a term, or the total, is then
  found for every answer the plan can give (`ScanReports`).
- *Gate*: that main saw everything needs, for each stage, where its outcome is:
  not reached, about to be recorded, in the channel, or received, with the code
  the command ended with (`ran`).
- *Release*: a run publishes on what it found out several steps before. `RInv`
  says what that is at each step (`Verified`), that it still holds although main,
  the registry and the index moved (they only grow, but for what the index
  serves, and that never exceeds what was published: `ServedInv`), that an
  answered command says something true of crates.io (`Truthful`), and that each
  dependency of a run that could list them is still to be asked for, being asked
  for, or met (`DepsInv`). The
  argument has one lemma per action; those that change one client and leave
  crates.io alone share `QuietStep`.

- *Money, calls*: nothing is inductive but that a call leaves its arguments beside
  its result (`CallInv`); the work is about one call. `DivRoundExact` compares
  truncation and the bump, sign by sign and mode by mode, with the integers below
  and above (`Chosen`). `TooWide`: a product that an `I256` does not hold is no
  money when it is scaled back, from the margin `Scale^4 <= 2^255` of
  `KernelAssumption`. An allocation: over the first n positions, what truncation
  left, times the total of the weights, is at most the number of claims times
  one less than that total (`LeftIs`), so at the end fewer units are left than
  there are claims; the assert cannot fire, and the units left are all paid
  (`PaidSum`). The shares have the sign of the amount, so what is left on the way lies
  between the amount and zero, and every part is within the amount (`AllocationFits`,
  from `TotalFits`, `FrontOfSum`); the parts of a split are so too (`SplitAllIs`).
- *Money, texts*: `Horner` gives a sequence of digits the partial values the
  accumulator of the parser goes through; it exists for every sequence
  (`HornerExists`) and its last value is what `Magnitude` returns, or more than an
  unsigned accumulator holds (`MagnitudeIs`). Writing: `NumeralIs` and `TrimIs`
  say which digits `Numeral` and `Trim` choose, `DigitsSpell` that those of the
  whole and of the fraction spell the units, and `Shifted` that trimmed zeros come
  back when the parser pads (`RoundTrip`). Each form then adds its own tag, its
  currency codes in order and the check of them, base before quote (`TagsAre`,
  `NumericIs`). Reading is compared with `Spelled`, which gives each digit the
  weight of the digits behind it: `DigitsSum` shows both to be one number,
  `ParsedShape` and `DecimalShape` that the parser takes exactly the texts
  `IsDecimal` describes, and `NumberParsed` that of these it refuses only those with
  too many places and those that spell no money. What is displayed has characters
  that are no digits anywhere, so it is read part by part: `Takes` says that a text
  carries an accumulator from one number to another, whatever stands between its
  digits, and that texts behind one another do it one after the other (`TakesBoth`;
  `FlattenIs` has how `FlattenSeq` puts the groups together). A text without digits takes nothing (`BareTakes`), and
  grouping puts such texts between digits (`GroupTakes`). What is shown is five texts
  behind one another: what stands ahead, the whole digits, the decimal mark, the
  other digits and what stands behind (`ShownIs`). `Placed` has where each begins,
  `Marked` that between two digits of the whole part there is nothing or the group
  mark, which is not the decimal one, so the decimal mark stands flush between two
  digits in one place (`FivePlaces`); and so `ShownSpells` has what the digits spell.
- *Money, ledger*: `Conserved` says nothing before the purse is funded, and
  nothing of what an obligation is made of. `LedgerInv` adds both: an empty
  ledger until then, a division that makes up its amount, and a split whose
  parts are those of its amount, handed out in order. What a cursor still owes
  is then the amount less what the first parts came to (`Handed`, `AheadSum`).
  All resolutions share `ResolveInv`: what is handed out, what is owed after and
  what is posted or given up make up what was owed. The sums of sequences are
  folds; `SumIs` gives each as the last of its partial sums, and every fact
  about a sum (concatenation, an element replaced or removed) is one about
  partial sums (`SumFrom`).
- *MainPush*: that green covers every job called for follows from why a job is
  skipped (`SkipInv`) and two facts about the table of jobs: what a job needs is
  called for whenever it is (`NeedsFire`), and needs are two deep (`NeedsDepth`),
  so a skip handed down has nothing to start from. That the certified tree was
  tested follows from what landing says of the event's commit (`LandInv`) and from
  a green certificate freezing all it was given for (`CertificateInv`).

- *DevEnv*: `doctor` and `setup` look at a machine at different moments, so the
  invariant says what has become of it at each step of a setup (`ProgressInv`):
  which commands are behind it, and for each Cargo tool it has looked at whether
  it was kept, installed or found shadowed. `SettledInv` carries that past the end
  of a complete setup, and `AnswerInv` and `SetupConverges` themselves say that an
  answer stays true until the machine changes. That doctor is right is then about
  one state: what `parse_version` reads is what the binary is (`WritesItsVersion`,
  `StatesItsVersion`), and a floor compared part by part orders versions as `Rank`
  does.
- *SnapExchange*: nothing accumulates but the messages sent; the invariant gives
  the provenance of what is in hand: a message its sender could build (`Built`), after
  at most one fault (`Arrived`), judged by the verifier of its kind (`Judged`), and
  an answer the responder made of a response the server can mean (`Answered`). The
  work is in lemmas about one message. `ServiceStringReads`: the string to sign
  is read back from its colons, although a path and a timestamp hold some, because
  a credential and a digest hold none and no timestamp ends in another
  (`LastColon`, `InstantLast`). `Landing`: what each fault does to each kind of
  message. `ServiceJudged`, `OAuthJudged`, `CallbackJudged`: the verdict on it, check by
  check. `GivenFaithful`: what `Deserialize` makes of what `Respond` wrote. The
  span is read as a request arrives, so `SpanInv` is all the invariant says of it,
  and the rest is about one value: `Parsed` unfolds the rules of the parser, `FieldsRead`
  has its slices as what stands between its delimiters, and from the lengths of
  the fields (`FieldLength`) `Grammar` places the hyphens of a well-formed text at
  the parser's offsets: both accept the same texts and read the same id.
  `Trimming` states what trimming does without its bounds:
  blanks before, blanks behind, and no blank at either end of what is left.

Refinements. `LogInit` implements `OnceOutcome`, and the release pipeline
implements `Publication`: crates.io is a shelf on which one version is put at a
time and from which nothing is taken, and at the moment a version is put there it
is what a tag names, its commit is on main, and what it requires is on the shelf,
unless its run could not list what that is.
A run checks all that several steps before its upload, on an index that lags,
while other runs publish; `RInv` is what makes the checks still true then. That
theorem is stated of the models alone, no run checks it.

Progress. That the gate ends and that a call of `init_with` returns are liveness
properties (`Ends`, `CallsReturn`), which TLC checks under fairness. What fairness
is applied to is proved. *Gate*: until it has its exit code, a thread or main has
a step it need not wait for, which `NotStuck` spells out as guards; and every
step uses up one of the natural number of steps its thread has left, or takes
main to its next phase or an outcome off the channel (`Closer`). With finitely
many groups there is no endless run and no stuck one. *LogInit*: whoever waits
waits for `INSTALL_GUARD`, whose holder has a step to take (`NobodyBlocked`);
each step of a call leaves it fewer than before, eight at first, nobody else's
step gives any back, and the guard is kept until the call returns it
(`CallsRunDown`). What is left to fairness is that a thread that can move does.

Assumptions on constants, all evaluated by TLC on the values of the runs. Most
give the constants their types and the model its bounds. Those that say more say
it of what is not in this repository: a digest names one body and a timestamp
spells its date once, at its start (`SnapRequestAssumption`); a hexadecimal digit is
a visible character and a blank is none (`CorrelationAssumption`); no clock spells "now"
(`SnapExchangeAssumption`); a payload that serializes is one its own type reads back, and
serializes the same again or fails (`PayloadsAssumption`); a tool writes its own
version before any other one and `cargo install` and `npm ci` leave the version they
were asked for (`CopiesAssumption`); a pin has at most three parts, each below 1000
(`DevEnvAssumption`), which is what `Rank`, the yardstick of `DoctorIsRight`, can
tell apart.

Induction. What the library states for an operator (`NatInduction` and its like)
no installed prover can instantiate. Where an argument needs induction over a
text, a sequence or a number, it takes the least element of a set instead: `Least`
in `SnapExchangeProofs` and `MoneyProofs`, and `Counting` in the modules about sums, by which a set
that holds 0 and the successor of each of its members holds every natural number.
Both are from `WFMin` and `NatLessThanWellFounded`, which speak of sets alone. With
`Counting` a recursive function is shown to exist (its finite approximations do,
one longer than the other), and then to have the values its equation gives.

Only model-checked: the hazards the violation runs show, and the liveness
properties `CallsReturn` and `Ends` themselves: liveness and ENABLED are out of
reach of the proof system.

## Plan

What is left:

1. Currencies and the lookups of ISO 3166, if they come to hold state.

## Not modelled

- Currencies and ISO 3166: generated tables and lookups over them.
- The linters `source_policy`, `justfile` and `actions`: pure functions from the
  repository's text to a report, with no state and no order of events.
- Of the modelled parts: cryptographic primitives (ideal: a signature verifies
  exactly over what was signed), `EnvFilter` directives and the second reading of
  the variable in `resolve_filter`, padding to a formatter's width, the formatting
  of timestamps, the wording of messages and the category labels of response
  codes, and upstream statuses that carry no body (1xx, 204, 304). The replay of
  every stage that `VERBOSE=1` asks of the gate (gate.rs:113, 123-124). Re-runs after
  main has moved, and the workflow_dispatch forms of the two workflows. A banner whose
  last line on stdout has no end of its own, so that the first of stderr continues it
  (dev_env.rs:276), and parts of a version too long for `u64`, which the code skips
  (dev_env.rs:182).
- `add-crate-owner.yml`, which repeats one external command by hand;
  `AddOwner` of `Release` models it where the release workflow runs it.
- Benches, examples and vendored data.

`PROJECT.json` gives the status of every component.
