---------------------------- MODULE ReleaseProofs ----------------------------
(***************************************************************************)
(* Proofs about Release for any crates, tags, runs and operators, and any  *)
(* number of attempts and retries.  RInv adds to the checked invariants    *)
(* what a run has found out by the step it is at, and what an answered     *)
(* command says of crates.io.                                              *)
(***************************************************************************)
EXTENDS Release, TLAPS

\* The index serves nothing that crates.io does not have.
ServedInv ==
    \A c \in Crates : served[c].all \subseteq published[c] /\ served[c].live \subseteq published[c]

\* What a command that has answered says: the exit code tells a fault, unless the
\* command died, and a require that was met, or a version that was found, is on
\* crates.io.
Truthful(p) ==
    /\ probe[p].doing = "fetching" => p \notin died
    /\ probe[p].doing = "answered" =>
         /\ p \in died <=> probe[p].answer = "died"
         /\ p \notin died => (probe[p].answer = "unreadable" <=> p \in faulty)
         /\ probe[p].question = "require" /\ probe[p].answer = "yes"
              => published[probe[p].crate] \cap probe[p].admits # {}
         /\ probe[p].question = "absent" /\ probe[p].answer = "no"
              => published[probe[p].crate] \cap probe[p].admits # {}

\* A run asks at two of its steps, and there what the step is about.
Asks(r) ==
    /\ probe[r].doing # "idle" => step[r] \in {"absent", "deps"}
    /\ step[r] = "absent" =>
         /\ probe[r].doing # "idle" /\ probe[r].question = "absent"
         /\ probe[r].crate = tag[r].crate /\ probe[r].admits = {tag[r].version}
    /\ step[r] = "deps" /\ probe[r].doing # "idle" => probe[r].question = "require"

\* What a run has verified of its tag by the step it is at.
Verified(r) ==
    /\ step[r] \notin {"waiting", "approval", "parse", "failed"} => tag[r].crate \in Publishable
    /\ step[r] \in {"ancestor", "absent", "list", "deps", "dryrun", "publish"} =>
         Manifest[tag[r].commit][tag[r].crate] = tag[r].version
    /\ step[r] \in {"absent", "list", "deps", "dryrun", "publish"} => tag[r].commit \in main

\* A dependency is still to be asked for, being asked for, or met, unless the run
\* could not list what it depends on.
DepsInv(r) ==
    r \notin unlisted => \A q \in Requires[tag[r].crate][tag[r].version] :
      /\ step[r] = "deps" =>
           \/ q \in todo[r] \/ Met(q)
           \/ probe[r].doing # "idle" /\ probe[r].crate = q.dep /\ probe[r].admits = q.admits
      /\ step[r] \in {"dryrun", "publish"} => Met(q)

\* Why a run failed was read from the registry.
ReasonInv(r) ==
    /\ reason[r] = "published" => tag[r].version \in published[tag[r].crate]
    /\ reason[r] = "published" \/ (reason[r] = "missing" /\ r \notin died) => r \notin faulty
    /\ reason[r] = "unreadable" => r \in faulty

\* A run that may still try the dry run has tries left.
TriesInv(r) == step[r] \notin {"publish", "owner", "succeeded", "failed"} => tries[r] < Retries

\* A run that uploaded is past every step that says what it is about.
UploadInv == OnlyWhatWasTagged /\ \A u \in uploads : step[u[1]] \in {"owner", "succeeded", "failed"}

RunInv(r) == Asks(r) /\ Verified(r) /\ DepsInv(r) /\ ReasonInv(r) /\ TriesInv(r)

RInv ==
    /\ TypeOK
    /\ ServedInv
    /\ \A p \in Clients : Truthful(p)
    /\ \A r \in Runs : RunInv(r)
    /\ UploadInv
    /\ DependenciesFirst

-----------------------------------------------------------------------------

\* The probe of a client that runs no command.
LEMMA NoProbeType == NoProbe \in Probe /\ NoProbe.doing = "idle"
<1>1. PICK t \in Tags : t.crate \in Crates
  BY ReleaseAssumption
<1>2. (CHOOSE c \in Crates : TRUE) \in Crates
  BY <1>1
<1>3. QED BY <1>2, RegistryAssumption DEF NoProbe, Probe, Answers

\* The initial states satisfy the invariant.
LEMMA InitInv == Init => RInv
<1> SUFFICES ASSUME Init PROVE RInv
  OBVIOUS
<1> USE DEF Init, RegistryInit
<1>1. (CHOOSE t \in Tags : TRUE) \in Tags
  BY ReleaseAssumption
<1>2. RegistryTypeOK
  BY NoProbeType DEF RegistryTypeOK
<1>3. TypeOK
  BY <1>1, <1>2, ReleaseAssumption DEF TypeOK, Steps, Reasons
<1>4. \A p \in Clients : probe[p].doing = "idle"
  BY NoProbeType
<1>5. ServedInv /\ \A p \in Clients : Truthful(p)
  BY <1>4 DEF ServedInv, Truthful
<1>6. \A r \in Runs : RunInv(r)
  BY <1>4, ReleaseAssumption DEF RunInv, Asks, Verified, DepsInv, ReasonInv, TriesInv
<1>7. UploadInv /\ DependenciesFirst
  BY DEF UploadInv, OnlyWhatWasTagged, DependenciesFirst
<1>8. QED BY <1>3, <1>5, <1>6, <1>7 DEF RInv

-----------------------------------------------------------------------------

\* What a lookup may do to the command of its client.
Looks(p) ==
    /\ probe[p].doing = "fetching"
    /\ \A q \in Clients \ {p} : /\ probe'[q] = probe[q] /\ (q \in faulty' <=> q \in faulty)
                                /\ (q \in died' <=> q \in died)
    /\ probe' \in [Clients -> Probe] /\ faulty' \subseteq Clients /\ died' \subseteq Clients
    /\ probe'[p].question = probe[p].question
    /\ probe'[p].crate = probe[p].crate /\ probe'[p].admits = probe[p].admits
    /\ probe'[p].doing # "idle"
    /\ Truthful(p)'

\* The end of a lookup that heard something of the index, or nothing.
LEMMA EndLookupLooks ==
    ASSUME RegistryTypeOK, NEW p \in Clients, NEW heard \in Answers \ {"died"},
           probe[p].doing = "fetching", EndLookup(p, heard), UNCHANGED <<published, died>>,
           p \notin died,
           heard = "unreadable" <=> p \in faulty', faulty' \subseteq Clients,
           \A q \in Clients \ {p} : q \in faulty' <=> q \in faulty,
           probe[p].question = "require" /\ heard = "yes"
             => published[probe[p].crate] \cap probe[p].admits # {},
           probe[p].question = "absent" /\ heard = "no"
             => published[probe[p].crate] \cap probe[p].admits # {}
    PROVE  Looks(p)
<1>1. probe \in [Clients -> Probe] /\ probe[p] \in Probe
  BY DEF RegistryTypeOK
<1>2. CASE probe' = [probe EXCEPT ![p].attempt = 1, ![p].polls = @ - 1] /\ probe[p].polls > 0
  <2>1. probe' = [probe EXCEPT ![p] = [probe[p] EXCEPT !.attempt = 1, !.polls = @ - 1]]
    BY <1>1, <1>2 DEF Probe
  <2>2. [probe[p] EXCEPT !.attempt = 1, !.polls = @ - 1] \in Probe
    BY <1>1, <1>2, RegistryAssumption DEF Probe
  <2>3. QED BY <1>1, <2>1, <2>2 DEF Looks, Truthful, Probe, RegistryTypeOK
<1>3. CASE Answer(p, heard)
  <2>1. probe' = [probe EXCEPT ![p] = [probe[p] EXCEPT !.doing = "answered", !.answer = heard]]
    BY <1>1, <1>3 DEF Answer, Probe
  <2>2. [probe[p] EXCEPT !.doing = "answered", !.answer = heard] \in Probe
    BY <1>1 DEF Probe, Answers
  <2>3. QED BY <1>1, <2>1, <2>2 DEF Looks, Truthful, Probe, RegistryTypeOK
<1>4. QED BY <1>2, <1>3 DEF EndLookup

\* A lookup of any client.
LEMMA LookupLooks ==
    ASSUME RegistryTypeOK, ServedInv, NEW p \in Clients, Lookup(p), Truthful(p)
    PROVE  Looks(p) /\ UNCHANGED <<registry, release>>
<1>1. probe \in [Clients -> Probe] /\ probe[p] \in Probe
  BY DEF RegistryTypeOK
<1>2. probe[p].crate \in Crates /\ faulty \subseteq Clients
  BY <1>1 DEF Probe, RegistryTypeOK
<1>3. CASE Fetched(p)
  <2> DEFINE heard == IF Satisfies(probe[p].question, served[probe[p].crate], probe[p].admits)
                      THEN "yes" ELSE "no"
  <2>1. EndLookup(p, heard) /\ UNCHANGED <<registry, died>> /\ faulty' = faulty \ {p}
        /\ probe[p].doing = "fetching" /\ p \notin died
    BY <1>3 DEF Fetched, Truthful
  <2>2. heard \in Answers \ {"died"} /\ heard # "unreadable"
    BY DEF Answers
  <2>3. /\ probe[p].question = "require" /\ heard = "yes"
             => published[probe[p].crate] \cap probe[p].admits # {}
        /\ probe[p].question = "absent" /\ heard = "no"
             => published[probe[p].crate] \cap probe[p].admits # {}
    BY <1>2 DEF Satisfies, ServedInv
  <2>4. published' = published
    BY <2>1 DEF registry
  <2> HIDE DEF heard
  <2>5. Looks(p)
    BY <1>2, <2>1, <2>2, <2>3, <2>4, EndLookupLooks
  <2>6. QED BY <2>1, <2>5 DEF Lookup
<1>4. CASE Transient(p) \/ Refused(p)
  <2>1. UNCHANGED <<registry, died>> /\ faulty' = faulty \cup {p} /\ probe[p].doing = "fetching"
        /\ p \notin died
    BY <1>4 DEF Transient, Refused, Truthful
  <2>2. published' = published
    BY <2>1 DEF registry
  <2>3. ASSUME EndLookup(p, "unreadable") PROVE Looks(p)
    BY <1>2, <2>1, <2>2, <2>3, EndLookupLooks DEF Answers
  <2>4. ASSUME probe' = [probe EXCEPT ![p].attempt = @ + 1], probe[p].attempt < Attempts
        PROVE  Looks(p)
    <3>1. probe' = [probe EXCEPT ![p] = [probe[p] EXCEPT !.attempt = probe[p].attempt + 1]]
      BY <1>1, <2>4 DEF Probe
    <3>2. [probe[p] EXCEPT !.attempt = probe[p].attempt + 1] \in Probe
      BY <1>1, <2>4, RegistryAssumption DEF Probe
    <3>3. QED BY <1>1, <1>2, <2>1, <3>1, <3>2 DEF Looks, Truthful, Probe, RegistryTypeOK
  <2>5. Looks(p)
    BY <1>4, <2>3, <2>4 DEF Transient, Refused
  <2>6. QED BY <2>1, <2>5 DEF Lookup
<1>5. CASE Dies(p)
  <2>1. UNCHANGED <<registry, faulty>> /\ died' = died \cup {p} /\ probe[p].doing = "fetching"
        /\ probe' = [probe EXCEPT ![p] = [probe[p] EXCEPT !.doing = "answered", !.answer = "died"]]
    BY <1>1, <1>5 DEF Dies, Answer, Probe
  <2>2. [probe[p] EXCEPT !.doing = "answered", !.answer = "died"] \in Probe
    BY <1>1 DEF Probe, Answers
  <2>3. Looks(p)
    BY <1>1, <1>2, <2>1, <2>2 DEF Looks, Truthful, Probe, RegistryTypeOK
  <2>4. QED BY <1>5, <2>1, <2>3 DEF Lookup
<1>6. QED BY <1>3, <1>4, <1>5 DEF Lookup

-----------------------------------------------------------------------------

\* A step of client p: no other run and no other client's command is touched, and
\* nothing leaves crates.io or main.
StepOf(p) ==
    /\ \A s \in Runs \ {p} : /\ step'[s] = step[s] /\ tag'[s] = tag[s]
                             /\ todo'[s] = todo[s] /\ reason'[s] = reason[s]
                             /\ tries'[s] = tries[s]
                             /\ (s \in unlisted' <=> s \in unlisted)
    /\ unlisted \subseteq unlisted'
    /\ \A q \in Clients \ {p} : /\ probe'[q] = probe[q] /\ (q \in faulty' <=> q \in faulty)
                                /\ (q \in died' <=> q \in died)
    /\ \A c \in Crates : published[c] \subseteq published'[c]
    /\ main \subseteq main'

\* A run keeps its tag once it was started, and stays over once it may have uploaded.
KeepsTag(r) ==
    /\ step[r] # "waiting" => tag'[r] = tag[r]
    /\ step[r] \in {"owner", "succeeded", "failed"} => step'[r] \in {"owner", "succeeded", "failed"}

\* A tag and its dependencies are about crates that exist.
LEMMA TagType ==
    ASSUME TypeOK, NEW r \in Runs
    PROVE  /\ tag[r].crate \in Crates /\ tag[r].version \in Versions
           /\ tag[r].commit \in DOMAIN Manifest
           /\ Manifest[tag[r].commit][tag[r].crate] \in Versions
           /\ Requires[tag[r].crate][tag[r].version] \subseteq Requirement
<1>1. tag[r] \in [crate : Crates, version : Versions, commit : DOMAIN Manifest]
  BY ReleaseAssumption DEF TypeOK
<1>2. QED BY <1>1, ReleaseAssumption

\* The commands of the other clients stay truthful.
LEMMA OthersTruthful ==
    ASSUME RInv, NEW p \in Clients, StepOf(p), NEW q \in Clients \ {p}
    PROVE  Truthful(q)'
<1>1. probe[q] \in Probe
  BY DEF RInv, TypeOK, RegistryTypeOK
<1>2. probe[q].crate \in Crates
  BY <1>1 DEF Probe
<1>3. Truthful(q)
  BY DEF RInv
<1>4. published[probe[q].crate] \subseteq published'[probe[q].crate]
  BY <1>2 DEF StepOf
<1>5. probe'[q] = probe[q] /\ (q \in faulty' <=> q \in faulty) /\ (q \in died' <=> q \in died)
  BY DEF StepOf
<1>6. QED BY <1>3, <1>4, <1>5 DEF Truthful

\* The other runs know what they knew.
LEMMA OthersKnow ==
    ASSUME RInv, NEW p \in Clients, StepOf(p), NEW s \in Runs, s # p
    PROVE  RunInv(s)'
<1>1. RunInv(s) /\ s \in Clients /\ TypeOK
  BY ReleaseAssumption DEF RInv
<1>2. /\ step'[s] = step[s] /\ tag'[s] = tag[s] /\ todo'[s] = todo[s]
      /\ reason'[s] = reason[s] /\ tries'[s] = tries[s] /\ probe'[s] = probe[s]
      /\ (s \in faulty' <=> s \in faulty) /\ (s \in died' <=> s \in died)
      /\ (s \in unlisted' <=> s \in unlisted) /\ main \subseteq main'
  BY <1>1 DEF StepOf
<1>3. \A c \in Crates : published[c] \subseteq published'[c]
  BY DEF StepOf
<1>4. \A q \in Requires[tag[s].crate][tag[s].version] : Met(q) => Met(q)'
  BY <1>1, <1>3, TagType DEF Met, Requirement
<1>5. Asks(s)'
  BY <1>1, <1>2 DEF RunInv, Asks
<1>6. Verified(s)'
  BY <1>1, <1>2 DEF RunInv, Verified
<1>7. DepsInv(s)'
  BY <1>1, <1>2, <1>4 DEF RunInv, DepsInv
<1>8. ReasonInv(s)'
  BY <1>1, <1>2, <1>3, TagType DEF RunInv, ReasonInv
<1>9. TriesInv(s)'
  BY <1>1, <1>2 DEF RunInv, TriesInv
<1>10. QED BY <1>5, <1>6, <1>7, <1>8, <1>9 DEF RunInv

\* What was uploaded stays what was tagged.
LEMMA UploadsKept ==
    ASSUME RInv, NEW p \in Clients, StepOf(p), p \in Runs => KeepsTag(p), NEW u \in uploads
    PROVE  /\ u[2] = <<tag'[u[1]].crate, tag'[u[1]].version>>
           /\ tag'[u[1]].commit \in main' /\ tag'[u[1]].crate \in Publishable
           /\ step'[u[1]] \in {"owner", "succeeded", "failed"}
<1>1. u[1] \in Runs
  BY DEF RInv, TypeOK
<1>2. step[u[1]] \in {"owner", "succeeded", "failed"} /\ u[2] = <<tag[u[1]].crate, tag[u[1]].version>>
      /\ tag[u[1]].commit \in main /\ tag[u[1]].crate \in Publishable
  BY DEF RInv, UploadInv, OnlyWhatWasTagged
<1>3. step'[u[1]] \in {"owner", "succeeded", "failed"} /\ tag'[u[1]] = tag[u[1]]
  BY <1>1, <1>2 DEF KeepsTag, StepOf
<1>4. QED BY <1>2, <1>3 DEF StepOf

\* A step of one client that leaves crates.io as it is.
LEMMA QuietStep ==
    ASSUME RInv, NEW p \in Clients, StepOf(p), UNCHANGED <<published, served, uploads>>,
           TypeOK', Truthful(p)', p \in Runs => RunInv(p)' /\ KeepsTag(p)
    PROVE  RInv'
<1>1. \A q \in Clients : Truthful(q)'
  BY OthersTruthful
<1>2. \A r \in Runs : RunInv(r)'
  BY OthersKnow
<1>3. UploadInv'
  BY UploadsKept DEF UploadInv, OnlyWhatWasTagged
<1>4. ServedInv'
  BY DEF RInv, ServedInv
<1>5. DependenciesFirst'
  BY DEF RInv, DependenciesFirst, StepOf, Met
<1>6. QED BY <1>1, <1>2, <1>3, <1>4, <1>5 DEF RInv

-----------------------------------------------------------------------------

\* The approval.
LEMMA ApproveInv == ASSUME RInv, NEW r \in Runs, Approve(r) PROVE RInv'
<1> USE ReleaseAssumption DEF RInv, TypeOK, RegistryTypeOK
<1>1. r \in Clients /\ UNCHANGED <<registry, probes, unlisted, uploads>>
  BY DEF Approve
<1>2. StepOf(r)
  BY <1>1 DEF StepOf, registry, probes, Approve
<1>3. TypeOK'
  BY <1>1 DEF registry, probes, Steps, Reasons, RunInv, TriesInv, Approve
<1>4. Truthful(r)'
  BY <1>1 DEF Truthful, registry, probes
<1>5. RunInv(r)'
  <2>1. RunInv(r) /\ UNCHANGED <<published, probe, faulty, died>>
    BY <1>1 DEF registry, probes
  <2>2. Asks(r)'
    BY <2>1 DEF RunInv, Asks, Approve
  <2>3. Verified(r)'
    BY <2>1 DEF RunInv, Verified, Approve
  <2>4. DepsInv(r)'
    BY <2>1 DEF RunInv, Asks, DepsInv, Met, Approve
  <2>5. ReasonInv(r)'
    BY <2>1 DEF RunInv, ReasonInv, Approve
  <2>6. TriesInv(r)'
    BY <2>1 DEF RunInv, TriesInv, Approve
  <2>7. QED BY <2>2, <2>3, <2>4, <2>5, <2>6 DEF RunInv
<1>6. KeepsTag(r)
  BY DEF KeepsTag, Approve
<1> HIDE DEF RInv, TypeOK, RegistryTypeOK
<1>7. QED BY <1>1, <1>2, <1>3, <1>4, <1>5, <1>6, QuietStep DEF registry

\* The tag is parsed.
LEMMA ParseInv == ASSUME RInv, NEW r \in Runs, Parse(r) PROVE RInv'
<1> USE ReleaseAssumption DEF RInv, TypeOK, RegistryTypeOK
<1>1. r \in Clients /\ UNCHANGED <<registry, probes, unlisted, uploads>>
  BY DEF Parse, Check
<1>2. StepOf(r)
  BY <1>1 DEF StepOf, registry, probes, Parse, Check
<1>3. TypeOK'
  BY <1>1 DEF registry, probes, Steps, Reasons, RunInv, TriesInv, Parse, Check
<1>4. Truthful(r)'
  BY <1>1 DEF Truthful, registry, probes
<1>5. RunInv(r)'
  <2>1. RunInv(r) /\ UNCHANGED <<published, probe, faulty, died>>
    BY <1>1 DEF registry, probes
  <2>2. Asks(r)'
    BY <2>1 DEF RunInv, Asks, Parse, Check
  <2>3. Verified(r)'
    BY <2>1 DEF RunInv, Verified, Parse, Check
  <2>4. DepsInv(r)'
    BY <2>1 DEF RunInv, Asks, DepsInv, Met, Parse, Check
  <2>5. ReasonInv(r)'
    BY <2>1 DEF RunInv, ReasonInv, Parse, Check
  <2>6. TriesInv(r)'
    BY <2>1 DEF RunInv, TriesInv, Parse, Check
  <2>7. QED BY <2>2, <2>3, <2>4, <2>5, <2>6 DEF RunInv
<1>6. KeepsTag(r)
  BY DEF KeepsTag, Parse, Check
<1> HIDE DEF RInv, TypeOK, RegistryTypeOK
<1>7. QED BY <1>1, <1>2, <1>3, <1>4, <1>5, <1>6, QuietStep DEF registry

\* The manifest is compared.
LEMMA VerifyManifestInv == ASSUME RInv, NEW r \in Runs, VerifyManifest(r) PROVE RInv'
<1> USE ReleaseAssumption DEF RInv, TypeOK, RegistryTypeOK
<1>1. r \in Clients /\ UNCHANGED <<registry, probes, unlisted, uploads>>
  BY DEF VerifyManifest, Check
<1>2. StepOf(r)
  BY <1>1 DEF StepOf, registry, probes, VerifyManifest, Check
<1>3. TypeOK'
  BY <1>1 DEF registry, probes, Steps, Reasons, RunInv, TriesInv, VerifyManifest, Check
<1>4. Truthful(r)'
  BY <1>1 DEF Truthful, registry, probes
<1>5. RunInv(r)'
  <2>1. RunInv(r) /\ UNCHANGED <<published, probe, faulty, died>>
    BY <1>1 DEF registry, probes
  <2>2. Asks(r)'
    BY <2>1 DEF RunInv, Asks, VerifyManifest, Check
  <2>3. Verified(r)'
    BY <2>1 DEF RunInv, Verified, VerifyManifest, Check
  <2>4. DepsInv(r)'
    BY <2>1 DEF RunInv, Asks, DepsInv, Met, VerifyManifest, Check
  <2>5. ReasonInv(r)'
    BY <2>1 DEF RunInv, ReasonInv, VerifyManifest, Check
  <2>6. TriesInv(r)'
    BY <2>1 DEF RunInv, TriesInv, VerifyManifest, Check
  <2>7. QED BY <2>2, <2>3, <2>4, <2>5, <2>6 DEF RunInv
<1>6. KeepsTag(r)
  BY DEF KeepsTag, VerifyManifest, Check
<1> HIDE DEF RInv, TypeOK, RegistryTypeOK
<1>7. QED BY <1>1, <1>2, <1>3, <1>4, <1>5, <1>6, QuietStep DEF registry

\* Every dependency was asked for.
LEMMA DependenciesDoneInv == ASSUME RInv, NEW r \in Runs, DependenciesDone(r) PROVE RInv'
<1> USE ReleaseAssumption DEF RInv, TypeOK, RegistryTypeOK
<1>1. r \in Clients /\ UNCHANGED <<registry, probes, unlisted, uploads>>
  BY DEF DependenciesDone
<1>2. StepOf(r)
  BY <1>1 DEF StepOf, registry, probes, DependenciesDone
<1>3. TypeOK'
  BY <1>1 DEF registry, probes, Steps, Reasons, RunInv, TriesInv, DependenciesDone
<1>4. Truthful(r)'
  BY <1>1 DEF Truthful, registry, probes
<1>5. RunInv(r)'
  <2>1. RunInv(r) /\ UNCHANGED <<published, probe, faulty, died>>
    BY <1>1 DEF registry, probes
  <2>2. Asks(r)'
    BY <2>1 DEF RunInv, Asks, DependenciesDone
  <2>3. Verified(r)'
    BY <2>1 DEF RunInv, Verified, DependenciesDone
  <2>4. DepsInv(r)'
    BY <2>1 DEF RunInv, Asks, DepsInv, Met, DependenciesDone
  <2>5. ReasonInv(r)'
    BY <2>1 DEF RunInv, ReasonInv, DependenciesDone
  <2>6. TriesInv(r)'
    BY <2>1 DEF RunInv, TriesInv, DependenciesDone
  <2>7. QED BY <2>2, <2>3, <2>4, <2>5, <2>6 DEF RunInv
<1>6. KeepsTag(r)
  BY DEF KeepsTag, DependenciesDone
<1> HIDE DEF RInv, TypeOK, RegistryTypeOK
<1>7. QED BY <1>1, <1>2, <1>3, <1>4, <1>5, <1>6, QuietStep DEF registry

\* The dry run passes.
LEMMA DryRunPassesInv == ASSUME RInv, NEW r \in Runs, DryRunPasses(r) PROVE RInv'
<1> USE ReleaseAssumption DEF RInv, TypeOK, RegistryTypeOK
<1>1. r \in Clients /\ UNCHANGED <<registry, probes, unlisted, uploads>>
  BY DEF DryRunPasses
<1>2. StepOf(r)
  BY <1>1 DEF StepOf, registry, probes, DryRunPasses
<1>3. TypeOK'
  BY <1>1 DEF registry, probes, Steps, Reasons, RunInv, TriesInv, DryRunPasses
<1>4. Truthful(r)'
  BY <1>1 DEF Truthful, registry, probes
<1>5. RunInv(r)'
  <2>1. RunInv(r) /\ UNCHANGED <<published, probe, faulty, died>>
    BY <1>1 DEF registry, probes
  <2>2. Asks(r)'
    BY <2>1 DEF RunInv, Asks, DryRunPasses
  <2>3. Verified(r)'
    BY <2>1 DEF RunInv, Verified, DryRunPasses
  <2>4. DepsInv(r)'
    BY <2>1 DEF RunInv, Asks, DepsInv, Met, DryRunPasses
  <2>5. ReasonInv(r)'
    BY <2>1 DEF RunInv, ReasonInv, DryRunPasses
  <2>6. TriesInv(r)'
    BY <2>1 DEF RunInv, TriesInv, DryRunPasses
  <2>7. QED BY <2>2, <2>3, <2>4, <2>5, <2>6 DEF RunInv
<1>6. KeepsTag(r)
  BY DEF KeepsTag, DryRunPasses
<1> HIDE DEF RInv, TypeOK, RegistryTypeOK
<1>7. QED BY <1>1, <1>2, <1>3, <1>4, <1>5, <1>6, QuietStep DEF registry

\* The dry run fails.
LEMMA DryRunFailsInv == ASSUME RInv, NEW r \in Runs, DryRunFails(r) PROVE RInv'
<1> USE ReleaseAssumption DEF RInv, TypeOK, RegistryTypeOK
<1>1. r \in Clients /\ UNCHANGED <<registry, probes, unlisted, uploads>>
  BY DEF DryRunFails, Check
<1>2. StepOf(r)
  BY <1>1 DEF StepOf, registry, probes, DryRunFails, Check
<1>3. TypeOK'
  <2>1. tries[r] \in 0 .. Retries /\ tries[r] < Retries
    BY DEF RunInv, TriesInv, DryRunFails
  <2>2. tries[r] + 1 \in 0 .. Retries
    BY <2>1
  <2>3. tries' \in [Runs -> 0 .. Retries]
    BY <2>2 DEF DryRunFails
  <2>4. step' \in [Runs -> Steps] /\ reason' \in [Runs -> Reasons]
    BY DEF Steps, Reasons, DryRunFails, Check
  <2>5. \A s \in Runs : reason'[s] # "none" <=> step'[s] = "failed"
    BY DEF DryRunFails, Check
  <2>6. QED BY <1>1, <2>3, <2>4, <2>5 DEF registry, probes, DryRunFails
<1>4. Truthful(r)'
  BY <1>1 DEF Truthful, registry, probes
<1>5. RunInv(r)'
  <2>1. RunInv(r) /\ UNCHANGED <<published, probe, faulty, died>>
    BY <1>1 DEF registry, probes
  <2>2. Asks(r)'
    BY <2>1 DEF RunInv, Asks, DryRunFails, Check
  <2>3. Verified(r)'
    BY <2>1 DEF RunInv, Verified, DryRunFails, Check
  <2>4. DepsInv(r)'
    BY <2>1 DEF RunInv, Asks, DepsInv, Met, DryRunFails, Check
  <2>5. ReasonInv(r)'
    BY <2>1 DEF RunInv, ReasonInv, DryRunFails, Check
  <2>6. TriesInv(r)'
    BY <2>1 DEF RunInv, TriesInv, DryRunFails, Check
  <2>7. QED BY <2>2, <2>3, <2>4, <2>5, <2>6 DEF RunInv
<1>6. KeepsTag(r)
  BY DEF KeepsTag, DryRunFails, Check
<1> HIDE DEF RInv, TypeOK, RegistryTypeOK
<1>7. QED BY <1>1, <1>2, <1>3, <1>4, <1>5, <1>6, QuietStep DEF registry

\* cargo publish fails before its upload.
LEMMA PublishFailsInv == ASSUME RInv, NEW r \in Runs, PublishFails(r) PROVE RInv'
<1> USE ReleaseAssumption DEF RInv, TypeOK, RegistryTypeOK
<1>1. r \in Clients /\ UNCHANGED <<registry, probes, unlisted, uploads>>
  BY DEF PublishFails, Check
<1>2. StepOf(r)
  BY <1>1 DEF StepOf, registry, probes, PublishFails, Check
<1>3. TypeOK'
  BY <1>1 DEF registry, probes, Steps, Reasons, RunInv, TriesInv, PublishFails, Check
<1>4. Truthful(r)'
  BY <1>1 DEF Truthful, registry, probes
<1>5. RunInv(r)'
  <2>1. RunInv(r) /\ UNCHANGED <<published, probe, faulty, died>>
    BY <1>1 DEF registry, probes
  <2>2. Asks(r)'
    BY <2>1 DEF RunInv, Asks, PublishFails, Check
  <2>3. Verified(r)'
    BY <2>1 DEF RunInv, Verified, PublishFails, Check
  <2>4. DepsInv(r)'
    BY <2>1 DEF RunInv, Asks, DepsInv, Met, PublishFails, Check
  <2>5. ReasonInv(r)'
    BY <2>1 DEF RunInv, ReasonInv, PublishFails, Check
  <2>6. TriesInv(r)'
    BY <2>1 DEF RunInv, TriesInv, PublishFails, Check
  <2>7. QED BY <2>2, <2>3, <2>4, <2>5, <2>6 DEF RunInv
<1>6. KeepsTag(r)
  BY DEF KeepsTag, PublishFails, Check
<1> HIDE DEF RInv, TypeOK, RegistryTypeOK
<1>7. QED BY <1>1, <1>2, <1>3, <1>4, <1>5, <1>6, QuietStep DEF registry

\* The owner is added, or not.
LEMMA AddOwnerInv == ASSUME RInv, NEW r \in Runs, AddOwner(r) PROVE RInv'
<1> USE ReleaseAssumption DEF RInv, TypeOK, RegistryTypeOK
<1>1. r \in Clients /\ UNCHANGED <<registry, probes, unlisted, uploads>>
  BY DEF AddOwner
<1>2. StepOf(r)
  BY <1>1 DEF StepOf, registry, probes, AddOwner
<1>3. TypeOK'
  BY <1>1 DEF registry, probes, Steps, Reasons, RunInv, TriesInv, AddOwner
<1>4. Truthful(r)'
  BY <1>1 DEF Truthful, registry, probes
<1>5. RunInv(r)'
  <2>1. RunInv(r) /\ UNCHANGED <<published, probe, faulty, died>>
    BY <1>1 DEF registry, probes
  <2>2. Asks(r)'
    BY <2>1 DEF RunInv, Asks, AddOwner
  <2>3. Verified(r)'
    BY <2>1 DEF RunInv, Verified, AddOwner
  <2>4. DepsInv(r)'
    BY <2>1 DEF RunInv, Asks, DepsInv, Met, AddOwner
  <2>5. ReasonInv(r)'
    BY <2>1 DEF RunInv, ReasonInv, AddOwner
  <2>6. TriesInv(r)'
    BY <2>1 DEF RunInv, TriesInv, AddOwner
  <2>7. QED BY <2>2, <2>3, <2>4, <2>5, <2>6 DEF RunInv
<1>6. KeepsTag(r)
  BY DEF KeepsTag, AddOwner
<1> HIDE DEF RInv, TypeOK, RegistryTypeOK
<1>7. QED BY <1>1, <1>2, <1>3, <1>4, <1>5, <1>6, QuietStep DEF registry

-----------------------------------------------------------------------------

\* The ancestor check, and the start of ensure-absent.
LEMMA VerifyAncestorInv == ASSUME RInv, NEW r \in Runs, VerifyAncestor(r) PROVE RInv'
<1> USE ReleaseAssumption DEF RInv, TypeOK, RegistryTypeOK
<1>1. r \in Clients /\ UNCHANGED <<registry, unlisted, uploads>>
  BY DEF VerifyAncestor
<1>2. CASE tag[r].commit \notin main
  <2>1. UNCHANGED probes
    BY <1>2 DEF VerifyAncestor
  <2>2. StepOf(r) /\ KeepsTag(r)
    BY <1>1, <1>2, <2>1 DEF StepOf, KeepsTag, registry, probes, VerifyAncestor, Check
  <2>3. TypeOK'
    BY <1>1, <1>2, <2>1 DEF registry, probes, Steps, Reasons, VerifyAncestor, Check
  <2>4. Truthful(r)'
    BY <1>1, <2>1 DEF Truthful, registry, probes
  <2>5. Asks(r)' /\ Verified(r)' /\ TriesInv(r)'
    BY <1>1, <1>2, <2>1 DEF RunInv, Asks, Verified, TriesInv, probes, VerifyAncestor, Check
  <2>6. DepsInv(r)' /\ ReasonInv(r)'
    BY <1>1, <1>2, <2>1 DEF RunInv, DepsInv, ReasonInv, VerifyAncestor, Check
  <2>7. RunInv(r)'
    BY <2>5, <2>6 DEF RunInv
  <2> HIDE DEF RInv, TypeOK, RegistryTypeOK
  <2>8. QED BY <1>1, <2>2, <2>3, <2>4, <2>7, QuietStep DEF registry
<1>3. CASE tag[r].commit \in main
  <2> DEFINE p == [doing |-> "fetching", question |-> "absent", crate |-> tag[r].crate,
                   admits |-> {tag[r].version}, attempt |-> 1, polls |-> 0,
                   answer |-> "unreadable"]
  <2>1. probe' = [probe EXCEPT ![r] = p] /\ faulty' = faulty \ {r} /\ died' = died \ {r}
    BY <1>3 DEF VerifyAncestor, Ask
  <2>2. p \in Probe
    BY TagType, RegistryAssumption DEF Probe, Answers
  <2>3. probe'[r] = p
    BY <1>1, <2>1
  <2>4. step' = [step EXCEPT ![r] = "absent"] /\ step[r] = "ancestor"
        /\ UNCHANGED <<main, tag, todo, tries, reason>>
    BY <1>3 DEF VerifyAncestor
  <2>5. StepOf(r) /\ KeepsTag(r)
    BY <1>1, <2>1, <2>4 DEF StepOf, KeepsTag, registry
  <2>6. TypeOK'
    BY <1>1, <2>1, <2>2, <2>4 DEF registry, Steps, Reasons
  <2>7. Truthful(r)'
    BY <2>1, <2>3 DEF Truthful
  <2>8. Asks(r)'
    BY <2>3, <2>4 DEF Asks
  <2>9. Verified(r)' /\ TriesInv(r)'
    BY <1>3, <2>4 DEF RunInv, Verified, TriesInv
  <2>10. DepsInv(r)'
    BY <2>4 DEF DepsInv
  <2>11. ReasonInv(r)'
    BY <1>1, <2>1, <2>4 DEF ReasonInv
  <2>12. RunInv(r)'
    BY <2>8, <2>9, <2>10, <2>11 DEF RunInv
  <2> HIDE DEF RInv, TypeOK, RegistryTypeOK
  <2>13. QED BY <1>1, <2>5, <2>6, <2>7, <2>12, QuietStep DEF registry
<1>4. QED BY <1>2, <1>3

\* ensure-absent has answered.
LEMMA EnsureAbsentInv == ASSUME RInv, NEW r \in Runs, EnsureAbsent(r) PROVE RInv'
<1> USE ReleaseAssumption DEF RInv, TypeOK, RegistryTypeOK
<1>1. /\ r \in Clients /\ UNCHANGED <<registry, faulty, died, main, tag, todo, tries, unlisted, uploads>>
      /\ step[r] = "absent" /\ probe[r].doing = "answered"
      /\ probe' = [probe EXCEPT ![r] = NoProbe]
  BY DEF EnsureAbsent
<1>2. probe'[r].doing = "idle" /\ probe' \in [Clients -> Probe]
  BY <1>1, NoProbeType
<1>4. step'[r] \in {"list", "failed"} /\ step' \in [Runs -> Steps]
  BY DEF EnsureAbsent, Check, Steps
<1>5. StepOf(r) /\ KeepsTag(r)
  BY <1>1 DEF StepOf, KeepsTag, registry, EnsureAbsent, Check
<1>6. TypeOK'
  <2>1. reason' \in [Runs -> Reasons] /\ \A s \in Runs : reason'[s] # "none" <=> step'[s] = "failed"
    BY DEF EnsureAbsent, Check, Reasons
  <2>2. QED BY <1>1, <1>2, <1>4, <2>1 DEF registry
<1>7. Truthful(r)'
  BY <1>2 DEF Truthful
<1>8. ReasonInv(r)'
  <2>1. Truthful(r) /\ Asks(r)
    BY <1>1 DEF RunInv
  <2>2. probe[r].question = "absent" /\ probe[r].crate = tag[r].crate
        /\ probe[r].admits = {tag[r].version} /\ probe[r].answer \in Answers
    BY <1>1, <2>1 DEF Asks, Probe
  <2>3. CASE probe[r].answer = "yes"
    BY <1>1, <2>3 DEF ReasonInv, EnsureAbsent, Check
  <2>4. CASE probe[r].answer = "no"
    <3>1. tag[r].version \in published[tag[r].crate] /\ r \notin faulty
      BY <1>1, <2>1, <2>2, <2>4 DEF Truthful
    <3>2. reason'[r] = "published"
      BY <2>4 DEF EnsureAbsent, Check
    <3>3. QED BY <1>1, <3>1, <3>2 DEF ReasonInv, registry
  <2>5. CASE probe[r].answer = "unreadable"
    BY <1>1, <2>1, <2>5 DEF ReasonInv, Truthful, EnsureAbsent, Check
  <2>6. CASE probe[r].answer = "died"
    BY <1>1, <2>6 DEF ReasonInv, EnsureAbsent, Check
  <2>7. QED BY <2>2, <2>3, <2>4, <2>5, <2>6 DEF Answers
<1>9. Asks(r)' /\ Verified(r)' /\ TriesInv(r)'
  BY <1>1, <1>2, <1>4 DEF RunInv, Asks, Verified, TriesInv
<1>10. DepsInv(r)'
  BY <1>1, <1>4 DEF DepsInv
<1>11. RunInv(r)'
  BY <1>8, <1>9, <1>10 DEF RunInv
<1> HIDE DEF RInv, TypeOK, RegistryTypeOK
<1>12. QED BY <1>1, <1>5, <1>6, <1>7, <1>11, QuietStep DEF registry

\* The dependencies are listed, or not.
LEMMA ListDependenciesInv == ASSUME RInv, NEW r \in Runs, ListDependencies(r) PROVE RInv'
<1> USE ReleaseAssumption DEF RInv, TypeOK, RegistryTypeOK
<1>1. /\ r \in Clients /\ UNCHANGED <<registry, probes, main, tag, tries, reason, uploads>>
      /\ step[r] = "list" /\ step' = [step EXCEPT ![r] = "deps"]
  BY DEF ListDependencies
<1>2. \/ /\ todo' = [todo EXCEPT ![r] = Requires[tag[r].crate][tag[r].version]]
         /\ unlisted' = unlisted
      \/ todo' = [todo EXCEPT ![r] = {}] /\ unlisted' = unlisted \cup {r}
  BY DEF ListDependencies
<1>3. todo' \in [Runs -> SUBSET Requirement] /\ unlisted' \subseteq Runs
  BY <1>2, TagType
<1>4. StepOf(r) /\ KeepsTag(r)
  BY <1>1, <1>2 DEF StepOf, KeepsTag, registry, probes
<1>5. TypeOK'
  <2>1. step' \in [Runs -> Steps] /\ \A s \in Runs : reason'[s] # "none" <=> step'[s] = "failed"
    BY <1>1 DEF Steps
  <2>2. QED BY <1>1, <1>3, <2>1 DEF registry, probes
<1>6. Truthful(r)'
  BY <1>1 DEF Truthful, registry, probes
<1>7. Asks(r)' /\ Verified(r)' /\ TriesInv(r)'
  BY <1>1 DEF RunInv, Asks, Verified, TriesInv, probes
<1>8. ReasonInv(r)'
  BY <1>1 DEF ReasonInv
<1>9. DepsInv(r)'
  BY <1>1, <1>2 DEF DepsInv
<1>10. RunInv(r)'
  BY <1>7, <1>8, <1>9 DEF RunInv
<1> HIDE DEF RInv, TypeOK, RegistryTypeOK
<1>11. QED BY <1>1, <1>4, <1>5, <1>6, <1>10, QuietStep DEF registry

\* The job breaks off.
LEMMA AbortInv == ASSUME RInv, NEW r \in Runs, Abort(r) PROVE RInv'
<1> USE ReleaseAssumption DEF RInv, TypeOK, RegistryTypeOK
<1>1. /\ r \in Clients
      /\ UNCHANGED <<registry, faulty, died, main, tag, todo, tries, unlisted, uploads>>
      /\ probe' = [probe EXCEPT ![r] = NoProbe]
      /\ step' = [step EXCEPT ![r] = "failed"] /\ reason' = [reason EXCEPT ![r] = "broken"]
      /\ step[r] # "waiting"
  BY DEF Abort, Active, Check
<1>2. probe'[r].doing = "idle" /\ probe' \in [Clients -> Probe]
  BY <1>1, NoProbeType
<1>3. StepOf(r) /\ KeepsTag(r)
  BY <1>1 DEF StepOf, KeepsTag, registry
<1>4. TypeOK'
  <2>1. step' \in [Runs -> Steps] /\ reason' \in [Runs -> Reasons]
    BY <1>1 DEF Steps, Reasons
  <2>2. \A s \in Runs : reason'[s] # "none" <=> step'[s] = "failed"
    BY <1>1
  <2>3. QED BY <1>1, <1>2, <2>1, <2>2 DEF registry
<1>5. Truthful(r)'
  BY <1>2 DEF Truthful
<1>6. Asks(r)' /\ Verified(r)' /\ TriesInv(r)' /\ DepsInv(r)' /\ ReasonInv(r)'
  BY <1>1, <1>2 DEF Asks, Verified, TriesInv, DepsInv, ReasonInv
<1>7. RunInv(r)'
  BY <1>6 DEF RunInv
<1> HIDE DEF RInv, TypeOK, RegistryTypeOK
<1>8. QED BY <1>1, <1>3, <1>4, <1>5, <1>7, QuietStep DEF registry

\* A dependency is asked for.
LEMMA AskDependencyInv == ASSUME RInv, NEW r \in Runs, AskDependency(r) PROVE RInv'
<1> USE ReleaseAssumption DEF RInv, TypeOK, RegistryTypeOK
<1>1. PICK q \in todo[r] : /\ todo' = [todo EXCEPT ![r] = @ \ {q}]
                           /\ Ask(r, "require", q.dep, q.admits, 0)
  BY DEF AskDependency
<1>2. /\ r \in Clients /\ UNCHANGED <<registry, main, step, tag, tries, reason, unlisted, uploads>>
      /\ step[r] = "deps" /\ probe[r].doing = "idle" /\ q \in Requirement
  BY DEF AskDependency
<1> DEFINE p == [doing |-> "fetching", question |-> "require", crate |-> q.dep,
                 admits |-> q.admits, attempt |-> 1, polls |-> 0, answer |-> "unreadable"]
<1>3. probe' = [probe EXCEPT ![r] = p] /\ faulty' = faulty \ {r} /\ died' = died \ {r}
  BY <1>1 DEF Ask
<1>4. p \in Probe
  BY <1>2, RegistryAssumption DEF Probe, Answers, Requirement
<1>5. probe'[r] = p
  BY <1>2, <1>3
<1>6. StepOf(r) /\ KeepsTag(r)
  BY <1>1, <1>2, <1>3 DEF StepOf, KeepsTag, registry
<1>7. TypeOK'
  BY <1>1, <1>2, <1>3, <1>4 DEF registry
<1>8. Truthful(r)'
  BY <1>3, <1>5 DEF Truthful
<1>9. Asks(r)' /\ Verified(r)' /\ TriesInv(r)'
  <2>1. step'[r] = "deps" /\ probe'[r].question = "require"
    BY <1>2, <1>5
  <2>2. Asks(r)'
    BY <2>1 DEF Asks
  <2>3. QED BY <1>2, <2>2 DEF RunInv, Verified, TriesInv
<1>10. ReasonInv(r)'
  BY <1>2, <1>3 DEF ReasonInv
<1>11. DepsInv(r)'
  <2>1. ASSUME NEW d \in Requires[tag[r].crate][tag[r].version], r \notin unlisted
        PROVE  d \in todo'[r] \/ Met(d)' \/ (probe'[r].doing # "idle" /\ probe'[r].crate = d.dep
                                             /\ probe'[r].admits = d.admits)
    <3>1. d \in todo[r] \/ Met(d)
      BY <1>2, <2>1 DEF RunInv, DepsInv
    <3>2. CASE d = q
      BY <1>5, <3>2
    <3>3. CASE d # q
      BY <1>1, <1>2, <3>1, <3>3 DEF Met, registry
    <3>4. QED BY <3>2, <3>3
  <2>2. QED BY <1>2, <2>1 DEF DepsInv
<1>12. RunInv(r)'
  BY <1>9, <1>10, <1>11 DEF RunInv
<1> HIDE DEF RInv, TypeOK, RegistryTypeOK
<1>13. QED BY <1>2, <1>6, <1>7, <1>8, <1>12, QuietStep DEF registry

\* require has answered about a dependency.
LEMMA RequireDependencyInv == ASSUME RInv, NEW r \in Runs, RequireDependency(r) PROVE RInv'
<1> USE ReleaseAssumption DEF RInv, TypeOK, RegistryTypeOK
<1>1. /\ r \in Clients /\ UNCHANGED <<registry, faulty, died, main, tag, todo, tries, unlisted, uploads>>
      /\ step[r] = "deps" /\ probe[r].doing = "answered"
      /\ probe' = [probe EXCEPT ![r] = NoProbe]
  BY DEF RequireDependency
<1>2. probe'[r].doing = "idle" /\ probe' \in [Clients -> Probe]
  BY <1>1, NoProbeType
<1>3. step'[r] \in {"deps", "failed"} /\ step' \in [Runs -> Steps]
  BY DEF RequireDependency, Check, Steps
<1>4. StepOf(r) /\ KeepsTag(r)
  BY <1>1 DEF StepOf, KeepsTag, registry, RequireDependency, Check
<1>5. TypeOK'
  <2>1. reason' \in [Runs -> Reasons] /\ \A s \in Runs : reason'[s] # "none" <=> step'[s] = "failed"
    BY DEF RequireDependency, Check, Reasons
  <2>2. QED BY <1>1, <1>2, <1>3, <2>1 DEF registry
<1>6. Truthful(r) /\ Asks(r) /\ probe[r].question = "require" /\ probe[r].answer \in Answers
  BY <1>1 DEF RunInv, Asks, Probe
<1>7. Truthful(r)'
  BY <1>2 DEF Truthful
<1>8. ReasonInv(r)'
  <2>1. CASE probe[r].answer = "yes"
    BY <1>1, <2>1 DEF ReasonInv, RequireDependency, Check
  <2>2. CASE probe[r].answer = "no"
    BY <1>1, <1>6, <2>2 DEF ReasonInv, Truthful, RequireDependency, Check
  <2>3. CASE probe[r].answer = "unreadable"
    BY <1>1, <1>6, <2>3 DEF ReasonInv, Truthful, RequireDependency, Check
  <2>4. CASE probe[r].answer = "died"
    BY <1>1, <1>6, <2>4 DEF ReasonInv, Truthful, RequireDependency, Check
  <2>5. QED BY <1>6, <2>1, <2>2, <2>3, <2>4 DEF Answers
<1>9. Asks(r)' /\ Verified(r)' /\ TriesInv(r)'
  BY <1>1, <1>2, <1>3 DEF RunInv, Asks, Verified, TriesInv
<1>10. DepsInv(r)'
  <2>1. SUFFICES ASSUME NEW d \in Requires[tag[r].crate][tag[r].version], step'[r] = "deps",
                        r \notin unlisted
                 PROVE  d \in todo[r] \/ Met(d)
    BY <1>1, <1>3 DEF DepsInv, Met, registry
  <2>2. probe[r].answer = "yes"
    BY <2>1 DEF RequireDependency, Check
  <2>3. d \in todo[r] \/ Met(d) \/ (probe[r].crate = d.dep /\ probe[r].admits = d.admits)
    BY <1>1, <2>1 DEF RunInv, DepsInv
  <2>4. published[probe[r].crate] \cap probe[r].admits # {}
    BY <1>1, <1>6, <2>2 DEF Truthful
  <2>5. QED BY <2>3, <2>4 DEF Met
<1>11. RunInv(r)'
  BY <1>8, <1>9, <1>10 DEF RunInv
<1> HIDE DEF RInv, TypeOK, RegistryTypeOK
<1>12. QED BY <1>1, <1>4, <1>5, <1>7, <1>11, QuietStep DEF registry

\* A release is published.
LEMMA StartInv == ASSUME RInv, NEW r \in Runs, NEW t \in Tags, Start(r, t) PROVE RInv'
<1> USE ReleaseAssumption DEF RInv, TypeOK, RegistryTypeOK
<1>1. /\ r \in Clients /\ UNCHANGED <<registry, probes, main, todo, tries, reason, unlisted, uploads>>
      /\ step[r] = "waiting" /\ step' = [step EXCEPT ![r] = "approval"]
      /\ tag' = [tag EXCEPT ![r] = t]
  BY DEF Start
<1>2. StepOf(r) /\ KeepsTag(r)
  BY <1>1 DEF StepOf, KeepsTag, registry, probes
<1>3. TypeOK'
  BY <1>1 DEF registry, probes, Steps
<1>4. Truthful(r)'
  BY <1>1 DEF Truthful, registry, probes
<1>5. Asks(r)' /\ Verified(r)' /\ TriesInv(r)'
  BY <1>1 DEF RunInv, Asks, Verified, TriesInv, probes
<1>6. DepsInv(r)' /\ ReasonInv(r)'
  BY <1>1 DEF DepsInv, ReasonInv
<1>7. RunInv(r)'
  BY <1>5, <1>6 DEF RunInv
<1> HIDE DEF RInv, TypeOK, RegistryTypeOK
<1>8. QED BY <1>1, <1>2, <1>3, <1>4, <1>7, QuietStep DEF registry

\* cargo publish uploads.
LEMMA PublishInv == ASSUME RInv, NEW r \in Runs, Publish(r) PROVE RInv'
<1> USE ReleaseAssumption DEF RInv, TypeOK, RegistryTypeOK
<1> DEFINE c == tag[r].crate
           v == tag[r].version
<1>1. /\ r \in Clients /\ step[r] = "publish" /\ UNCHANGED <<yanked, served, probes, main>>
      /\ UNCHANGED <<tag, todo, tries, unlisted>>
  BY DEF Publish
<1>2. c \in Crates /\ v \in Versions /\ Requires[c][v] \subseteq Requirement
  BY TagType
<1>3. Asks(r) /\ Verified(r) /\ DepsInv(r)
  BY DEF RunInv
<1>4. Manifest[tag[r].commit][c] = v
  BY <1>1, <1>3 DEF Verified
<1>5. published' = [published EXCEPT ![c] = @ \cup {v}] /\ uploads' = uploads \cup {<<r, <<c, v>>>>}
  BY <1>4 DEF Publish
<1>6. /\ step' \in [Runs -> Steps] /\ reason' \in [Runs -> Reasons]
      /\ step'[r] \in {"owner", "failed"} /\ reason'[r] \in {"none", "cargo"}
      /\ \A s \in Runs : reason'[s] # "none" <=> step'[s] = "failed"
      /\ \A s \in Runs \ {r} : step'[s] = step[s] /\ reason'[s] = reason[s]
  BY DEF Publish, Check, Steps, Reasons
<1>7. \A d \in Crates : published[d] \subseteq published'[d]
  BY <1>2, <1>5
<1>8. StepOf(r) /\ KeepsTag(r)
  BY <1>1, <1>6, <1>7 DEF StepOf, KeepsTag, probes
<1>9. TypeOK'
  <2>1. uploads' \subseteq Runs \X Release
    BY <1>2, <1>5 DEF Release
  <2>2. published' \in [Crates -> SUBSET Versions]
    BY <1>2, <1>5
  <2>3. \A d \in Crates : yanked'[d] \subseteq published'[d]
    BY <1>1, <1>7
  <2>4. QED BY <1>1, <1>6, <2>1, <2>2, <2>3 DEF probes
<1>10. ServedInv'
  BY <1>1, <1>7 DEF ServedInv
<1>11. \A q \in Clients : Truthful(q)'
  <2>1. Truthful(r)'
    BY <1>1, <1>3 DEF Asks, Truthful, probes
  <2> HIDE DEF RInv
  <2>2. QED BY <1>1, <1>8, <2>1, OthersTruthful
<1>12. \A s \in Runs : RunInv(s)'
  <2>1. Asks(r)' /\ Verified(r)' /\ TriesInv(r)'
    BY <1>1, <1>3, <1>6 DEF Asks, Verified, TriesInv, probes
  <2>2. DepsInv(r)' /\ ReasonInv(r)'
    BY <1>6 DEF DepsInv, ReasonInv
  <2> HIDE DEF RInv
  <2>3. QED BY <1>1, <1>8, <2>1, <2>2, OthersKnow DEF RunInv
<1>13. UploadInv'
  <2>1. tag'[r].commit \in main' /\ tag'[r].crate \in Publishable
        /\ step'[r] \in {"owner", "succeeded", "failed"}
    BY <1>1, <1>3, <1>6 DEF Verified
  <2>2. \A u \in uploads : /\ u[2] = <<tag'[u[1]].crate, tag'[u[1]].version>>
                           /\ tag'[u[1]].commit \in main' /\ tag'[u[1]].crate \in Publishable
                           /\ step'[u[1]] \in {"owner", "succeeded", "failed"}
    <3> HIDE DEF RInv
    <3>1. QED BY <1>1, <1>8, UploadsKept
  <2>3. QED BY <1>1, <1>5, <2>1, <2>2 DEF UploadInv, OnlyWhatWasTagged
<1>14. DependenciesFirst'
  <2>1. SUFFICES ASSUME NEW u \in uploads', u[1] \notin unlisted,
                        NEW q \in Requires[u[2][1]][u[2][2]]
                 PROVE  Met(q)'
    BY <1>1 DEF DependenciesFirst
  <2>2. u[2][1] \in Crates /\ u[2][2] \in Versions
    BY <1>9 DEF Release
  <2>3. Met(q)
    <3>1. CASE u \in uploads
      BY <2>1, <3>1 DEF DependenciesFirst
    <3>2. CASE u \notin uploads
      <4>1. u[1] = r /\ u[2][1] = c /\ u[2][2] = v
        BY <1>5, <3>2
      <4>2. QED BY <1>1, <1>3, <2>1, <4>1 DEF DepsInv
    <3>3. QED BY <3>1, <3>2
  <2>4. q.dep \in Crates
    BY <2>2 DEF Requirement
  <2>5. QED BY <1>7, <2>3, <2>4 DEF Met
<1>15. QED BY <1>9, <1>10, <1>11, <1>12, <1>13, <1>14

\* A commit is merged.
LEMMA MergeInv == ASSUME RInv, NEW k \in DOMAIN Manifest, Merge(k) PROVE RInv'
<1> USE DEF RInv
<1>1. UNCHANGED <<registry, probes, step, tag, todo, tries, reason, unlisted, uploads>> /\ main' = main \cup {k}
  BY DEF Merge
<1>2. TypeOK'
  BY <1>1 DEF TypeOK, RegistryTypeOK, registry, probes
<1>3. ServedInv' /\ DependenciesFirst'
  BY <1>1 DEF ServedInv, DependenciesFirst, Met, registry
<1>4. \A p \in Clients : Truthful(p)'
  BY <1>1 DEF Truthful, registry, probes
<1>5. ASSUME NEW r \in Runs PROVE RunInv(r)'
  <2>1. Asks(r)' /\ Verified(r)' /\ ReasonInv(r)' /\ TriesInv(r)'
    BY <1>1 DEF RunInv, Asks, Verified, ReasonInv, TriesInv, registry, probes
  <2>2. DepsInv(r)'
    BY <1>1 DEF RunInv, DepsInv, Met, registry, probes
  <2>3. QED BY <2>1, <2>2 DEF RunInv
<1>6. UploadInv'
  BY <1>1 DEF UploadInv, OnlyWhatWasTagged
<1>7. QED BY <1>2, <1>3, <1>4, <1>5, <1>6

\* An operator runs the command.
LEMMA OperateInv == ASSUME RInv, NEW p \in Operators, Operate(p) PROVE RInv'
<1> USE ReleaseAssumption DEF RInv, TypeOK, RegistryTypeOK
<1>1. PICK c \in Crates, v \in Versions : Ask(p, "require", c, {v}, MaxPolls)
  BY DEF Operate
<1>2. p \in Clients /\ p \notin Runs /\ UNCHANGED <<registry, release>>
  BY DEF Operate
<1> DEFINE m == [doing |-> "fetching", question |-> "require", crate |-> c, admits |-> {v},
                 attempt |-> 1, polls |-> MaxPolls, answer |-> "unreadable"]
<1>3. probe' = [probe EXCEPT ![p] = m] /\ faulty' = faulty \ {p} /\ died' = died \ {p}
  BY <1>1 DEF Ask
<1>4. m \in Probe
  BY RegistryAssumption DEF Probe, Answers
<1>5. StepOf(p)
  BY <1>2, <1>3 DEF StepOf, registry, release
<1>6. TypeOK'
  BY <1>2, <1>3, <1>4 DEF registry, release
<1>7. Truthful(p)'
  BY <1>2, <1>3 DEF Truthful
<1> HIDE DEF RInv, TypeOK, RegistryTypeOK
<1>8. QED BY <1>2, <1>5, <1>6, <1>7, QuietStep DEF registry, release

\* A client looks the index up.
LEMMA LookupInv == ASSUME RInv, NEW p \in Clients, Lookup(p) PROVE RInv'
<1>1. Looks(p) /\ UNCHANGED <<registry, release>>
  BY LookupLooks DEF RInv, TypeOK
<1>2. StepOf(p)
  BY <1>1, ReleaseAssumption DEF StepOf, Looks, registry, release
<1>3. TypeOK'
  BY <1>1 DEF RInv, TypeOK, RegistryTypeOK, Looks, registry, release
<1>4. Truthful(p)'
  BY <1>1 DEF Looks
<1>5. ASSUME p \in Runs PROVE RunInv(p)' /\ KeepsTag(p)
  <2>1. RunInv(p) /\ (reason[p] # "none" <=> step[p] = "failed")
    BY <1>5 DEF RInv, TypeOK
  <2>2. step[p] \in {"absent", "deps"}
    BY <1>1, <2>1 DEF RunInv, Asks, Looks
  <2>3. Asks(p)' /\ Verified(p)' /\ TriesInv(p)'
    BY <1>1, <2>1 DEF RunInv, Asks, Verified, TriesInv, Looks, release
  <2>4. DepsInv(p)'
    BY <1>1, <2>1 DEF RunInv, DepsInv, Met, Looks, release, registry
  <2>5. ReasonInv(p)'
    BY <1>1, <2>1, <2>2 DEF ReasonInv, release
  <2>6. KeepsTag(p)
    BY <1>1 DEF KeepsTag, release
  <2>7. QED BY <2>3, <2>4, <2>5, <2>6 DEF RunInv
<1>6. QED BY <1>1, <1>2, <1>3, <1>4, <1>5, QuietStep DEF registry, release

\* A yank, or the index catching up.
LEMMA RegistryInv == ASSUME RInv, Withdraw \/ CatchUp PROVE RInv'
<1> USE DEF RInv
<1>1. UNCHANGED <<published, probes, release>>
  BY DEF Withdraw, CatchUp, Yank, Refresh
<1>2. RegistryTypeOK' /\ ServedInv'
  <2>1. CASE Withdraw
    BY <1>1, <2>1 DEF Withdraw, Yank, TypeOK, RegistryTypeOK, ServedInv, probes
  <2>2. CASE CatchUp
    <3>1. PICK c \in Crates : Refresh(c)
      BY <2>2 DEF CatchUp
    <3>2. Entry(c) \in [all : SUBSET Versions, live : SUBSET Versions]
          /\ Entry(c).all \subseteq published[c] /\ Entry(c).live \subseteq published[c]
      BY DEF Entry, TypeOK, RegistryTypeOK
    <3>3. served' = [served EXCEPT ![c] = Entry(c)] /\ UNCHANGED yanked
      BY <3>1 DEF Refresh
    <3>4. QED BY <1>1, <3>2, <3>3 DEF TypeOK, RegistryTypeOK, ServedInv, probes
  <2>3. QED BY <2>1, <2>2
<1>3. TypeOK'
  BY <1>1, <1>2 DEF TypeOK, release
<1>4. \A p \in Clients : Truthful(p)'
  BY <1>1 DEF Truthful, probes
<1>5. ASSUME NEW r \in Runs PROVE RunInv(r)'
  BY <1>1 DEF RunInv, Asks, Verified, DepsInv, Met, ReasonInv, TriesInv, release, probes
<1>6. UploadInv' /\ DependenciesFirst'
  BY <1>1 DEF UploadInv, OnlyWhatWasTagged, DependenciesFirst, Met, release
<1>7. QED BY <1>2, <1>3, <1>4, <1>5, <1>6

\* A step that changes nothing.
LEMMA StutterInv == ASSUME RInv, UNCHANGED vars PROVE RInv'
<1> USE DEF RInv, vars, registry, probes, release
<1>1. TypeOK' /\ ServedInv' /\ DependenciesFirst'
  BY DEF TypeOK, RegistryTypeOK, ServedInv, DependenciesFirst, Met
<1>2. \A p \in Clients : Truthful(p)'
  BY DEF Truthful
<1>3. ASSUME NEW r \in Runs PROVE RunInv(r)'
  BY DEF RunInv, Asks, Verified, DepsInv, Met, ReasonInv, TriesInv
<1>4. UploadInv'
  BY DEF UploadInv, OnlyWhatWasTagged
<1>5. QED BY <1>1, <1>2, <1>3, <1>4

-----------------------------------------------------------------------------

\* Every step of the release pipeline preserves the invariant.
LEMMA NextInv == RInv /\ [Next]_vars => RInv'
<1> SUFFICES ASSUME RInv, [Next]_vars PROVE RInv'
  OBVIOUS
<1>1. ASSUME NEW r \in Runs, Proceed(r) PROVE RInv'
  BY <1>1, ApproveInv, ParseInv, VerifyManifestInv, VerifyAncestorInv, EnsureAbsentInv,
     ListDependenciesInv, AbortInv, AskDependencyInv, RequireDependencyInv, DependenciesDoneInv, DryRunPassesInv,
     DryRunFailsInv, PublishInv, PublishFailsInv, AddOwnerInv DEF Proceed
<1>2. CASE AllDone \/ UNCHANGED vars
  BY <1>2, StutterInv DEF AllDone
<1>3. QED BY <1>1, <1>2, MergeInv, StartInv, OperateInv, LookupInv, RegistryInv DEF Next

\* The invariant holds in every behaviour.
THEOREM Invariance == Spec => []RInv
BY InitInv, NextInv, PTL DEF Spec

\* Every state has its type: no run tries the dry run more often than it may, and
\* a run has a reason exactly if it failed.
THEOREM TypeCorrect == Spec => []TypeOK
<1>1. RInv => TypeOK
  BY DEF RInv
<1>2. QED BY <1>1, Invariance, PTL

\* What is on crates.io is what a Release said, from a commit on main, whatever
\* runs overlap and whichever cargo commands fail (on-release-published.yml:51-73).
THEOREM TaggedOnly == Spec => []OnlyWhatWasTagged
<1>1. RInv => OnlyWhatWasTagged
  BY DEF RInv, UploadInv
<1>2. QED BY <1>1, Invariance, PTL

\* A version is published after what it depends on, however stale the index is,
\* by every run that could list its dependencies (CONTRIBUTING.md:109-117,
\* on-release-published.yml:81-101).
THEOREM DependenciesOrdered == Spec => []DependenciesFirst
<1>1. RInv => DependenciesFirst
  BY DEF RInv
<1>2. QED BY <1>1, Invariance, PTL

\* What a run or a command says of the registry was read there
\* (registry.rs:3-4, 146-147).
THEOREM AnswersHonest == Spec => []HonestAnswer
<1>1. RInv => HonestAnswer
  BY DEF RInv, RunInv, ReasonInv, Truthful, HonestAnswer
<1>2. QED BY <1>1, Invariance, PTL

-----------------------------------------------------------------------------
(* The pipeline implements Publication: the checks of a run, made steps ago on *)
(* what the index served then, are true of crates.io as its upload is accepted.*)

\* The versions that runs put on without knowing what they require.
Blind == {u[2] : u \in {x \in uploads : x[1] \in unlisted}}

Shelf == INSTANCE Publication WITH blind <- Blind

shelf == <<main, published, Blind>>

\* An upload puts the version of the tag on the shelf.
LEMMA PublishShelves ==
    ASSUME RInv, NEW r \in Runs, Publish(r)
    PROVE  Shelf!Publish(tag[r])
<1>1. step[r] = "publish" /\ Verified(r) /\ DepsInv(r)
  BY DEF Publish, RInv, RunInv
<1>2. /\ tag[r].crate \in Publishable /\ tag[r].commit \in main
      /\ Manifest[tag[r].commit][tag[r].crate] = tag[r].version
  BY <1>1 DEF Verified
<1>3. /\ tag[r].version \notin published[tag[r].crate]
      /\ published' = [published EXCEPT ![tag[r].crate] = @ \cup {tag[r].version}]
      /\ uploads' = uploads \cup {<<r, <<tag[r].crate, tag[r].version>>>>}
      /\ UNCHANGED <<main, unlisted>>
  BY <1>2 DEF Publish
<1>4. CASE r \notin unlisted
  <2>1. \A q \in Requires[tag[r].crate][tag[r].version] : published[q.dep] \cap q.admits # {}
    BY <1>1, <1>4 DEF DepsInv, Met
  <2>2. Blind' = Blind
    BY <1>3, <1>4 DEF Blind
  <2>3. QED
    BY <1>2, <1>3, <2>1, <2>2 DEF Shelf!Publish
<1>5. CASE r \in unlisted
  <2>1. Blind' = Blind \cup {<<tag[r].crate, tag[r].version>>}
    <3>1. PICK new : new = <<r, <<tag[r].crate, tag[r].version>>>>
      OBVIOUS
    <3>2. PICK old : old = {x \in uploads : x[1] \in unlisted}
      OBVIOUS
    <3>3. new[1] = r /\ new[2] = <<tag[r].crate, tag[r].version>>
      BY <3>1
    <3>4. {x \in uploads' : x[1] \in unlisted'} = old \cup {new}
      BY <1>3, <1>5, <3>1, <3>2, <3>3
    <3>5. Blind = {x[2] : x \in old} /\ Blind' = {x[2] : x \in old \cup {new}}
      BY <3>2, <3>4 DEF Blind
    <3>6. {x[2] : x \in old \cup {new}} = {x[2] : x \in old} \cup {new[2]}
      OBVIOUS
    <3>7. QED
      BY <3>3, <3>5, <3>6
  <2>2. QED
    BY <1>2, <1>3, <2>1 DEF Shelf!Publish
<1>6. QED
  BY <1>4, <1>5

\* A run that fails to list its dependencies has uploaded nothing.
LEMMA ListingShelves ==
    ASSUME RInv, NEW r \in Runs, ListDependencies(r)
    PROVE  UNCHANGED shelf
<1>1. /\ step[r] = "list" /\ UNCHANGED <<main, published, uploads>>
      /\ unlisted' = unlisted \/ unlisted' = unlisted \cup {r}
  BY DEF ListDependencies, registry
<1>2. \A u \in uploads : u[1] # r
  BY <1>1 DEF RInv, UploadInv
<1>3. {x \in uploads : x[1] \in unlisted'} = {x \in uploads : x[1] \in unlisted}
  BY <1>1, <1>2
<1>4. QED
  BY <1>1, <1>3 DEF shelf, Blind

\* No other step of a run changes the shelf or main.
LEMMA ProceedShelves ==
    ASSUME RInv, NEW r \in Runs, Proceed(r)
    PROVE  [Shelf!Next]_shelf
<1>1. tag[r] \in Tags
  BY DEF RInv, TypeOK
<1>2. CASE Publish(r)
  BY <1>1, <1>2, PublishShelves DEF Shelf!Next
<1>3. CASE ListDependencies(r)
  BY <1>3, ListingShelves
<1>4. CASE ~ Publish(r) /\ ~ ListDependencies(r)
  <2>1. UNCHANGED <<main, published, unlisted, uploads>>
    <3>1. CASE Approve(r) \/ Parse(r) \/ VerifyManifest(r) \/ VerifyAncestor(r)
      BY <3>1 DEF Approve, Parse, VerifyManifest, VerifyAncestor, registry
    <3>2. CASE EnsureAbsent(r) \/ AskDependency(r) \/ RequireDependency(r) \/ DependenciesDone(r)
      BY <3>2 DEF EnsureAbsent, AskDependency, RequireDependency, DependenciesDone, registry
    <3>3. CASE DryRunPasses(r) \/ DryRunFails(r) \/ PublishFails(r) \/ AddOwner(r) \/ Abort(r)
      BY <3>3 DEF DryRunPasses, DryRunFails, PublishFails, AddOwner, Abort, registry
    <3>4. QED
      BY <1>4, <3>1, <3>2, <3>3 DEF Proceed
  <2>2. QED
    BY <2>1 DEF shelf, Blind
<1>5. QED
  BY <1>2, <1>3, <1>4

\* A step of the pipeline is one of the specification, or leaves its state alone.
LEMMA StepShelves == RInv /\ [Next]_vars => [Shelf!Next]_shelf
<1> SUFFICES ASSUME RInv, [Next]_vars PROVE [Shelf!Next]_shelf
  OBVIOUS
<1>1. ASSUME NEW k \in DOMAIN Manifest, Merge(k) PROVE Shelf!Next
  BY <1>1 DEF Merge, registry, Shelf!Next, Shelf!Merge, Blind
<1>2. ASSUME UNCHANGED <<main, published, unlisted, uploads>> PROVE UNCHANGED shelf
  BY <1>2 DEF shelf, Blind
<1>3. ASSUME NEW r \in Runs, NEW t \in Tags, Start(r, t) PROVE UNCHANGED shelf
  BY <1>2, <1>3 DEF Start, registry
<1>4. ASSUME NEW p \in Operators, Operate(p) PROVE UNCHANGED shelf
  BY <1>2, <1>4 DEF Operate, registry, release
<1>5. ASSUME NEW p \in Clients, Lookup(p) PROVE UNCHANGED shelf
  BY <1>2, <1>5 DEF Lookup, Fetched, Transient, Refused, Dies, registry, release
<1>6. ASSUME Withdraw \/ CatchUp PROVE UNCHANGED shelf
  BY <1>2, <1>6 DEF Withdraw, CatchUp, Yank, Refresh, release
<1>7. ASSUME AllDone \/ UNCHANGED vars PROVE UNCHANGED shelf
  BY <1>2, <1>7 DEF AllDone, vars, registry, release
<1>8. QED
  BY <1>1, <1>3, <1>4, <1>5, <1>6, <1>7, ProceedShelves DEF Next

\* However runs overlap, the index lags and commands fail, crates.io goes only
\* through states in which each version was put once, and at that moment was what
\* a tag names, on main, with what it requires; the exceptions to the last are the
\* versions of runs that could not list their dependencies, and no others
\* (on-release-published.yml:51-125).
THEOREM PublishesByTheBook == Spec => Shelf!Spec
<1>1. Init => Shelf!Init
  BY DEF Init, RegistryInit, Shelf!Init, Blind
<1>2. RInv /\ [Next]_vars => [Shelf!Next]_shelf
  BY StepShelves
<1>3. QED
  BY <1>1, <1>2, Invariance, PTL DEF Spec, Shelf!Spec, shelf

=============================================================================
