------------------------------ MODULE Registry -------------------------------
(***************************************************************************)
(* crates.io as repo-policy sees it, and the crates-io command that asks   *)
(* it: ensure-absent and require over a sparse index that lags behind what *)
(* was published and may fail to answer.                                   *)
(*                                                                         *)
(* Every client of the registry runs at most one command at a time.  A     *)
(* Cargo requirement is the set of versions it admits.                     *)
(***************************************************************************)
EXTENDS Integers, FiniteSets

CONSTANTS
    Crates,     \* crate names
    Versions,   \* version numbers
    Clients,    \* whoever runs the crates-io command
    Attempts,   \* ATTEMPTS: how often one lookup tries
    MaxPolls    \* bound: the lookups a deadline leaves time for, after the first

ASSUME RegistryAssumption ==
    Attempts \in Nat \ {0} /\ MaxPolls \in Nat

VARIABLES
    published,  \* the versions crates.io has of each crate
    yanked,     \* those that were withdrawn
    served,     \* what the sparse index serves: an older state of the two
    probe,      \* the command a client runs
    faulty,     \* history: the clients whose latest command met a fault last
    died        \* history: the clients whose latest command died without an answer

registry == <<published, yanked, served>>
probes   == <<probe, faulty, died>>

Release == Crates \X Versions

\* "died" stands for an exit status that is not one of the command's own.
Answers == {"yes", "no", "unreadable", "died"}

\* A command: what it asks, the attempt its lookup is at, the lookups left before
\* the deadline, the answer it exits with.
Probe == [doing    : {"idle", "fetching", "answered"},
          question : {"require", "absent"},
          crate    : Crates,
          admits   : SUBSET Versions,
          attempt  : 1 .. Attempts,
          polls    : 0 .. MaxPolls,
          answer   : Answers]

Entry(c) == [all |-> published[c], live |-> published[c] \ yanked[c]]

RegistryTypeOK ==
    /\ published \in [Crates -> SUBSET Versions]
    /\ yanked \in [Crates -> SUBSET Versions]
    /\ \A c \in Crates : yanked[c] \subseteq published[c]
    /\ served \in [Crates -> [all : SUBSET Versions, live : SUBSET Versions]]
    /\ probe \in [Clients -> Probe]
    /\ faulty \subseteq Clients /\ died \subseteq Clients

NoProbe == [doing |-> "idle", question |-> "absent", crate |-> CHOOSE c \in Crates : TRUE,
            admits |-> {}, attempt |-> 1, polls |-> 0, answer |-> "unreadable"]

RegistryInit ==
    /\ published = [c \in Crates |-> {}]
    /\ yanked = [c \in Crates |-> {}]
    /\ served = [c \in Crates |-> [all |-> {}, live |-> {}]]
    /\ probe = [p \in Clients |-> NoProbe]
    /\ faulty = {} /\ died = {}

-----------------------------------------------------------------------------
(* The registry *)

Yank(c, v) ==
    /\ v \in published[c] \ yanked[c]
    /\ yanked' = [yanked EXCEPT ![c] = @ \cup {v}]
    /\ UNCHANGED <<published, served, probes>>

\* The index catches up on one crate.
Refresh(c) ==
    /\ served[c] # Entry(c)
    /\ served' = [served EXCEPT ![c] = Entry(c)]
    /\ UNCHANGED <<published, yanked, probes>>

-----------------------------------------------------------------------------
(* The crates-io command *)

Ask(p, question, c, admits, polls) ==
    /\ probe' = [probe EXCEPT ![p] =
         [doing |-> "fetching", question |-> question, crate |-> c, admits |-> admits,
          attempt |-> 1, polls |-> polls, answer |-> "unreadable"]]
    /\ faulty' = faulty \ {p} /\ died' = died \ {p}

Answer(p, answer) ==
    probe' = [probe EXCEPT ![p].doing = "answered", ![p].answer = answer]

\* Mutant: an index that could not be read reads as one without the version.
EndLookupAsAbsent(p, heard) ==
    IF probe[p].question = "require" /\ heard # "yes" /\ probe[p].polls > 0
    THEN probe' = [probe EXCEPT ![p].attempt = 1, ![p].polls = @ - 1]
    ELSE Answer(p, IF heard = "unreadable" THEN "no" ELSE heard)

\* A lookup that found nothing is repeated while the deadline allows; the last
\* lookup is the answer.
EndLookup(p, heard) ==
    IF probe[p].question = "require" /\ heard # "yes" /\ probe[p].polls > 0
    THEN probe' = [probe EXCEPT ![p].attempt = 1, ![p].polls = @ - 1]
    ELSE Answer(p, heard)

\* What an index entry says; a crate never published has an empty one.
Satisfies(question, entry, versions) ==
    IF question = "require" THEN entry.live \cap versions # {}
                            ELSE entry.all \cap versions = {}

Fetched(p) ==
    LET m == probe[p] IN
    /\ m.doing = "fetching"
    /\ EndLookup(p, IF Satisfies(m.question, served[m.crate], m.admits) THEN "yes" ELSE "no")
    /\ faulty' = faulty \ {p}
    /\ UNCHANGED <<registry, died>>

\* Mutant: one attempt too many.
TransientOnceMore(p) ==
    /\ probe[p].doing = "fetching"
    /\ IF probe[p].attempt =< Attempts
       THEN probe' = [probe EXCEPT ![p].attempt = @ + 1]
       ELSE EndLookup(p, "unreadable")
    /\ faulty' = faulty \cup {p}
    /\ UNCHANGED <<registry, died>>

\* curl failed, or crates.io said 429 or 5xx: tried again, Attempts times in all.
Transient(p) ==
    /\ probe[p].doing = "fetching"
    /\ IF probe[p].attempt < Attempts
       THEN probe' = [probe EXCEPT ![p].attempt = @ + 1]
       ELSE EndLookup(p, "unreadable")
    /\ faulty' = faulty \cup {p}
    /\ UNCHANGED <<registry, died>>

\* Any other status, or a body that does not decode: not tried again.
Refused(p) ==
    /\ probe[p].doing = "fetching"
    /\ EndLookup(p, "unreadable")
    /\ faulty' = faulty \cup {p}
    /\ UNCHANGED <<registry, died>>

\* The command panics, is killed or could not be started.
Dies(p) ==
    /\ probe[p].doing = "fetching"
    /\ Answer(p, "died")
    /\ died' = died \cup {p}
    /\ UNCHANGED <<registry, faulty>>

=============================================================================
