-------------------------------- MODULE Gate ---------------------------------
(***************************************************************************)
(* repo-policy's gate::run: one thread per group runs the group's stages   *)
(* in turn and reports each over a channel; the main thread joins the      *)
(* threads, drains the channel and decides the exit code.                  *)
(*                                                                         *)
(* A thread may panic where it prints a stage's verdict (println! fails on *)
(* a closed stdout), which is before the stage's outcome is sent.  A       *)
(* thread scope with a panicked thread panics itself once all have ended.  *)
(***************************************************************************)
EXTENDS Integers, Sequences

CONSTANTS
    Groups,     \* Host, Cov and Misc
    Stages      \* the stage list: a sequence of members of Groups

ASSUME GateAssumption == Stages \in Seq(Groups)

VARIABLES
    thread,    \* a group's thread: running, recording, done, dead
    next,      \* the index the thread has reached in Stages
    code,      \* the exit code of the command a thread has just run
    channel,   \* the outcomes sent and not yet received
    main,      \* the main thread: joining, draining, returned, unwound
    outcomes,  \* what main received, by index
    exit,      \* the process's exit code, as a set of at most one
    replayed,  \* the stages whose output or missing verdict main printed last
    ran        \* history: the code each stage's command ended with

threads == <<thread, next, code, ran>>
report  == <<main, outcomes, exit, replayed>>
vars    == <<threads, channel, report>>

Indices  == DOMAIN Stages
Outcome  == [index : Indices, code : Int]
NoCode   == -1
Passed   == 0

TypeOK ==
    /\ thread \in [Groups -> {"running", "recording", "done", "dead"}]
    /\ next \in [Groups -> Indices \cup {Len(Stages) + 1}]
    /\ \A g \in Groups : next[g] \in Indices => Stages[next[g]] = g
    /\ code \in [Groups -> Int]
    /\ channel \in Seq(Outcome)
    /\ main \in {"joining", "draining", "returned", "unwound"}
    /\ outcomes \in [Indices -> SUBSET Outcome]
    /\ exit \subseteq {0, 1, 101}
    /\ replayed \subseteq Indices
    /\ ran \in [Indices -> Int]

\* Mutant: a thread runs the stages of other groups too.
SeekAny(g, i) == i

\* The first stage of group g from position i on, or the end of the list.
Seek(g, i) ==
    LET later == {j \in Indices : j >= i /\ Stages[j] = g}
    IN  IF later = {} THEN Len(Stages) + 1
        ELSE CHOOSE j \in later : \A k \in later : j =< k

Init ==
    /\ thread = [g \in Groups |-> "running"]
    /\ next = [g \in Groups |-> Seek(g, 1)]
    /\ code = [g \in Groups |-> NoCode]
    /\ channel = <<>>
    /\ main = "joining"
    /\ outcomes = [i \in Indices |-> {}]
    /\ exit = {} /\ replayed = {}
    /\ ran = [i \in Indices |-> NoCode]

\* The command ends: 0, its own code, or 1 for a signal or a failure to spawn.
Execute(g) ==
    /\ thread[g] = "running" /\ next[g] \in Indices
    /\ \E c \in {Passed, 1, 2} :
         /\ code' = [code EXCEPT ![g] = c]
         /\ ran' = [ran EXCEPT ![next[g]] = c]
    /\ thread' = [thread EXCEPT ![g] = "recording"]
    /\ UNCHANGED <<next, channel, report>>

\* Mutant: a failed stage ends its group.
RecordUntilFailure(g) ==
    /\ thread[g] = "recording"
    /\ channel' = Append(channel, [index |-> next[g], code |-> code[g]])
    /\ next' = [next EXCEPT ![g] = IF code[g] = Passed THEN Seek(g, next[g] + 1)
                                   ELSE Len(Stages) + 1]
    /\ thread' = [thread EXCEPT ![g] = "running"]
    /\ UNCHANGED <<code, ran, report>>

Record(g) ==
    /\ thread[g] = "recording"
    /\ channel' = Append(channel, [index |-> next[g], code |-> code[g]])
    /\ next' = [next EXCEPT ![g] = Seek(g, next[g] + 1)]
    /\ thread' = [thread EXCEPT ![g] = "running"]
    /\ UNCHANGED <<code, ran, report>>

Die(g) ==
    /\ thread[g] = "recording"
    /\ thread' = [thread EXCEPT ![g] = "dead"]
    /\ UNCHANGED <<next, code, ran, channel, report>>

Stop(g) ==
    /\ thread[g] = "running" /\ next[g] \notin Indices
    /\ thread' = [thread EXCEPT ![g] = "done"]
    /\ UNCHANGED <<next, code, ran, channel, report>>

Join ==
    /\ main = "joining"
    /\ \A g \in Groups : thread[g] = "done"
    /\ main' = "draining"
    /\ UNCHANGED <<threads, channel, outcomes, exit, replayed>>

\* The scope panics: main prints nothing more and the process exits with 101.
Unwind ==
    /\ main = "joining"
    /\ \A g \in Groups : thread[g] \in {"done", "dead"}
    /\ \E g \in Groups : thread[g] = "dead"
    /\ main' = "unwound"
    /\ exit' = {101}
    /\ UNCHANGED <<threads, channel, outcomes, replayed>>

Drain ==
    /\ main = "draining" /\ channel # <<>>
    /\ outcomes' = [outcomes EXCEPT ![Head(channel).index] = {Head(channel)}]
    /\ channel' = Tail(channel)
    /\ UNCHANGED <<threads, main, exit, replayed>>

\* Mutant: main keeps the sender it cloned for the threads.
ClosedWithSender == FALSE

\* The channel closes with its last sender: each thread holds one as long as it
\* runs, and main drops its own.
Closed == \A g \in Groups : thread[g] \in {"done", "dead"}

Missing == {i \in Indices : outcomes[i] = {}}

\* Mutant: only a plain exit code 1 counts as a failure.
FailedWithOne == {i \in Indices : \E o \in outcomes[i] : o.code = 1}

Failed == {i \in Indices : \E o \in outcomes[i] : o.code # Passed}

Report ==
    /\ main = "draining" /\ channel = <<>> /\ Closed
    /\ main' = "returned"
    /\ exit' = {IF Missing \cup Failed = {} THEN 0 ELSE 1}
    /\ replayed' = Missing \cup Failed
    /\ UNCHANGED <<threads, channel, outcomes>>

Ended == main \in {"returned", "unwound"} /\ UNCHANGED vars

Thread(g) == Execute(g) \/ Record(g) \/ Stop(g)
Main      == Join \/ Unwind \/ Drain \/ Report

Next ==
    \/ \E g \in Groups : Thread(g) \/ Die(g)
    \/ Main
    \/ Ended

Spec == Init /\ [][Next]_vars

\* Threads run and commands return; nothing makes a thread die.
FairSpec == Spec /\ WF_vars(Main) /\ \A g \in Groups : WF_vars(Thread(g))

-----------------------------------------------------------------------------
(* Properties *)

\* The gate passes only if every stage ran and passed, whatever the order in
\* which the groups finish and whichever of them dies (gate.rs:114-116).
PassMeansAllPassed == exit = {0} => \A i \in Indices : ran[i] = Passed

\* A gate that returns has run every stage, so a failure hides no other failure,
\* and replays exactly the stages that failed (gate.rs:118-128).
ReplaysEveryFailure ==
    main = "returned" => \A i \in Indices :
      /\ ran[i] # NoCode
      /\ i \in replayed <=> ran[i] # Passed

\* The gate ends with an exit code as long as its commands do: the main thread
\* dropped its own sender, so the drain is not waited for forever (gate.rs:103).
Ends == <>(exit # {})

=============================================================================
