------------------------------ MODULE GateProofs ------------------------------
(***************************************************************************)
(* For every stage list and every set of groups: the verdict of the gate   *)
(* is the truth about the stages.  A stage behind a thread's position is   *)
(* accounted for, in the channel or in main's table, by the code its       *)
(* command ended with, and no command runs twice.                          *)
(***************************************************************************)
EXTENDS Gate, SequenceTheorems, WellFoundedInduction, TLAPS

Sent(i) == \E k \in DOMAIN channel : channel[k].index = i

\* Every code of an outcome is the one the stage's command ended with.
CodesInv ==
    /\ \A g \in Groups : thread[g] = "recording" =>
         next[g] \in Indices /\ code[g] = ran[next[g]] /\ code[g] \in {0, 1, 2}
    /\ \A k \in DOMAIN channel : LET i == channel[k].index IN
         channel[k].code = ran[i] /\ ran[i] \in {0, 1, 2} /\ i < next[Stages[i]]
    /\ \A i \in Indices : \A o \in outcomes[i] :
         o.code = ran[i] /\ ran[i] \in {0, 1, 2} /\ i < next[Stages[i]]

\* What a thread has passed is sent or received.
PassedInv ==
    \A i \in Indices : i < next[Stages[i]] => Sent(i) \/ outcomes[i] # {}

\* Main leaves the scope with every thread at the end of the list.
MainInv ==
    /\ \A g \in Groups : thread[g] = "done" => next[g] = Len(Stages) + 1
    /\ main \in {"draining", "returned"} => \A g \in Groups : thread[g] = "done"
    /\ main = "returned" => channel = <<>> /\ replayed = Missing \cup Failed
    /\ exit = {0} => main = "returned" /\ Missing \cup Failed = {}
    /\ exit = {} <=> main \in {"joining", "draining"}

IInv == TypeOK /\ CodesInv /\ PassedInv /\ MainInv

-----------------------------------------------------------------------------

LEMMA Least ==
    ASSUME NEW T \in SUBSET Nat, T # {}
    PROVE  \E x \in T : \A y \in T : x =< y
<1> DEFINE R == OpToRel(<, Nat)
<1>1. PICK x \in T : \A y \in T : ~ (<<y, x>> \in R)
  BY NatLessThanWellFounded, WFMin
<1>2. \A y \in T : <<y, x>> \in R <=> y < x
  BY DEF OpToRel
<1>3. \A y \in T : ~ (y < x)
  BY <1>1, <1>2
<1> QED BY <1>3

LEMMA IndicesAre == Len(Stages) \in Nat /\ Indices = 1 .. Len(Stages)
  BY GateAssumption DEF Indices

LEMMA ChannelType ==
    ASSUME TypeOK
    PROVE  /\ Len(channel) \in Nat /\ DOMAIN channel = 1 .. Len(channel)
           /\ \A k \in DOMAIN channel : channel[k] \in Outcome /\ channel[k].index \in Indices
<1>1. channel \in Seq(Outcome)
  BY DEF TypeOK
<1>2. \A k \in DOMAIN channel : channel[k] \in Outcome
  BY <1>1
<1>3. \A o \in Outcome : o.index \in Indices
  BY DEF Outcome
<1> QED BY <1>1, <1>2, <1>3

\* Seeking skips no stage of the group.
LEMMA Seeking ==
    ASSUME NEW g \in Groups, NEW i \in Nat
    PROVE  /\ Seek(g, i) \in Indices \cup {Len(Stages) + 1}
           /\ Seek(g, i) \in Indices => Seek(g, i) >= i /\ Stages[Seek(g, i)] = g
           /\ \A j \in Indices : Stages[j] = g /\ j >= i => j >= Seek(g, i)
<1> DEFINE later == {j \in Indices : j >= i /\ Stages[j] = g}
<1>1. CASE later = {}
  BY <1>1, IndicesAre DEF Seek
<1>2. CASE later # {}
  <2>1. later \in SUBSET Nat
    BY IndicesAre
  <2>2. \E j \in later : \A k \in later : j =< k
    BY <1>2, <2>1, Least
  <2>3. Seek(g, i) = CHOOSE j \in later : \A k \in later : j =< k
    BY <1>2 DEF Seek
  <2>4. Seek(g, i) \in later /\ \A k \in later : Seek(g, i) =< k
    <3> HIDE DEF later
    <3> QED BY <2>2, <2>3
  <2> QED BY <2>4
<1> QED BY <1>1, <1>2

-----------------------------------------------------------------------------

LEMMA InitInv == Init => IInv
<1> SUFFICES ASSUME Init PROVE IInv
  OBVIOUS
<1> USE DEF Init, NoCode
<1>1. TypeOK
  BY Seeking DEF TypeOK, Outcome
<1>2. CodesInv
  BY DEF CodesInv
<1>3. PassedInv
  <2> SUFFICES ASSUME NEW i \in Indices PROVE ~(i < next[Stages[i]])
    BY DEF PassedInv
  <2>1. Stages[i] \in Groups /\ i >= 1 /\ i \in Nat
    BY GateAssumption, IndicesAre
  <2>2. Seek(Stages[i], 1) \in Nat
    BY <2>1, Seeking, IndicesAre
  <2> QED BY <2>1, <2>2, Seeking
<1>4. MainInv
  BY DEF MainInv
<1> QED BY <1>1, <1>2, <1>3, <1>4 DEF IInv

LEMMA ExecuteInv ==
    ASSUME IInv, NEW g \in Groups, Execute(g)
    PROVE  IInv'
<1> USE DEF IInv
<1>1. PICK c \in {Passed, 1, 2} : /\ code' = [code EXCEPT ![g] = c]
                                  /\ ran' = [ran EXCEPT ![next[g]] = c]
  BY DEF Execute
<1>2. /\ thread[g] = "running" /\ next[g] \in Indices /\ Stages[next[g]] = g
      /\ thread' = [thread EXCEPT ![g] = "recording"]
      /\ UNCHANGED <<next, channel, main, outcomes, exit, replayed>>
      /\ c \in {0, 1, 2}
  BY DEF Execute, report, TypeOK, Passed
<1>3. TypeOK'
  BY <1>1, <1>2 DEF TypeOK
<1>4. \A i \in Indices : i < next[Stages[i]] => ran'[i] = ran[i]
  BY <1>1, <1>2, IndicesAre DEF TypeOK
<1>5. CodesInv'
  <2>1. \A h \in Groups : thread'[h] = "recording" =>
          next'[h] \in Indices /\ code'[h] = ran'[next'[h]] /\ code'[h] \in {0, 1, 2}
    BY <1>1, <1>2 DEF CodesInv, TypeOK
  <2>2. \A k \in DOMAIN channel : channel[k].index \in Indices
    BY ChannelType
  <2>3. \A k \in DOMAIN channel : LET i == channel[k].index IN
          channel[k].code = ran'[i] /\ ran'[i] \in {0, 1, 2} /\ i < next[Stages[i]]
    BY <1>4, <2>2 DEF CodesInv
  <2>4. \A i \in Indices : \A o \in outcomes[i] :
          o.code = ran'[i] /\ ran'[i] \in {0, 1, 2} /\ i < next[Stages[i]]
    BY <1>4 DEF CodesInv
  <2> QED BY <1>2, <2>1, <2>3, <2>4 DEF CodesInv
<1>6. PassedInv'
  BY <1>2 DEF PassedInv, Sent
<1>7. MainInv'
  BY <1>1, <1>2 DEF MainInv, TypeOK, Missing, Failed
<1> QED BY <1>3, <1>5, <1>6, <1>7

LEMMA RecordInv ==
    ASSUME IInv, NEW g \in Groups, Record(g)
    PROVE  IInv'
<1> USE DEF IInv
<1> DEFINE o == [index |-> next[g], code |-> code[g]]
<1>1. /\ thread[g] = "recording"
      /\ channel' = Append(channel, o)
      /\ next' = [next EXCEPT ![g] = Seek(g, next[g] + 1)]
      /\ thread' = [thread EXCEPT ![g] = "running"]
      /\ UNCHANGED <<code, ran, main, outcomes, exit, replayed>>
  BY DEF Record, report
<1>2. /\ next[g] \in Indices /\ next[g] \in Nat /\ Stages[next[g]] = g
      /\ code[g] = ran[next[g]] /\ code[g] \in {0, 1, 2} /\ o \in Outcome
  BY <1>1, IndicesAre DEF CodesInv, TypeOK, Outcome
<1>3. next'[g] = Seek(g, next[g] + 1) /\ \A h \in Groups : h # g => next'[h] = next[h]
  BY <1>1 DEF TypeOK
<1>4. /\ next'[g] \in Indices \cup {Len(Stages) + 1}
      /\ next'[g] \in Indices => Stages[next'[g]] = g
      /\ next[g] < next'[g]
      /\ \A j \in Indices : Stages[j] = g /\ j < next'[g] => j =< next[g]
  <2>1. next[g] + 1 \in Nat
    BY <1>2
  <2> QED BY <1>2, <1>3, <2>1, Seeking, IndicesAre
<1>5. /\ channel' \in Seq(Outcome) /\ DOMAIN channel' = 1 .. Len(channel) + 1
      /\ \A k \in DOMAIN channel : channel'[k] = channel[k]
      /\ channel'[Len(channel) + 1] = o /\ Len(channel) \in Nat
      /\ DOMAIN channel = 1 .. Len(channel)
  BY <1>1, <1>2, AppendProperties DEF TypeOK
<1>6. TypeOK'
  BY <1>1, <1>3, <1>4, <1>5 DEF TypeOK
<1>7. \A i \in Indices : i < next[Stages[i]] => i < next'[Stages[i]]
  <2> SUFFICES ASSUME NEW i \in Indices, i < next[Stages[i]], Stages[i] = g
               PROVE  i < next'[Stages[i]]
    BY <1>3, GateAssumption, IndicesAre
  <2> QED BY <1>2, <1>4, IndicesAre
<1>8. CodesInv'
  <2>1. \A h \in Groups : thread'[h] = "recording" =>
          next'[h] \in Indices /\ code'[h] = ran'[next'[h]] /\ code'[h] \in {0, 1, 2}
    BY <1>1, <1>3 DEF CodesInv, TypeOK
  <2>2. \A k \in DOMAIN channel : channel[k].index \in Indices
    BY ChannelType
  <2>3. \A k \in DOMAIN channel' : LET i == channel'[k].index IN
          channel'[k].code = ran'[i] /\ ran'[i] \in {0, 1, 2} /\ i < next'[Stages[i]]
    <3> SUFFICES ASSUME NEW k \in DOMAIN channel'
                 PROVE  LET i == channel'[k].index IN
                        channel'[k].code = ran[i] /\ ran[i] \in {0, 1, 2}
                        /\ i < next'[Stages[i]]
      BY <1>1
    <3>1. CASE k \in DOMAIN channel
      BY <1>5, <1>7, <2>2, <3>1 DEF CodesInv
    <3>2. CASE k = Len(channel) + 1
      BY <1>2, <1>4, <1>5, <3>2
    <3> QED BY <1>5, <3>1, <3>2
  <2>4. \A i \in Indices : \A p \in outcomes[i] :
          p.code = ran[i] /\ ran[i] \in {0, 1, 2} /\ i < next'[Stages[i]]
    BY <1>7 DEF CodesInv
  <2> QED BY <1>1, <2>1, <2>3, <2>4 DEF CodesInv
<1>9. PassedInv'
  <2> SUFFICES ASSUME NEW i \in Indices, i < next'[Stages[i]]
               PROVE  Sent(i)' \/ outcomes[i] # {}
    BY <1>1 DEF PassedInv
  <2>1. Sent(i) => Sent(i)'
    BY <1>5 DEF Sent
  <2>2. i < next[Stages[i]] \/ i = next[g]
    <3>1. Stages[i] \in Groups
      BY GateAssumption, IndicesAre
    <3>2. CASE Stages[i] = g
      BY <1>2, <1>4, <3>2, IndicesAre
    <3>3. CASE Stages[i] # g
      BY <1>3, <3>1, <3>3
    <3> QED BY <3>2, <3>3
  <2>3. i = next[g] => Sent(i)'
    BY <1>5 DEF Sent
  <2> QED BY <2>1, <2>2, <2>3 DEF PassedInv
<1>10. MainInv'
  BY <1>1, <1>3 DEF MainInv, TypeOK
<1> QED BY <1>6, <1>8, <1>9, <1>10

LEMMA DieInv ==
    ASSUME IInv, NEW g \in Groups, Die(g)
    PROVE  IInv'
<1> USE DEF IInv
<1>1. /\ thread[g] = "recording" /\ thread' = [thread EXCEPT ![g] = "dead"]
      /\ UNCHANGED <<next, code, ran, channel, main, outcomes, exit, replayed>>
  BY DEF Die, report
<1>2. TypeOK' /\ CodesInv' /\ PassedInv'
  <2>1. TypeOK'
    BY <1>1 DEF TypeOK, Sent
  <2>2. CodesInv'
    BY <1>1 DEF TypeOK, CodesInv, Sent
  <2>3. PassedInv'
    BY <1>1 DEF TypeOK, PassedInv, Sent
  <2> QED BY <2>1, <2>2, <2>3
<1>3. MainInv'
  BY <1>1 DEF MainInv, TypeOK, Missing, Failed
<1> QED BY <1>2, <1>3

LEMMA StopInv ==
    ASSUME IInv, NEW g \in Groups, Stop(g)
    PROVE  IInv'
<1> USE DEF IInv
<1>1. /\ thread[g] = "running" /\ next[g] \notin Indices
      /\ thread' = [thread EXCEPT ![g] = "done"]
      /\ UNCHANGED <<next, code, ran, channel, main, outcomes, exit, replayed>>
  BY DEF Stop, report
<1>2. TypeOK' /\ CodesInv' /\ PassedInv'
  <2>1. TypeOK'
    BY <1>1 DEF TypeOK, Sent
  <2>2. CodesInv'
    BY <1>1 DEF TypeOK, CodesInv, Sent
  <2>3. PassedInv'
    BY <1>1 DEF TypeOK, PassedInv, Sent
  <2> QED BY <2>1, <2>2, <2>3
<1>3. MainInv'
  BY <1>1 DEF MainInv, TypeOK, Missing, Failed
<1> QED BY <1>2, <1>3

LEMMA DrainInv ==
    ASSUME IInv, Drain
    PROVE  IInv'
<1> USE DEF IInv
<1> DEFINE o == Head(channel)
<1>1. /\ main = "draining" /\ channel # <<>>
      /\ outcomes' = [outcomes EXCEPT ![o.index] = {o}]
      /\ channel' = Tail(channel)
      /\ UNCHANGED <<thread, next, code, ran, main, exit, replayed>>
  BY DEF Drain, threads
<1>2. /\ channel \in Seq(Outcome) /\ Len(channel) \in Nat /\ Len(channel) >= 1
      /\ DOMAIN channel = 1 .. Len(channel) /\ o = channel[1]
      /\ o \in Outcome /\ o.index \in Indices
  <2>1. channel \in Seq(Outcome)
    BY DEF TypeOK
  <2>2. Len(channel) \in Nat /\ Len(channel) >= 1 /\ DOMAIN channel = 1 .. Len(channel)
    BY <1>1, <2>1, EmptySeq
  <2>3. o = channel[1] /\ 1 \in DOMAIN channel
    BY <2>1, <2>2
  <2> QED BY <2>1, <2>2, <2>3, ChannelType
<1>3. /\ channel' \in Seq(Outcome) /\ DOMAIN channel' = 1 .. Len(channel) - 1
      /\ \A k \in DOMAIN channel' : channel'[k] = channel[k + 1]
  BY <1>1, <1>2, HeadTailProperties
<1>4. TypeOK'
  BY <1>1, <1>2, <1>3 DEF TypeOK
<1>5. CodesInv'
  <2>1. \A k \in DOMAIN channel' : k + 1 \in DOMAIN channel
    BY <1>2, <1>3
  <2>2. \A k \in DOMAIN channel' : LET i == channel'[k].index IN
          channel'[k].code = ran[i] /\ ran[i] \in {0, 1, 2} /\ i < next[Stages[i]]
    BY <1>3, <2>1 DEF CodesInv
  <2>3. \A i \in Indices : \A p \in outcomes'[i] :
          p.code = ran[i] /\ ran[i] \in {0, 1, 2} /\ i < next[Stages[i]]
    <3> SUFFICES ASSUME NEW i \in Indices, NEW p \in outcomes'[i]
                 PROVE  p.code = ran[i] /\ ran[i] \in {0, 1, 2} /\ i < next[Stages[i]]
      OBVIOUS
    <3>1. p \in outcomes[i] \/ (p = channel[1] /\ i = channel[1].index)
      BY <1>1, <1>2 DEF TypeOK
    <3> QED BY <1>2, <3>1 DEF CodesInv
  <2> QED BY <1>1, <2>2, <2>3 DEF CodesInv
<1>6. PassedInv'
  <2> SUFFICES ASSUME NEW i \in Indices, i < next[Stages[i]]
               PROVE  Sent(i)' \/ outcomes'[i] # {}
    BY <1>1 DEF PassedInv
  <2>1. CASE outcomes[i] # {} \/ i = o.index
    BY <1>1, <1>2, <2>1 DEF TypeOK
  <2>2. CASE Sent(i) /\ i # o.index
    <3>1. PICK k \in DOMAIN channel : channel[k].index = i
      BY <2>2 DEF Sent
    <3>2. k - 1 \in DOMAIN channel' /\ channel'[k - 1] = channel[k]
      BY <1>2, <1>3, <2>2, <3>1
    <3> QED BY <3>1, <3>2 DEF Sent
  <2> QED BY <2>1, <2>2 DEF PassedInv
<1>7. MainInv'
  BY <1>1 DEF MainInv
<1> QED BY <1>4, <1>5, <1>6, <1>7

LEMMA OthersInv ==
    ASSUME IInv, Join \/ Unwind \/ Report \/ UNCHANGED vars
    PROVE  IInv'
<1> USE DEF IInv
<1>1. UNCHANGED <<thread, next, code, ran, channel, outcomes>>
  BY DEF Join, Unwind, Report, vars, threads, report
<1>2. CodesInv' /\ PassedInv'
  BY <1>1 DEF CodesInv, PassedInv, Sent
<1>a. Missing' = Missing /\ Failed' = Failed
  BY <1>1 DEF Missing, Failed
<1>3. CASE Join
  <2>1. /\ main' = "draining" /\ UNCHANGED <<exit, replayed>>
        /\ main = "joining" /\ \A g \in Groups : thread[g] = "done"
    BY <1>3 DEF Join
  <2>2. TypeOK'
    BY <1>1, <2>1 DEF TypeOK
  <2>3. MainInv'
    BY <1>1, <1>a, <2>1 DEF MainInv
  <2> QED BY <1>2, <2>2, <2>3
<1>4. CASE Unwind
  <2>1. main' = "unwound" /\ exit' = {101} /\ UNCHANGED replayed
    BY <1>4 DEF Unwind
  <2>2. exit' # {0}
    BY <2>1
  <2>3. TypeOK'
    BY <1>1, <2>1 DEF TypeOK
  <2>4. MainInv'
    BY <1>1, <2>1, <2>2 DEF MainInv
  <2> QED BY <1>2, <2>3, <2>4
<1>5. CASE Report
  <2>1. Missing \cup Failed \subseteq Indices
    BY DEF Missing, Failed
  <2>2. (Missing \cup Failed)' = Missing \cup Failed
    BY <1>1 DEF Missing, Failed
  <2>3. /\ main = "draining" /\ main' = "returned" /\ channel = <<>>
        /\ exit' = {IF Missing \cup Failed = {} THEN 0 ELSE 1}
        /\ replayed' = Missing \cup Failed
    BY <1>5 DEF Report
  <2>4. exit' \subseteq {0, 1, 101} /\ (exit' = {0} => Missing \cup Failed = {})
    BY <2>3
  <2>5. TypeOK'
    BY <1>1, <2>1, <2>3, <2>4 DEF TypeOK
  <2>6. MainInv'
    BY <1>1, <2>2, <2>3, <2>4 DEF MainInv
  <2> QED BY <1>2, <2>5, <2>6
<1>6. CASE UNCHANGED vars
  <2>1. UNCHANGED <<main, exit, replayed>>
    BY <1>6 DEF vars, report
  <2>2. TypeOK'
    BY <1>1, <2>1 DEF TypeOK
  <2>3. MainInv'
    BY <1>1, <1>a, <2>1 DEF MainInv
  <2> QED BY <1>2, <2>2, <2>3
<1> QED BY <1>3, <1>4, <1>5, <1>6

LEMMA NextInv == IInv /\ [Next]_vars => IInv'
  BY ExecuteInv, RecordInv, DieInv, StopInv, DrainInv, OthersInv
  DEF Next, Thread, Main, Ended

\* A gate that returned holds the outcome of every stage.
LEMMA ReturnedHolds ==
    ASSUME IInv, main = "returned", NEW i \in Indices
    PROVE  /\ outcomes[i] # {} /\ ran[i] \in {0, 1, 2}
           /\ \A o \in outcomes[i] : o.code = ran[i]
<1> USE DEF IInv
<1>1. Stages[i] \in Groups /\ i \in Nat /\ i < Len(Stages) + 1
  BY GateAssumption, IndicesAre
<1>2. i < next[Stages[i]]
  BY <1>1 DEF MainInv
<1>3. ~Sent(i)
  BY DEF MainInv, Sent
<1>4. outcomes[i] # {}
  BY <1>2, <1>3 DEF PassedInv
<1> QED BY <1>4 DEF CodesInv

LEMMA InvImpliesVerdict == IInv => PassMeansAllPassed /\ ReplaysEveryFailure
<1> SUFFICES ASSUME IInv PROVE PassMeansAllPassed /\ ReplaysEveryFailure
  OBVIOUS
<1>1. ASSUME main = "returned", NEW i \in Indices
      PROVE  ran[i] # NoCode /\ (i \in Missing \cup Failed <=> ran[i] # Passed)
  BY <1>1, ReturnedHolds DEF Missing, Failed, NoCode, Passed
<1>2. PassMeansAllPassed
  BY <1>1 DEF PassMeansAllPassed, IInv, MainInv
<1>3. ReplaysEveryFailure
  BY <1>1 DEF ReplaysEveryFailure, IInv, MainInv
<1> QED BY <1>2, <1>3

-----------------------------------------------------------------------------

\* The strengthening is an invariant, whatever dies.
THEOREM Invariance == Spec => []IInv
  BY InitInv, NextInv, PTL DEF Spec

\* Threads stay in their own group's stages.
THEOREM TypeCorrect == Spec => []TypeOK
  BY Invariance, PTL DEF IInv

\* Exit code 0 means that every stage of the list ran and passed (gate.rs:114-116).
THEOREM VerdictSound == Spec => []PassMeansAllPassed
  BY Invariance, InvImpliesVerdict, PTL

\* A gate that returns replays exactly the stages that failed (gate.rs:118-128).
THEOREM ReplayComplete == Spec => []ReplaysEveryFailure
  BY Invariance, InvImpliesVerdict, PTL

-----------------------------------------------------------------------------
(* Nobody waits forever, in two halves: until the gate has its exit code some *)
(* step can be taken, and every step brings the gate closer to having it.     *)

\* What a group's thread can do without waiting for anybody.
ThreadCanMove(g) ==
    \/ thread[g] = "running" /\ next[g] \in Indices
    \/ thread[g] = "recording"
    \/ thread[g] = "running" /\ next[g] \notin Indices

\* What main can do: join, unwind, receive, or see the channel closed.
MainCanMove ==
    \/ main = "joining" /\ \A g \in Groups : thread[g] = "done"
    \/ /\ main = "joining" /\ \A g \in Groups : thread[g] \in {"done", "dead"}
       /\ \E g \in Groups : thread[g] = "dead"
    \/ main = "draining" /\ channel # <<>>
    \/ main = "draining" /\ channel = <<>> /\ Closed

NotStuck == exit = {} => MainCanMove \/ \E g \in Groups : ThreadCanMove(g)

\* The steps a thread has left: two for each position of the stage list, one to
\* report a command that has ended, one to stop.
ThreadSteps(g) ==
    2 * (Len(Stages) + 1 - next[g])
      + CASE thread[g] = "running" -> 2 [] thread[g] = "recording" -> 1 [] OTHER -> 0

MainPhase == CASE main = "joining" -> 2 [] main = "draining" -> 1 [] OTHER -> 0

\* A thread's step costs it one of its own; main's leaves the threads alone and
\* takes it to its next phase, or an outcome off the channel.
Closer ==
    \/ \E g \in Groups :
         /\ ThreadSteps(g)' < ThreadSteps(g)
         /\ \A h \in Groups \ {g} : ThreadSteps(h)' = ThreadSteps(h)
    \/ /\ \A h \in Groups : ThreadSteps(h)' = ThreadSteps(h)
       /\ \/ MainPhase' < MainPhase
          \/ MainPhase' = MainPhase /\ Len(channel)' < Len(channel)

LEMMA InvImpliesNotStuck == IInv => NotStuck
<1> SUFFICES ASSUME IInv, exit = {}, \A g \in Groups : ~ ThreadCanMove(g)
             PROVE  MainCanMove
  BY DEF NotStuck
<1>1. \A g \in Groups : thread[g] \in {"done", "dead"}
  BY DEF ThreadCanMove, IInv, TypeOK
<1>2. Closed
  BY <1>1 DEF Closed
<1>3. main \in {"joining", "draining"}
  BY DEF IInv, MainInv
<1>4. QED
  BY <1>1, <1>2, <1>3 DEF MainCanMove

\* What a thread has left is a natural number.
LEMMA StepsAreNatural ==
    ASSUME TypeOK, NEW g \in Groups
    PROVE  /\ next[g] \in 1 .. Len(Stages) + 1 /\ Len(Stages) \in Nat
           /\ ThreadSteps(g) \in Nat
<1>1. next[g] \in 1 .. Len(Stages) + 1 /\ Len(Stages) \in Nat
  BY IndicesAre DEF TypeOK
<1>2. PICK k \in Nat :
        k = CASE thread[g] = "running" -> 2 [] thread[g] = "recording" -> 1 [] OTHER -> 0
  OBVIOUS
<1>3. ThreadSteps(g) = 2 * (Len(Stages) + 1 - next[g]) + k
  BY <1>2 DEF ThreadSteps
<1>4. QED
  BY <1>1, <1>3

LEMMA StepCloser == IInv /\ IInv' /\ Next /\ ~ UNCHANGED vars => Closer
<1> SUFFICES ASSUME IInv, IInv', Next, ~ UNCHANGED vars PROVE Closer
  OBVIOUS
<1>1. TypeOK /\ TypeOK'
  BY DEF IInv
<1>2. ASSUME NEW g \in Groups,
             UNCHANGED <<thread[g], next[g]>>
      PROVE  ThreadSteps(g)' = ThreadSteps(g)
  BY <1>2 DEF ThreadSteps
<1>3. ASSUME NEW g \in Groups, Thread(g) \/ Die(g) PROVE Closer
  <2>1. \A h \in Groups \ {g} : UNCHANGED <<thread[h], next[h]>>
    BY <1>1, <1>3 DEF Thread, Die, Execute, Record, Stop, TypeOK
  <2>2. ThreadSteps(g)' < ThreadSteps(g)
    <3> DEFINE Weight(state) ==
                 CASE state = "running" -> 2 [] state = "recording" -> 1 [] OTHER -> 0
    <3>1. /\ next[g] \in 1 .. Len(Stages) + 1 /\ next'[g] \in 1 .. Len(Stages) + 1
          /\ Len(Stages) \in Nat
      BY <1>1, IndicesAre DEF TypeOK
    <3>2. /\ ThreadSteps(g) = 2 * (Len(Stages) + 1 - next[g]) + Weight(thread[g])
          /\ ThreadSteps(g)' = 2 * (Len(Stages) + 1 - next'[g]) + Weight(thread'[g])
      BY DEF ThreadSteps
    <3>3. CASE Execute(g)
      <4>1. /\ thread[g] = "running" /\ thread'[g] = "recording" /\ next'[g] = next[g]
        BY <1>1, <3>3 DEF Execute, TypeOK
      <4>2. Weight(thread[g]) = 2 /\ Weight(thread'[g]) = 1
        BY <4>1
      <4> HIDE DEF Weight
      <4>3. QED
        BY <3>1, <3>2, <4>1, <4>2
    <3>4. CASE Record(g)
      <4>1. /\ thread[g] = "recording" /\ thread'[g] = "running"
            /\ next'[g] = Seek(g, next[g] + 1) /\ next[g] \in Indices
        BY <1>1, <3>4 DEF Record, TypeOK, IInv, CodesInv
      <4>2. next'[g] >= next[g] + 1
        <5>1. next[g] + 1 \in Nat /\ next[g] \in 1 .. Len(Stages)
          BY <3>1, <4>1, IndicesAre
        <5>2. \/ Seek(g, next[g] + 1) = Len(Stages) + 1
              \/ Seek(g, next[g] + 1) >= next[g] + 1
          BY <5>1, Seeking
        <5>3. QED
          BY <3>1, <4>1, <5>1, <5>2
      <4>3. Weight(thread[g]) = 1 /\ Weight(thread'[g]) = 2
        BY <4>1
      <4> HIDE DEF Weight
      <4>4. QED
        BY <3>1, <3>2, <4>2, <4>3
    <3>5. CASE Die(g)
      <4>1. /\ thread[g] = "recording" /\ thread'[g] = "dead" /\ next'[g] = next[g]
        BY <1>1, <3>5 DEF Die, TypeOK
      <4>2. Weight(thread[g]) = 1 /\ Weight(thread'[g]) = 0
        BY <4>1
      <4> HIDE DEF Weight
      <4>3. QED
        BY <3>1, <3>2, <4>1, <4>2
    <3>6. CASE Stop(g)
      <4>1. /\ thread[g] = "running" /\ thread'[g] = "done" /\ next'[g] = next[g]
        BY <1>1, <3>6 DEF Stop, TypeOK
      <4>2. Weight(thread[g]) = 2 /\ Weight(thread'[g]) = 0
        BY <4>1
      <4> HIDE DEF Weight
      <4>3. QED
        BY <3>1, <3>2, <4>1, <4>2
    <3>7. QED
      BY <1>3, <3>3, <3>4, <3>5, <3>6 DEF Thread
  <2>3. QED
    BY <1>2, <2>1, <2>2 DEF Closer
<1>4. ASSUME Main PROVE Closer
  <2>1. UNCHANGED <<thread, next>>
    BY <1>4 DEF Main, Join, Unwind, Drain, Report, threads
  <2>2. \A h \in Groups : ThreadSteps(h)' = ThreadSteps(h)
    BY <1>2, <2>1
  <2>3. CASE Join \/ Unwind \/ Report
    <3>1. \/ main = "joining" /\ main' \in {"draining", "unwound"}
          \/ main = "draining" /\ main' = "returned"
      BY <2>3 DEF Join, Unwind, Report
    <3>2. MainPhase' < MainPhase
      BY <3>1 DEF MainPhase
    <3>3. QED
      BY <2>2, <3>2 DEF Closer
  <2>4. CASE Drain
    <3>1. main' = main /\ channel # <<>> /\ channel' = Tail(channel) /\ channel \in Seq(Outcome)
      BY <1>1, <2>4 DEF Drain, TypeOK
    <3>2. Len(channel') = Len(channel) - 1 /\ Len(channel) \in Nat
      BY <3>1, HeadTailProperties
    <3>3. MainPhase' = MainPhase
      BY <3>1 DEF MainPhase
    <3>4. QED
      BY <2>2, <3>2, <3>3 DEF Closer
  <2>5. QED
    BY <1>4, <2>3, <2>4 DEF Main
<1>5. QED
  BY <1>3, <1>4 DEF Next, Ended

\* Until the gate has an exit code, a thread or main has a step to take that waits
\* for nobody: the channel a draining main reads is closed, whichever thread died,
\* because main let go of the sender it had cloned (gate.rs:103).
THEOREM NeverStuck == Spec => []NotStuck
  BY Invariance, InvImpliesNotStuck, PTL

\* Every step, a panic included, uses up one of the finitely many steps of its
\* thread or brings main nearer to its exit, for any groups and stages: with
\* finitely many groups no run of the gate goes on for ever.
THEOREM EveryStepCounts == Spec => [][Closer]_vars
<1>1. IInv /\ IInv' /\ [Next]_vars => [Closer]_vars
  BY StepCloser
<1>2. QED
  BY Invariance, <1>1, PTL DEF Spec

=============================================================================
