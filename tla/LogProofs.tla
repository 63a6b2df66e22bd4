------------------------------ MODULE LogProofs ------------------------------
(***************************************************************************)
(* Proofs about LogInit and LogOtlp for any number of threads, calls,      *)
(* requests, hosts and closing calls, and any size of the buffer.  IInv    *)
(* adds to what the runs check about initialization what the holder of the *)
(* guard knows at each step of its call.  The closing calls keep IInv, as  *)
(* they only ever stop a provider; CloseInv says when nothing can be left  *)
(* behind an Ok.                                                           *)
(***************************************************************************)
EXTENDS LogOtlp, TLAPS


\* A thread between the lock and its release.
Inside(t) == pc[t] \notin {"idle", "lock"}

\* A thread on the path that installs.
Installing(t) == Inside(t) /\ pc[t] # "check"

\* INSTALL_GUARD admits one thread.
GuardInv == \A t \in Threads : Inside(t) <=> guard = t

\* What the slots hold at each step of the installing call.
PhaseInv ==
    \A t \in Threads :
      /\ pc[t] \in {"prepare", "claim", "publish"} => installed = "empty"
      /\ pc[t] = "publish" => subscriber = "ours"
      /\ pc[t] \in {"bridge", "store"} => installed = "installing" /\ build = "systemd"
      /\ pc[t] = "bridge" => logger # "ours"
      /\ pc[t] = "store" => logger = bridge[t]
      /\ pc[t] = "announce" => installed = bridge[t]

\* The owners, with the steps at which the picture is not yet complete.
SlotInv ==
    /\ subscriber = "ours" <=>
         installed # "empty" \/ \E t \in Threads : pc[t] = "publish"
    /\ build = "systemd" =>
         (logger = "ours" <=> \/ installed = "ours"
                              \/ \E t \in Threads : pc[t] = "store" /\ bridge[t] = "ours")
    /\ build = "wasm32" => logger # "ours" /\ installed \in {"empty", "ours"}
    /\ installed = "foreign" => logger = "foreign"
    /\ installed = "installing" =>
         poisoned \/ \E t \in Threads : pc[t] \in {"bridge", "store"}
    /\ installed = "empty" => committed = {}

\* An Ok in the history means the install is complete and nobody is installing.
AnswerInv ==
    \A a \in returned : a.verdict \in {"Ok", "AlreadyInitialized"} =>
        installed = "ours" /\ \A t \in Threads : ~Installing(t)

IInv ==
    /\ TypeOK
    /\ GuardInv
    /\ PhaseInv
    /\ SlotInv
    /\ NoOrphanProvider
    /\ AnswerInv

-----------------------------------------------------------------------------

\* There are at most six checks, each with an error of its own.
LEMMA ChecksType ==
    ASSUME NEW b, NEW r, NEW h
    PROVE  \A i \in DOMAIN Checks(b, r, h) : i \in 1..6 /\ Checks(b, r, h)[i].error \in ConfigErrors
<1>1. CASE b = "systemd"
  BY <1>1 DEF Checks, SystemdChecks, ConfigErrors
<1>2. CASE b # "systemd"
  BY <1>2 DEF Checks, WasmChecks, ConfigErrors
<1>3. QED BY <1>1, <1>2

\* ConfigError names one of the configuration errors, or none.
LEMMA ConfigErrorType ==
    ASSUME NEW b, NEW r, NEW h
    PROVE  ConfigError(b, r, h) \in ConfigErrors \cup {"none"}
<1> DEFINE checks == Checks(b, r, h)
           failed == {i \in DOMAIN checks : checks[i].fails}
<1>1. \A i \in DOMAIN checks : i \in 1..6 /\ checks[i].error \in ConfigErrors
  BY ChecksType
<1>2. CASE failed = {}
  BY <1>2 DEF ConfigError
<1>3. CASE failed # {}
  <2>1. \E i \in failed : \A j \in failed : i <= j
    <3>1. failed \subseteq 1..6 BY <1>1
    <3>2. QED BY <3>1, <1>3
  <2>2. (CHOOSE i \in failed : \A j \in failed : i <= j) \in DOMAIN checks
    BY <2>1
  <2>3. QED BY <1>1, <1>3, <2>2 DEF ConfigError
<1>4. QED BY <1>2, <1>3

\* A call that is not refused passed every check.
LEMMA EveryCheckPassed ==
    ASSUME NEW b, NEW r, NEW h, ConfigError(b, r, h) = "none"
    PROVE  \A i \in DOMAIN Checks(b, r, h) : ~ Checks(b, r, h)[i].fails
<1> DEFINE checks == Checks(b, r, h)
           failed == {i \in DOMAIN checks : checks[i].fails}
           first  == CHOOSE i \in failed : \A j \in failed : i <= j
<1>1. \A i \in DOMAIN checks : i \in 1..6 /\ checks[i].error \in ConfigErrors
  BY ChecksType
<1>2. SUFFICES ASSUME failed # {} PROVE FALSE
  OBVIOUS
<1>3. \E i \in failed : \A j \in failed : i <= j
  <2>1. failed \subseteq 1..6 BY <1>1
  <2>2. QED BY <2>1, <1>2
<1>4. first \in DOMAIN checks
  BY <1>3
<1>5. checks[first].error = "none"
  BY <1>2 DEF ConfigError
<1>6. QED BY <1>1, <1>4, <1>5 DEF ConfigErrors


\* The initial states satisfy the invariant.
LEMMA InitInv == Init => IInv
<1> SUFFICES ASSUME Init PROVE IInv
  OBVIOUS
<1>1. (CHOOSE r \in Requests : TRUE) \in Requests
  BY LogInitAssumption
<1>2. TypeOK
  BY <1>1 DEF Init, TypeOK, Steps
<1>3. GuardInv /\ PhaseInv /\ SlotInv /\ NoOrphanProvider /\ AnswerInv
  BY LogInitAssumption
     DEF Init, GuardInv, PhaseInv, SlotInv, NoOrphanProvider, AnswerInv, Inside
<1>4. QED BY <1>2, <1>3 DEF IInv

\* An answer is recorded with its call and the strictness it was asked with.
LEMMA LeaveType ==
    ASSUME TypeOK, NEW t \in Threads, NEW v \in Verdicts, Leave(t, v)
    PROVE  /\ guard' = NoThread
           /\ pc' \in [Threads -> Steps]
           /\ returned' \subseteq [call : Call, idempotent : BOOLEAN, verdict : Verdicts]
<1>1. request[t] \in Request
  BY LogInitAssumption DEF TypeOK
<1>2. request[t].idempotent \in BOOLEAN
  BY <1>1 DEF Request
<1>3. Id(t) \in Call
  BY DEF Id, Call, TypeOK
<1>4. [call |-> Id(t), idempotent |-> request[t].idempotent, verdict |-> v]
        \in [call : Call, idempotent : BOOLEAN, verdict : Verdicts]
  BY <1>2, <1>3
<1>5. QED BY <1>4 DEF Leave, TypeOK, GoTo, Steps

\* Every step of every thread, and every step of the other crates, keeps it.
LEMMA NextInv == IInv /\ [Next]_vars => IInv'
<1> SUFFICES ASSUME IInv, [Next]_vars PROVE IInv'
  OBVIOUS
<1> USE LogInitAssumption
    DEF IInv, TypeOK, GuardInv, PhaseInv, SlotInv, NoOrphanProvider, AnswerInv, Inside,
        Installing, Call, Id, GoTo, Leave, slots, state, local, vars
<1>1. ASSUME NEW t \in Threads, CallInit(t) PROVE IInv'
  <2>1. TypeOK' BY <1>1 DEF CallInit, Steps
  <2>2. GuardInv' BY <1>1 DEF CallInit
  <2>3. PhaseInv' BY <1>1 DEF CallInit
  <2>4. SlotInv' BY <1>1 DEF CallInit
  <2>5. NoOrphanProvider' BY <1>1 DEF CallInit
  <2>6. AnswerInv' BY <1>1 DEF CallInit
  <2>7. QED BY <2>1, <2>2, <2>3, <2>4, <2>5, <2>6
<1>2. ASSUME NEW t \in Threads, Lock(t) PROVE IInv'
  <2>1. TypeOK' BY <1>2 DEF Lock, Steps
  <2>2. GuardInv' BY <1>2 DEF Lock
  <2>3. PhaseInv' BY <1>2 DEF Lock
  <2>4. SlotInv' BY <1>2 DEF Lock
  <2>5. NoOrphanProvider' BY <1>2 DEF Lock
  <2>6. AnswerInv' BY <1>2 DEF Lock
  <2>7. QED BY <2>1, <2>2, <2>3, <2>4, <2>5, <2>6
<1>3. ASSUME NEW t \in Threads, Repeat(t) PROVE IInv'
  <2>1. TypeOK'
    <3>1. PICK v \in Verdicts : Leave(t, v)
      BY <1>3 DEF Repeat, RepeatResult, Verdicts
    <3>2. QED BY <1>3, <3>1, LeaveType DEF Repeat
  <2>2. GuardInv' BY <1>3 DEF Repeat
  <2>3. PhaseInv' BY <1>3 DEF Repeat
  <2>4. SlotInv' BY <1>3 DEF Repeat
  <2>5. NoOrphanProvider' BY <1>3 DEF Repeat
  <2>6. AnswerInv' BY <1>3 DEF Repeat, RepeatResult, ConfigErrors
  <2>7. QED BY <2>1, <2>2, <2>3, <2>4, <2>5, <2>6
<1>4. ASSUME NEW t \in Threads, Begin(t) PROVE IInv'
  <2>1. TypeOK' BY <1>4 DEF Begin, Steps
  <2>2. GuardInv' BY <1>4 DEF Begin
  <2>3. PhaseInv' BY <1>4 DEF Begin
  <2>4. SlotInv' BY <1>4 DEF Begin
  <2>5. NoOrphanProvider' BY <1>4 DEF Begin
  <2>6. AnswerInv' BY <1>4 DEF Begin
  <2>7. QED BY <2>1, <2>2, <2>3, <2>4, <2>5, <2>6
<1>5. ASSUME NEW t \in Threads, Refuse(t) PROVE IInv'
  <2>1. TypeOK'
    <3>1. PICK v \in Verdicts : Leave(t, v)
      BY ConfigErrorType, <1>5 DEF Refuse, Verdicts
    <3>2. QED BY <1>5, <3>1, LeaveType DEF Refuse
  <2>2. GuardInv' BY <1>5 DEF Refuse
  <2>3. PhaseInv' BY <1>5 DEF Refuse
  <2>4. SlotInv' BY <1>5 DEF Refuse
  <2>5. NoOrphanProvider' BY <1>5 DEF Refuse
  <2>6. AnswerInv' BY ConfigErrorType, <1>5 DEF Refuse, ConfigErrors
  <2>7. QED BY <2>1, <2>2, <2>3, <2>4, <2>5, <2>6
<1>6. ASSUME NEW t \in Threads, Prepare(t) PROVE IInv'
  <2>1. TypeOK' BY <1>6 DEF Prepare, Steps
  <2>2. GuardInv' BY <1>6 DEF Prepare
  <2>3. PhaseInv' BY <1>6 DEF Prepare
  <2>4. SlotInv' BY <1>6 DEF Prepare
  <2>5. NoOrphanProvider' BY <1>6 DEF Prepare
  <2>6. AnswerInv' BY <1>6 DEF Prepare
  <2>7. QED BY <2>1, <2>2, <2>3, <2>4, <2>5, <2>6
<1>7. ASSUME NEW t \in Threads, Claim(t) PROVE IInv'
  <2>1. TypeOK' BY <1>7 DEF Claim, Steps
  <2>2. GuardInv' BY <1>7 DEF Claim
  <2>3. PhaseInv' BY <1>7 DEF Claim
  <2>4. SlotInv' BY <1>7 DEF Claim
  <2>5. NoOrphanProvider' BY <1>7 DEF Claim
  <2>6. AnswerInv' BY <1>7 DEF Claim
  <2>7. QED BY <2>1, <2>2, <2>3, <2>4, <2>5, <2>6
<1>8. ASSUME NEW t \in Threads, Lose(t) PROVE IInv'
  <2>1. TypeOK'
    <3>1. PICK v \in Verdicts : Leave(t, v)
      BY <1>8 DEF Lose, Verdicts
    <3>2. QED BY <1>8, <3>1, LeaveType DEF Lose
  <2>2. GuardInv' BY <1>8 DEF Lose
  <2>3. PhaseInv' BY <1>8 DEF Lose
  <2>4. SlotInv' BY <1>8 DEF Lose
  <2>5. NoOrphanProvider' BY <1>8 DEF Lose
  <2>6. AnswerInv' BY <1>8 DEF Lose, ConfigErrors
  <2>7. QED BY <2>1, <2>2, <2>3, <2>4, <2>5, <2>6
<1>9. ASSUME NEW t \in Threads, Publish(t) PROVE IInv'
  <2>1. TypeOK' BY <1>9 DEF Publish, Steps
  <2>2. GuardInv' BY <1>9 DEF Publish
  <2>3. PhaseInv' BY <1>9 DEF Publish
  <2>4. SlotInv' BY <1>9 DEF Publish
  <2>5. NoOrphanProvider' BY <1>9 DEF Publish
  <2>6. AnswerInv' BY <1>9 DEF Publish
  <2>7. QED BY <2>1, <2>2, <2>3, <2>4, <2>5, <2>6
<1>10. ASSUME NEW t \in Threads, Bridge(t) PROVE IInv'
  <2>1. TypeOK' BY <1>10 DEF Bridge, Steps
  <2>2. GuardInv' BY <1>10 DEF Bridge
  <2>3. PhaseInv' BY <1>10 DEF Bridge
  <2>4. SlotInv' BY <1>10 DEF Bridge
  <2>5. NoOrphanProvider' BY <1>10 DEF Bridge
  <2>6. AnswerInv' BY <1>10 DEF Bridge
  <2>7. QED BY <2>1, <2>2, <2>3, <2>4, <2>5, <2>6
<1>11. ASSUME NEW t \in Threads, Store(t) PROVE IInv'
  <2>1. TypeOK' BY <1>11 DEF Store, Steps
  <2>2. GuardInv' BY <1>11 DEF Store
  <2>3. PhaseInv' BY <1>11 DEF Store
  <2>4. SlotInv' BY <1>11 DEF Store
  <2>5. NoOrphanProvider' BY <1>11 DEF Store
  <2>6. AnswerInv' BY <1>11 DEF Store
  <2>7. QED BY <2>1, <2>2, <2>3, <2>4, <2>5, <2>6
<1>12. ASSUME NEW t \in Threads, Announce(t) PROVE IInv'
  <2>1. TypeOK'
    <3>1. PICK v \in Verdicts : Leave(t, v)
      BY <1>12 DEF Announce, Verdicts
    <3>2. QED BY <1>12, <3>1, LeaveType DEF Announce
  <2>2. GuardInv' BY <1>12 DEF Announce
  <2>3. PhaseInv' BY <1>12 DEF Announce
  <2>4. SlotInv' BY <1>12 DEF Announce
  <2>5. NoOrphanProvider' BY <1>12 DEF Announce
  <2>6. AnswerInv' BY <1>12 DEF Announce, ConfigErrors
  <2>7. QED BY <2>1, <2>2, <2>3, <2>4, <2>5, <2>6
<1>13. ASSUME NEW t \in Threads, Panic(t) PROVE IInv'
  <2>1. TypeOK'
    <3>1. PICK v \in Verdicts : Leave(t, v)
      BY <1>13 DEF Panic, Verdicts
    <3>2. QED BY <1>13, <3>1, LeaveType DEF Panic
  <2>2. GuardInv' BY <1>13 DEF Panic
  <2>3. PhaseInv' BY <1>13 DEF Panic
  <2>4. SlotInv' BY <1>13 DEF Panic
  <2>5. NoOrphanProvider' BY <1>13 DEF Panic
  <2>6. AnswerInv' BY <1>13 DEF Panic, ConfigErrors
  <2>7. QED BY <2>1, <2>2, <2>3, <2>4, <2>5, <2>6
<1>14. CASE ForeignSubscriber
  BY <1>14 DEF ForeignSubscriber
<1>15. CASE ForeignLogger
  BY <1>15 DEF ForeignLogger
<1>16. CASE UNCHANGED vars
  BY <1>16
<1>17. QED
  BY <1>1, <1>2, <1>3, <1>4, <1>5, <1>6, <1>7, <1>8, <1>9, <1>10, <1>11, <1>12, <1>13, <1>14, <1>15, <1>16 DEF Next, Proceed, AllDone


-----------------------------------------------------------------------------

\* The inductive invariant holds in every reachable state.
THEOREM Invariance == Spec => []IInv
<1>1. Init => IInv BY InitInv
<1>2. IInv /\ [Next]_vars => IInv' BY NextInv
<1>3. QED BY <1>1, <1>2, PTL DEF Spec

\* Every variable keeps its type.
THEOREM TypeCorrect == Spec => []TypeOK
<1>1. IInv => TypeOK BY DEF IInv
<1>2. QED BY <1>1, Invariance, PTL

\* The owners, read off the invariant once nobody holds the guard.
LEMMA OwnersFromInv == IInv => OwnersAgree
<1> SUFFICES ASSUME IInv PROVE OwnersAgree
  OBVIOUS
<1> USE DEF IInv, TypeOK, SlotInv, PhaseInv
<1>1. logger = "ours" => subscriber = "ours" /\ installed # "empty"
  OBVIOUS
<1>2. ASSUME guard = NoThread, NEW t \in Threads PROVE pc[t] \in {"idle", "lock"}
  BY <1>2, LogInitAssumption DEF GuardInv, Inside
<1>3. QED BY <1>1, <1>2 DEF OwnersAgree

\* With the guard free, the slots, INSTALLED and the log bridge agree.
THEOREM OwnersCorrect == Spec => []OwnersAgree
<1>1. IInv => OwnersAgree BY OwnersFromInv
<1>2. QED BY <1>1, Invariance, PTL

\* No failed or panicked call leaves an OTLP provider running.
THEOREM ProvidersOwned == Spec => []NoOrphanProvider
<1>1. IInv => NoOrphanProvider BY DEF IInv
<1>2. QED BY <1>1, Invariance, PTL

-----------------------------------------------------------------------------

\* An answer that Leave records in this step is in the next history.
LEMMA LeaveAnswers ==
    ASSUME NEW t \in Threads, NEW v, Leave(t, v),
           Once!Settle,
           Once!Agrees([call |-> Id(t), idempotent |-> request[t].idempotent,
                        verdict |-> v], Outcome', returned)
    PROVE  Once!Next
BY DEF Leave, Once!Next

\* Once settled the outcome stays what it is, and it settles on one of four.
LEMMA OutcomeSettles == IInv /\ IInv' /\ [Next]_vars => Once!Settle
<1> SUFFICES ASSUME IInv, IInv', [Next]_vars PROVE Once!Settle
  OBVIOUS
<1> USE DEF IInv, TypeOK, Outcome, Once!Settle, Once!Outcomes
<1>1. Outcome' \in Once!Outcomes \cup {"undecided"}
  OBVIOUS
<1>2. ASSUME Outcome # "undecided" PROVE Outcome' = Outcome
  <2> USE <1>2 DEF PhaseInv, SlotInv, GuardInv, Inside, GoTo, Leave, slots, state,
                   local, vars
  <2>1. ASSUME NEW t \in Threads, CallInit(t) \/ Lock(t) \/ Repeat(t) \/ Begin(t)
        PROVE  Outcome' = Outcome
    BY <2>1 DEF CallInit, Lock, Repeat, Begin
  <2>2. ASSUME NEW t \in Threads, Refuse(t) \/ Prepare(t) \/ Lose(t)
        PROVE  Outcome' = Outcome
    BY <2>2 DEF Refuse, Prepare, Lose
  <2>3. ASSUME NEW t \in Threads, Claim(t) \/ Publish(t)
        PROVE  Outcome' = Outcome
    BY <2>3 DEF Claim, Publish
  <2>4. ASSUME NEW t \in Threads, Bridge(t) \/ Store(t) \/ Announce(t) \/ Panic(t)
        PROVE  Outcome' = Outcome
    BY <2>4 DEF Bridge, Store, Announce, Panic
  <2>5. CASE ForeignSubscriber \/ ForeignLogger
    BY <2>5 DEF ForeignSubscriber, ForeignLogger
  <2>6. CASE UNCHANGED vars
    BY <2>6
  <2>7. QED BY <2>1, <2>2, <2>3, <2>4, <2>5, <2>6 DEF Next, Proceed, AllDone
<1>3. QED BY <1>1, <1>2

\* A step of init_with settles the outcome or records an answer that agrees.
LEMMA StepRefines == IInv /\ IInv' /\ [Next]_vars => [Once!Next]_<<Outcome, returned>>
<1> SUFFICES ASSUME IInv, IInv', [Next]_vars
             PROVE  [Once!Next]_<<Outcome, returned>>
  OBVIOUS
<1>1. Once!Settle
  BY OutcomeSettles
<1>2. CASE returned' = returned
  BY <1>1, <1>2 DEF Once!Next
<1> DEFINE Answer(t, v) ==
      [call |-> Id(t), idempotent |-> request[t].idempotent, verdict |-> v]
<1> USE DEF IInv, TypeOK, GuardInv, PhaseInv, SlotInv, Inside, Outcome, Leave, GoTo,
            slots, state, local, vars
<1>3. ASSUME NEW t \in Threads, Repeat(t) PROVE Once!Next
  <2> DEFINE v == RepeatResult(request[t].idempotent)
  <2>1. Once!Agrees(Answer(t, v), Outcome', returned)
    BY <1>3 DEF Repeat, RepeatResult, Once!Agrees, ConfigErrors
  <2>2. QED BY <1>1, <1>3, <2>1, LeaveAnswers DEF Repeat
<1>4. ASSUME NEW t \in Threads, Refuse(t) PROVE Once!Next
  <2> DEFINE v == ConfigError(build, request[t], host)
  <2>1. v \in ConfigErrors
    BY <1>4, ConfigErrorType DEF Refuse
  <2>2. Outcome' \in {"undecided", "ForeignGlobalSubscriber"}
    BY <1>4 DEF Refuse
  <2>3. Once!Agrees(Answer(t, v), Outcome', returned)
    <3> HIDE DEF v, Outcome
    <3> QED BY <2>1, <2>2 DEF Once!Agrees, Once!ConfigErrors, ConfigErrors
  <2>4. QED BY <1>1, <1>4, <2>3, LeaveAnswers DEF Refuse
<1>5. ASSUME NEW t \in Threads, Lose(t) PROVE Once!Next
  <2>1. Once!Agrees(Answer(t, "ForeignGlobalSubscriber"), Outcome', returned)
    BY <1>5 DEF Lose, Once!Agrees, ConfigErrors
  <2>2. QED BY <1>1, <1>5, <2>1, LeaveAnswers DEF Lose
<1>6. ASSUME NEW t \in Threads, Announce(t) PROVE Once!Next
  <2> DEFINE v == IF bridge[t] = "ours" THEN "Ok" ELSE "ForeignGlobalLogger"
  <2>1. Once!Agrees(Answer(t, v), Outcome', returned)
    BY <1>6 DEF Announce, Once!Agrees, ConfigErrors, AnswerInv, Installing
  <2>2. QED BY <1>1, <1>6, <2>1, LeaveAnswers DEF Announce
<1>7. ASSUME NEW t \in Threads, Panic(t) PROVE Once!Next
  <2>1. Once!Agrees(Answer(t, "panic"), Outcome', returned)
    BY DEF Once!Agrees
  <2>2. QED BY <1>1, <1>7, <2>1, LeaveAnswers DEF Panic
<1>8. QED
  BY <1>2, <1>3, <1>4, <1>5, <1>6, <1>7
     DEF Next, Proceed, AllDone, CallInit, Lock, Begin, Prepare, Claim, Publish,
         Bridge, Store, ForeignSubscriber, ForeignLogger

\* LogInit implements OnceOutcome: one outcome, and no answer contradicts it.
THEOREM Refinement == Spec => OneOutcome
<1>1. Init => Once!Init
  BY DEF Init, Once!Init, Outcome
<1>2. IInv /\ IInv' /\ [Next]_vars => [Once!Next]_<<Outcome, returned>>
  BY StepRefines
<1>3. QED
  BY <1>1, <1>2, Invariance, PTL DEF Spec, OneOutcome, Once!Spec

-----------------------------------------------------------------------------
(* The closing calls. *)


\* A provider that INSTALLED holds or is about to.
Held == committed # {} \/ \E t \in Threads : pc[t] = "publish" /\ Id(t) \in live

\* Who was told that this crate is installed was told the truth.
ToldInv == ToldInstalled => installed # "empty"

\* A shutdown is under way.
Stopping == \E d \in Closers : closer[d].at = "drain" /\ closer[d].op = "shutdown"

CloseInv ==
    /\ queue > 0 => Held
    /\ down => Stopping \/ (queue = 0 /\ live \cap committed = {})
    /\ \A c \in Closers : closer[c].at = "answered" =>
         installed # "empty" /\ (down \/ committed = {})

\* What the call past its checks builds its layer from: nothing that a check of
\* the options or of the environment refuses.
OptionsInv ==
    \A t \in Threads :
      /\ pc[t] \in {"claim", "publish", "bridge", "store", "announce"} =>
           ConfigError(build, request[t], host) = "none"
      /\ pc[t] \in {"publish", "bridge", "store", "announce"} =>
           output = {Output(build, request[t], host)}

OInv == IInv /\ OtlpTypeOK /\ ToldInv /\ CloseInv

-----------------------------------------------------------------------------

Kept ==
    /\ ToldInv'
    /\ installed # "empty" => installed' # "empty" /\ committed' = committed
    /\ Held => Held'
    /\ committed # {} => live' \cap committed' \subseteq live

\* What init_with may do to the state that the closing calls read: INSTALLED is
\* set once, its provider stays, and a provider on its way to it arrives.
LEMMA InitStepKeeps == IInv /\ ToldInv /\ [Next]_vars => Kept
<1> SUFFICES ASSUME IInv, ToldInv, [Next]_vars PROVE Kept
  OBVIOUS
<1> USE LogInitAssumption
    DEF IInv, TypeOK, GuardInv, PhaseInv, SlotInv, Inside, Call, Id, GoTo, Leave, slots,
        state, local, vars, ToldInv, ToldInstalled, Held, Kept
<1>1. ASSUME NEW t \in Threads, CallInit(t) PROVE Kept
  <2>1. UNCHANGED <<installed, committed, live, returned>>
    BY <1>1 DEF CallInit
  <2>2. ASSUME NEW u \in Threads, pc[u] = "publish"
        PROVE  pc'[u] = "publish" /\ calls'[u] = calls[u]
    BY <1>1, <2>2 DEF CallInit
  <2>3. QED BY <2>1, <2>2
<1>2. ASSUME NEW t \in Threads, Lock(t) PROVE Kept
  BY <1>2 DEF Lock
<1>3. ASSUME NEW t \in Threads, Repeat(t) PROVE Kept
  BY <1>3 DEF Repeat, RepeatResult
<1>4. ASSUME NEW t \in Threads, Begin(t) PROVE Kept
  BY <1>4 DEF Begin
<1>5. ASSUME NEW t \in Threads, Refuse(t) PROVE Kept
  <2>1. PICK error \in ConfigErrors : Leave(t, error)
    BY <1>5, ConfigErrorType DEF Refuse
  <2>2. error \notin {"Ok", "AlreadyInitialized", "ForeignGlobalLogger",
                     "InstallationIncomplete"}
    BY DEF ConfigErrors
  <2>3. ToldInstalled' => ToldInstalled
    BY <2>1, <2>2
  <2>4. UNCHANGED <<installed, committed, live, calls>>
    BY <1>5 DEF Refuse
  <2>5. ASSUME NEW u \in Threads, pc[u] = "publish" PROVE pc'[u] = "publish"
    BY <1>5, <2>1, <2>5 DEF Refuse
  <2>6. Held => Held'
    BY <2>4, <2>5
  <2>7. QED BY <2>3, <2>4, <2>6
<1>6. ASSUME NEW t \in Threads, Prepare(t) PROVE Kept
  BY <1>6 DEF Prepare
<1>7. ASSUME NEW t \in Threads, Claim(t) PROVE Kept
  BY <1>7 DEF Claim
<1>8. ASSUME NEW t \in Threads, Lose(t) PROVE Kept
  <2>1. UNCHANGED <<installed, committed, calls>>
    BY <1>8 DEF Lose
  <2>2. ASSUME NEW u \in Threads, pc[u] = "publish" PROVE FALSE
    BY <1>8, <2>2 DEF Lose
  <2>3. Held => Held'
    BY <2>1, <2>2
  <2>4. ToldInstalled' => ToldInstalled
    BY <1>8 DEF Lose
  <2>5. live' \subseteq live
    BY <1>8 DEF Lose
  <2>6. QED BY <2>1, <2>3, <2>4, <2>5
<1>9. ASSUME NEW t \in Threads, Publish(t) PROVE Kept
  BY <1>9 DEF Publish
<1>10. ASSUME NEW t \in Threads, Bridge(t) PROVE Kept
  BY <1>10 DEF Bridge
<1>11. ASSUME NEW t \in Threads, Store(t) PROVE Kept
  BY <1>11 DEF Store
<1>12. ASSUME NEW t \in Threads, Announce(t) PROVE Kept
  BY <1>12 DEF Announce
<1>13. ASSUME NEW t \in Threads, Panic(t) PROVE Kept
  BY <1>13 DEF Panic
<1>14. CASE ForeignSubscriber
  BY <1>14 DEF ForeignSubscriber
<1>15. CASE ForeignLogger
  BY <1>15 DEF ForeignLogger
<1>16. CASE UNCHANGED vars
  BY <1>16
<1> HIDE DEF IInv, TypeOK, GuardInv, PhaseInv, SlotInv, Inside, Call, Id, GoTo, Leave,
             ToldInv, ToldInstalled, Held, Kept
<1>17. QED
  BY <1>1, <1>2, <1>3, <1>4, <1>5, <1>6, <1>7, <1>8, <1>9, <1>10, <1>11, <1>12, <1>13, <1>14,
     <1>15, <1>16 DEF Next, Proceed, AllDone

-----------------------------------------------------------------------------

\* The initial states satisfy the invariant.
LEMMA OtlpInitInv == LogOtlpInit => OInv
<1> SUFFICES ASSUME LogOtlpInit PROVE OInv
  OBVIOUS
<1>1. IInv
  BY InitInv DEF LogOtlpInit
<1>2. OtlpTypeOK
  <2>1. TypeOK
    BY <1>1 DEF IInv
  <2>2. queue \in 0..MaxQueue
    BY LogOtlpAssumption DEF LogOtlpInit
  <2>3. closer \in [Closers -> CallRecord] /\ \A c \in Closers : ~closer[c].due
    BY DEF LogOtlpInit, NoCall, CallRecord
  <2>4. down = FALSE
    BY DEF LogOtlpInit
  <2>5. QED BY <2>1, <2>2, <2>3, <2>4 DEF OtlpTypeOK, CallRecord
<1>3. ToldInv
  BY DEF LogOtlpInit, Init, ToldInv, ToldInstalled
<1>4. CloseInv
  BY DEF LogOtlpInit, CloseInv, NoCall
<1>5. QED BY <1>1, <1>2, <1>3, <1>4 DEF OInv

\* A step of init_with.
LEMMA InitStepInv == OInv /\ [Next]_vars /\ UNCHANGED otlpVars => OInv'
<1> SUFFICES ASSUME OInv, [Next]_vars, UNCHANGED otlpVars PROVE OInv'
  OBVIOUS
<1>1. IInv'
  BY NextInv DEF OInv
<1>2. Kept
  BY InitStepKeeps DEF OInv
<1>3. installed = "empty" => committed = {}
  BY DEF OInv, IInv, SlotInv
<1>4. committed # {} => committed' = committed
  BY <1>2, <1>3 DEF Kept
<1>5. OtlpTypeOK'
  BY <1>1, <1>4 DEF OInv, OtlpTypeOK, otlpVars, IInv
<1>6. CloseInv'
  <2>1. queue' > 0 => Held'
    BY <1>2 DEF OInv, CloseInv, otlpVars, Kept
  <2>2. Stopping' <=> Stopping
    BY DEF Stopping, otlpVars
  <2>3. down' => Stopping' \/ (queue' = 0 /\ live' \cap committed' = {})
    BY <1>2, <1>4, <2>2 DEF OInv, OtlpTypeOK, CloseInv, otlpVars, Kept
  <2>4. \A c \in Closers : closer'[c].at = "answered" =>
          installed' # "empty" /\ (down' \/ committed' = {})
    BY <1>2 DEF OInv, CloseInv, otlpVars, Kept
  <2>5. QED BY <2>1, <2>3, <2>4 DEF CloseInv
<1>7. QED BY <1>1, <1>2, <1>5, <1>6 DEF OInv, Kept

\* A step that leaves init_with alone leaves its invariant alone.
LEMMA OutsideInv ==
    ASSUME OInv, UNCHANGED vars
    PROVE  IInv' /\ ToldInv' /\ TypeOK' /\ (Held' <=> Held)
<1>1. IInv'
  BY NextInv DEF OInv
<1>2. ToldInv' /\ (Held' <=> Held)
  BY DEF OInv, ToldInv, ToldInstalled, Held, Id, vars, slots, state, local
<1>3. QED BY <1>1, <1>2 DEF IInv

\* The export empties the buffer and settles what was due.
LEMMA ExportType ==
    ASSUME NEW calling \in [Closers -> CallRecord], Export(calling)
    PROVE  /\ queue' = 0
           /\ closer' \in [Closers -> CallRecord]
           /\ \A c \in Closers : /\ ~closer'[c].due
                                 /\ closer'[c].at = calling[c].at
                                 /\ closer'[c].op = calling[c].op
<1>1. \A c \in Closers : calling[c] \in CallRecord
  OBVIOUS
<1>2. \A r \in CallRecord : /\ [r EXCEPT !.due = FALSE] \in CallRecord
                            /\ [r EXCEPT !.due = FALSE].due = FALSE
                            /\ [r EXCEPT !.due = FALSE].at = r.at
                            /\ [r EXCEPT !.due = FALSE].op = r.op
  BY DEF CallRecord
<1>3. closer' = [c \in Closers |-> [calling[c] EXCEPT !.due = FALSE]]
  BY DEF Export
<1>4. queue' = 0
  BY DEF Export
<1>5. closer' \in [Closers -> CallRecord]
  BY <1>1, <1>2, <1>3
<1>6. ASSUME NEW c \in Closers
      PROVE  ~closer'[c].due /\ closer'[c].at = calling[c].at /\ closer'[c].op = calling[c].op
  <2>1. closer'[c] = [calling[c] EXCEPT !.due = FALSE] /\ calling[c] \in CallRecord
    BY <1>1, <1>3
  <2>2. QED BY <1>2, <2>1
<1>7. QED BY <1>4, <1>5, <1>6

\* A stopped provider is no longer among those that run.
LEMMA StopInv ==
    ASSUME IInv, ToldInv, live' \subseteq live,
           UNCHANGED <<build, host, slots, guard, poisoned, installed, committed, local, returned>>
    PROVE  IInv' /\ ToldInv'
<1> USE DEF IInv, slots, local
<1>1. TypeOK'
  BY DEF TypeOK, Call
<1>2. GuardInv' /\ PhaseInv'
  BY DEF GuardInv, PhaseInv, Inside
<1>3. SlotInv'
  BY DEF SlotInv
<1>4. NoOrphanProvider'
  BY DEF NoOrphanProvider, Id
<1>5. AnswerInv'
  BY DEF AnswerInv, Installing, Inside
<1>6. ToldInv'
  BY DEF ToldInv, ToldInstalled
<1>7. QED BY <1>1, <1>2, <1>3, <1>4, <1>5, <1>6

\* What a call that is made leaves in the record of the closing calls.
LEMMA CalledType ==
    ASSUME OtlpTypeOK, NEW c \in Closers, NEW op \in {"flush", "shutdown"},
           NEW at \in {"drain", "answered"}, Called(c, op, at)
    PROVE  /\ closer' \in [Closers -> CallRecord]
           /\ \A d \in Closers : d # c => closer'[d] = closer[d]
           /\ closer[c].at = "idle"
           /\ closer'[c].at = at /\ closer'[c].op = op
           /\ queue = 0 => \A d \in Closers : ~closer'[d].due
<1> DEFINE r == [at |-> at, op |-> op, due |-> at = "answered" /\ queue > 0]
<1>1. r \in CallRecord
  BY DEF CallRecord
<1>2. closer' = [closer EXCEPT ![c] = r] /\ closer[c].at = "idle"
  BY DEF Called
<1>3. closer \in [Closers -> CallRecord]
  BY DEF OtlpTypeOK
<1>4. closer'[c] = r /\ \A d \in Closers : d # c => closer'[d] = closer[d]
  BY <1>2, <1>3
<1>5. queue = 0 => ~r.due
  <2>1. queue = 0 => ~(queue > 0)
    OBVIOUS
  <2>2. r.due = (at = "answered" /\ queue > 0)
    BY Zenon
  <2>3. QED BY <2>1, <2>2, Zenon
<1>6. queue = 0 => \A d \in Closers : ~closer'[d].due
  BY <1>4, <1>5 DEF OtlpTypeOK
<1>7. closer' \in [Closers -> CallRecord]
  BY <1>1, <1>2, <1>3
<1>8. QED BY <1>2, <1>4, <1>6, <1>7

\* A span that closes.
LEMMA CloseSpanInv == OInv /\ CloseSpan => OInv'
<1> SUFFICES ASSUME OInv, CloseSpan PROVE OInv'
  OBVIOUS
<1>1. UNCHANGED vars /\ UNCHANGED <<down, closer>> /\ queue' = queue + 1
      /\ ~down /\ queue < MaxQueue
  BY DEF CloseSpan
<1>2. IInv' /\ ToldInv' /\ TypeOK' /\ (Held' <=> Held)
  BY <1>1, OutsideInv
<1>3. queue' \in 0..MaxQueue /\ queue' # 0
  BY <1>1, LogOtlpAssumption DEF OInv, OtlpTypeOK
<1>4. OtlpTypeOK'
  BY <1>1, <1>2, <1>3 DEF OInv, OtlpTypeOK
<1>5. Held
  BY DEF CloseSpan, Recording, Held
<1>6. CloseInv'
  BY <1>1, <1>2, <1>5 DEF OInv, CloseInv, vars, slots, state
<1>7. QED BY <1>2, <1>4, <1>6 DEF OInv

\* The timer's export.
LEMMA TimerExportInv == OInv /\ TimerExport => OInv'
<1> SUFFICES ASSUME OInv, TimerExport PROVE OInv'
  OBVIOUS
<1>1. UNCHANGED vars /\ down' = down /\ Export(closer)
  BY DEF TimerExport
<1>2. IInv' /\ ToldInv' /\ TypeOK' /\ (Held' <=> Held)
  BY <1>1, OutsideInv
<1>3. /\ queue' = 0
      /\ closer' \in [Closers -> CallRecord]
      /\ \A c \in Closers : /\ ~closer'[c].due
                            /\ closer'[c].at = closer[c].at
                            /\ closer'[c].op = closer[c].op
  BY <1>1, ExportType DEF OInv, OtlpTypeOK
<1>4. UNCHANGED <<committed, live, installed>>
  BY <1>1 DEF vars, state
<1>5. OtlpTypeOK'
  BY <1>1, <1>2, <1>3, <1>4, LogOtlpAssumption DEF OInv, OtlpTypeOK
<1>6. Stopping => Stopping'
  BY <1>3 DEF Stopping
<1>7. CloseInv'
  BY <1>1, <1>3, <1>4, <1>6 DEF OInv, CloseInv
<1>8. QED BY <1>2, <1>5, <1>7 DEF OInv

\* A flush is asked for.
LEMMA FlushInv == ASSUME OInv, NEW c \in Closers, FlushOtlp(c) PROVE OInv'
<1>1. UNCHANGED vars /\ UNCHANGED <<queue, down>>
  BY DEF FlushOtlp
<1>2. IInv' /\ ToldInv' /\ TypeOK' /\ (Held' <=> Held)
  BY <1>1, OutsideInv
<1>3. PICK at \in {"drain", "answered"} : Called(c, "flush", at)
  BY DEF FlushOtlp
<1>4. /\ closer' \in [Closers -> CallRecord]
      /\ \A d \in Closers : d # c => closer'[d] = closer[d]
      /\ closer[c].at = "idle"
      /\ closer'[c].at = at /\ closer'[c].op = "flush"
      /\ queue = 0 => \A d \in Closers : ~closer'[d].due
  BY <1>3, CalledType DEF OInv
<1>5. UNCHANGED <<committed, live, installed>>
  BY <1>1 DEF vars, state
<1>6. OtlpTypeOK'
  BY <1>1, <1>2, <1>4, <1>5 DEF OInv, OtlpTypeOK
<1>7. Stopping => Stopping'
  BY <1>4 DEF Stopping
<1>8. closer'[c].at = "answered" => installed # "empty" /\ committed = {}
  BY <1>4 DEF FlushOtlp, Called, OtlpProvider, OInv, ToldInv
<1>9. CloseInv'
  BY <1>1, <1>2, <1>4, <1>5, <1>7, <1>8 DEF OInv, CloseInv
<1>10. QED BY <1>2, <1>6, <1>9 DEF OInv

\* A shutdown is asked for.
LEMMA ShutdownInv == ASSUME OInv, NEW c \in Closers, ShutdownOtlp(c) PROVE OInv'
<1>1. UNCHANGED vars /\ queue' = queue
  BY DEF ShutdownOtlp
<1>2. IInv' /\ ToldInv' /\ TypeOK' /\ (Held' <=> Held)
  BY <1>1, OutsideInv
<1>3. PICK at \in {"drain", "answered"} : Called(c, "shutdown", at)
  BY DEF ShutdownOtlp
<1>4. /\ closer' \in [Closers -> CallRecord]
      /\ \A d \in Closers : d # c => closer'[d] = closer[d]
      /\ closer[c].at = "idle"
      /\ closer'[c].at = at /\ closer'[c].op = "shutdown"
      /\ queue = 0 => \A d \in Closers : ~closer'[d].due
  BY <1>3, CalledType DEF OInv
<1>5. UNCHANGED <<committed, live, installed>>
  BY <1>1 DEF vars, state
<1>6. down' \in BOOLEAN /\ (down => down') /\ (down' => committed # {})
  <2>1. down \in BOOLEAN /\ (down => committed # {})
    BY DEF OInv, OtlpTypeOK
  <2>2. CASE OtlpProvider # {} /\ down' = TRUE
    BY <2>2, <1>5 DEF OtlpProvider
  <2>3. CASE down' = down
    BY <2>1, <2>3, Zenon
  <2>4. QED BY <2>2, <2>3 DEF ShutdownOtlp
<1>7. OtlpTypeOK'
  BY <1>1, <1>2, <1>4, <1>5, <1>6 DEF OInv, OtlpTypeOK
<1>8. Stopping => Stopping'
  BY <1>4 DEF Stopping
<1>9. (at = "drain" /\ Stopping') \/ (at = "answered" /\ down' = down)
  <2>1. CASE OtlpProvider # {} /\ ~down /\ down' = TRUE /\ Called(c, "shutdown", "drain")
    BY <2>1, CalledType, <1>4 DEF OInv, Stopping
  <2>2. CASE Called(c, "shutdown", "answered") /\ UNCHANGED down
    BY <2>2, CalledType, <1>4 DEF OInv
  <2>3. QED BY <2>1, <2>2 DEF ShutdownOtlp
<1>10. closer'[c].at = "answered" => installed # "empty" /\ (down \/ committed = {})
  <2>1. CASE OtlpProvider # {} /\ ~down /\ down' = TRUE /\ Called(c, "shutdown", "drain")
    BY <2>1, CalledType DEF OInv
  <2>2. CASE (OtlpProvider = {} \/ down) /\ ToldInstalled
    BY <2>2 DEF OtlpProvider, OInv, ToldInv
  <2>3. QED BY <2>1, <2>2 DEF ShutdownOtlp
<1>11. CloseInv'
  BY <1>1, <1>2, <1>4, <1>5, <1>6, <1>8, <1>9, <1>10 DEF OInv, CloseInv
<1>12. QED BY <1>2, <1>7, <1>11 DEF OInv

\* The drain of a flush or of a shutdown ends.
LEMMA DrainedInv == ASSUME OInv, NEW c \in Closers, Drained(c) PROVE OInv'
<1> DEFINE calling == [closer EXCEPT ![c] = NoCall]
<1>1. Export(calling) /\ closer[c].at = "drain"
      /\ UNCHANGED <<build, host, slots, guard, poisoned, installed, committed, local,
                     returned, down>>
      /\ live' = IF closer[c].op = "shutdown" THEN live \ committed ELSE live
  BY DEF Drained
<1>2. live' \subseteq live
  BY <1>1
<1>3. IInv' /\ ToldInv'
  BY <1>1, <1>2, StopInv DEF OInv
<1>4. calling \in [Closers -> CallRecord]
  BY DEF OInv, OtlpTypeOK, NoCall, CallRecord
<1>5. /\ queue' = 0
      /\ closer' \in [Closers -> CallRecord]
      /\ \A d \in Closers : /\ ~closer'[d].due
                            /\ closer'[d].at = calling[d].at
                            /\ closer'[d].op = calling[d].op
  BY <1>1, <1>4, ExportType
<1>6. \A d \in Closers : /\ d # c => closer'[d].at = closer[d].at
                         /\ d # c => closer'[d].op = closer[d].op
                         /\ d = c => closer'[d].at = "idle"
  BY <1>5 DEF OInv, OtlpTypeOK, NoCall
<1>7. OtlpTypeOK'
  BY <1>1, <1>3, <1>5, LogOtlpAssumption DEF OInv, OtlpTypeOK, IInv
<1>8. down' => Stopping' \/ (queue' = 0 /\ live' \cap committed' = {})
  <2>1. CASE closer[c].op = "shutdown"
    BY <2>1, <1>1, <1>5
  <2>2. CASE closer[c].op # "shutdown"
    <3>1. Stopping => Stopping'
      BY <2>2, <1>6 DEF Stopping
    <3>2. QED BY <1>1, <1>2, <1>5, <3>1 DEF OInv, CloseInv
  <2>3. QED BY <2>1, <2>2
<1>9. CloseInv'
  BY <1>1, <1>5, <1>6, <1>8 DEF OInv, CloseInv
<1>10. QED BY <1>3, <1>7, <1>9 DEF OInv

-----------------------------------------------------------------------------

\* The closing calls never touch what init_with answers or decides.
LEMMA OutsideOutcome ==
    ASSUME \/ CloseSpan \/ TimerExport
           \/ \E c \in Closers : FlushOtlp(c) \/ ShutdownOtlp(c) \/ Drained(c)
    PROVE  UNCHANGED <<Outcome, returned>>
<1>1. UNCHANGED <<subscriber, installed, pc, returned>>
  BY DEF CloseSpan, TimerExport, FlushOtlp, ShutdownOtlp, Drained, vars, slots, state, local
<1>2. QED BY <1>1 DEF Outcome

\* Every step keeps the invariant.
LEMMA OtlpNextInv == OInv /\ [OtlpNext]_allVars => OInv'
<1> SUFFICES ASSUME OInv, [OtlpNext]_allVars PROVE OInv'
  OBVIOUS
<1>1. CASE InitStep
  BY <1>1, InitStepInv DEF InitStep
<1>2. CASE UNCHANGED allVars
  BY <1>2, InitStepInv DEF allVars
<1>3. CASE CloseSpan
  BY <1>3, CloseSpanInv
<1>4. CASE TimerExport
  BY <1>4, TimerExportInv
<1>5. CASE \E c \in Closers : FlushOtlp(c) \/ ShutdownOtlp(c) \/ Drained(c)
  BY <1>5, FlushInv, ShutdownInv, DrainedInv
<1>6. QED BY <1>1, <1>2, <1>3, <1>4, <1>5 DEF OtlpNext

\* The inductive invariant of the process with its closing calls.
THEOREM OtlpInvariance == OtlpSpec => []OInv
<1>1. LogOtlpInit => OInv BY OtlpInitInv
<1>2. OInv /\ [OtlpNext]_allVars => OInv' BY OtlpNextInv
<1>3. QED BY <1>1, <1>2, PTL DEF OtlpSpec

\* Every variable keeps its type, the buffer its bound, and a span that is due
\* is in the buffer.
THEOREM OtlpTypeCorrect == OtlpSpec => []OtlpTypeOK
<1>1. OInv => OtlpTypeOK BY DEF OInv
<1>2. QED BY <1>1, OtlpInvariance, PTL

\* With the guard free, the slots, INSTALLED and the log bridge agree, whatever
\* is closed meanwhile.
THEOREM OtlpOwnersCorrect == OtlpSpec => []OwnersAgree
<1>1. OInv => OwnersAgree BY OwnersFromInv DEF OInv
<1>2. QED BY <1>1, OtlpInvariance, PTL

\* No failed or panicked call leaves an OTLP provider running.
THEOREM OtlpProvidersOwned == OtlpSpec => []NoOrphanProvider
<1>1. OInv => NoOrphanProvider BY DEF OInv, IInv
<1>2. QED BY <1>1, OtlpInvariance, PTL

\* An Ok of flush_otlp or shutdown_otlp leaves nothing that was buffered before
\* the call and, once no shutdown is under way, no provider running.
THEOREM ClosedDrained == OtlpSpec => []ClosedIsDrained
<1>1. OInv => ClosedIsDrained
  <2> SUFFICES ASSUME OInv, NEW c \in Closers, closer[c].at = "answered", ~Stopping
               PROVE  ~closer[c].due /\ live \cap committed = {}
    BY DEF ClosedIsDrained, Stopping
  <2>1. installed # "empty" /\ (down \/ committed = {})
    BY DEF OInv, CloseInv
  <2>2. CASE down
    BY <2>2 DEF OInv, CloseInv, OtlpTypeOK
  <2>3. CASE committed = {}
    <3>1. ~Held
      BY <2>1, <2>3 DEF Held, OInv, IInv, PhaseInv
    <3>2. queue = 0
      BY <3>1 DEF OInv, CloseInv, OtlpTypeOK
    <3>3. QED BY <2>3, <3>2 DEF OInv, OtlpTypeOK
  <2>4. QED BY <2>1, <2>2, <2>3
<1>2. QED BY <1>1, OtlpInvariance, PTL

\* The process still settles on one outcome that no answer contradicts.
THEOREM OtlpRefinement == OtlpSpec => OneOutcome
<1>1. LogOtlpInit => Once!Init
  BY DEF LogOtlpInit, Init, Once!Init, Outcome
<1>2. OInv /\ OInv' /\ [OtlpNext]_allVars => [Once!Next]_<<Outcome, returned>>
  <2> SUFFICES ASSUME OInv, OInv', [OtlpNext]_allVars
               PROVE  [Once!Next]_<<Outcome, returned>>
    OBVIOUS
  <2>1. CASE InitStep \/ UNCHANGED allVars
    BY <2>1, StepRefines DEF InitStep, allVars, OInv
  <2>2. CASE ~(InitStep \/ UNCHANGED allVars)
    BY <2>2, OutsideOutcome DEF OtlpNext
  <2>3. QED BY <2>1, <2>2
<1>3. QED
  BY <1>1, <1>2, OtlpInvariance, PTL DEF OtlpSpec, OneOutcome, Once!Spec

-----------------------------------------------------------------------------
(* What the installed layer was asked to be. *)

\* Of a request and a host that pass the checks, the request's words decide.
LEMMA OptionsDecide ==
    ASSUME NEW r \in Request, NEW h \in Host, ConfigError("systemd", r, h) = "none",
           NEW o, o = Output("systemd", r, h)
    PROVE  /\ r.sink # "auto" => o.sink = r.sink
           /\ r.format # "auto" /\ o.sink # "journald" => o.format = r.format
           /\ o.sink \in {"stdout", "stderr", "journald"} /\ o.format # "auto"
<1>1. \A i \in 1..6 : ~ SystemdChecks(r, h)[i].fails
  BY EveryCheckPassed DEF Checks, SystemdChecks
<1>2. /\ Chosen(r.sink, h.sink) \notin {"not_unicode", "junk"}
      /\ Chosen(r.format, h.format) \notin {"not_unicode", "junk"}
  <2>1. SystemdChecks(r, h)[3].fails = (Chosen(r.sink, h.sink) \in {"not_unicode", "junk"})
    BY DEF SystemdChecks
  <2>2. SystemdChecks(r, h)[4].fails = (Chosen(r.format, h.format) \in {"not_unicode", "junk"})
    BY DEF SystemdChecks
  <2>3. ~ SystemdChecks(r, h)[3].fails /\ ~ SystemdChecks(r, h)[4].fails
    BY <1>1
  <2>4. QED BY <2>1, <2>2, <2>3
<1>3. /\ r.sink \in Sinks /\ h.sink \in EnvText(Sinks)
      /\ r.format \in Formats /\ h.format \in EnvText(Formats)
  BY DEF Request, Host
<1>4. /\ EffectiveSink(r, h) \in {"stdout", "stderr", "journald"}
      /\ r.sink # "auto" => EffectiveSink(r, h) = r.sink
  BY <1>2, <1>3 DEF EffectiveSink, Chosen, EnvText, Sinks
<1>5. /\ EffectiveFormat(r, h) # "auto"
      /\ r.format # "auto" => EffectiveFormat(r, h) = r.format
  BY <1>2, <1>3 DEF EffectiveFormat, Chosen, EnvText, Formats
<1>6. CASE EffectiveSink(r, h) = "journald"
  BY <1>4, <1>6 DEF Output
<1>7. CASE EffectiveSink(r, h) # "journald"
  BY <1>4, <1>5, <1>7 DEF Output
<1>8. QED BY <1>6, <1>7

\* A step of init_with.
LEMMA OptionsStep == IInv /\ OptionsInv /\ [Next]_vars => OptionsInv'
<1> SUFFICES ASSUME IInv, OptionsInv, [Next]_vars PROVE OptionsInv'
  OBVIOUS
<1> USE DEF IInv, TypeOK, OptionsInv, GoTo, Leave, slots, state, local, vars
<1>1. ASSUME NEW t \in Threads, CallInit(t) PROVE OptionsInv'
  BY <1>1 DEF CallInit
<1>2. ASSUME NEW t \in Threads, Lock(t) \/ Repeat(t) \/ Begin(t) \/ Refuse(t) PROVE OptionsInv'
  BY <1>2 DEF Lock, Repeat, Begin, Refuse
<1>3. ASSUME NEW t \in Threads, Prepare(t) PROVE OptionsInv'
  BY <1>3 DEF Prepare
<1>4. ASSUME NEW t \in Threads, Claim(t) PROVE OptionsInv'
  <2>1. \A u \in Threads \ {t} : ~ Inside(u)
    BY <1>4 DEF Claim, GuardInv, Inside
  <2>2. QED BY <1>4, <2>1 DEF Claim, Inside
<1>5. ASSUME NEW t \in Threads, Lose(t) \/ Publish(t) \/ Bridge(t) \/ Store(t) PROVE OptionsInv'
  BY <1>5 DEF Lose, Publish, Bridge, Store
<1>6. ASSUME NEW t \in Threads, Announce(t) \/ Panic(t) PROVE OptionsInv'
  BY <1>6 DEF Announce, Panic
<1>7. CASE ForeignSubscriber \/ ForeignLogger \/ UNCHANGED vars
  BY <1>7 DEF ForeignSubscriber, ForeignLogger
<1>8. QED
  BY <1>1, <1>2, <1>3, <1>4, <1>5, <1>6, <1>7 DEF Next, Proceed, AllDone

\* The closing calls look at no option.
LEMMA OptionsNext == OInv /\ OptionsInv /\ [OtlpNext]_allVars => OptionsInv'
<1> SUFFICES ASSUME OInv, OptionsInv, [OtlpNext]_allVars PROVE OptionsInv'
  OBVIOUS
<1>1. CASE InitStep \/ UNCHANGED allVars
  BY <1>1, OptionsStep DEF InitStep, allVars, OInv
<1>2. CASE CloseSpan \/ TimerExport \/ \E c \in Closers : FlushOtlp(c) \/ ShutdownOtlp(c) \/ Drained(c)
  <2>1. UNCHANGED <<build, host, output, pc, request>>
    BY <1>2 DEF CloseSpan, TimerExport, FlushOtlp, ShutdownOtlp, Drained, vars, slots, local
  <2>2. QED BY <2>1 DEF OptionsInv
<1>3. QED BY <1>1, <1>2 DEF OtlpNext

\* The layer installed is the one the winning call asked for: an environment
\* variable decides only what that call left at Auto.
THEOREM OptionsWin == OtlpSpec => []ExplicitOptionsWin
<1>1. LogOtlpInit => OptionsInv
  BY DEF LogOtlpInit, Init, OptionsInv
<1>2. OInv /\ OptionsInv /\ [OtlpNext]_allVars => OptionsInv'
  BY OptionsNext
<1>3. OInv /\ OptionsInv => ExplicitOptionsWin
  <2> SUFFICES ASSUME OInv, OptionsInv, NEW t \in Threads,
                      pc[t] \in {"publish", "bridge", "store", "announce"}, build = "systemd",
                      NEW o \in output
               PROVE  /\ request[t].sink # "auto" => o.sink = request[t].sink
                      /\ request[t].format # "auto" /\ o.sink # "journald"
                           => o.format = request[t].format
                      /\ o.sink \in {"stdout", "stderr", "journald"} /\ o.format # "auto"
    BY DEF ExplicitOptionsWin
  <2>1. request[t] \in Request /\ host \in Host
    BY LogInitAssumption DEF OInv, IInv, TypeOK
  <2>2. ConfigError("systemd", request[t], host) = "none" /\ o = Output("systemd", request[t], host)
    BY DEF OptionsInv
  <2>3. QED BY <2>1, <2>2, OptionsDecide
<1>4. QED BY <1>1, <1>2, <1>3, OtlpInvariance, PTL DEF OtlpSpec

-----------------------------------------------------------------------------
(* A call returns, in two halves: some thread can always move that keeps the  *)
(* others waiting, and every step takes its call closer to its answer.        *)

\* What a thread inside init_with can do without waiting for anybody.
CanMove(t) ==
    \/ pc[t] = "lock" /\ guard = NoThread
    \/ pc[t] \in {"check", "prepare", "claim", "bridge", "store", "announce"}
    \/ pc[t] = "publish" /\ installed = "empty"

\* Whoever waits, waits for a holder of INSTALL_GUARD that can move.
NobodyBlocked ==
    \A t \in Threads : pc[t] # "idle" =>
        CanMove(t) \/ \E h \in Threads : guard = h /\ Inside(h) /\ CanMove(h)

\* The most steps a call can still take.
StepsLeft(t) ==
    CASE pc[t] = "lock"     -> 8
      [] pc[t] = "check"    -> 7
      [] pc[t] = "prepare"  -> 6
      [] pc[t] = "claim"    -> 5
      [] pc[t] = "publish"  -> 4
      [] pc[t] = "bridge"   -> 3
      [] pc[t] = "store"    -> 2
      [] pc[t] = "announce" -> 1
      [] OTHER              -> 0

\* A step of a call brings it nearer to its answer, a step of anybody else leaves
\* it where it is, and the guard is given up by its holder alone, as it returns.
CallsRunDown ==
    \A t \in Threads : pc[t] # "idle" =>
        /\ Proceed(t) \/ Panic(t) => StepsLeft(t)' < StepsLeft(t)
        /\ StepsLeft(t)' < StepsLeft(t) \/ UNCHANGED pc[t]
        /\ guard = t => guard' = t \/ (guard' = NoThread /\ pc'[t] = "idle")

LEMMA InvImpliesNobodyBlocked == IInv => NobodyBlocked
<1> SUFFICES ASSUME IInv, NEW t \in Threads, pc[t] # "idle", ~ CanMove(t)
             PROVE  \E h \in Threads : guard = h /\ Inside(h) /\ CanMove(h)
  BY DEF NobodyBlocked
<1>1. \A u \in Threads : Inside(u) => CanMove(u)
  BY DEF IInv, TypeOK, Steps, PhaseInv, Inside, CanMove
<1>2. pc[t] = "lock" /\ guard # NoThread
  BY <1>1 DEF Inside, CanMove
<1>3. guard \in Threads /\ Inside(guard)
  BY <1>2 DEF IInv, TypeOK, GuardInv
<1>4. QED
  BY <1>1, <1>3

\* The steps of one thread.
LEMMA ThreadRunsDown ==
    ASSUME IInv, NEW u \in Threads, CallInit(u) \/ Proceed(u) \/ Panic(u)
    PROVE  /\ \A t \in Threads \ {u} : UNCHANGED pc[t]
           /\ pc[u] = "idle" <=> CallInit(u)
           /\ pc[u] # "idle" => StepsLeft(u)' < StepsLeft(u)
           /\ guard \in Threads =>
                guard' = guard \/ (guard = u /\ guard' = NoThread /\ pc'[u] = "idle")
<1> USE DEF IInv, TypeOK, GuardInv, GoTo, Leave, Inside
<1>1. CASE CallInit(u)
  BY <1>1 DEF CallInit, state
<1>2. CASE Lock(u)
  BY <1>2, LogInitAssumption DEF Lock, CallInit, StepsLeft
<1>3. CASE Repeat(u)
  BY <1>3 DEF Repeat, CallInit, StepsLeft
<1>4. CASE Begin(u)
  BY <1>4 DEF Begin, CallInit, StepsLeft, state
<1>5. CASE Refuse(u)
  BY <1>5 DEF Refuse, CallInit, StepsLeft
<1>6. CASE Prepare(u)
  BY <1>6 DEF Prepare, CallInit, StepsLeft
<1>7. CASE Claim(u)
  BY <1>7 DEF Claim, CallInit, StepsLeft, state
<1>8. CASE Lose(u)
  BY <1>8 DEF Lose, CallInit, StepsLeft
<1>9. CASE Publish(u)
  BY <1>9 DEF Publish, CallInit, StepsLeft
<1>10. CASE Bridge(u)
  BY <1>10 DEF Bridge, CallInit, StepsLeft, state
<1>11. CASE Store(u)
  BY <1>11 DEF Store, CallInit, StepsLeft
<1>12. CASE Announce(u)
  BY <1>12 DEF Announce, CallInit, StepsLeft
<1>13. CASE Panic(u)
  BY <1>13 DEF Panic, CallInit, StepsLeft
<1>14. QED
  BY <1>1, <1>2, <1>3, <1>4, <1>5, <1>6, <1>7, <1>8, <1>9, <1>10, <1>11, <1>12, <1>13
     DEF Proceed

LEMMA StepRunsDown == OInv /\ [OtlpNext]_allVars => CallsRunDown
<1> SUFFICES ASSUME OInv, [OtlpNext]_allVars, NEW t \in Threads, pc[t] # "idle"
             PROVE  /\ Proceed(t) \/ Panic(t) => StepsLeft(t)' < StepsLeft(t)
                    /\ StepsLeft(t)' < StepsLeft(t) \/ UNCHANGED pc[t]
                    /\ guard = t => guard' = t \/ (guard' = NoThread /\ pc'[t] = "idle")
  BY DEF CallsRunDown
<1>1. IInv
  BY DEF OInv
<1>2. Proceed(t) \/ Panic(t) => StepsLeft(t)' < StepsLeft(t)
  BY <1>1, ThreadRunsDown
<1>3. ASSUME NEW u \in Threads, CallInit(u) \/ Proceed(u) \/ Panic(u)
      PROVE  /\ StepsLeft(t)' < StepsLeft(t) \/ UNCHANGED pc[t]
             /\ guard = t => guard' = t \/ (guard' = NoThread /\ pc'[t] = "idle")
  BY <1>1, <1>3, ThreadRunsDown
<1>4. ASSUME UNCHANGED pc, UNCHANGED guard
      PROVE  /\ StepsLeft(t)' < StepsLeft(t) \/ UNCHANGED pc[t]
             /\ guard = t => guard' = t \/ (guard' = NoThread /\ pc'[t] = "idle")
  BY <1>4
<1>5. ASSUME ForeignSubscriber \/ ForeignLogger \/ AllDone
      PROVE  UNCHANGED pc /\ UNCHANGED guard
  BY <1>5 DEF ForeignSubscriber, ForeignLogger, AllDone, vars, state, local
<1>6. ASSUME CloseSpan \/ TimerExport
               \/ \E c \in Closers : FlushOtlp(c) \/ ShutdownOtlp(c) \/ Drained(c)
      PROVE  UNCHANGED pc /\ UNCHANGED guard
  BY <1>6 DEF CloseSpan, TimerExport, FlushOtlp, ShutdownOtlp, Drained, vars, state, local
<1>7. ASSUME UNCHANGED allVars
      PROVE  UNCHANGED pc /\ UNCHANGED guard
  BY <1>7 DEF allVars, vars, state, local
<1>8. \/ \E u \in Threads : CallInit(u) \/ Proceed(u) \/ Panic(u)
      \/ UNCHANGED pc /\ UNCHANGED guard
  BY <1>5, <1>6, <1>7 DEF OtlpNext, InitStep, Next
<1>9. QED
  BY <1>2, <1>3, <1>4, <1>8

\* No call waits on a call that cannot go on: whoever does not get INSTALL_GUARD
\* waits for a thread inside init_with that has a step to take, whatever panicked
\* before and whoever took the slots (init.rs:103-119).
THEOREM CallsMayGoOn == OtlpSpec => []NobodyBlocked
<1>1. OInv => NobodyBlocked
  BY InvImpliesNobodyBlocked DEF OInv
<1>2. QED BY <1>1, OtlpInvariance, PTL

\* A call answers within eight steps of its own, none of which another thread, a
\* flush or a shutdown takes back, and keeps the guard until it does.
THEOREM CallsEnd == OtlpSpec => [][CallsRunDown]_allVars
<1>1. OInv /\ [OtlpNext]_allVars => [CallsRunDown]_allVars
  BY StepRunsDown
<1>2. QED BY <1>1, OtlpInvariance, PTL DEF OtlpSpec

=============================================================================
