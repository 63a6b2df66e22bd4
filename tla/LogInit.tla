------------------------------- MODULE LogInit -------------------------------
(***************************************************************************)
(* kamu-logging's init_with, called by any number of threads of one        *)
(* process, beside other crates that may take the two process-global slots *)
(* (the tracing subscriber and the log facade) at any moment.              *)
(*                                                                         *)
(* Between the lock and its release a call is a sequence of steps: a slot  *)
(* belongs to another crate's code as much as to ours, and the state that  *)
(* flush_otlp and shutdown_otlp read is read without the lock.             *)
(***************************************************************************)
EXTENDS LogConfig

CONSTANTS
    Threads,    \* the threads that call init_with
    NoThread,   \* the holder of a free INSTALL_GUARD
    MaxCalls,   \* bound: the calls one thread makes
    Requests,   \* the options those calls pass
    Hosts       \* the environments the process may run in

ASSUME LogInitAssumption ==
    /\ NoThread \notin Threads
    /\ MaxCalls \in Nat
    /\ Requests \subseteq Request /\ Requests # {}
    /\ Hosts \subseteq Host

VARIABLES
    build,       \* the build feature: systemd or wasm32
    host,        \* what the process finds around it
    guard,       \* INSTALL_GUARD: the thread that holds it
    poisoned,    \* INSTALL_GUARD was released by a panic
    installed,   \* INSTALLED: empty, or the bridge state it was published with
    committed,   \* the OTLP provider in INSTALLED, as a set of at most one call
    subscriber,  \* owner of tracing's global default: none, ours, foreign
    output,      \* the layer our subscriber writes with, {} or one of Output
    logger,      \* owner of the log facade: none, ours, foreign
    live,        \* the OTLP providers that run, named by the call that built them
    pc,          \* where in its call a thread is
    calls,       \* how many calls a thread has made
    request,     \* the options of a thread's latest call
    bridge,      \* that call's local log_bridge
    returned     \* history: every answer given, read by the properties alone

slots == <<subscriber, output, logger>>
state == <<guard, poisoned, installed, committed, live>>
local == <<pc, calls, request, bridge>>
vars  == <<build, host, slots, state, local, returned>>

Call == Threads \X Nat

Steps == {"idle", "lock", "check", "prepare", "claim", "publish", "bridge", "store",
          "announce"}

Verdicts == ConfigErrors \cup
    {"Ok", "AlreadyInitialized", "ForeignGlobalSubscriber", "ForeignGlobalLogger",
     "InstallationIncomplete", "panic"}

TypeOK ==
    /\ build \in {"systemd", "wasm32"}
    /\ host \in Hosts
    /\ guard \in Threads \cup {NoThread}
    /\ poisoned \in BOOLEAN
    /\ installed \in {"empty", "installing", "ours", "foreign"}
    /\ committed \subseteq Call
    /\ subscriber \in {"none", "ours", "foreign"}
    /\ logger \in {"none", "ours", "foreign"}
    /\ live \subseteq Call
    /\ pc \in [Threads -> Steps]
    /\ calls \in [Threads -> Nat]
    /\ request \in [Threads -> Requests]
    /\ bridge \in [Threads -> {"ours", "foreign"}]
    /\ returned \subseteq [call : Call, idempotent : BOOLEAN, verdict : Verdicts]

-----------------------------------------------------------------------------

Init ==
    /\ build \in {"systemd", "wasm32"}
    /\ host \in Hosts
    /\ guard = NoThread /\ poisoned = FALSE
    /\ installed = "empty" /\ committed = {}
    /\ subscriber = "none" /\ output = {} /\ logger = "none"
    /\ live = {}
    /\ pc = [t \in Threads |-> "idle"]
    /\ calls = [t \in Threads |-> 0]
    /\ request = [t \in Threads |-> CHOOSE r \in Requests : TRUE]
    /\ bridge = [t \in Threads |-> "foreign"]
    /\ returned = {}

Id(t) == <<t, calls[t]>>

GoTo(t, step) == pc' = [pc EXCEPT ![t] = step]

\* Leaving init_with drops the guard.
Leave(t, verdict) ==
    /\ guard' = NoThread
    /\ GoTo(t, "idle")
    /\ returned' = returned \cup
         {[call |-> Id(t), idempotent |-> request[t].idempotent, verdict |-> verdict]}

\* init, init_or_skip and init_with differ in the request they pass.
CallInit(t) ==
    /\ pc[t] = "idle" /\ calls[t] < MaxCalls
    /\ \E r \in Requests : request' = [request EXCEPT ![t] = r]
    /\ calls' = [calls EXCEPT ![t] = @ + 1]
    /\ GoTo(t, "lock")
    /\ UNCHANGED <<build, host, slots, state, bridge, returned>>

\* Mutant: a poisoned guard is not recovered.
LockUnlessPoisoned(t) ==
    /\ pc[t] = "lock" /\ guard = NoThread /\ ~poisoned
    /\ guard' = t
    /\ GoTo(t, "check")
    /\ UNCHANGED <<build, host, slots, poisoned, installed, committed, live, calls,
                   request, bridge, returned>>

\* A poisoned guard is taken like any other.
Lock(t) ==
    /\ pc[t] = "lock" /\ guard = NoThread
    /\ guard' = t
    /\ GoTo(t, "check")
    /\ UNCHANGED <<build, host, slots, poisoned, installed, committed, live, calls,
                   request, bridge, returned>>

\* Mutant: a repeated call does not look at the bridge.
RepeatIgnoringBridge(idempotent) == IF idempotent THEN "Ok" ELSE "AlreadyInitialized"

\* repeat_result: what a call is told once INSTALLED is set.
RepeatResult(idempotent) ==
    CASE installed = "foreign"    -> "ForeignGlobalLogger"
      [] installed = "installing" -> "InstallationIncomplete"
      [] OTHER -> IF idempotent THEN "Ok" ELSE "AlreadyInitialized"

Repeat(t) ==
    /\ pc[t] = "check" /\ installed # "empty"
    /\ Leave(t, RepeatResult(request[t].idempotent))
    /\ UNCHANGED <<build, host, slots, poisoned, installed, committed, live, calls,
                   request, bridge>>

Begin(t) ==
    /\ pc[t] = "check" /\ installed = "empty"
    /\ GoTo(t, "prepare")
    /\ UNCHANGED <<build, host, slots, state, calls, request, bridge, returned>>

\* Mutant: the call returns whether or not a check failed.
RefuseAnyway(t) ==
    /\ pc[t] = "prepare"
    /\ Leave(t, ConfigError(build, request[t], host))
    /\ UNCHANGED <<build, host, slots, poisoned, installed, committed, live, calls,
                   request, bridge>>

Refuse(t) ==
    LET error == ConfigError(build, request[t], host) IN
    /\ pc[t] = "prepare" /\ error # "none"
    /\ Leave(t, error)
    /\ UNCHANGED <<build, host, slots, poisoned, installed, committed, live, calls,
                   request, bridge>>

\* Building the OTLP layer starts the provider's exporter.
Prepare(t) ==
    /\ pc[t] = "prepare" /\ ConfigError(build, request[t], host) = "none"
    /\ live' = IF build = "systemd" /\ request[t].otlp = "valid"
               THEN live \cup {Id(t)} ELSE live
    /\ GoTo(t, "claim")
    /\ UNCHANGED <<build, host, slots, guard, poisoned, installed, committed, calls,
                   request, bridge, returned>>

\* set_global_default is one compare-and-swap on tracing's slot.
Claim(t) ==
    /\ pc[t] = "claim" /\ subscriber = "none"
    /\ subscriber' = "ours"
    /\ output' = {Output(build, request[t], host)}
    /\ GoTo(t, "publish")
    /\ UNCHANGED <<build, host, logger, state, calls, request, bridge, returned>>

\* Mutant: a losing call forgets the provider it built.
LoseAndLeak(t) ==
    /\ pc[t] = "claim" /\ subscriber # "none"
    /\ Leave(t, "ForeignGlobalSubscriber")
    /\ UNCHANGED <<build, host, slots, poisoned, installed, committed, live, calls,
                   request, bridge>>

\* A losing call stops the provider it built before it reports the loss.
Lose(t) ==
    /\ pc[t] = "claim" /\ subscriber # "none"
    /\ live' = live \ {Id(t)}
    /\ Leave(t, "ForeignGlobalSubscriber")
    /\ UNCHANGED <<build, host, slots, poisoned, installed, committed, calls, request,
                   bridge>>

\* INSTALLED.set.  The wasm32 build has no log bridge to wait for.
Publish(t) ==
    /\ pc[t] = "publish" /\ installed = "empty"
    /\ committed' = live \cap {Id(t)}
    /\ \/ build = "systemd" /\ installed' = "installing" /\ GoTo(t, "bridge")
          /\ UNCHANGED bridge
       \/ build = "wasm32" /\ installed' = "ours" /\ GoTo(t, "announce")
          /\ bridge' = [bridge EXCEPT ![t] = "ours"]
    /\ UNCHANGED <<build, host, slots, guard, poisoned, live, calls, request, returned>>

\* LogTracer::init takes the log facade unless somebody has.
Bridge(t) ==
    /\ pc[t] = "bridge"
    /\ logger' = IF logger = "none" THEN "ours" ELSE logger
    /\ bridge' = [bridge EXCEPT ![t] = IF logger = "none" THEN "ours" ELSE "foreign"]
    /\ GoTo(t, "store")
    /\ UNCHANGED <<build, host, subscriber, output, state, calls, request, returned>>

\* Mutant: the bridge counts as ours whoever took the log facade.
StoreOurs(t) ==
    /\ pc[t] = "store"
    /\ installed' = "ours"
    /\ GoTo(t, "announce")
    /\ UNCHANGED <<build, host, slots, guard, poisoned, committed, live, calls, request,
                   bridge, returned>>

Store(t) ==
    /\ pc[t] = "store"
    /\ installed' = bridge[t]
    /\ GoTo(t, "announce")
    /\ UNCHANGED <<build, host, slots, guard, poisoned, committed, live, calls, request,
                   bridge, returned>>

\* The "Logging initialized" event, then the answer to the installing call.
Announce(t) ==
    /\ pc[t] = "announce"
    /\ Leave(t, IF bridge[t] = "ours" THEN "Ok" ELSE "ForeignGlobalLogger")
    /\ UNCHANGED <<build, host, slots, poisoned, installed, committed, live, calls,
                   request, bridge>>

\* The calls out of this crate may panic: the unwinding drops the guard, which
\* poisons it, and the provider unless INSTALLED owns it.
Panic(t) ==
    /\ pc[t] \in {"prepare", "claim", "bridge", "announce"}
    /\ poisoned' = TRUE
    /\ live' = live \ ({Id(t)} \ committed)
    /\ Leave(t, "panic")
    /\ UNCHANGED <<build, host, slots, installed, committed, calls, request, bridge>>

\* Another crate takes a slot.
ForeignSubscriber ==
    /\ subscriber = "none"
    /\ subscriber' = "foreign"
    /\ UNCHANGED <<build, host, output, logger, state, local, returned>>

ForeignLogger ==
    /\ logger = "none"
    /\ logger' = "foreign"
    /\ UNCHANGED <<build, host, subscriber, output, state, local, returned>>

\* Nothing is left to call: the one way for the threads to be at rest.
AllDone ==
    /\ \A t \in Threads : pc[t] = "idle" /\ calls[t] = MaxCalls
    /\ UNCHANGED vars

Proceed(t) ==
    \/ Lock(t) \/ Repeat(t) \/ Begin(t) \/ Refuse(t) \/ Prepare(t) \/ Claim(t)
    \/ Lose(t) \/ Publish(t) \/ Bridge(t) \/ Store(t) \/ Announce(t)

Next ==
    \/ \E t \in Threads : CallInit(t) \/ Proceed(t) \/ Panic(t)
    \/ ForeignSubscriber \/ ForeignLogger
    \/ AllDone

Spec == Init /\ [][Next]_vars

-----------------------------------------------------------------------------
(* Properties *)

\* Whenever nobody is installing, the slots and INSTALLED tell one story: the
\* subscriber is ours exactly if INSTALLED is set, the bridge state says who owns
\* the log facade, and an install that stopped half-way left a poisoned guard.
\* The facade is never ours without the subscriber (init.rs:96-101).
OwnersAgree ==
    /\ logger = "ours" => subscriber = "ours" /\ installed # "empty"
    /\ guard = NoThread =>
         /\ subscriber = "ours" <=> installed # "empty"
         /\ build = "systemd" => (installed = "ours" <=> logger = "ours")
         /\ installed = "foreign" => logger = "foreign"
         /\ installed = "installing" => poisoned

\* An OTLP provider that runs is owned: INSTALLED holds it, or the call that
\* built it has not yet answered.  No failed or panicked call leaves one behind.
NoOrphanProvider ==
    \A c \in live : \/ c \in committed
                    \/ \E t \in Threads : c = Id(t) /\ pc[t] \in {"claim", "publish"}

\* An environment variable decides only what the caller left at Auto: the layer
\* installed is the one the winning call asked for.
ExplicitOptionsWin ==
    \A t \in Threads :
      pc[t] \in {"publish", "bridge", "store", "announce"} /\ build = "systemd" =>
        \A o \in output :
          /\ request[t].sink # "auto" => o.sink = request[t].sink
          /\ request[t].format # "auto" /\ o.sink # "journald" => o.format = request[t].format
          /\ o.sink \in {"stdout", "stderr", "journald"} /\ o.format # "auto"

\* The outcome the process has settled on, as the slots and INSTALLED show it.
Outcome ==
    CASE subscriber = "foreign"  -> "ForeignGlobalSubscriber"
      [] installed = "ours"      -> "Ok"
      [] installed = "foreign"   -> "ForeignGlobalLogger"
      [] installed = "installing"
         /\ \A t \in Threads : pc[t] \notin {"bridge", "store"} -> "InstallationIncomplete"
      [] OTHER                   -> "undecided"

Once == INSTANCE OnceOutcome WITH outcome <- Outcome

\* The process settles on one outcome and no answer of init_with ever
\* contradicts it: at most one strict call is told Ok, nobody is told Ok after a
\* conflict was reported, and a conflict once reported is reported again.
OneOutcome == Once!Spec

\* A call that was made returns, whatever panics and whoever else installs: a
\* poisoned guard blocks nobody and no arm of the code waits on another thread.
CallsReturn == \A t \in Threads : pc[t] # "idle" ~> pc[t] = "idle"

=============================================================================
