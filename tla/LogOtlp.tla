------------------------------- MODULE LogOtlp -------------------------------
(***************************************************************************)
(* flush_otlp and shutdown_otlp beside init_with: any thread may call them *)
(* at any moment, they take no lock, and they find the provider through    *)
(* INSTALLED alone, while spans reach it through the subscriber.           *)
(*                                                                         *)
(* The provider, its buffer, its timer and its export are the SDK's; they  *)
(* are modelled by what this crate relies on.                              *)
(***************************************************************************)
EXTENDS LogInit

CONSTANTS
    MaxCloses,  \* bound: the closing calls under way or remembered at one time
    MaxQueue    \* max_queue_size

ASSUME LogOtlpAssumption == MaxCloses \in Nat /\ MaxQueue \in Nat \ {0}

VARIABLES
    queue,   \* how many spans our subscriber's provider has buffered
    down,    \* the SDK's shutdown flag of that provider
    closer   \* the closing calls

Closers == 1..MaxCloses

otlpVars == <<queue, down, closer>>
allVars  == <<vars, otlpVars>>

\* A call drains, or it was answered Ok without: such a call is remembered if it
\* was entitled to more, having been made after init_with told anybody that this
\* crate is installed; due is whether spans buffered at its call still are.
NoCall == [at |-> "idle", op |-> "none", due |-> FALSE]

CallRecord ==
    [at : {"idle", "drain", "answered"}, op : {"none", "flush", "shutdown"}, due : BOOLEAN]

OtlpTypeOK ==
    /\ TypeOK
    /\ queue \in 0..MaxQueue
    /\ down \in BOOLEAN /\ (down => committed # {})
    /\ closer \in [Closers -> CallRecord]
    /\ queue = 0 => \A c \in Closers : ~closer[c].due

LogOtlpInit ==
    /\ Init
    /\ queue = 0 /\ down = FALSE
    /\ closer = [c \in Closers |-> NoCall]

\* init_with's steps, none of which looks at the buffer.
InitStep == Next /\ UNCHANGED otlpVars

\* A span goes where our subscriber's tracer sends it: to the provider of the
\* call that claimed the slot, in INSTALLED or not.
Recording ==
    \E c \in live : c \in committed \/ \E t \in Threads : pc[t] = "publish" /\ c = Id(t)

\* A full buffer drops the span, and so does a provider that was shut down.
CloseSpan ==
    /\ Recording /\ ~down /\ queue < MaxQueue
    /\ queue' = queue + 1
    /\ UNCHANGED <<vars, down, closer>>

\* The buffer is exported: nothing of it is due any more.
Export(calling) ==
    /\ queue' = 0
    /\ closer' = [c \in Closers |-> [calling[c] EXCEPT !.due = FALSE]]

\* The batch processor's own thread, on its timer; a simple processor exports as
\* the span closes.
TimerExport ==
    /\ queue > 0
    /\ Export(closer)
    /\ UNCHANGED <<vars, down>>

\* Mutant: the provider is handed out only once the log bridge is ours.
OtlpProviderOnceBridged == IF installed = "ours" THEN committed ELSE {}

\* otlp_provider: what INSTALLED holds, whatever became of the log bridge.
OtlpProvider == IF installed # "empty" THEN committed ELSE {}

\* An answer of init_with that tells its caller that this crate is installed.
ToldInstalled ==
    \E r \in returned :
      r.verdict \in {"Ok", "AlreadyInitialized", "ForeignGlobalLogger", "InstallationIncomplete"}

\* A call takes the first free place; the wasm32 build has no OTLP.
Called(c, op, at) ==
    /\ build = "systemd"
    /\ closer[c].at = "idle" /\ \A d \in 1..(c - 1) : closer[d].at # "idle"
    /\ closer' = [closer EXCEPT ![c] =
                    [at |-> at, op |-> op, due |-> at = "answered" /\ queue > 0]]

\* A provider that was shut down refuses to flush, and the call says so.
FlushOtlp(c) ==
    /\ \/ OtlpProvider # {} /\ ~down /\ Called(c, "flush", "drain")
       \/ OtlpProvider = {} /\ ToldInstalled /\ Called(c, "flush", "answered")
    /\ UNCHANGED <<vars, queue, down>>

\* The first to set the SDK's flag drains; AlreadyShutdown counts as success.
ShutdownOtlp(c) ==
    /\ \/ OtlpProvider # {} /\ ~down /\ down' = TRUE /\ Called(c, "shutdown", "drain")
       \/ (OtlpProvider = {} \/ down)
          /\ ToldInstalled /\ Called(c, "shutdown", "answered") /\ UNCHANGED down
    /\ UNCHANGED <<vars, queue>>

\* The export behind a flush or a shutdown ends, well or not, and is answered so;
\* the provider of a shutdown has stopped all the same.
Drained(c) ==
    /\ closer[c].at = "drain"
    /\ Export([closer EXCEPT ![c] = NoCall])
    /\ live' = IF closer[c].op = "shutdown" THEN live \ committed ELSE live
    /\ UNCHANGED <<build, host, slots, guard, poisoned, installed, committed, local,
                   returned, down>>

OtlpNext ==
    \/ InitStep
    \/ CloseSpan \/ TimerExport
    \/ \E c \in Closers : FlushOtlp(c) \/ ShutdownOtlp(c) \/ Drained(c)

\* A thread inside init_with runs on and waits for no export; nothing makes it
\* call or panic, another crate take a slot, or an export end.
OtlpSpec ==
    /\ LogOtlpInit /\ [][OtlpNext]_allVars
    /\ \A t \in Threads : WF_allVars(Proceed(t) /\ UNCHANGED otlpVars)

-----------------------------------------------------------------------------
(* Properties *)

\* Whoever closes after an init_with told anybody that this crate is installed
\* reaches its provider, also while the log bridge is foreign or was never
\* decided: once no shutdown is under way, an Ok means that no span closed before
\* the call is still buffered and, of a shutdown, that no provider runs on
\* (otlp.rs:227-261, init.rs:96-101).
ClosedIsDrained ==
    \A c \in Closers :
      /\ closer[c].at = "answered"
      /\ \A d \in Closers : ~(closer[d].at = "drain" /\ closer[d].op = "shutdown")
      => /\ ~closer[c].due
         /\ closer[c].op = "shutdown" => live \cap committed = {}

=============================================================================
