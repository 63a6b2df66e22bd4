------------------------------ MODULE LogConfig ------------------------------
(***************************************************************************)
(* How kamu-logging turns the options of one init_with call and the host   *)
(* it runs on into an output configuration, or into the error the call     *)
(* returns before it touches any process-global slot.                      *)
(*                                                                         *)
(* A request is what the caller passed (InitOptions); a host is what the   *)
(* code reads besides it: three environment variables, the terminals and   *)
(* the journald socket.                                                    *)
(***************************************************************************)
EXTENDS Naturals, Sequences

\* An environment variable is unset, not Unicode, not one of the words its
\* parser knows ("junk"), or one of these words.
Sinks   == {"auto", "stdout", "stderr", "journald"}
Formats == {"auto", "compact", "pretty", "json"}
EnvText(words) == words \cup {"unset", "not_unicode", "junk"}

Request ==
    [idempotent : BOOLEAN, sink : Sinks, format : Formats,
     filter : {"valid", "junk"}, otlp : {"none", "valid", "junk"}]

Host ==
    [filter : EnvText({"valid"}), sink : EnvText(Sinks), format : EnvText(Formats),
     tty : SUBSET {"stdout", "stderr"}, journald : BOOLEAN]

ConfigErrors ==
    {"InvalidEnvironmentValue", "InvalidConfiguration", "IO", "OtlpInit"}

-----------------------------------------------------------------------------

\* Mutant: the environment overrides what the caller asked for.
ChosenEnvironmentFirst(requested, env) ==
    IF env # "unset" THEN env ELSE requested

\* The environment speaks only for a field the caller left at Auto.
Chosen(requested, env) ==
    IF requested = "auto" /\ env # "unset" THEN env ELSE requested

EffectiveSink(r, h) ==
    IF Chosen(r.sink, h.sink) = "auto" THEN "stderr" ELSE Chosen(r.sink, h.sink)

\* Auto is pretty on a terminal and compact anywhere else.
EffectiveFormat(r, h) ==
    IF Chosen(r.format, h.format) # "auto" THEN Chosen(r.format, h.format)
    ELSE IF EffectiveSink(r, h) \in h.tty THEN "pretty" ELSE "compact"

\* The layer the subscriber is built with.  journald takes no formatter, JSON
\* is never coloured, and the wasm32 console knows only JSON and compact.
Output(build, r, h) ==
    IF build = "wasm32"
    THEN [sink |-> "console", ansi |-> FALSE,
          format |-> IF r.format \in {"auto", "json"} THEN "json" ELSE "compact"]
    ELSE IF EffectiveSink(r, h) = "journald"
    THEN [sink |-> "journald", ansi |-> FALSE, format |-> "none"]
    ELSE [sink |-> EffectiveSink(r, h), format |-> EffectiveFormat(r, h),
          ansi |-> EffectiveSink(r, h) \in h.tty /\ EffectiveFormat(r, h) # "json"]

\* What init_systemd can refuse, in the order in which it looks.
SystemdChecks(r, h) ==
    << [fails |-> h.filter \in {"not_unicode", "junk"}, error |-> "InvalidEnvironmentValue"],
       [fails |-> h.filter = "unset" /\ r.filter = "junk", error |-> "InvalidConfiguration"],
       [fails |-> Chosen(r.sink, h.sink) \in {"not_unicode", "junk"},
        error |-> "InvalidEnvironmentValue"],
       [fails |-> Chosen(r.format, h.format) \in {"not_unicode", "junk"},
        error |-> "InvalidEnvironmentValue"],
       [fails |-> EffectiveSink(r, h) = "journald" /\ ~h.journald, error |-> "IO"],
       [fails |-> r.otlp = "junk", error |-> "OtlpInit"] >>

\* init_wasm32 reads no environment and builds no exporter.
WasmChecks(r) ==
    << [fails |-> r.sink = "journald", error |-> "InvalidConfiguration"],
       [fails |-> r.filter = "junk", error |-> "InvalidConfiguration"] >>

Checks(build, r, h) ==
    IF build = "systemd" THEN SystemdChecks(r, h) ELSE WasmChecks(r)

\* The first check that fails decides the error; "none" if all pass.
ConfigError(build, r, h) ==
    LET checks == Checks(build, r, h)
        failed == {i \in DOMAIN checks : checks[i].fails}
    IN  IF failed = {} THEN "none"
        ELSE checks[CHOOSE i \in failed : \A j \in failed : i <= j].error

=============================================================================
