------------------------------ MODULE MCLogInit ------------------------------
(***************************************************************************)
(* LogOtlp for TLC: two threads, two calls each, both builds, and calls of *)
(* flush_otlp and shutdown_otlp at any moment.                             *)
(***************************************************************************)
EXTENDS LogOtlp

Strict == [idempotent |-> FALSE, sink |-> "auto", format |-> "auto",
           filter |-> "valid", otlp |-> "valid"]

\* A strict call with an exporter, init_or_skip, and a call whose options are
\* explicit: the wasm32 build refuses it, and so does a host without journald.
MCRequests ==
    {Strict,
     [Strict EXCEPT !.idempotent = TRUE, !.otlp = "none"],
     [Strict EXCEPT !.sink = "journald", !.format = "json"]}

\* A terminal whose environment picks stdout and compact, and a host whose
\* KAMU_LOG_SINK no parser knows and that runs no journald.
MCHosts ==
    {[filter |-> "unset", sink |-> "stdout", format |-> "compact", tty |-> {"stdout"},
      journald |-> TRUE],
     [filter |-> "valid", sink |-> "junk", format |-> "unset", tty |-> {},
      journald |-> FALSE]}

=============================================================================
