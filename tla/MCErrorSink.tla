---------------------------- MODULE MCErrorSink ----------------------------
(* ErrorSink with an application that installs sinks while devices report. *)
EXTENDS ErrorSink

MCContext(sink) == <<"context of", sink>>
=============================================================================
