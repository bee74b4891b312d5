----------------------------- MODULE ErrorSink -----------------------------
(***************************************************************************)
(* The global error sink (src/src/IDevice.h, src/src/IDevice.cpp): two     *)
(* static pointers, the function and its context, stored one after the     *)
(* other by setGlobalErrorSink() and read separately by report(), which    *)
(* looks at the function once to see that it is there and again to call    *)
(* it.  Devices report from the thread of the scan and from the thread     *)
(* that writes commands; nothing locks the two pointers.                   *)
(***************************************************************************)
EXTENDS Integers, FiniteSets, NullPointer

CONSTANTS
  Threads,       \* threads that run device code
  Sinks,         \* sink functions an application may install
  Context(_),    \* the context it gives with each
  Quiet          \* the application installs only while no device reports

ASSUME ErrorSinkAssumption == Null \notin Sinks /\ Quiet \in BOOLEAN

VARIABLES
  globalErrorSink, globalErrorSinkContext,
  given,      \* the sink setGlobalErrorSink() was last called with
  unstored,   \* the stores of that call that were not made yet
  reporting,  \* the threads that are in report()
  checked,    \* those of them that found a sink
  heard       \* what became of each thread's last report: the call it made,
              \* or NoCall

sinkVars == <<globalErrorSink, globalErrorSinkContext, given, unstored, reporting, checked, heard>>

ContextOf(sink) == IF sink = Null THEN Null ELSE Context(sink)
Contexts == {ContextOf(s) : s \in Sinks \cup {Null}}
NoCall == [called |-> FALSE, sink |-> Null, context |-> Null]
TheCall(sink, context) == [called |-> TRUE, sink |-> sink, context |-> context]

SinkTypeOK ==
  /\ globalErrorSink \in Sinks \cup {Null}
  /\ globalErrorSinkContext \in Contexts
  /\ given \in Sinks \cup {Null}
  /\ unstored \subseteq {"sink", "context"}
  /\ checked \subseteq reporting /\ reporting \subseteq Threads
  /\ heard \in [Threads -> [called : BOOLEAN, sink : Sinks \cup {Null}, context : Contexts]]

\* The static definitions.
SinkInit ==
  /\ globalErrorSink = Null /\ globalErrorSinkContext = Null
  /\ given = Null
  /\ unstored = {}
  /\ reporting = {}
  /\ checked = {}
  /\ heard = [t \in Threads |-> NoCall]

-----------------------------------------------------------------------------
(* setGlobalErrorSink()                                                    *)

\* Mutant: nullptr does not uninstall.
Stores_NotNull(sink) == IF sink = Null THEN {} ELSE {"sink", "context"}
Stores(sink) == {"sink", "context"}

Install(sink) ==
  /\ unstored = {}
  /\ Quiet => reporting = {}
  /\ given' = sink
  /\ unstored' = Stores(sink)
  /\ UNCHANGED <<globalErrorSink, globalErrorSinkContext, reporting, checked, heard>>

\* The two stores, which a build may make in either order.
StoreSink ==
  /\ "sink" \in unstored
  /\ globalErrorSink' = given
  /\ unstored' = unstored \ {"sink"}
  /\ UNCHANGED <<globalErrorSinkContext, given, reporting, checked, heard>>

\* Mutant: a context is kept when there is one already.
ContextStored_First ==
  IF globalErrorSinkContext = Null THEN ContextOf(given) ELSE globalErrorSinkContext
ContextStored == ContextOf(given)

StoreContext ==
  /\ "context" \in unstored
  /\ globalErrorSinkContext' = ContextStored
  /\ unstored' = unstored \ {"context"}
  /\ UNCHANGED <<globalErrorSink, given, reporting, checked, heard>>

-----------------------------------------------------------------------------
(* report()                                                                *)

\* reportError(): a device's call.
Report(t) ==
  /\ t \notin reporting
  /\ Quiet => unstored = {}
  /\ reporting' = reporting \cup {t}
  /\ UNCHANGED <<globalErrorSink, globalErrorSinkContext, given, unstored, checked, heard>>

Missing == globalErrorSink = Null

Leave(t) == reporting' = reporting \ {t} /\ checked' = checked \ {t}

\* if (globalErrorSink_ == nullptr) return
CheckSink(t) ==
  /\ t \in reporting \ checked
  /\ IF Missing
       THEN /\ heard' = [heard EXCEPT ![t] = NoCall]
            /\ Leave(t)
       ELSE checked' = checked \cup {t} /\ UNCHANGED <<reporting, heard>>
  /\ UNCHANGED <<globalErrorSink, globalErrorSinkContext, given, unstored>>

\* The text is in its buffer, and the function is called through its pointer.
CallSink(t) ==
  /\ t \in checked
  /\ heard' = [heard EXCEPT ![t] = TheCall(globalErrorSink, globalErrorSinkContext)]
  /\ Leave(t)
  /\ UNCHANGED <<globalErrorSink, globalErrorSinkContext, given, unstored>>

-----------------------------------------------------------------------------
SinkNext ==
  \/ \E sink \in Sinks \cup {Null} : Install(sink)
  \/ StoreSink \/ StoreContext
  \/ \E t \in Threads :
       \/ Report(t)
       \/ CheckSink(t)
       \/ CallSink(t)

SinkSpec == SinkInit /\ [][SinkNext]_sinkVars

-----------------------------------------------------------------------------
(* Properties                                                              *)

\* A sink is called with the context given with it, never with that of
\* another or none (GlobalErrorSink.h: "the opaque pointer given to
\* setGlobalErrorSink()"), and no report calls through a null pointer.
CalledWithItsContext ==
  \A t \in Threads :
    heard[t].called => heard[t].sink # Null /\ heard[t].context = Context(heard[t].sink)

\* A report is lost exactly when no sink is installed, and it reaches the
\* one installed last: an earlier sink hears nothing after it was replaced
\* or removed.
HeardByTheInstalled ==
  [][\A t \in reporting \ reporting' :
       heard'[t].called = (given # Null) /\ heard'[t].sink = given]_sinkVars
=============================================================================
