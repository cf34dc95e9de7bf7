------------------------------ MODULE FatalError --------------------------------
(***************************************************************************)
(* The fatal error of the server: workers that fail report it, control     *)
(* threads install the handler of the application.  The state is guarded   *)
(* by fatalErrorLock; a handler is called after the lock is released, on   *)
(* the thread that took it.                                                *)
(***************************************************************************)
EXTENDS Naturals, FiniteSets

CONSTANTS
    Workers,        \* the threads that may fail; each reports an error of its own
    Controllers,    \* the threads that call SetFatalErrorHandler
    Handlers,
    None,
    Installs        \* bound: how often a handler is installed

FatalAssumption ==
    /\ None \notin Workers \cup Handlers /\ Installs \in Nat \ {0}
    /\ IsFiniteSet(Workers) /\ IsFiniteSet(Controllers)

VARIABLES
    fatalError,         \* the worker whose error is stored, or None
    fatalErrorHandler,
    notifying,          \* per thread: the handler it is about to call, or None
    errorToNotify,      \* per thread: the error it passes
    reported,           \* the workers that have reported
    installs,           \* ghost: how often each handler was installed
    calls               \* ghost: per handler, how often it was called with which error

vars == <<fatalError, fatalErrorHandler, notifying, errorToNotify, reported, installs, calls>>

Threads == Workers \cup Controllers

Init ==
    /\ fatalError = None /\ fatalErrorHandler = None
    /\ notifying = [t \in Threads |-> None] /\ errorToNotify = [t \in Threads |-> None]
    /\ reported = {}
    /\ installs = [h \in Handlers |-> 0]
    /\ calls = [h \in Handlers |-> [w \in Workers |-> 0]]

\* What a thread leaves its locked section with: no call when there is no handler.
Leave(t, handler, error) ==
    /\ notifying' = [notifying EXCEPT ![t] = handler]
    /\ errorToNotify' = [errorToNotify EXCEPT ![t] = IF handler = None THEN None ELSE error]

ReportFatalError(w) ==
    /\ w \notin reported
    /\ reported' = reported \cup {w}
    /\ \/ /\ fatalError # None
          /\ UNCHANGED <<fatalError, notifying, errorToNotify>>
       \/ /\ fatalError = None
          /\ fatalError' = w
          /\ Leave(w, fatalErrorHandler, w)
    /\ UNCHANGED <<fatalErrorHandler, installs, calls>>

\* Mutant: the stored error is not passed to a handler that comes late.
SetFatalErrorHandler_NoReplay(c, handler) ==
    /\ notifying[c] = None
    /\ fatalErrorHandler' = handler
    /\ handler # None => installs[handler] < Installs
    /\ installs' = [h \in Handlers |-> installs[h] + (IF h = handler THEN 1 ELSE 0)]
    /\ UNCHANGED <<fatalError, notifying, errorToNotify, reported, calls>>

SetFatalErrorHandler(c, handler) ==
    /\ notifying[c] = None
    /\ fatalErrorHandler' = handler
    /\ handler # None => installs[handler] < Installs
    /\ installs' = [h \in Handlers |-> installs[h] + (IF h = handler THEN 1 ELSE 0)]
    /\ IF fatalError # None
       THEN Leave(c, handler, fatalError)
       ELSE UNCHANGED <<notifying, errorToNotify>>
    /\ UNCHANGED <<fatalError, reported, calls>>

\* An exception of the handler is caught and leaves the state as it is.
NotifyFatalErrorHandler(t) ==
    /\ notifying[t] # None
    /\ calls' = [calls EXCEPT ![notifying[t]][errorToNotify[t]] = @ + 1]
    /\ Leave(t, None, None)
    /\ UNCHANGED <<fatalError, fatalErrorHandler, reported, installs>>

Next ==
    \/ \E w \in Workers : ReportFatalError(w)
    \/ \E c \in Controllers, h \in Handlers \cup {None} : SetFatalErrorHandler(c, h)
    \/ \E t \in Threads : NotifyFatalErrorHandler(t)

Spec == Init /\ [][Next]_vars

-------------------------------------------------------------------------------

TypeOK ==
    /\ fatalError \in Workers \cup {None}
    /\ fatalErrorHandler \in Handlers \cup {None}
    /\ notifying \in [Threads -> Handlers \cup {None}]
    /\ errorToNotify \in [Threads -> Workers \cup {None}]
    /\ \A t \in Threads : (notifying[t] = None) = (errorToNotify[t] = None)
    /\ reported \subseteq Workers
    /\ installs \in [Handlers -> Nat]
    /\ calls \in [Handlers -> [Workers -> Nat]]

\* Whatever the order of the reports and the installations, every call passes
\* the one error that GetFatalError returns: the first.
OnlyFirstTold ==
    \A h \in Handlers, w \in Workers : calls[h][w] > 0 => fatalError = w

\* A handler is called at most once for each time it was installed: an
\* installation that races with the report is told by one of the two threads.
OncePerInstallation ==
    \A h \in Handlers, w \in Workers :
        calls[h][w] + Cardinality({t \in Threads : notifying[t] = h /\ errorToNotify[t] = w})
            <= installs[h]

\* Once a worker has failed, the handler that is installed has been told or is
\* about to be, even when it was installed in the course of the report.
InstalledHandlerTold ==
    (fatalError # None /\ fatalErrorHandler # None) =>
        \/ \E t \in Threads : notifying[t] = fatalErrorHandler
        \/ calls[fatalErrorHandler][fatalError] > 0

===============================================================================
