-------------------------------- MODULE Ticker ----------------------------------
(***************************************************************************)
(* The ticker of the server: one thread that fires the registered timers   *)
(* that are due, while other threads register and unregister timers and    *)
(* StopServer stops it.                                                    *)
(*                                                                         *)
(* Times are relative: wait is nextTick minus the clock, lag the clock     *)
(* minus nowMs, the time the pass has read.  A pass begins at most MaxLag  *)
(* after the one before.                                                   *)
(***************************************************************************)
EXTENDS Integers, Sequences, FiniteSets, SequencesExt

CONSTANTS
    Timers,         \* their ids: timers fire in the order of the map
    OneShot,        \* the timers that unregister themselves in Fire
    Interval,
    MaxLag,
    Starts,         \* bound: how often the ticker is started
    Registrations,  \* bound: how often a timer is registered
    Reregister,     \* whether a timer is registered again before its id is erased
    EarlyRegister   \* whether one is registered while the ticker does not run

TickerAssumption ==
    /\ Timers \subseteq Nat \ {0} /\ OneShot \subseteq Timers
    /\ {Interval, MaxLag, Starts, Registrations} \subseteq Nat \ {0}
    /\ {Reregister, EarlyRegister} \subseteq BOOLEAN

VARIABLES
    isRunning, lag, wait,
    timerEvents, unregisterTargetList,
    pc, copied, fireTargets,    \* the thread of the ticker
    stopper,                    \* Start and Stop: "off", "running", "join", "clear"
    starts, registrations,
    registering,                \* the timer RegisterTimerEvent is about to emplace, or 0
    wanted,                     \* ghost: registered, and not unregistered since
    since, first,               \* ghost: the time since it was registered or fired
    lateFires                   \* ghost: fires since unregistered; one-shot, since registered

tickVars == <<isRunning, lag, wait>>
listVars == <<timerEvents, unregisterTargetList>>
threadVars == <<pc, copied, fireTargets>>
ghosts == <<wanted, since, first, lateFires>>
vars == <<tickVars, listVars, threadVars, stopper, starts, registrations, registering, ghosts>>

Saturated == 2 * Interval + 2 * MaxLag + 1
AtLeast(a, b) == IF a < b THEN b ELSE a
AtMost(a, b) == IF a > b THEN b ELSE a

Init ==
    /\ isRunning = FALSE /\ lag = Saturated /\ wait = [t \in Timers |-> -Saturated]
    /\ timerEvents = {} /\ unregisterTargetList = << >>
    /\ pc = "off" /\ copied = << >> /\ fireTargets = << >>
    /\ stopper = "off" /\ starts = 0
    /\ registrations = [t \in Timers |-> 0] /\ registering = 0
    /\ wanted = {} /\ since = [t \in Timers |-> 0] /\ first = [t \in Timers |-> FALSE]
    /\ lateFires = [t \in Timers |-> 0]

\* A registration takes less than a tick.
Tick ==
    /\ pc = "off" \/ lag < MaxLag
    /\ registering = 0
    /\ lag' = AtMost(lag + 1, Saturated)
    /\ wait' = [t \in Timers |-> AtLeast(wait[t] - 1, -Saturated)]
    /\ since' = [t \in Timers |-> IF t \in wanted THEN AtMost(since[t] + 1, Saturated + 1) ELSE 0]
    /\ UNCHANGED <<isRunning, listVars, threadVars, stopper, starts, registrations, registering,
                   wanted, first, lateFires>>

-----------------------------------------------------------------------------
(* Start and Stop, by the thread that starts and stops the server.         *)

Start ==
    /\ stopper = "off" /\ starts < Starts
    /\ isRunning' = TRUE /\ lag' = 0 /\ pc' = "top" /\ stopper' = "running" /\ starts' = starts + 1
    /\ since' = [t \in Timers |-> 0]
    /\ UNCHANGED <<wait, listVars, copied, fireTargets, registrations, registering, wanted, first,
                   lateFires>>

\* Nothing registers a timer meanwhile, unless the run allows it.
Stop ==
    /\ EarlyRegister \/ registering = 0
    /\ stopper = "running" /\ isRunning' = FALSE /\ stopper' = "join"
    /\ UNCHANGED <<lag, wait, listVars, threadVars, starts, registrations, registering, ghosts>>

Join ==
    /\ stopper = "join" /\ pc = "off" /\ stopper' = "clear"
    /\ UNCHANGED <<tickVars, listVars, threadVars, starts, registrations, registering, ghosts>>

Clear ==
    /\ stopper = "clear" /\ stopper' = "off"
    /\ unregisterTargetList' = << >> /\ timerEvents' = {} /\ wanted' = {}
    /\ UNCHANGED <<tickVars, threadVars, starts, registrations, registering, since, first, lateFires>>

-----------------------------------------------------------------------------
(* The threads that use the ticker.                                        *)

\* RegisterTimerEvent: SetNextTick, of a time the interval was added to already.
SetNextTickOfRegistered(t) ==
    /\ registering = 0 /\ registrations[t] < Registrations
    /\ EarlyRegister \/ stopper = "running"
    /\ \/ Reregister /\ t \notin wanted
       \/ t \notin timerEvents /\ ~ Contains(unregisterTargetList \o copied, t)
    /\ registering' = t /\ wait' = [wait EXCEPT ![t] = AtLeast(2 * Interval - lag, -Saturated)]
    /\ UNCHANGED <<isRunning, lag, listVars, threadVars, stopper, starts, registrations, ghosts>>

RegisterTimerEvent ==
    /\ registering # 0 /\ timerEvents' = timerEvents \union {registering}
    /\ registrations' = [registrations EXCEPT ![registering] = @ + 1] /\ registering' = 0
    /\ wanted' = wanted \union {registering}
    /\ since' = [since EXCEPT ![registering] = 0] /\ first' = [first EXCEPT ![registering] = TRUE]
    /\ lateFires' = [lateFires EXCEPT ![registering] = 0]
    /\ UNCHANGED <<tickVars, unregisterTargetList, threadVars, stopper, starts>>

Listed(t) ==
    IF Contains(unregisterTargetList, t) THEN unregisterTargetList
    ELSE Append(unregisterTargetList, t)

UnregisterTimerEvent(t) ==
    /\ stopper = "running" /\ t \in wanted /\ registering # t
    /\ unregisterTargetList' = Listed(t) /\ wanted' = wanted \ {t}
    /\ UNCHANGED <<tickVars, timerEvents, threadVars, stopper, starts, registrations, registering,
                   since, first, lateFires>>

-----------------------------------------------------------------------------
(* UpdateTick.                                                             *)

BeginPass ==
    /\ pc = "top"
    /\ IF isRunning THEN pc' = "unregister" /\ lag' = 0 ELSE pc' = "off" /\ UNCHANGED lag
    /\ UNCHANGED <<isRunning, wait, listVars, copied, fireTargets, stopper, starts, registrations,
                   registering, ghosts>>

\* UnregisterTimerEventImpl takes the list,
TakeUnregistered ==
    /\ pc = "unregister" /\ pc' = "erase"
    /\ copied' = unregisterTargetList /\ unregisterTargetList' = << >>
    /\ UNCHANGED <<tickVars, timerEvents, fireTargets, stopper, starts, registrations, registering,
                   ghosts>>

\* Mutant: only the first one is erased.
Erase_First ==
    /\ pc = "erase" /\ pc' = "collect" /\ copied' = << >>
    /\ timerEvents' = timerEvents \ (IF copied = << >> THEN {} ELSE {copied[1]})
    /\ UNCHANGED <<tickVars, unregisterTargetList, fireTargets, stopper, starts, registrations,
                   registering, ghosts>>

\* and erases what is in it.
Erase ==
    /\ pc = "erase" /\ pc' = "collect" /\ copied' = << >>
    /\ timerEvents' = timerEvents \ ToSet(copied)
    /\ UNCHANGED <<tickVars, unregisterTargetList, fireTargets, stopper, starts, registrations,
                   registering, ghosts>>

ShouldFire(t) == wait[t] <= -lag

Collect ==
    /\ pc = "collect" /\ pc' = "fire"
    /\ LET due == {t \in timerEvents : ShouldFire(t)} IN
       \E targets \in [1 .. Cardinality(due) -> due] :
          /\ \A i, j \in DOMAIN targets : i < j => targets[i] < targets[j]
          /\ ToSet(targets) = due /\ fireTargets' = targets
    /\ UNCHANGED <<tickVars, listVars, copied, stopper, starts, registrations, registering, ghosts>>

\* The handler of a timer that fires once unregisters it.
Fire ==
    /\ pc = "fire" /\ fireTargets # << >> /\ pc' = "setNextTick"
    /\ LET t == Head(fireTargets) IN
       /\ IF t \in OneShot /\ t \in wanted
            THEN unregisterTargetList' = Listed(t) /\ wanted' = wanted \ {t}
            ELSE UNCHANGED <<unregisterTargetList, wanted>>
       /\ since' = [since EXCEPT ![t] = 0] /\ first' = [first EXCEPT ![t] = FALSE]
       /\ lateFires' =
            IF t \in wanted \ OneShot THEN lateFires ELSE [lateFires EXCEPT ![t] = @ + 1]
    /\ UNCHANGED <<tickVars, timerEvents, copied, fireTargets, stopper, starts, registrations,
                   registering>>

SetNextTick ==
    /\ pc = "setNextTick" /\ pc' = "fire" /\ fireTargets' = Tail(fireTargets)
    /\ wait' = [wait EXCEPT ![Head(fireTargets)] = Interval - lag]
    /\ UNCHANGED <<isRunning, lag, listVars, copied, stopper, starts, registrations, registering,
                   ghosts>>

EndPass ==
    /\ pc = "fire" /\ fireTargets = << >> /\ pc' = "top"
    /\ UNCHANGED <<tickVars, listVars, copied, fireTargets, stopper, starts, registrations,
                   registering, ghosts>>

UpdateTick ==
    BeginPass \/ TakeUnregistered \/ Erase \/ Collect \/ Fire \/ SetNextTick \/ EndPass

-----------------------------------------------------------------------------
Next ==
    \/ Tick \/ Start \/ Stop \/ Join \/ Clear \/ RegisterTimerEvent \/ UpdateTick
    \/ \E t \in Timers : SetNextTickOfRegistered(t) \/ UnregisterTimerEvent(t)

\* The thread of the ticker is scheduled, and Stop goes on when it has ended.
Fairness == WF_vars(UpdateTick) /\ WF_vars(Join) /\ WF_vars(Clear)

Spec == Init /\ [][Next]_vars /\ Fairness

-----------------------------------------------------------------------------
TypeOK ==
    /\ lag \in 0 .. Saturated /\ wait \in [Timers -> -Saturated .. Saturated]
    /\ timerEvents \subseteq Timers /\ wanted \subseteq Timers
    /\ unregisterTargetList \in Seq(Timers) /\ copied \in Seq(Timers) /\ fireTargets \in Seq(Timers)
    /\ pc \in {"off", "top", "unregister", "erase", "collect", "fire", "setNextTick"}
    /\ stopper \in {"off", "running", "join", "clear"} /\ isRunning \in BOOLEAN

\* When Stop has returned no handler runs and none is going to: what the handlers use
\* may be destroyed.
NoHandlerAfterStop == stopper \in {"off", "clear"} => pc = "off" /\ ~ isRunning

\* Unregistering takes effect at the next pass: a timer fires at most once more, and one
\* that unregisters itself fires once for each time it is registered.
OnceMoreAtMost == \A t \in Timers : lateFires[t] <= 1

\* A registered timer fires: the first time two intervals after it was registered, then
\* every interval, and late by two passes at most.
FiresInTime == stopper = "running" => \A t \in wanted :
    since[t] <= (IF first[t] THEN 2 * Interval ELSE Interval) + 2 * MaxLag

\* A registered timer fires when its interval has passed, and late by two passes at most.
FiresAfterInterval == stopper = "running" => \A t \in wanted : since[t] <= Interval + 2 * MaxLag

\* A timer does not fire before its interval has passed.
NotBeforeInterval == [][\A t \in Timers :
    t \in wanted /\ first[t] /\ ~ first'[t] => since[t] >= Interval]_vars

\* A Stop ends, even while other threads register timers.
NotStopping == stopper \in {"off", "running"}

=============================================================================
