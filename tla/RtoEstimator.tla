----------------------------- MODULE RtoEstimator -----------------------------
(***************************************************************************)
(* RetransmissionTimeoutEstimator of one session, with the packets in      *)
(* flight that feed it.  A packet acknowledged before it was sent again    *)
(* gives a sample; a packet whose timeout ends backs the timeout off, once *)
(* per window, and is sent again under the new timeout.                    *)
(*                                                                         *)
(* Time is in milliseconds and relative: a packet knows how long ago it    *)
(* was sent, the estimator how much of the window is left.  The timer is   *)
(* taken to be exact: time waits for the timeouts that are due.            *)
(***************************************************************************)
EXTENDS Integers, FiniteSetsExt

CONSTANTS
    Packets,            \* the packets in flight at once
    InitialRto, InMinRto, InMaxRto,     \* the options given to Configure
    MaxSteady           \* bound of the count of equal samples

RtoEstimatorAssumption ==
    /\ InitialRto \in Nat /\ InMinRto \in Nat /\ InMaxRto \in Nat
    /\ MaxSteady \in Nat \ {0}

VARIABLES
    hasRttSample, smoothedRttMs, rttVariationMs, cachedRtoMs,
    backoffSuppressed,  \* what is left until backoffSuppressedUntil
    inFlight,           \* packet -> [since, rto, resent, before], or NotSent
    steady              \* history: [rtt, count] of the latest samples that were equal

estimatorVars ==
    <<hasRttSample, smoothedRttMs, rttVariationMs, cachedRtoMs, backoffSuppressed>>
vars == <<estimatorVars, inFlight, steady>>

NotSent == [since |-> 0, rto |-> 0, resent |-> FALSE, before |-> FALSE]

Larger(a, b) == IF a > b THEN a ELSE b
MinRto == Larger(1, InMinRto)
MaxRto == Larger(MinRto, InMaxRto)

ClampRto(rtoMs) ==
    IF rtoMs < MinRto THEN MinRto ELSE IF rtoMs > MaxRto THEN MaxRto ELSE rtoMs

\* Configure
Init ==
    /\ hasRttSample = FALSE /\ smoothedRttMs = 0 /\ rttVariationMs = 0
    /\ cachedRtoMs = ClampRto(InitialRto) /\ backoffSuppressed = 0
    /\ inFlight = [p \in Packets |-> NotSent]
    /\ steady = [rtt |-> 0, count |-> 0]

InFlight(p) == inFlight[p].rto > 0
Sent(p, again) ==
    [inFlight EXCEPT ![p] = [since |-> 0, rto |-> cachedRtoMs', resent |-> again,
                             before |-> FALSE]]

Send(p) ==
    /\ ~InFlight(p)
    /\ UNCHANGED <<estimatorVars, steady>>
    /\ inFlight' = Sent(p, FALSE)

\* The first sample is taken whole, a later one with the weights 1/8 and 1/4.
Smoothed(sample) ==
    IF ~hasRttSample THEN sample ELSE (7 * smoothedRttMs + sample) \div 8
Variation(sample) ==
    IF ~hasRttSample THEN sample \div 2
    ELSE (3 * rttVariationMs + Larger(smoothedRttMs - sample, sample - smoothedRttMs)) \div 4

OnRttSample(sample) ==
    /\ hasRttSample' = TRUE
    /\ smoothedRttMs' = Smoothed(sample) /\ rttVariationMs' = Variation(sample)
    /\ cachedRtoMs' = ClampRto(smoothedRttMs' + Larger(1, 4 * rttVariationMs'))
    /\ backoffSuppressed' = 0

\* The reply to p: a sample, of a millisecond at least, if p went out once.
Acknowledge(p) ==
    LET rtt == Larger(1, inFlight[p].since)
        count == IF steady.rtt = rtt THEN steady.count + 1 ELSE 1 IN
    /\ InFlight(p)
    /\ IF inFlight[p].resent
       THEN UNCHANGED <<estimatorVars, steady>> /\ inFlight' = [inFlight EXCEPT ![p] = NotSent]
       ELSE /\ OnRttSample(rtt)
            /\ steady' = [rtt |-> rtt, count |-> IF count > MaxSteady THEN MaxSteady ELSE count]
            /\ inFlight' = [q \in Packets |->
                  IF q = p THEN NotSent ELSE [inFlight[q] EXCEPT !.before = FALSE]]

\* The packets whose latest transmission came before this backoff.
MarkBefore ==
    [q \in Packets |-> IF inFlight[q].since > 0 THEN [inFlight[q] EXCEPT !.before = TRUE]
                                                ELSE inFlight[q]]

\* Mutant: the window is not looked at.
InWindow_Never == FALSE

InWindow == backoffSuppressed > 0

\* The timeout of p: at most one backoff per window, and p is sent again.
OnTimeout(p) ==
    /\ InFlight(p) /\ inFlight[p].since = inFlight[p].rto
    /\ IF InWindow
       THEN UNCHANGED estimatorVars /\ inFlight' = Sent(p, TRUE)
       ELSE /\ cachedRtoMs' = ClampRto(2 * cachedRtoMs)
            /\ backoffSuppressed' = cachedRtoMs'
            /\ UNCHANGED <<hasRttSample, smoothedRttMs, rttVariationMs>>
            /\ inFlight' = [MarkBefore EXCEPT ![p] = Sent(p, TRUE)[p]]
    /\ UNCHANGED steady

Tick ==
    /\ \E p \in Packets : InFlight(p)
    /\ \A p \in Packets : InFlight(p) => inFlight[p].since < inFlight[p].rto
    /\ inFlight' = [p \in Packets |->
          IF InFlight(p) THEN [inFlight[p] EXCEPT !.since = @ + 1] ELSE NotSent]
    /\ backoffSuppressed' = Larger(0, backoffSuppressed - 1)
    /\ UNCHANGED <<hasRttSample, smoothedRttMs, rttVariationMs, cachedRtoMs, steady>>

Next == Tick \/ \E p \in Packets : Send(p) \/ Acknowledge(p) \/ OnTimeout(p)

Spec == Init /\ [][Next]_vars

-----------------------------------------------------------------------------
TypeOK ==
    /\ hasRttSample \in BOOLEAN /\ smoothedRttMs \in 0 .. MaxRto /\ rttVariationMs \in 0 .. MaxRto
    /\ cachedRtoMs \in MinRto .. MaxRto /\ backoffSuppressed \in 0 .. MaxRto
    /\ inFlight \in [Packets -> [since : 0 .. MaxRto, rto : 0 .. MaxRto,
                                 resent : BOOLEAN, before : BOOLEAN]]
    /\ steady \in [rtt : 0 .. MaxRto, count : 0 .. MaxSteady]

\* One burst of losses halves the rate once: of the packets that were on their way when
\* the timeout was backed off, none backs it off again, unless it had been given a longer
\* timeout than the new one.
BurstBacksOffOnce ==
    [][\A p \in Packets :
          OnTimeout(p) /\ inFlight[p].before /\ inFlight[p].rto <= cachedRtoMs
              => cachedRtoMs' = cachedRtoMs /\ backoffSuppressed' = backoffSuppressed]_vars

\* Losses go uncounted no longer than the timeout that is in force lasts: a sample that
\* lowers the timeout ends the window of the backoff it undoes.
WindowOnlyAfterBackoff == backoffSuppressed <= cachedRtoMs

\* When the round trip is steady the timeout comes to cover it, as with the weighted
\* averages of RFC 6298, and packets are not sent again needlessly.
CoversSteadyRtt ==
    steady.count = MaxSteady => cachedRtoMs >= steady.rtt
=============================================================================
