---------------------------- MODULE PathSelector ----------------------------
(***************************************************************************)
(* internal/path/selector.go: the Direct/Relay path of one peer, chosen    *)
(* from probe observations with hysteresis.  ObserveWithError holds the    *)
(* selector's mutex, so one observation is one step.  good and bad are     *)
(* history: how many of the accepted observations, up to the latest one,   *)
(* found the member active and the direct path healthy, respectively not.  *)
(***************************************************************************)
EXTENDS Integers

CONSTANTS
    DirectFailureThreshold,    \* failures in a row before the direct path is given up
    RecoverySuccessThreshold,  \* successes in a row before it is used again
    MaxTime,                   \* bound: observation times explored
    MaxRun                     \* bound: the longest run that is counted

\* NewSelector replaces thresholds that are not positive by 2.
ASSUME ThresholdAssumption ==
    /\ DirectFailureThreshold \in Nat \ {0}
    /\ RecoverySuccessThreshold \in Nat \ {0}
    /\ MaxTime \in Nat
    /\ MaxRun \in Nat
    /\ MaxRun >= DirectFailureThreshold /\ MaxRun >= RecoverySuccessThreshold

VARIABLES
    state,            \* Selector.state
    directFailures,   \* Selector.directFailures
    directSuccesses,  \* Selector.directSuccesses
    lastAt,           \* Selector.lastAt, 0 before the first observation
    good, bad         \* history

selectorVars == <<state, directFailures, directSuccesses, lastAt, good, bad>>

State == {"direct", "suspect", "relay", "disconnected"}

\* NewSelector takes any initial state.
SelectorInit ==
    /\ state \in State
    /\ directFailures = 0 /\ directSuccesses = 0 /\ lastAt = 0
    /\ good = 0 /\ bad = 0

\* Go integers do not wrap in any run this program can live through; runs that
\* change nothing any more are counted up to MaxRun only.
Capped(run) == IF run < MaxRun THEN run + 1 ELSE run

----------------------------------------------------------------------------
\* An observation older than the last one is refused.
Accept(at) == at >= lastAt /\ lastAt' = at

OutOfOrder(at) == at < lastAt /\ UNCHANGED selectorVars

\* The path when the direct one is given up.
Fallback(relayHealthy) == IF relayHealthy THEN "relay" ELSE "disconnected"

MemberInactive ==
    /\ state' = "disconnected"
    /\ directFailures' = 0 /\ directSuccesses' = 0
    /\ good' = 0 /\ bad' = 0

\* Mutant: one success is enough.
RecoversAtOnce(successes) == successes >= 1
Recovers(successes) == successes >= RecoverySuccessThreshold

DirectHealthy ==
    /\ good' = Capped(good) /\ bad' = 0
    /\ directFailures' = 0
    /\ IF state = "direct"
       THEN directSuccesses' = 0 /\ UNCHANGED state
       ELSE /\ directSuccesses' = directSuccesses + 1
            /\ state' = IF Recovers(directSuccesses') THEN "direct"
                        ELSE IF state = "disconnected" THEN "suspect" ELSE state

\* Mutant: the failures are counted again from the start when one is suspected.
DirectUnhealthyForgets(relayHealthy) ==
    /\ good' = 0 /\ bad' = Capped(bad)
    /\ directSuccesses' = 0
    /\ directFailures' = IF state = "direct" THEN 0 ELSE directFailures + 1
    /\ state' = IF directFailures' < DirectFailureThreshold THEN "suspect" ELSE Fallback(relayHealthy)

DirectUnhealthy(relayHealthy) ==
    /\ good' = 0 /\ bad' = Capped(bad)
    /\ \/ /\ state \in {"direct", "suspect"}
          /\ directSuccesses' = 0
          /\ directFailures' = directFailures + 1
          /\ state' = IF directFailures' < DirectFailureThreshold THEN "suspect"
                                                                  ELSE Fallback(relayHealthy)
       \/ /\ state = "relay"
          /\ directSuccesses' = 0 /\ directFailures' = 0
          /\ state' = Fallback(relayHealthy)
       \/ /\ state = "disconnected" /\ relayHealthy
          /\ directSuccesses' = 0 /\ directFailures' = 0
          /\ state' = "relay"
       \/ /\ state = "disconnected" /\ ~relayHealthy
          /\ UNCHANGED <<directSuccesses, directFailures, state>>

Observe(at, directHealthy, relayHealthy, memberActive) ==
    /\ Accept(at)
    /\ \/ ~memberActive /\ MemberInactive
       \/ memberActive /\ directHealthy /\ DirectHealthy
       \/ memberActive /\ ~directHealthy /\ DirectUnhealthy(relayHealthy)

SelectorNext ==
    \E at \in 1..MaxTime :
        \/ OutOfOrder(at)
        \/ \E directHealthy, relayHealthy, memberActive \in BOOLEAN :
              Observe(at, directHealthy, relayHealthy, memberActive)

SelectorSpec == SelectorInit /\ [][SelectorNext]_selectorVars

----------------------------------------------------------------------------
\* Properties.

\* The selector holds values of its types; its counters stay below the
\* thresholds that end them.
SelectorTypeOK ==
    /\ state \in State
    /\ directFailures \in 0..DirectFailureThreshold
    /\ directSuccesses \in 0..RecoverySuccessThreshold
    /\ lastAt \in 0..MaxTime
    /\ good \in 0..MaxRun /\ bad \in 0..MaxRun

\* Hysteresis: the direct path is taken up only on the threshold-th success in
\* a row and given up, while the member is active, only on the threshold-th
\* failure in a row, whatever states lie in between.
Hysteresis ==
    [][/\ (state # "direct" /\ state' = "direct") => good' >= RecoverySuccessThreshold
       /\ (state \in {"direct", "suspect"} /\ state' \in {"relay", "disconnected"}) =>
             bad' >= DirectFailureThreshold \/ (good' = 0 /\ bad' = 0)]_selectorVars

\* The selector keeps up: after a threshold of successes in a row the path is
\* direct, after a threshold of failures it is neither direct nor suspect.
KeepsUp ==
    /\ good >= RecoverySuccessThreshold => state = "direct"
    /\ bad >= DirectFailureThreshold => state \in {"relay", "disconnected"}

----------------------------------------------------------------------------
\* The inductive invariant: the counters are the runs, as far as they matter.
CountersMatch ==
    /\ state # "direct" => directSuccesses = good
    /\ state = "direct" => directFailures = 0 /\ bad = 0
    /\ state = "suspect" => directFailures = bad /\ bad < DirectFailureThreshold
    /\ state = "disconnected" => directSuccesses = 0
    /\ directSuccesses > 0 => directFailures = 0

SelectorInv == SelectorTypeOK /\ CountersMatch /\ KeepsUp

=============================================================================
