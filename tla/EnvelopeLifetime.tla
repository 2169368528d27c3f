-------------------------- MODULE EnvelopeLifetime --------------------------
(***************************************************************************)
(* Envelopes of any date under a clock that runs, the clock of Publisher:  *)
(* which of the receiver's checks accept them, and when.  A sender's clock *)
(* may be ahead, so a date may be later than the receiver's clock.  Nodes  *)
(* are configured with ages and skews of their own.                        *)
(***************************************************************************)
EXTENDS Publisher

CONSTANTS
    Dates,      \* that envelopes carry, in seconds
    Durations   \* that nodes configure, in milliseconds

ASSUME LifetimeAssumption == Dates \subseteq 0 .. U64 - 1 /\ Durations \subseteq Nat

\* The sum now + max_clock_skew.as_secs() of the message and record checks does
\* not overflow, and u64::MAX is not within the skew.
SkewFits(skew) == now + AsSecs(skew) < U64 - 1

\* The setup handler compares durations with their fractions, the record check
\* compares whole seconds, the message check mixes both, and only the record
\* check excludes u64::MAX; they accept the same dates all the same.
ChecksAgree ==
    \A date \in Dates, maxAge, skew \in Durations : SkewFits(skew) =>
        /\ SetupDateOk(now, date, maxAge, skew) <=> MessageDateOk(now, date, maxAge, skew)
        /\ MessageDateOk(now, date, maxAge, skew) <=> RecordDateOk(now, date, maxAge, skew)

\* The setup handler accepts exactly the dates of the window around its clock
\* that the two durations span, both ends included.
DateWindow ==
    \A date \in Dates, maxAge, skew \in Durations :
        SetupDateOk(now, date, maxAge, skew) <=>
            date \in now - AsSecs(maxAge) .. now + AsSecs(skew)

\* While the clock does not run backwards, an envelope that the setup handler
\* finds too old is never accepted again: resending it later does not help.
NoRevival ==
    [][\A date \in Dates, maxAge, skew \in Durations :
          SetupTooOld(now, date, maxAge) => ~SetupDateOk(now', date, maxAge, skew)]_vars
=============================================================================
