------------------------------ MODULE Envelope ------------------------------
(***************************************************************************)
(* The date checks of strata-p2p.  Every signed envelope (setup message,   *)
(* gossip message, request, response, DHT record) carries a u64 date in    *)
(* seconds, and the receiver compares it with its wall clock and with two  *)
(* configured durations, envelope_max_age and max_clock_skew.  The source  *)
(* writes this comparison three times in three different ways; the         *)
(* operators below keep the three forms apart, and EnvelopeProofs shows    *)
(* when they agree.                                                        *)
(*                                                                         *)
(* Dates and clocks are seconds, durations are milliseconds: a std Duration*)
(* has a fraction that as_secs() drops and that `age > max_age` keeps.     *)
(***************************************************************************)
EXTENDS Integers

CONSTANT U64   \* number of values of a u64; a small number in the models

ASSUME U64Assumption == U64 \in Nat \ {0}

\* Duration::from_secs and Duration::as_secs.
FromSecs(s) == 1000 * s
AsSecs(d) == d \div 1000

\* u64::saturating_sub, and `+` on u64 in a build without overflow checks.
AbsoluteDiff(a, b) == IF a > b THEN a - b ELSE b - a

SaturatingSub(a, b) == IF a > b THEN a - b ELSE 0
WrappingAdd(a, b) == (a + b) % U64

-----------------------------------------------------------------------------
(* Setup handshake: SetupHandler::on_connection_event. *)

SetupTooOld(now, date, maxAge) == FromSecs(SaturatingSub(now, date)) > maxAge

SetupFromFutureStrict(now, date, skew) == date > now

SetupFromFuture(now, date, skew) ==
    /\ date > now
    /\ FromSecs(date - now) > skew

SetupDateOk(now, date, maxAge, skew) ==
    /\ ~SetupTooOld(now, date, maxAge)
    /\ ~SetupFromFuture(now, date, skew)

-----------------------------------------------------------------------------
(* Gossip messages, requests and responses: handle_gossip_msg and both     *)
(* branches of handle_message_event.                                       *)

MessageFromFuture(now, date, skew) == date > WrappingAdd(now, AsSecs(skew))

MessageTooOld(now, date, maxAge) == FromSecs(SaturatingSub(now, date)) > maxAge

MessageDateOk(now, date, maxAge, skew) ==
    /\ ~MessageFromFuture(now, date, skew)
    /\ ~MessageTooOld(now, date, maxAge)

-----------------------------------------------------------------------------
(* DHT records: validate_record_date. *)

RecordDateOkOffByOne(now, date, maxAge, skew) ==
    /\ date # U64 - 1
    /\ ~(date > WrappingAdd(now, AsSecs(skew)))
    /\ ~(SaturatingSub(now, date) >= AsSecs(maxAge))

RecordDateOk(now, date, maxAge, skew) ==
    /\ date # U64 - 1
    /\ ~(date > WrappingAdd(now, AsSecs(skew)))
    /\ ~(SaturatingSub(now, date) > AsSecs(maxAge))

=============================================================================
