--------------------------- MODULE EnvelopeProofs ---------------------------
(* Proofs about the date checks, for all durations and all u64 widths. *)
EXTENDS EnvelopeLifetime, PublisherProofs

\* Comparing whole seconds with a Duration is comparing them with its as_secs():
\* the fraction never matters.
LEMMA FractionIrrelevant ==
    ASSUME NEW s \in Nat, NEW d \in Nat
    PROVE  FromSecs(s) > d <=> s > AsSecs(d)
BY DEF FromSecs, AsSecs

\* as_secs() of a duration is a natural number.
LEMMA AsSecsType == ASSUME NEW d \in Nat PROVE AsSecs(d) \in Nat
BY DEF AsSecs

\* The date window of the setup handler.
LEMMA SetupWindow ==
    ASSUME NEW n \in Nat, NEW d \in Nat, NEW a \in Nat, NEW k \in Nat
    PROVE  SetupDateOk(n, d, a, k) <=> d \in n - AsSecs(a) .. n + AsSecs(k)
<1>1. SetupTooOld(n, d, a) <=> d < n - AsSecs(a)
    <2>1. SaturatingSub(n, d) \in Nat
        BY DEF SaturatingSub
    <2> QED BY <2>1, FractionIrrelevant, AsSecsType DEF SetupTooOld, SaturatingSub
<1>2. SetupFromFuture(n, d, k) <=> d > n + AsSecs(k)
    <2>1. CASE d > n
        BY <2>1, FractionIrrelevant, AsSecsType DEF SetupFromFuture
    <2>2. CASE ~(d > n)
        BY <2>2, AsSecsType DEF SetupFromFuture
    <2> QED BY <2>1, <2>2
<1> QED BY <1>1, <1>2, AsSecsType DEF SetupDateOk

\* The three forms of the date check agree when the sum of clock and skew fits.
LEMMA FormsAgree ==
    ASSUME NEW n \in Nat, NEW d \in Nat, NEW a \in Nat, NEW k \in Nat,
           n + AsSecs(k) < U64 - 1
    PROVE  /\ SetupDateOk(n, d, a, k) <=> MessageDateOk(n, d, a, k)
           /\ MessageDateOk(n, d, a, k) <=> RecordDateOk(n, d, a, k)
<1>1. WrappingAdd(n, AsSecs(k)) = n + AsSecs(k)
    BY AsSecsType, U64Assumption DEF WrappingAdd
<1>2. SaturatingSub(n, d) \in Nat
    BY DEF SaturatingSub
<1>3. MessageTooOld(n, d, a) <=> SaturatingSub(n, d) > AsSecs(a)
    BY <1>2, FractionIrrelevant DEF MessageTooOld
<1>4. MessageDateOk(n, d, a, k) <=> d \in n - AsSecs(a) .. n + AsSecs(k)
    BY <1>1, <1>3, AsSecsType DEF MessageDateOk, MessageFromFuture, SaturatingSub
<1>5. RecordDateOk(n, d, a, k) <=> d \in n - AsSecs(a) .. n + AsSecs(k)
    BY <1>1, AsSecsType, U64Assumption DEF RecordDateOk, SaturatingSub
<1> QED BY <1>4, <1>5, SetupWindow

\* A check is made at a time of the clock, on a date and durations of the kinds
\* the lemmas above speak of.
LEMMA Typed ==
    ASSUME TypeOK
    PROVE  now \in Nat /\ Dates \subseteq Nat /\ Durations \subseteq Nat
BY U64Assumption, PublisherAssumption, LifetimeAssumption DEF TypeOK, Times

\* The checks of setup messages, of gossip messages, requests and responses, and
\* of DHT records accept the same dates.
THEOREM DateChecksAgree == Spec => []ChecksAgree
<1>1. TypeOK => ChecksAgree
    BY Typed, FormsAgree DEF ChecksAgree, SkewFits
<1> QED BY <1>1, TypeCorrect, PTL

\* The setup handler accepts exactly the window the two durations span.
THEOREM DateWindowExact == Spec => []DateWindow
<1>1. TypeOK => DateWindow
    BY Typed, SetupWindow DEF DateWindow
<1> QED BY <1>1, TypeCorrect, PTL

\* The clock never runs backwards.
LEMMA ClockAdvances == ASSUME TypeOK, [Next]_vars PROVE now' \in Nat /\ now <= now'
<1> USE PublisherAssumption DEF TypeOK, Times
<1>1. CASE Tick
    BY <1>1 DEF Tick
<1>2. CASE StartListening \/ UNCHANGED vars
    BY <1>2 DEF StartListening, vars
<1>3. ASSUME NEW i \in Cycles,
             \/ RoutingUpdated(i) \/ Republish(i) \/ RepublishFails(i)
             \/ PutRecordOk(i) \/ PutRecordError(i) \/ TimerFires(i)
      PROVE  UNCHANGED now
    BY <1>3 DEF RoutingUpdated, Republish, RepublishFails, PutRecordOk, PutRecordError, TimerFires
<1> QED BY <1>1, <1>2, <1>3 DEF Next

\* An envelope that is too old stays refused while the clock advances.
THEOREM StaleStaysStale == Spec => NoRevival
<1>1. TypeOK /\ [Next]_vars =>
        [\A date \in Dates, maxAge, skew \in Durations :
            SetupTooOld(now, date, maxAge) => ~SetupDateOk(now', date, maxAge, skew)]_vars
    <2> SUFFICES ASSUME TypeOK, [Next]_vars,
                        NEW date \in Dates, NEW maxAge \in Durations, NEW skew \in Durations,
                        SetupTooOld(now, date, maxAge)
                 PROVE  SetupTooOld(now', date, maxAge)
        BY DEF SetupDateOk
    <2> QED BY Typed, ClockAdvances DEF SetupTooOld, SaturatingSub, FromSecs
<1> QED BY <1>1, TypeCorrect, PTL DEF Spec, NoRevival
=============================================================================
