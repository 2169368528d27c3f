---------------------------- MODULE RecordsProofs ----------------------------
(***************************************************************************)
(* Proofs about Records, for every number of keys and lookups, every set   *)
(* of record dates and every configured age and skew.                      *)
(***************************************************************************)
EXTENDS Records, SequenceTheorems, TLAPS

\* as_secs() of a duration is a natural number.
LEMMA AsSecsType == ASSUME NEW d \in Nat PROVE AsSecs(d) \in Nat
BY DEF AsSecs

\* validate_record_date accepts exactly the dates between the clock minus the age
\* and the clock plus the skew: with the clock far from the end of u64, neither
\* its saturating nor its wrapping arithmetic shows.
LEMMA RecordWindow ==
    ASSUME NEW n \in 0 .. MaxTime, NEW d \in Dates
    PROVE  RecordDateOk(n, d, EnvelopeMaxAge, MaxClockSkew) <=>
               /\ d >= n - AsSecs(EnvelopeMaxAge)
               /\ d <= n + AsSecs(MaxClockSkew)
<1> DEFINE a == AsSecs(EnvelopeMaxAge)
           k == AsSecs(MaxClockSkew)
<1>1. a \in Nat /\ k \in Nat
    BY RecordsAssumption, AsSecsType
<1>2. d \in Nat /\ n \in Nat /\ n + k < U64 - 1 /\ U64 \in Nat
    BY <1>1, RecordsAssumption, U64Assumption
<1> HIDE DEF a, k
<1>3. WrappingAdd(n, k) = n + k
    BY <1>1, <1>2 DEF WrappingAdd
<1>4. d <= n + k => d # U64 - 1
    BY <1>1, <1>2
<1>5. SaturatingSub(n, d) > a <=> d < n - a
    BY <1>1, <1>2 DEF SaturatingSub
<1>6. RecordDateOk(n, d, EnvelopeMaxAge, MaxClockSkew) <=>
        d # U64 - 1 /\ ~(d > WrappingAdd(n, k)) /\ ~(SaturatingSub(n, d) > a)
    BY DEF RecordDateOk, a, k
<1>7. RecordDateOk(n, d, EnvelopeMaxAge, MaxClockSkew) <=> d >= n - a /\ d <= n + k
    BY <1>1, <1>2, <1>3, <1>4, <1>5, <1>6
<1> QED BY <1>7 DEF a, k

\* Dates are numbers.
LEMMA DatesAreNumbers == Dates \subseteq Nat
BY RecordsAssumption, U64Assumption

\* b is the latest of a sequence of records, the last one with its date; None if
\* there is no record.
IsLatest(b, records) ==
    IF records = <<>> THEN b = None
    ELSE \E i \in DOMAIN records :
            /\ b = records[i]
            /\ \A j \in DOMAIN records :
                  /\ records[j].date <= b.date
                  /\ records[j].date = b.date => j <= i

\* records.iter().max_by(date) finds the latest record wherever there is one.
LEMMA LatestIsUnique ==
    ASSUME NEW records \in Seq(Records), NEW b, IsLatest(b, records)
    PROVE  LatestRecord(records) = b
<1>1. CASE records = <<>>
    BY <1>1 DEF LatestRecord, IsLatest
<1>2. CASE records # <<>>
    <2>1. PICK i \in DOMAIN records :
             /\ b = records[i]
             /\ \A j \in DOMAIN records :
                   /\ records[j].date <= b.date
                   /\ records[j].date = b.date => j <= i
        BY <1>2 DEF IsLatest
    <2>2. /\ DOMAIN records \subseteq Nat
          /\ \A j \in DOMAIN records : records[j] \in Records
        OBVIOUS
    <2>3. \A j \in DOMAIN records : records[j].date \in Nat
        BY <2>2, DatesAreNumbers DEF Records
    <2> DEFINE M == {m \in DOMAIN records : \A j \in DOMAIN records : records[j].date <= records[m].date}
    <2>4. i \in M /\ \A j \in M : i >= j
        BY <2>1, <2>2, <2>3
    <2>5. M \subseteq Nat
        BY <2>2
    <2> HIDE DEF M
    <2>6. Max(M) \in M /\ \A j \in M : Max(M) >= j
        BY <2>4 DEF Max
    <2>7. Max(M) = i
        BY <2>4, <2>5, <2>6
    <2> QED BY <1>2, <2>1, <2>7 DEF LatestRecord, M
<1> QED BY <1>1, <1>2

\* The latest of a sequence to which a record is appended: the new one, unless
\* the latest so far is later still.
LEMMA LatestOfAppend ==
    ASSUME NEW records \in Seq(Records), NEW b \in Records \cup {None}, IsLatest(b, records),
           NEW r \in Records
    PROVE  IsLatest(IF b = None \/ r.date >= b.date THEN r ELSE b, Append(records, r))
<1> DEFINE longer == Append(records, r)
           n == Len(records)
<1>1. /\ n \in Nat
      /\ DOMAIN records = 1 .. n
      /\ DOMAIN longer = 1 .. n + 1
      /\ longer[n + 1] = r
      /\ \A j \in 1 .. n : longer[j] = records[j] /\ records[j] \in Records
    OBVIOUS
<1>2. longer # <<>>
    BY <1>1
<1>3. r.date \in Nat /\ \A j \in 1 .. n : records[j].date \in Nat
    BY <1>1, DatesAreNumbers DEF Records
<1>4. records = <<>> <=> n = 0
    BY <1>1
<1>5. b = None <=> records = <<>>
    BY <1>1, RecordsAssumption DEF IsLatest
<1> HIDE DEF longer
<1>6. CASE b = None
    <2>1. n = 0
        BY <1>4, <1>5, <1>6
    <2> QED BY <1>1, <1>2, <1>3, <1>6, <2>1 DEF IsLatest, longer
<1>7. CASE b # None
    <2>1. PICK i \in 1 .. n :
             /\ b = records[i]
             /\ \A j \in 1 .. n :
                   /\ records[j].date <= b.date
                   /\ records[j].date = b.date => j <= i
        BY <1>1, <1>5, <1>7 DEF IsLatest
    <2>2. b.date \in Nat
        BY <1>3, <2>1
    <2>3. CASE r.date >= b.date
        <3>1. \A j \in 1 .. n + 1 : longer[j].date <= r.date
            BY <1>1, <1>3, <2>1, <2>2, <2>3
        <3>2. IsLatest(r, longer)
            BY <1>1, <1>2, <3>1 DEF IsLatest
        <3> QED BY <2>3, <3>2 DEF longer
    <2>4. CASE ~(r.date >= b.date)
        <3>1. \A j \in 1 .. n + 1 :
                 longer[j].date <= b.date /\ (longer[j].date = b.date => j <= i)
            BY <1>1, <1>3, <2>1, <2>2, <2>4
        <3>2. i \in 1 .. n + 1 /\ longer[i] = b
            BY <1>1, <2>1
        <3>3. IsLatest(b, longer)
            BY <1>1, <1>2, <3>1, <3>2 DEF IsLatest
        <3> QED BY <1>7, <2>4, <3>3 DEF longer
    <2> QED BY <2>3, <2>4
<1> QED BY <1>6, <1>7

\* A record kept for a lookup is a good one: the two independent ways to write
\* the condition agree.
LEMMA KeptIffGood ==
    ASSUME TypeOK, NEW r \in Records
    PROVE  Acceptable(r) <=> Good(r)
<1>1. now \in 0 .. MaxTime /\ r.date \in Dates
    BY DEF TypeOK, Records
<1>2. validate_record_date(r.date) <=>
        r.date >= now - AsSecs(EnvelopeMaxAge) /\ r.date <= now + AsSecs(MaxClockSkew)
    BY <1>1, RecordWindow DEF validate_record_date
<1> QED BY <1>2 DEF Acceptable, Good

-----------------------------------------------------------------------------
(* The inductive invariant.  A lookup goes through three phases, and the   *)
(* answer is right because the best record reported so far is the latest   *)
(* of those kept, which is why max_by(date) finds it at the end.           *)

NotAsked(q) ==
    /\ asked[q] = None
    /\ q \notin live
    /\ kademlia_map_received_records[q] = None
    /\ answer[q] = <<>>
    /\ best[q] = None

UnderWay(q) ==
    /\ asked[q] # None
    /\ q \in live
    /\ kademlia_map_received_records[q] # None
    /\ answer[q] = <<>>
    /\ IsLatest(best[q], kademlia_map_received_records[q])

Answered(q) ==
    /\ asked[q] # None
    /\ q \notin live
    /\ kademlia_map_received_records[q] = None
    /\ answer[q] = <<best[q]>>

LookupPhases == \A q \in Queries : NotAsked(q) \/ UnderWay(q) \/ Answered(q)

\* No record was ever stored that was dated too far ahead.
NewestBounded == \A k \in Keys : newest[k] <= now + AsSecs(MaxClockSkew)

RecordsInv == TypeOK /\ LookupPhases /\ StoreAuthentic /\ NewestBounded

\* Storing and dropping records and the clock leave the lookups alone.
LEMMA LookupsUntouched ==
    ASSUME LookupPhases, UNCHANGED lookups
    PROVE  LookupPhases'
BY DEF LookupPhases, NotAsked, UnderWay, Answered, lookups

\* A step of one lookup that takes it to some phase keeps the phases of all.
LEMMA OtherLookups ==
    ASSUME TypeOK, LookupPhases, NEW q \in Queries,
           \A p \in Queries \ {q} :
              /\ asked'[p] = asked[p]
              /\ p \in live' <=> p \in live
              /\ kademlia_map_received_records'[p] = kademlia_map_received_records[p]
              /\ answer'[p] = answer[p]
              /\ best'[p] = best[p],
           NotAsked(q)' \/ UnderWay(q)' \/ Answered(q)'
    PROVE  LookupPhases'
BY DEF LookupPhases, NotAsked, UnderWay, Answered

\* Command::FindMultiaddr starts a lookup with no records.
LEMMA FindMultiaddrStep ==
    ASSUME RecordsInv, NEW q \in Queries, NEW k \in Keys, FindMultiaddr(q, k)
    PROVE  RecordsInv'
<1> USE DEF RecordsInv, FindMultiaddr
<1>1. asked' \in [Queries -> Keys \cup {None}] /\ asked'[q] = k
    BY DEF TypeOK
<1>2. /\ kademlia_map_received_records' \in [Queries -> Seq(Records) \cup {None}]
      /\ kademlia_map_received_records'[q] = <<>>
    BY DEF TypeOK
<1>3. TypeOK'
    BY <1>1, <1>2 DEF TypeOK
<1>4. NotAsked(q)
    BY DEF LookupPhases, UnderWay, Answered
<1>5. <<>> # None /\ k # None
    <2>1. <<>> \in Seq(Records)
        OBVIOUS
    <2>2. \A s \in Seq(Records) : s # None
        BY RecordsAssumption
    <2>3. k # None
        BY RecordsAssumption
    <2> QED BY <2>1, <2>2, <2>3
<1>6. UnderWay(q)'
    BY <1>1, <1>2, <1>4, <1>5 DEF UnderWay, NotAsked, IsLatest
<1>7. LookupPhases'
    BY <1>6, OtherLookups DEF TypeOK
<1>8. StoreAuthentic' /\ NewestBounded'
    BY DEF StoreAuthentic, NewestBounded
<1> QED BY <1>3, <1>7, <1>8

\* A reported record keeps the best record the latest of those kept.
LEMMA FoundRecordStep ==
    ASSUME RecordsInv, NEW q \in Queries, NEW r \in Records, FoundRecord(q, r)
    PROVE  RecordsInv'
<1> DEFINE map == kademlia_map_received_records
<1> USE DEF RecordsInv
<1>1. /\ q \in live
      /\ map[q] # None
      /\ KeepRecord(q, r)
      /\ best' = IF Good(r) /\ (best[q] = None \/ r.date >= best[q].date)
                 THEN [best EXCEPT ![q] = r] ELSE best
      /\ UNCHANGED <<now, store, newest, asked, live, answer>>
    BY DEF FoundRecord
<1>2. map[q] \in Seq(Records) /\ best[q] \in Records \cup {None}
    BY <1>1 DEF TypeOK
<1>3. UnderWay(q)
    BY <1>1 DEF LookupPhases, NotAsked, Answered
<1>4. Acceptable(r) <=> Good(r)
    BY KeptIffGood
<1>5. CASE ~Acceptable(r)
    <2>1. UNCHANGED vars
        BY <1>1, <1>4, <1>5 DEF KeepRecord, vars
    <2> QED BY <2>1 DEF vars, TypeOK, LookupPhases, NotAsked, UnderWay, Answered, StoreAuthentic,
                         NewestBounded
<1>6. CASE Acceptable(r)
    <2> DEFINE b == IF best[q] = None \/ r.date >= best[q].date THEN r ELSE best[q]
               records == Append(map[q], r)
    <2>1. records \in Seq(Records) /\ b \in Records \cup {None}
        BY <1>2
    <2>2. IsLatest(b, records)
        BY <1>2, <1>3, LatestOfAppend DEF UnderWay
    <2>3. map' = [map EXCEPT ![q] = records]
        BY <1>1, <1>6 DEF KeepRecord
    <2>4. best' = [best EXCEPT ![q] = b]
        BY <1>1, <1>4, <1>6 DEF TypeOK
    <2> HIDE DEF b, records
    <2>5. map' \in [Queries -> Seq(Records) \cup {None}] /\ map'[q] = records
        BY <2>1, <2>3 DEF TypeOK
    <2>6. best' \in [Queries -> Records \cup {None}] /\ best'[q] = b
        BY <2>1, <2>4 DEF TypeOK
    <2>7. TypeOK'
        BY <1>1, <2>5, <2>6 DEF TypeOK
    <2>8. records # None
        BY <2>1, RecordsAssumption
    <2>9. UnderWay(q)'
        BY <1>1, <1>3, <2>2, <2>5, <2>6, <2>8 DEF UnderWay
    <2>10. LookupPhases'
        BY <1>1, <2>3, <2>4, <2>9, OtherLookups DEF TypeOK
    <2> QED BY <1>1, <2>7, <2>10 DEF StoreAuthentic, NewestBounded
<1> QED BY <1>5, <1>6

\* The end of a query answers it with the best record.
LEMMA GetRecordEndsStep ==
    ASSUME RecordsInv, NEW q \in Queries, GetRecordEnds(q)
    PROVE  RecordsInv'
<1> DEFINE map == kademlia_map_received_records
<1> USE DEF RecordsInv
<1>1. UnderWay(q)
    BY DEF GetRecordEnds, LookupPhases, NotAsked, Answered
<1>2. map[q] \in Seq(Records) /\ best[q] \in Records \cup {None}
    BY <1>1 DEF TypeOK, UnderWay
<1>3. LatestRecord(map[q]) = best[q]
    BY <1>1, <1>2, LatestIsUnique DEF UnderWay
<1>4. Append(answer[q], best[q]) = <<best[q]>>
    BY <1>1, <1>2 DEF UnderWay
<1>5. /\ live' = live \ {q}
      /\ answer' = [answer EXCEPT ![q] = <<best[q]>>]
      /\ map' = [map EXCEPT ![q] = None]
      /\ UNCHANGED <<now, store, newest, asked, best>>
    BY <1>1, <1>3, <1>4 DEF GetRecordEnds, finish_looking_for_dht_record, UnderWay
<1>6. <<best[q]>> \in Seq(Records \cup {None})
    BY <1>2
<1>7. answer' \in [Queries -> Seq(Records \cup {None})] /\ answer'[q] = <<best[q]>>
    BY <1>5, <1>6 DEF TypeOK
<1>8. map' \in [Queries -> Seq(Records) \cup {None}] /\ map'[q] = None
    BY <1>5 DEF TypeOK
<1>9. TypeOK'
    BY <1>5, <1>7, <1>8 DEF TypeOK
<1>10. Answered(q)'
    BY <1>1, <1>5, <1>7, <1>8 DEF Answered, UnderWay
<1>11. LookupPhases'
    BY <1>5, <1>10, OtherLookups DEF TypeOK
<1> QED BY <1>5, <1>9, <1>11 DEF StoreAuthentic, NewestBounded

\* A record that the node stores is signed by the owner of its key and dated
\* within the window; the clock only moves forward, so it stays so.
LEMMA StoreStep ==
    ASSUME RecordsInv,
           \/ Tick
           \/ \E r \in Records : InboundPutRecord(r)
           \/ \E k \in Keys : Expire(k)
    PROVE  RecordsInv'
<1> USE DEF RecordsInv
<1>1. UNCHANGED lookups
    BY DEF Tick, InboundPutRecord, Expire
<1>2. LookupPhases'
    BY <1>1, LookupsUntouched
<1>3. AsSecs(MaxClockSkew) \in Nat
    BY RecordsAssumption, AsSecsType
<1>4. CASE Tick
    <2>1. /\ now' \in 0 .. MaxTime /\ now' = now + 1 /\ now \in Nat
          /\ UNCHANGED <<store, newest>>
        BY <1>4, RecordsAssumption DEF Tick, TypeOK
    <2>2. TypeOK'
        BY <1>1, <2>1 DEF TypeOK, lookups
    <2>3. ASSUME NEW d \in Nat, d <= now + AsSecs(MaxClockSkew)
          PROVE  d <= now' + AsSecs(MaxClockSkew)
        BY <1>3, <2>1, <2>3
    <2>4. \A k \in Keys : store[k] # None => store[k].date \in Nat
        BY DatesAreNumbers DEF TypeOK, Records
    <2>5. StoreAuthentic'
        BY <2>1, <2>3, <2>4 DEF StoreAuthentic
    <2>6. NewestBounded'
        BY <2>1, <2>3 DEF NewestBounded, TypeOK
    <2> QED BY <1>2, <2>2, <2>5, <2>6
<1>5. ASSUME NEW r \in Records, InboundPutRecord(r) PROVE RecordsInv'
    <2>1. /\ r.key \in Keys
          /\ store' = [store EXCEPT ![r.key] = r]
          /\ newest' = [newest EXCEPT ![r.key] = IF r.date > newest[r.key] THEN r.date
                                                 ELSE newest[r.key]]
          /\ UNCHANGED now
        BY <1>5 DEF InboundPutRecord, Records
    <2>2. now \in 0 .. MaxTime /\ r.date \in Dates /\ r.date \in Nat
        BY DatesAreNumbers DEF TypeOK, Records
    <2>3. newest' \in [Keys -> Nat]
        BY <2>1, <2>2 DEF TypeOK
    <2>4. TypeOK'
        BY <1>1, <2>1, <2>3 DEF TypeOK, lookups
    <2>5. r.valid /\ r.public_key = r.key /\ r.date <= now + AsSecs(MaxClockSkew)
        BY <1>5, <2>2, RecordWindow DEF InboundPutRecord, Acceptable, validate_record_date
    <2>6. StoreAuthentic'
        BY <2>1, <2>5 DEF StoreAuthentic, TypeOK
    <2>7. NewestBounded'
        BY <2>1, <2>5 DEF NewestBounded, TypeOK
    <2> QED BY <1>2, <2>4, <2>6, <2>7
<1>6. ASSUME NEW k \in Keys, Expire(k) PROVE RecordsInv'
    <2>1. store' = [store EXCEPT ![k] = None] /\ UNCHANGED <<now, newest>>
        BY <1>6 DEF Expire
    <2>2. TypeOK'
        BY <1>1, <2>1 DEF TypeOK, lookups
    <2>3. StoreAuthentic' /\ NewestBounded'
        BY <2>1 DEF StoreAuthentic, NewestBounded, TypeOK
    <2> QED BY <1>2, <2>2, <2>3
<1> QED BY <1>4, <1>5, <1>6

LEMMA RecordsInvariant == Spec => []RecordsInv
<1>1. Init => RecordsInv
    <2>1. AsSecs(MaxClockSkew) \in Nat
        BY RecordsAssumption, AsSecsType
    <2> QED BY <2>1, RecordsAssumption
            DEF Init, RecordsInv, TypeOK, LookupPhases, NotAsked, StoreAuthentic, NewestBounded
<1>2. RecordsInv /\ [Next]_vars => RecordsInv'
    <2>1. RecordsInv /\ UNCHANGED vars => RecordsInv'
        BY DEF vars, RecordsInv, TypeOK, LookupPhases, NotAsked, UnderWay, Answered,
               StoreAuthentic, NewestBounded
    <2> QED BY <2>1, StoreStep, FindMultiaddrStep, FoundRecordStep, GetRecordEndsStep DEF Next
<1> QED BY <1>1, <1>2, PTL DEF Spec

-----------------------------------------------------------------------------
\* The variables of the record model are always well typed.
THEOREM TypeCorrect == Spec => []TypeOK
BY RecordsInvariant, PTL DEF RecordsInv

\* What the node stores for others is signed by the owner of its key and never
\* dated more than max_clock_skew ahead of the clock.
THEOREM StoreIsAuthentic == Spec => []StoreAuthentic
BY RecordsInvariant, PTL DEF RecordsInv

\* Every lookup is answered at most once, exactly when its query has ended, and
\* its entry of kademlia_map_received_records is gone then.
THEOREM LookupAnsweredOnce == Spec => []OneAnswerPerLookup
<1>1. ASSUME RecordsInv, NEW q \in Queries
      PROVE  /\ kademlia_map_received_records[q] # None <=> q \in live
             /\ Len(answer[q]) = IF asked[q] # None /\ q \notin live THEN 1 ELSE 0
    <2>1. Len(<<>>) = 0 /\ Len(<<best[q]>>) = 1
        OBVIOUS
    <2>2. CASE NotAsked(q)
        BY <2>1, <2>2 DEF NotAsked
    <2>3. CASE UnderWay(q)
        BY <2>1, <2>3 DEF UnderWay
    <2>4. CASE Answered(q)
        BY <2>1, <2>4 DEF Answered
    <2> QED BY <1>1, <2>2, <2>3, <2>4 DEF RecordsInv, LookupPhases
<1>2. RecordsInv => OneAnswerPerLookup
    BY <1>1 DEF OneAnswerPerLookup
<1> QED BY <1>2, RecordsInvariant, PTL

\* A lookup is answered with the latest of the records that were good when they
\* were reported, and with None only if there was none.
THEOREM LatestRecordAnswers == Spec => []AnswerIsLatest
<1>1. RecordsInv => AnswerIsLatest
    BY DEF RecordsInv, AnswerIsLatest, LookupPhases, NotAsked, UnderWay, Answered
<1> QED BY <1>1, RecordsInvariant, PTL

\* The peers asked report records of the key asked for only, which nothing in the
\* node checks.
HonestReports ==
    [][\A q \in Queries, r \in Records : FoundRecord(q, r) => r.key = asked[q]]_vars

\* The best record of a lookup is one of the key asked for.
BestOfKeyAsked == \A q \in Queries : best[q] # None => best[q].public_key = asked[q]

LEMMA BestOfKeyAskedStep ==
    ASSUME RecordsInv, BestOfKeyAsked, [Next]_vars,
           [\A q \in Queries, r \in Records : FoundRecord(q, r) => r.key = asked[q]]_vars
    PROVE  BestOfKeyAsked'
<1> USE DEF RecordsInv
<1>1. CASE UNCHANGED <<asked, best>>
    BY <1>1 DEF BestOfKeyAsked
<1>2. ASSUME NEW q \in Queries, NEW k \in Keys, FindMultiaddr(q, k) PROVE BestOfKeyAsked'
    <2>1. best[q] = None
        BY <1>2 DEF FindMultiaddr, LookupPhases, NotAsked, UnderWay, Answered
    <2> QED BY <1>2, <2>1 DEF FindMultiaddr, BestOfKeyAsked, TypeOK
<1>3. ASSUME NEW q \in Queries, NEW r \in Records, FoundRecord(q, r), ~UNCHANGED vars
      PROVE  BestOfKeyAsked'
    <2>1. r.key = asked[q]
        BY <1>3
    <2>2. /\ best' = IF Good(r) /\ (best[q] = None \/ r.date >= best[q].date)
                     THEN [best EXCEPT ![q] = r] ELSE best
          /\ UNCHANGED asked
        BY <1>3 DEF FoundRecord
    <2> QED BY <2>1, <2>2 DEF Good, BestOfKeyAsked, TypeOK
<1>4. CASE UNCHANGED vars
    BY <1>1, <1>4 DEF vars
<1>5. CASE \/ Tick
           \/ \E r \in Records : InboundPutRecord(r)
           \/ \E k \in Keys : Expire(k)
           \/ \E q \in Queries : GetRecordEnds(q)
    BY <1>1, <1>5 DEF Tick, InboundPutRecord, Expire, GetRecordEnds, lookups
<1> QED BY <1>2, <1>3, <1>4, <1>5 DEF Next

\* If the peers asked are honest about the key, so is the answer: the missing
\* comparison is the only thing that stands between FindMultiaddr and its promise.
THEOREM HonestReportsSuffice == Spec /\ HonestReports => []AnswerOfKeyAsked
<1>1. Init => BestOfKeyAsked
    BY DEF Init, BestOfKeyAsked
<1>2. RecordsInv /\ BestOfKeyAsked => AnswerOfKeyAsked
    BY DEF RecordsInv, AnswerOfKeyAsked, BestOfKeyAsked, LookupPhases, NotAsked, UnderWay, Answered
<1> QED BY <1>1, <1>2, BestOfKeyAskedStep, RecordsInvariant, PTL DEF Spec, HonestReports

\* A stored record gives way only to a newer one, and after it was dropped a
\* replay takes the node back by the age and the skew at most: the node accepts
\* nothing older than the age, and never stored anything further ahead than the skew.
THEOREM ReplaysAreBounded == Spec => ReplaysBounded
<1>1. RecordsInv /\ [Next]_vars =>
        [\A k \in Keys :
            store'[k] # None /\ store'[k] # store[k] =>
                /\ store[k] # None => store'[k].date > store[k].date
                /\ store'[k].date >=
                      newest[k] - (AsSecs(EnvelopeMaxAge) + AsSecs(MaxClockSkew))]_vars
    <2> SUFFICES ASSUME RecordsInv, Next, NEW k \in Keys,
                        store'[k] # None, store'[k] # store[k]
                 PROVE  /\ store[k] # None => store'[k].date > store[k].date
                        /\ store'[k].date >=
                              newest[k] - (AsSecs(EnvelopeMaxAge) + AsSecs(MaxClockSkew))
        OBVIOUS
    <2> USE DEF RecordsInv
    <2>1. PICK r \in Records : InboundPutRecord(r)
        BY DEF Next, Tick, Expire, FindMultiaddr, FoundRecord, GetRecordEnds, TypeOK
    <2>2. r.key = k /\ store'[k] = r
        BY <2>1 DEF InboundPutRecord, TypeOK, Records
    <2>3. store[k] # None => store'[k].date > store[k].date
        BY <2>1, <2>2 DEF InboundPutRecord, NewerThanStored
    <2>4. now \in 0 .. MaxTime /\ r.date \in Dates /\ r.date \in Nat /\ newest[k] \in Nat
        BY DatesAreNumbers DEF TypeOK, Records
    <2>5. AsSecs(EnvelopeMaxAge) \in Nat /\ AsSecs(MaxClockSkew) \in Nat
        BY RecordsAssumption, AsSecsType
    <2>6. r.date >= now - AsSecs(EnvelopeMaxAge)
        BY <2>1, <2>4, RecordWindow DEF InboundPutRecord, Acceptable, validate_record_date
    <2>7. newest[k] <= now + AsSecs(MaxClockSkew)
        BY DEF NewestBounded
    <2>8. r.date >= newest[k] - (AsSecs(EnvelopeMaxAge) + AsSecs(MaxClockSkew))
        BY <2>4, <2>5, <2>6, <2>7
    <2> QED BY <2>2, <2>3, <2>8
<1> QED BY <1>1, RecordsInvariant, PTL DEF Spec, ReplaysBounded
=============================================================================
