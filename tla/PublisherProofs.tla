--------------------------- MODULE PublisherProofs ---------------------------
(***************************************************************************)
(* Proofs about Publisher, for any durations, capacity and bounds.         *)
(***************************************************************************)
EXTENDS Publisher, FiniteSetTheorems, TLAPS

\* The times of a cycle stay times in every step.
LEMMA TimesStep ==
    ASSUME TypeOK, [Next]_vars
    PROVE  now' \in Times /\ at' \in [Cycles -> Nat] /\ published' \in Nat
<1> USE PublisherAssumption DEF TypeOK, Times
<1>1. CASE StartListening
    BY <1>1 DEF StartListening
<1>2. ASSUME NEW i \in Cycles, RoutingUpdated(i) PROVE UNCHANGED <<now, at, published>>
    BY <1>2 DEF RoutingUpdated
<1>3. ASSUME NEW i \in Cycles, Republish(i)
      PROVE  UNCHANGED <<now, published>> /\ at' \in [Cycles -> Nat]
    BY <1>3 DEF Republish
<1>4. ASSUME NEW i \in Cycles, RepublishFails(i) PROVE UNCHANGED <<now, at, published>>
    BY <1>4 DEF RepublishFails
<1>5. ASSUME NEW i \in Cycles, PutRecordOk(i)
      PROVE  UNCHANGED now /\ at' \in [Cycles -> Nat] /\ published' \in Nat
    BY <1>5 DEF PutRecordOk
<1>6. ASSUME NEW i \in Cycles, PutRecordError(i)
      PROVE  UNCHANGED <<now, published>> /\ at' \in [Cycles -> Nat]
    BY <1>6 DEF PutRecordError
<1>7. ASSUME NEW i \in Cycles, TimerFires(i) PROVE UNCHANGED <<now, at, published>>
    BY <1>7 DEF TimerFires
<1>8. CASE Tick
    BY <1>8 DEF Tick
<1>9. CASE UNCHANGED vars
    BY <1>9 DEF vars
<1> QED BY <1>1, <1>2, <1>3, <1>4, <1>5, <1>6, <1>7, <1>8, <1>9 DEF Next

\* The part of the type invariant without numbers.
FlagsTyped ==
    /\ phase \in {"startup", "listen"}
    /\ kademlia_is_routing_updated_first_time \in BOOLEAN
    /\ stage \in [Cycles -> Stages]
    /\ blocked \in BOOLEAN
    /\ current \in BOOLEAN

\* The rest of the state stays in its types.
LEMMA FlagsStep ==
    ASSUME FlagsTyped, [Next]_vars
    PROVE  FlagsTyped'
<1> USE DEF FlagsTyped, Stages
<1>1. CASE StartListening
    BY <1>1 DEF StartListening
<1>2. ASSUME NEW i \in Cycles, RoutingUpdated(i) PROVE FlagsTyped'
    BY <1>2 DEF RoutingUpdated
<1>3. ASSUME NEW i \in Cycles, Republish(i) PROVE FlagsTyped'
    BY <1>3 DEF Republish
<1>4. ASSUME NEW i \in Cycles, RepublishFails(i) PROVE FlagsTyped'
    BY <1>4 DEF RepublishFails
<1>5. ASSUME NEW i \in Cycles, PutRecordOk(i) PROVE FlagsTyped'
    BY <1>5 DEF PutRecordOk
<1>6. ASSUME NEW i \in Cycles, PutRecordError(i) PROVE FlagsTyped'
    BY <1>6 DEF PutRecordError
<1>7. ASSUME NEW i \in Cycles, TimerFires(i) PROVE FlagsTyped'
    BY <1>7 DEF TimerFires
<1>8. CASE Tick
    BY <1>8 DEF Tick
<1>9. CASE UNCHANGED vars
    BY <1>9 DEF vars
<1> QED BY <1>1, <1>2, <1>3, <1>4, <1>5, <1>6, <1>7, <1>8, <1>9 DEF Next

\* The stages and times of the cycles stay what they are (Publisher).
THEOREM TypeCorrect == Spec => []TypeOK
<1>1. Init => TypeOK
  <2>1. Init => now \in Times /\ at \in [Cycles -> Nat] /\ published \in Nat
      BY PublisherAssumption DEF Init, Times
  <2>2. Init => FlagsTyped
      BY DEF Init, FlagsTyped, Stages
  <2> QED BY <2>1, <2>2 DEF TypeOK, FlagsTyped
<1>2. TypeOK /\ [Next]_vars => TypeOK'
    BY TimesStep, FlagsStep DEF TypeOK, FlagsTyped
<1> QED BY <1>1, <1>2, PTL DEF Spec

-----------------------------------------------------------------------------
(***************************************************************************)
(* One cycle.  The first routing update finds no cycle under way, hence    *)
(* an empty channel with room for its token.                               *)
(***************************************************************************)
CycleInv ==
    /\ TypeOK
    /\ OnePublisher
    /\ NeverBlocked
    /\ CycleKept
    /\ kademlia_is_routing_updated_first_time => \A i \in Cycles : stage[i] = "idle"

\* A step of a cycle that is under way begins no other.
LEMMA SameCycle ==
    ASSUME CycleInv, NEW i \in Cycles, stage[i] # "idle",
           NEW s, s # "idle", stage' = [stage EXCEPT ![i] = s],
           UNCHANGED <<kademlia_is_routing_updated_first_time, blocked>>
    PROVE  /\ OnePublisher'
           /\ NeverBlocked'
           /\ CycleKept'
           /\ kademlia_is_routing_updated_first_time' => \A j \in Cycles : stage'[j] = "idle"
BY DEF CycleInv, TypeOK, OnePublisher, NeverBlocked, CycleKept

LEMMA CycleStep == CycleInv /\ [Next]_vars => CycleInv'
<1> SUFFICES ASSUME CycleInv, [Next]_vars PROVE CycleInv'
    OBVIOUS
<1>0. TypeOK'
    BY TimesStep, FlagsStep DEF CycleInv, TypeOK, FlagsTyped
<1>1. CASE StartListening
    BY <1>0, <1>1 DEF StartListening, CycleInv, OnePublisher, NeverBlocked, CycleKept
<1>2. ASSUME NEW i \in Cycles, RoutingUpdated(i) PROVE CycleInv'
  <2>1. Queued = {}
      BY <1>2 DEF RoutingUpdated, CycleInv, Queued
  <2>2. Cardinality(Queued) < Capacity
      BY <2>1, FS_EmptySet, PublisherAssumption
  <2>3. stage' = [stage EXCEPT ![i] = "queued"] /\ UNCHANGED blocked
      BY <1>2, <2>2 DEF RoutingUpdated
  <2>4. ~kademlia_is_routing_updated_first_time' /\ \A j \in Cycles : stage[j] = "idle"
      BY <1>2 DEF RoutingUpdated, CycleInv
  <2> QED BY <1>0, <2>3, <2>4 DEF CycleInv, TypeOK, OnePublisher, NeverBlocked, CycleKept
<1>3. ASSUME NEW i \in Cycles, Republish(i) PROVE CycleInv'
    BY <1>0, <1>3, SameCycle DEF Republish, CycleInv
<1>4. ASSUME NEW i \in Cycles, RepublishFails(i) PROVE CycleInv'
    BY <1>0, <1>4, SameCycle DEF RepublishFails, CycleInv
<1>5. ASSUME NEW i \in Cycles, PutRecordOk(i) PROVE CycleInv'
    BY <1>0, <1>5, SameCycle DEF PutRecordOk, CycleInv
<1>6. ASSUME NEW i \in Cycles, PutRecordError(i) PROVE CycleInv'
    BY <1>0, <1>6, SameCycle DEF PutRecordError, CycleInv
<1>7. ASSUME NEW i \in Cycles, TimerFires(i) PROVE CycleInv'
    BY <1>0, <1>7, SameCycle DEF TimerFires, CycleInv
<1>8. CASE Tick
    BY <1>0, <1>8 DEF Tick, CycleInv, OnePublisher, NeverBlocked, CycleKept
<1>9. CASE UNCHANGED vars
    BY <1>0, <1>9 DEF vars, CycleInv, OnePublisher, NeverBlocked, CycleKept
<1> QED BY <1>1, <1>2, <1>3, <1>4, <1>5, <1>6, <1>7, <1>8, <1>9 DEF Next

LEMMA CycleInvariant == Spec => []CycleInv
<1>1. Init /\ TypeOK => CycleInv
    BY DEF Init, CycleInv, OnePublisher, NeverBlocked, CycleKept
<1> QED BY <1>1, CycleStep, TypeCorrect, PTL DEF Spec

\* Publishing never multiplies: at most one put query or republish timer exists,
\* for every timing of routing updates, errors and timers (OnePublisher).
THEOREM PublishesOnce == Spec => []OnePublisher
<1>1. CycleInv => OnePublisher
    BY DEF CycleInv
<1> QED BY <1>1, CycleInvariant, PTL

\* The send of the node to itself never waits, whatever the capacity (NeverBlocked).
THEOREM SelfSendNeverWaits == Spec => []NeverBlocked
<1>1. CycleInv => NeverBlocked
    BY DEF CycleInv
<1> QED BY <1>1, CycleInvariant, PTL

\* Once begun, publishing ends only where no query is started (CycleKept).
THEOREM CycleNeverDropped == Spec => []CycleKept
<1>1. CycleInv => CycleKept
    BY DEF CycleInv
<1> QED BY <1>1, CycleInvariant, PTL

-----------------------------------------------------------------------------
(* A record that could not be signed or stored. *)

\* The cycle ended with a failure of ask_kademlia_put_record, and d is the date of
\* the last record that was published.
Ended(i, d) == stage[i] = "lost" /\ published = d

\* Nothing starts a new cycle: the first routing update is long over.
LEMMA EndedStep ==
    ASSUME NEW i \in Cycles, NEW d
    PROVE  CycleInv /\ Ended(i, d) /\ [Next]_vars => Ended(i, d)'
<1> SUFFICES ASSUME CycleInv, Ended(i, d), [Next]_vars PROVE Ended(i, d)'
    OBVIOUS
<1>1. \A j \in Cycles : stage[j] \in {"idle", "lost"}
    BY DEF CycleInv, OnePublisher, Ended
<1>2. ~kademlia_is_routing_updated_first_time
    BY DEF CycleInv, Ended
<1>3. CASE StartListening \/ Tick \/ UNCHANGED vars
    BY <1>3 DEF StartListening, Tick, vars, Ended
<1>4. ASSUME NEW j \in Cycles,
             \/ RoutingUpdated(j) \/ Republish(j) \/ RepublishFails(j)
             \/ PutRecordOk(j) \/ PutRecordError(j) \/ TimerFires(j)
      PROVE  FALSE
    BY <1>1, <1>2, <1>4 DEF RoutingUpdated, Republish, RepublishFails, PutRecordOk,
                            PutRecordError, TimerFires
<1> QED BY <1>3, <1>4 DEF Next

\* After one failure to sign or to store its record, the node never publishes
\* again: the date of its last record stays what it is for ever.
THEOREM OneFailureEndsPublishing ==
    ASSUME NEW i \in Cycles, NEW d
    PROVE  Spec => [](Ended(i, d) => []Ended(i, d))
BY CycleInvariant, EndedStep, PTL DEF Spec

-----------------------------------------------------------------------------
(***************************************************************************)
(* The age of the published record.  After a successful put there is a     *)
(* cycle under way.  It was put at most PutTime after its date, sleeps     *)
(* RecordTTL, and the put that follows ends at most PutTime later.         *)
(***************************************************************************)
Due == published + PutTime + RecordTTL

\* Where the clock is, for a cycle under way.
Paced(i) ==
    /\ stage[i] = "sleeping" => now <= at[i]
    /\ stage[i] = "putting" => at[i] <= now /\ now <= at[i] + PutTime

\* Where the record's date is.
OnTime(i) ==
    /\ stage[i] = "sleeping" => at[i] <= Due
    /\ stage[i] = "queued" => now <= Due
    /\ stage[i] = "putting" => at[i] <= Due

AgeInv ==
    /\ published <= now
    /\ \A i \in Cycles : Paced(i)
    /\ current => \E i \in Cycles : stage[i] \notin {"idle", "lost"} /\ OnTime(i)

LEMMA AgeStep == CycleInv /\ AgeInv /\ [Next]_vars => AgeInv'
<1> SUFFICES ASSUME CycleInv, AgeInv, [Next]_vars PROVE AgeInv'
    OBVIOUS
<1> USE PublisherAssumption
<1>0. /\ now \in Nat /\ published \in Nat /\ PutTime \in Nat /\ RecordTTL \in Nat /\ RetryAfter \in Nat
      /\ at \in [Cycles -> Nat]
      /\ stage \in [Cycles -> Stages]
    BY DEF CycleInv, TypeOK, Times
<1>00. \A i, j \in Cycles : stage[i] # "idle" /\ stage[j] # "idle" => i = j
    BY DEF CycleInv, OnePublisher
<1>1. CASE StartListening
    BY <1>1 DEF StartListening, AgeInv, Paced, OnTime, Due
<1>2. ASSUME NEW i \in Cycles, RoutingUpdated(i) PROVE AgeInv'
  <2>1. ~current
      BY <1>2 DEF RoutingUpdated, CycleInv, AgeInv
  <2>2. \A j \in Cycles : Paced(j)'
      BY <1>0, <1>2 DEF RoutingUpdated, AgeInv, Paced
  <2> QED BY <1>2, <2>1, <2>2 DEF RoutingUpdated, AgeInv
<1>3. ASSUME NEW i \in Cycles, Republish(i) PROVE AgeInv'
  <2>1. \A j \in Cycles : Paced(j)'
      BY <1>0, <1>3 DEF Republish, AgeInv, Paced
  <2>2. current => stage'[i] \notin {"idle", "lost"} /\ OnTime(i)'
      BY <1>0, <1>00, <1>3 DEF Republish, AgeInv, OnTime, Due
  <2> QED BY <1>3, <2>1, <2>2 DEF Republish, AgeInv
<1>4. ASSUME NEW i \in Cycles, RepublishFails(i) PROVE AgeInv'
    BY <1>0, <1>4 DEF RepublishFails, AgeInv, Paced
<1>5. ASSUME NEW i \in Cycles, PutRecordOk(i) PROVE AgeInv'
  <2>1. \A j \in Cycles : Paced(j)'
      BY <1>0, <1>5 DEF PutRecordOk, AgeInv, Paced
  <2>2. published' <= now' /\ stage'[i] \notin {"idle", "lost"} /\ OnTime(i)'
      BY <1>0, <1>5 DEF PutRecordOk, AgeInv, Paced, OnTime, Due
  <2> QED BY <2>1, <2>2 DEF AgeInv
<1>6. ASSUME NEW i \in Cycles, PutRecordError(i) PROVE AgeInv'
  <2>1. \A j \in Cycles : Paced(j)'
      BY <1>0, <1>6 DEF PutRecordError, AgeInv, Paced
  <2> QED BY <1>6, <2>1 DEF PutRecordError, AgeInv
<1>7. ASSUME NEW i \in Cycles, TimerFires(i) PROVE AgeInv'
  <2>1. \A j \in Cycles : Paced(j)'
      BY <1>0, <1>7 DEF TimerFires, AgeInv, Paced
  <2>2. current => stage'[i] \notin {"idle", "lost"} /\ OnTime(i)'
      BY <1>0, <1>00, <1>7 DEF TimerFires, AgeInv, Paced, OnTime, Due
  <2> QED BY <1>7, <2>1, <2>2 DEF TimerFires, AgeInv
<1>8. CASE Tick
  <2>1. now' = now + 1 /\ UNCHANGED <<stage, at, published, current>>
      BY <1>8 DEF Tick
  <2>2. \A j \in Cycles : Paced(j)'
      BY <1>0, <1>8, <2>1 DEF Tick, NothingDue, AgeInv, Paced
  <2>3. ASSUME NEW j \in Cycles, OnTime(j) PROVE OnTime(j)'
      BY <1>0, <1>8, <2>1, <2>3 DEF Tick, NothingDue, OnTime, Due
  <2> QED BY <1>0, <2>1, <2>2, <2>3 DEF AgeInv
<1>9. CASE UNCHANGED vars
    BY <1>9 DEF vars, AgeInv, Paced, OnTime, Due
<1> QED BY <1>1, <1>2, <1>3, <1>4, <1>5, <1>6, <1>7, <1>8, <1>9 DEF Next

\* AgeInv bounds the age of the record by one sleep and two puts.
LEMMA AgeBounded ==
    ASSUME CycleInv, AgeInv, current
    PROVE  now <= published + RecordTTL + 2 * PutTime
<1>0. /\ now \in Nat /\ published \in Nat /\ PutTime \in Nat /\ RecordTTL \in Nat
      /\ at \in [Cycles -> Nat]
      /\ stage \in [Cycles -> Stages]
    BY PublisherAssumption DEF CycleInv, TypeOK, Times
<1>1. PICK i \in Cycles : stage[i] \notin {"idle", "lost"} /\ OnTime(i)
    BY DEF AgeInv
<1> QED BY <1>0, <1>1 DEF Stages, AgeInv, Paced, OnTime, Due

\* The five minutes that create_kademlia_behaviour adds to kad_record_ttl cover
\* the two puts of a round if each ends within half of them, as kademlia's query
\* timeout of one minute for each of its two phases ensures: the record of a node
\* whose puts succeed is replaced before it expires, for any kad_record_ttl.
THEOREM RecordOutlivesRound ==
    ASSUME 2 * PutTime <= ExpiryMargin
    PROVE  Spec => []RecordNotExpired
<1>1. Init => AgeInv
    BY DEF Init, AgeInv, Paced
<1>2. CycleInv /\ AgeInv => RecordNotExpired
    <2> SUFFICES ASSUME CycleInv, AgeInv, current
                 PROVE  now <= Expires
        BY DEF RecordNotExpired
    <2>1. now \in Nat /\ published \in Nat
        BY DEF CycleInv, TypeOK, Times
    <2> QED BY <2>1, AgeBounded, PublisherAssumption DEF Expires
<1> QED BY <1>1, <1>2, AgeStep, CycleInvariant, PTL DEF Spec
=============================================================================
