---------------------------- MODULE DialingProofs ----------------------------
(***************************************************************************)
(* Proofs about Dialing, for every number of peers, addresses and attempts *)
(* and for every connection limit.                                         *)
(***************************************************************************)
EXTENDS Dialing, SequenceTheorems, FiniteSetTheorems, TLAPS

\* The sorted list of a command has all its addresses, QUIC first.
LEMMA SortedList ==
    ASSUME NEW r \in Seq(Addrs), NEW q \in SortQuicFirst(r)
    PROVE  q \in Seq(Addrs) /\ Len(q) = Len(r) /\ QuicFirst(q)
<1> DEFINE n == Len(r)
<1>1. n \in Nat /\ \A i \in 1 .. n : r[i] \in Addrs
    BY LenProperties, ElementOfSeq
<1>2. PICK p \in [1 .. n -> 1 .. n] :
        /\ q = [i \in 1 .. n |-> r[p[i]]]
        /\ \A i, j \in 1 .. n : i < j =>
              \/ r[p[i]] \in Quic /\ r[p[j]] \notin Quic
              \/ (r[p[i]] \in Quic <=> r[p[j]] \in Quic) /\ p[i] < p[j]
    BY DEF SortQuicFirst
<1> HIDE DEF n
<1>3. q \in [1 .. n -> Addrs]
    BY <1>1, <1>2
<1>4. q \in Seq(Addrs) /\ Len(q) = n
    BY <1>1, <1>3, SeqDef, LenProperties
<1>5. QuicFirst(q)
    BY <1>1, <1>2, <1>4 DEF QuicFirst
<1> QED BY <1>4, <1>5 DEF n

\* The sorted list of a non-empty command has a first address and a rest.
LEMMA SortedNonEmpty ==
    ASSUME NEW r \in Requests, r # <<>>, NEW q \in SortQuicFirst(r)
    PROVE  /\ q \in Seq(Addrs)
           /\ q # <<>>
           /\ Head(q) \in Addrs
           /\ Tail(q) \in Seq(Addrs)
           /\ QuicFirst(q)
<1>1. r \in Seq(Addrs)
    BY DialingAssumption
<1>2. Len(r) # 0
    BY <1>1, EmptySeq
<1>3. q \in Seq(Addrs) /\ Len(q) = Len(r) /\ QuicFirst(q)
    BY <1>1, SortedList
<1>4. q # <<>>
    BY <1>2, <1>3, EmptySeq
<1> QED BY <1>3, <1>4, HeadTailProperties

\* Moving the head of a queue to the end of a list leaves their concatenation.
LEMMA MoveHead ==
    ASSUME NEW s \in Seq(Addrs), NEW q \in Seq(Addrs), q # <<>>
    PROVE  Append(s, Head(q)) \o Tail(q) = s \o q
<1>1. Head(q) \in Addrs /\ Tail(q) \in Seq(Addrs) /\ Len(Tail(q)) = Len(q) - 1
      /\ \A i \in 1 .. Len(Tail(q)) : Tail(q)[i] = q[i + 1]
    BY HeadTailProperties
<1>2. Append(s, Head(q)) \in Seq(Addrs) /\ Len(Append(s, Head(q))) = Len(s) + 1
      /\ (\A i \in 1 .. Len(s) : Append(s, Head(q))[i] = s[i])
      /\ Append(s, Head(q))[Len(s) + 1] = Head(q)
    BY <1>1, AppendProperties
<1>3. Len(q) \in Nat \ {0} /\ Len(s) \in Nat /\ Head(q) = q[1]
    BY EmptySeq, LenProperties
<1> DEFINE l == Append(s, Head(q)) \o Tail(q)
           r == s \o q
<1>4. l \in Seq(Addrs) /\ Len(l) = Len(s) + Len(q)
      /\ \A i \in 1 .. Len(s) + Len(q) :
            l[i] = IF i <= Len(s) + 1 THEN Append(s, Head(q))[i] ELSE Tail(q)[i - (Len(s) + 1)]
    BY <1>1, <1>2, <1>3, ConcatProperties
<1>5. r \in Seq(Addrs) /\ Len(r) = Len(s) + Len(q)
      /\ \A i \in 1 .. Len(s) + Len(q) : r[i] = IF i <= Len(s) THEN s[i] ELSE q[i - Len(s)]
    BY ConcatProperties
<1>6. ASSUME NEW i \in 1 .. Len(s) + Len(q) PROVE l[i] = r[i]
    <2>1. CASE i <= Len(s)
        BY <1>2, <1>3, <1>4, <1>5, <2>1
    <2>2. CASE i = Len(s) + 1
        BY <1>2, <1>3, <1>4, <1>5, <2>2
    <2>3. CASE i > Len(s) + 1
        <3>1. l[i] = Tail(q)[i - (Len(s) + 1)] /\ r[i] = q[i - Len(s)]
            BY <1>3, <1>4, <1>5, <2>3
        <3>2. i - (Len(s) + 1) \in 1 .. Len(Tail(q)) /\ (i - (Len(s) + 1)) + 1 = i - Len(s)
            BY <1>1, <1>3, <2>3
        <3> QED BY <1>1, <3>1, <3>2
    <2> QED BY <1>3, <2>1, <2>2, <2>3
<1>7. l = r
    BY <1>4, <1>5, <1>6, SeqEqual
<1> QED BY <1>7

\* A list with QUIC first keeps QUIC first when it is cut.
LEMMA PrefixQuicFirst ==
    ASSUME NEW s \in Seq(Addrs), NEW q \in Seq(Addrs), QuicFirst(s \o q)
    PROVE  QuicFirst(s)
<1>1. Len(s) \in Nat /\ Len(q) \in Nat
    BY LenProperties
<1>2. Len(s \o q) = Len(s) + Len(q) /\ \A i \in 1 .. Len(s) : (s \o q)[i] = s[i]
    BY <1>1, ConcatProperties
<1> QED BY <1>1, <1>2 DEF QuicFirst

-----------------------------------------------------------------------------
\* The maps of DialManager stay well typed.
LEMMA TypeStep == TypeOK /\ [Next]_vars => TypeOK'
<1> SUFFICES ASSUME TypeOK, [Next]_vars PROVE TypeOK'
    OBVIOUS
<1> USE DialingAssumption
<1>1. ASSUME NEW addr \in Addrs, NEW a \in Apps, NEW map \in [ConnIds -> Apps \cup {NoApp}],
             NEW ending, dial_and_map(addr, a, map, ending)
      PROVE  /\ (conn_to_dial \in [ConnIds -> Apps \cup {NoApp}])'
             /\ (dialing \in [ConnIds -> Addrs \cup {NoAddr}])'
             /\ (next_conn \in 1 .. MaxConn + 1)'
    BY <1>1 DEF dial_and_map, TypeOK, ConnIds
<1>2. ASSUME NEW a \in Apps, NEW r \in Requests, ConnectToPeer(a, r) PROVE TypeOK'
    <2>0. PICK queue \in SortQuicFirst(r) :
             /\ connect_to' = connect_to \cup {Head(queue)}
             /\ dial_queues' = [dial_queues EXCEPT ![a] = Tail(queue)]
             /\ dial_and_map(Head(queue), a, conn_to_dial, {})
             /\ wanted' = [wanted EXCEPT ![a] = queue]
             /\ tried' = [tried EXCEPT ![a] = <<Head(queue)>>]
        BY <1>2 DEF ConnectToPeer
    <2>1. Head(queue) \in Addrs /\ Tail(queue) \in Seq(Addrs) /\ queue \in Seq(Addrs)
        BY <1>2, SortedNonEmpty DEF ConnectToPeer
    <2>2. conn_to_dial \in [ConnIds -> Apps \cup {NoApp}]
        BY DEF TypeOK
    <2>3. /\ (conn_to_dial \in [ConnIds -> Apps \cup {NoApp}])'
          /\ (dialing \in [ConnIds -> Addrs \cup {NoAddr}])'
          /\ (next_conn \in 1 .. MaxConn + 1)'
        BY <1>1, <2>0, <2>1, <2>2
    <2>4. <<Head(queue)>> \in Seq(Addrs)
        BY <2>1
    <2> QED BY <1>2, <2>0, <2>1, <2>3, <2>4 DEF ConnectToPeer, TypeOK, Outcomes
<1>3. ASSUME NEW addr \in Addrs, OtherDial(addr) PROVE TypeOK'
    BY <1>3 DEF OtherDial, TypeOK, ConnIds
<1>4. ASSUME NEW c \in ConnIds, ConnectionEstablished(c) PROVE TypeOK'
    BY <1>4 DEF ConnectionEstablished, SequenceConnects, TypeOK, Outcomes
<1>5. ASSUME NEW c \in ConnIds, NEW a \in Apps, TryNextAddress(c, a) PROVE TypeOK'
    <2>1. dial_queues[a] \in Seq(Addrs) /\ dial_queues[a] # <<>>
        BY <1>5 DEF TryNextAddress, TypeOK
    <2>2. Head(dial_queues[a]) \in Addrs /\ Tail(dial_queues[a]) \in Seq(Addrs)
        BY <2>1, HeadTailProperties
    <2>3. Append(tried[a], Head(dial_queues[a])) \in Seq(Addrs)
        BY <2>2, AppendProperties DEF TypeOK
    <2>4. [conn_to_dial EXCEPT ![c] = NoApp] \in [ConnIds -> Apps \cup {NoApp}]
        BY DEF TypeOK
    <2>5. /\ (conn_to_dial \in [ConnIds -> Apps \cup {NoApp}])'
          /\ (dialing \in [ConnIds -> Addrs \cup {NoAddr}])'
          /\ (next_conn \in 1 .. MaxConn + 1)'
        BY <1>1, <1>5, <2>2, <2>4 DEF TryNextAddress
    <2> QED BY <1>5, <2>2, <2>3, <2>5 DEF TryNextAddress, TypeOK
<1>6. ASSUME NEW c \in ConnIds, NEW a \in Apps, GiveUp(c, a) PROVE TypeOK'
    BY <1>6 DEF GiveUp, TypeOK, Outcomes
<1>7. ASSUME NEW c \in ConnIds, OutgoingConnectionError(c) PROVE TypeOK'
    <2>1. CASE conn_to_dial[c] # NoApp
        BY <1>5, <1>6, <1>7, <2>1 DEF OutgoingConnectionError, TypeOK
    <2>2. CASE conn_to_dial[c] = NoApp
        BY <1>7, <2>2 DEF OutgoingConnectionError, TypeOK
    <2> QED BY <2>1, <2>2
<1>8. CASE UNCHANGED vars
    BY <1>8 DEF vars, TypeOK
<1> QED BY <1>2, <1>3, <1>4, <1>7, <1>8 DEF Next

\* The variables of the dialing model are always well typed.
THEOREM TypeCorrect == Spec => []TypeOK
<1>1. Init => TypeOK
    BY DialingAssumption, EmptySeq DEF Init, TypeOK, Outcomes
<1> QED BY <1>1, TypeStep, PTL DEF Spec

-----------------------------------------------------------------------------
(* Attempts: which attempt belongs to which sequence. *)

\* A ConnectionId that was not handed out yet is not in conn_to_dial.
FreshUnmapped ==
    \A c \in ConnIds : c >= next_conn => conn_to_dial[c] = NoApp

AttemptInv == TypeOK /\ FreshUnmapped /\ OneAttemptPerSequence

\* Every step keeps one attempt per sequence, whether the dial is denied or not.
LEMMA AttemptStep == AttemptInv /\ [Next]_vars => AttemptInv'
<1> SUFFICES ASSUME AttemptInv, [Next]_vars PROVE FreshUnmapped' /\ OneAttemptPerSequence'
    BY TypeStep DEF AttemptInv
<1> USE DialingAssumption DEF AttemptInv
<1>1. ASSUME NEW a \in Apps, NEW r \in Requests, ConnectToPeer(a, r)
      PROVE  FreshUnmapped' /\ OneAttemptPerSequence'
    <2>1. PICK queue \in SortQuicFirst(r) :
          /\ next_conn \in ConnIds /\ next_conn' = next_conn + 1
          /\ conn_to_dial' = [conn_to_dial EXCEPT ![next_conn] = a]
          /\ dial_queues[a] = NoQueue
          /\ dial_queues' = [dial_queues EXCEPT ![a] = Tail(queue)]
        BY <1>1 DEF ConnectToPeer, dial_and_map, has_no_queue
    <2>2. Tail(queue) # NoQueue
        BY <1>1, SortedNonEmpty DEF ConnectToPeer
    <2>3. FreshUnmapped'
        BY <2>1 DEF FreshUnmapped, TypeOK, ConnIds
    <2>4. \A c \in ConnIds : conn_to_dial[c] # a
        BY <2>1 DEF OneAttemptPerSequence
    <2>5. \A c \in ConnIds : conn_to_dial'[c] = IF c = next_conn THEN a ELSE conn_to_dial[c]
        BY <2>1 DEF TypeOK
    <2>6. \A b \in Apps : b # a => dial_queues'[b] = dial_queues[b]
        BY <2>1 DEF TypeOK
    <2>7. dial_queues'[a] # NoQueue /\ conn_to_dial[next_conn] = NoApp
        BY <2>1, <2>2 DEF TypeOK, FreshUnmapped, ConnIds
    <2>8. \A b \in Apps : (dial_queues[b] # NoQueue <=> \E c \in ConnIds : conn_to_dial[c] = b)'
        BY <2>1, <2>5, <2>6, <2>7 DEF OneAttemptPerSequence
    <2>9. \A c, d \in ConnIds :
             (conn_to_dial[c] # NoApp /\ conn_to_dial[c] = conn_to_dial[d] => c = d)'
        BY <2>4, <2>5 DEF OneAttemptPerSequence
    <2> QED BY <2>3, <2>8, <2>9 DEF OneAttemptPerSequence
<1>2. ASSUME NEW addr \in Addrs, OtherDial(addr)
      PROVE  FreshUnmapped' /\ OneAttemptPerSequence'
    BY <1>2 DEF OtherDial, FreshUnmapped, OneAttemptPerSequence, TypeOK, ConnIds
<1>3. ASSUME NEW c \in ConnIds, NEW a \in Apps, conn_to_dial[c] = a,
             dial_queues' = [dial_queues EXCEPT ![a] = NoQueue],
             conn_to_dial' = [conn_to_dial EXCEPT ![c] = NoApp], UNCHANGED next_conn
      PROVE  FreshUnmapped' /\ OneAttemptPerSequence'
    <2>1. FreshUnmapped'
        BY <1>3 DEF FreshUnmapped, TypeOK
    <2>2. \A d \in ConnIds : conn_to_dial'[d] = IF d = c THEN NoApp ELSE conn_to_dial[d]
        BY <1>3 DEF TypeOK
    <2>3. \A b \in Apps : dial_queues'[b] = IF b = a THEN NoQueue ELSE dial_queues[b]
        BY <1>3 DEF TypeOK
    <2>4. \A b \in Apps : (dial_queues[b] # NoQueue <=> \E d \in ConnIds : conn_to_dial[d] = b)'
        BY <1>3, <2>2, <2>3 DEF OneAttemptPerSequence
    <2>5. \A d, e \in ConnIds :
             (conn_to_dial[d] # NoApp /\ conn_to_dial[d] = conn_to_dial[e] => d = e)'
        BY <2>2 DEF OneAttemptPerSequence
    <2> QED BY <2>1, <2>4, <2>5 DEF OneAttemptPerSequence
<1>4. CASE UNCHANGED <<dial_queues, conn_to_dial, next_conn>>
    BY <1>4 DEF FreshUnmapped, OneAttemptPerSequence
<1>5. ASSUME NEW c \in ConnIds, ConnectionEstablished(c)
      PROVE  FreshUnmapped' /\ OneAttemptPerSequence'
    BY <1>3, <1>4, <1>5 DEF ConnectionEstablished, SequenceConnects, TypeOK
<1>6. ASSUME NEW c \in ConnIds, NEW a \in Apps, conn_to_dial[c] = a, TryNextAddress(c, a)
      PROVE  FreshUnmapped' /\ OneAttemptPerSequence'
    <2>1. /\ next_conn \in ConnIds /\ next_conn' = next_conn + 1
          /\ conn_to_dial' = [[conn_to_dial EXCEPT ![c] = NoApp] EXCEPT ![next_conn] = a]
          /\ dial_queues' = [dial_queues EXCEPT ![a] = Tail(@)]
          /\ dial_queues[a] \in Seq(Addrs) /\ dial_queues[a] # <<>>
        BY <1>6 DEF TryNextAddress, dial_and_map, TypeOK
    <2>2. Tail(dial_queues[a]) # NoQueue
        BY <2>1, HeadTailProperties
    <2>3. conn_to_dial[next_conn] = NoApp /\ c # next_conn
        BY <1>6, <2>1 DEF FreshUnmapped, ConnIds
    <2>4. \A d \in ConnIds : conn_to_dial'[d] = IF d = next_conn THEN a
                                               ELSE IF d = c THEN NoApp ELSE conn_to_dial[d]
        BY <2>1 DEF TypeOK
    <2>5. FreshUnmapped'
        BY <2>1, <2>4 DEF FreshUnmapped, TypeOK, ConnIds
    <2>6. /\ dial_queues'[a] # NoQueue
          /\ \A b \in Apps : b # a => dial_queues'[b] = dial_queues[b]
        BY <2>1, <2>2 DEF TypeOK
    <2>7. \A b \in Apps : (dial_queues[b] # NoQueue <=> \E d \in ConnIds : conn_to_dial[d] = b)'
        <3> SUFFICES ASSUME NEW b \in Apps
                     PROVE  dial_queues'[b] # NoQueue <=> \E d \in ConnIds : conn_to_dial'[d] = b
            OBVIOUS
        <3>1. CASE b = a
            BY <2>1, <2>4, <2>6, <3>1
        <3>2. CASE b # a
            BY <1>6, <2>3, <2>4, <2>6, <3>2 DEF OneAttemptPerSequence
        <3> QED BY <3>1, <3>2
    <2>8. \A d, e \in ConnIds :
             (conn_to_dial[d] # NoApp /\ conn_to_dial[d] = conn_to_dial[e] => d = e)'
        BY <1>6, <2>4 DEF OneAttemptPerSequence
    <2> QED BY <2>5, <2>7, <2>8 DEF OneAttemptPerSequence
<1>7. ASSUME NEW c \in ConnIds, OutgoingConnectionError(c)
      PROVE  FreshUnmapped' /\ OneAttemptPerSequence'
    <2>1. CASE conn_to_dial[c] # NoApp
        BY <1>3, <1>6, <1>7, <2>1 DEF OutgoingConnectionError, GiveUp, TypeOK
    <2>2. CASE conn_to_dial[c] = NoApp
        BY <1>4, <1>7, <2>2 DEF OutgoingConnectionError
    <2> QED BY <2>1, <2>2
<1> QED BY <1>1, <1>2, <1>4, <1>5, <1>7 DEF Next, vars

LEMMA AttemptInvariant == Spec => []AttemptInv
<1>1. Init => FreshUnmapped /\ OneAttemptPerSequence
    BY DialingAssumption DEF Init, FreshUnmapped, OneAttemptPerSequence
<1>2. Init => TypeOK
    BY DialingAssumption, EmptySeq DEF Init, TypeOK, Outcomes
<1> QED BY <1>1, <1>2, AttemptStep, PTL DEF Spec, AttemptInv

\* DialManager has exactly one attempt for each dial sequence under way and none
\* for any other, whatever dials are denied.
THEOREM SequencesAndAttemptsMatch == Spec => []OneAttemptPerSequence
BY AttemptInvariant, PTL DEF AttemptInv

-----------------------------------------------------------------------------
(* Limits: which attempts have an event to come. *)

\* Fewer attempts than the limit allows are never denied: those under way are
\* some of the ConnectionIds.
LEMMA NotDenied ==
    ASSUME MaxPending > MaxConn, NEW ending
    PROVE  ~Denied(ending)
<1> DEFINE pending == {c \in ConnIds : dialing[c] # NoAddr} \ ending
<1>1. IsFiniteSet(ConnIds) /\ Cardinality(ConnIds) = MaxConn
    BY DialingAssumption, FS_Interval DEF ConnIds
<1>2. pending \in SUBSET ConnIds
    OBVIOUS
<1>3. IsFiniteSet(pending) /\ Cardinality(pending) <= MaxConn
    BY <1>1, <1>2, FS_Subset
<1>4. Cardinality(pending) \in Nat
    BY <1>3, FS_CardinalityType
<1> HIDE DEF pending
<1>5. ~(Cardinality(pending) >= MaxPending)
    BY <1>3, <1>4, DialingAssumption
<1> QED BY <1>5 DEF Denied, pending

\* A dial that is not denied puts the attempt under way, and takes only the
\* attempt that ends in this step off.
LEMMA DialUnderWay ==
    ASSUME TypeOK, MaxPending > MaxConn,
           NEW addr \in Addrs, NEW a, NEW map \in [ConnIds -> Apps \cup {NoApp}],
           NEW ending, dial_and_map(addr, a, map, ending)
    PROVE  \A c \in ConnIds :
              IF c = next_conn THEN dialing'[c] # NoAddr
              ELSE /\ conn_to_dial'[c] = map[c]
                   /\ c \notin ending => dialing'[c] = dialing[c]
BY NotDenied, DialingAssumption DEF dial_and_map

\* Every step keeps the mapped attempts under way.
LEMMA UnderWayStep == AttemptInv /\ AttemptsUnderWay /\ [Next]_vars => AttemptsUnderWay'
<1> SUFFICES ASSUME AttemptInv, AttemptsUnderWay, [Next]_vars, MaxPending > MaxConn,
                    NEW d \in ConnIds, conn_to_dial'[d] # NoApp
             PROVE  dialing'[d] # NoAddr
    BY DEF AttemptsUnderWay
<1> USE DialingAssumption DEF AttemptInv
<1>0. conn_to_dial[d] # NoApp => dialing[d] # NoAddr
    BY DEF AttemptsUnderWay
<1>1. ASSUME NEW a \in Apps, NEW r \in Requests, ConnectToPeer(a, r)
      PROVE  dialing'[d] # NoAddr
    <2>1. PICK queue \in SortQuicFirst(r) : dial_and_map(Head(queue), a, conn_to_dial, {})
        BY <1>1 DEF ConnectToPeer
    <2>2. Head(queue) \in Addrs
        BY <1>1, SortedNonEmpty DEF ConnectToPeer
    <2>3. conn_to_dial \in [ConnIds -> Apps \cup {NoApp}]
        BY DEF TypeOK
    <2> QED BY <1>0, <2>1, <2>2, <2>3, DialUnderWay
<1>2. ASSUME NEW addr \in Addrs, OtherDial(addr) PROVE dialing'[d] # NoAddr
    BY <1>0, <1>2 DEF OtherDial, TypeOK
<1>3. ASSUME NEW c \in ConnIds, NEW a \in Apps, TryNextAddress(c, a) PROVE dialing'[d] # NoAddr
    <2>1. dial_queues[a] \in Seq(Addrs) /\ dial_queues[a] # <<>>
        BY <1>3 DEF TryNextAddress, TypeOK
    <2>2. Head(dial_queues[a]) \in Addrs
        BY <2>1, HeadTailProperties
    <2> DEFINE map == [conn_to_dial EXCEPT ![c] = NoApp]
    <2>3. map \in [ConnIds -> Apps \cup {NoApp}] /\ map[c] = NoApp
          /\ \A e \in ConnIds : e # c => map[e] = conn_to_dial[e]
        BY DEF TypeOK
    <2>4. dial_and_map(Head(dial_queues[a]), a, map, {c})
        BY <1>3 DEF TryNextAddress
    <2> HIDE DEF map
    <2>5. IF d = next_conn THEN dialing'[d] # NoAddr
          ELSE conn_to_dial'[d] = map[d] /\ (d # c => dialing'[d] = dialing[d])
        BY <2>2, <2>3, <2>4, DialUnderWay
    <2> QED BY <1>0, <2>3, <2>5
<1>4. ASSUME NEW c \in ConnIds,
             conn_to_dial' = [conn_to_dial EXCEPT ![c] = NoApp],
             dialing' = [dialing EXCEPT ![c] = NoAddr]
      PROVE  dialing'[d] # NoAddr
    BY <1>0, <1>4 DEF TypeOK
<1>5. ASSUME NEW c \in ConnIds, conn_to_dial[c] = NoApp, UNCHANGED conn_to_dial,
             dialing' = [dialing EXCEPT ![c] = NoAddr]
      PROVE  dialing'[d] # NoAddr
    BY <1>0, <1>5 DEF TypeOK
<1>6. ASSUME NEW c \in ConnIds, ConnectionEstablished(c) PROVE dialing'[d] # NoAddr
    BY <1>4, <1>5, <1>6 DEF ConnectionEstablished, SequenceConnects
<1>7. ASSUME NEW c \in ConnIds, OutgoingConnectionError(c) PROVE dialing'[d] # NoAddr
    <2>1. CASE conn_to_dial[c] # NoApp
        BY <1>3, <1>4, <1>7, <2>1 DEF OutgoingConnectionError, GiveUp, TypeOK
    <2>2. CASE conn_to_dial[c] = NoApp
        BY <1>5, <1>7, <2>2 DEF OutgoingConnectionError
    <2> QED BY <2>1, <2>2
<1>8. CASE UNCHANGED vars
    BY <1>0, <1>8 DEF vars
<1> QED BY <1>1, <1>2, <1>6, <1>7, <1>8 DEF Next

\* While the limits deny no dial, the swarm has an event to come for every attempt
\* that DialManager waits for: no sequence hangs on a dial that never started.
THEOREM NoOrphanedAttempt == Spec => []AttemptsUnderWay
<1>1. Init => AttemptsUnderWay
    BY DEF Init, AttemptsUnderWay
<1> QED BY <1>1, UnderWayStep, AttemptInvariant, PTL DEF Spec

-----------------------------------------------------------------------------
(* Progress: why a sequence whose attempts are all under way must end. *)

\* The sequence of a ends, or has one address less to dial.
Shortened(a) ==
    \/ dial_queues'[a] = NoQueue
    \/ Len(dial_queues'[a]) < Len(dial_queues[a])

\* An event of its attempt shortens a sequence, and nothing else touches it: no
\* second ConnectToPeer restarts it, no event of another attempt is taken for its own.
EventsShorten ==
    [][\A a \in Apps : dial_queues[a] # NoQueue =>
          IF \E c \in ConnIds : /\ conn_to_dial[c] = a
                                /\ ConnectionEstablished(c) \/ OutgoingConnectionError(c)
          THEN Shortened(a)
          ELSE dial_queues'[a] = dial_queues[a]]_vars

\* The event of attempt c shortens the sequence it belongs to.
LEMMA OwnEventShortens ==
    ASSUME TypeOK, NEW a \in Apps, dial_queues[a] # NoQueue,
           NEW c \in ConnIds, conn_to_dial[c] = a,
           ConnectionEstablished(c) \/ OutgoingConnectionError(c)
    PROVE  Shortened(a)
<1> USE DialingAssumption
<1>1. a # NoApp /\ dial_queues[a] \in Seq(Addrs)
    BY DEF TypeOK
<1>2. CASE dial_queues' = [dial_queues EXCEPT ![a] = NoQueue]
    BY <1>2 DEF Shortened, TypeOK
<1>3. CASE TryNextAddress(c, a)
    <2>1. dial_queues'[a] = Tail(dial_queues[a]) /\ dial_queues[a] # <<>>
        BY <1>3 DEF TryNextAddress, TypeOK
    <2>2. Len(Tail(dial_queues[a])) = Len(dial_queues[a]) - 1 /\ Len(dial_queues[a]) \in Nat
        BY <1>1, <2>1, HeadTailProperties, LenProperties
    <2> QED BY <2>1, <2>2 DEF Shortened
<1> QED BY <1>1, <1>2, <1>3
        DEF ConnectionEstablished, SequenceConnects, OutgoingConnectionError, GiveUp

\* A step that is no event of its attempt leaves a sequence alone.
LEMMA OtherStepsKeep ==
    ASSUME TypeOK, Next, NEW a \in Apps, dial_queues[a] # NoQueue,
           ~\E c \in ConnIds : /\ conn_to_dial[c] = a
                               /\ ConnectionEstablished(c) \/ OutgoingConnectionError(c)
    PROVE  dial_queues'[a] = dial_queues[a]
<1> USE DialingAssumption
<1>1. ASSUME NEW b \in Apps, NEW r \in Requests, ConnectToPeer(b, r)
      PROVE  dial_queues'[a] = dial_queues[a]
    BY <1>1 DEF ConnectToPeer, has_no_queue, TypeOK
<1>2. ASSUME NEW addr \in Addrs, OtherDial(addr) PROVE dial_queues'[a] = dial_queues[a]
    BY <1>2 DEF OtherDial
<1>3. ASSUME NEW c \in ConnIds, ConnectionEstablished(c)
      PROVE  dial_queues'[a] = dial_queues[a]
    <2>1. conn_to_dial[c] # a
        BY <1>3
    <2> QED BY <1>3, <2>1 DEF ConnectionEstablished, SequenceConnects, TypeOK
<1>4. ASSUME NEW c \in ConnIds, OutgoingConnectionError(c)
      PROVE  dial_queues'[a] = dial_queues[a]
    <2>1. conn_to_dial[c] # a
        BY <1>4
    <2> QED BY <1>4, <2>1 DEF OutgoingConnectionError, TryNextAddress, GiveUp, TypeOK
<1> QED BY <1>1, <1>2, <1>3, <1>4 DEF Next

\* The length of its queue measures the progress of a dial sequence.  With
\* NoOrphanedAttempt, which gives every sequence an event to come, this is why
\* fallback ends; that the event does come is the fairness of the swarm.
THEOREM FallbackProgresses == Spec => EventsShorten
<1>1. TypeOK /\ [Next]_vars =>
        [\A a \in Apps : dial_queues[a] # NoQueue =>
            IF \E c \in ConnIds : /\ conn_to_dial[c] = a
                                  /\ ConnectionEstablished(c) \/ OutgoingConnectionError(c)
            THEN Shortened(a)
            ELSE dial_queues'[a] = dial_queues[a]]_vars
    BY OwnEventShortens, OtherStepsKeep
<1> QED BY <1>1, TypeCorrect, PTL DEF Spec, EventsShorten

-----------------------------------------------------------------------------
(* Denied dials. *)

\* DialManager waits for attempt c of the sequence of a, with the addresses in q
\* left, but the swarm has no such attempt.
Stranded(c, a, q) ==
    /\ conn_to_dial[c] = a
    /\ dialing[c] = NoAddr
    /\ dial_queues[a] = q

\* No event of any attempt reaches a stranded sequence, and no command restarts it.
LEMMA StrandedStep ==
    ASSUME NEW c \in ConnIds, NEW a \in Apps, NEW q \in Seq(Addrs)
    PROVE  AttemptInv /\ Stranded(c, a, q) /\ [Next]_vars => Stranded(c, a, q)'
<1> SUFFICES ASSUME AttemptInv, Stranded(c, a, q), [Next]_vars PROVE Stranded(c, a, q)'
    OBVIOUS
<1> USE DialingAssumption DEF AttemptInv
<1>0. c # next_conn /\ dial_queues[a] # NoQueue
    BY DEF Stranded, FreshUnmapped, TypeOK, ConnIds
<1>1. ASSUME NEW addr, NEW b, NEW map, NEW ending, dial_and_map(addr, b, map, ending),
             map[c] = a, map \in [ConnIds -> Apps \cup {NoApp}]
      PROVE  conn_to_dial'[c] = a /\ dialing'[c] = NoAddr
    BY <1>0, <1>1 DEF dial_and_map, Stranded
<1>2. ASSUME NEW b \in Apps, NEW r \in Requests, ConnectToPeer(b, r) PROVE Stranded(c, a, q)'
    <2>1. b # a
        BY <1>0, <1>2 DEF ConnectToPeer, has_no_queue
    <2>2. conn_to_dial \in [ConnIds -> Apps \cup {NoApp}]
        BY DEF TypeOK
    <2>3. conn_to_dial'[c] = a /\ dialing'[c] = NoAddr
        BY <1>1, <1>2, <2>2 DEF ConnectToPeer, Stranded
    <2>4. dial_queues'[a] = dial_queues[a]
        BY <1>2, <2>1 DEF ConnectToPeer, TypeOK
    <2> QED BY <2>3, <2>4 DEF Stranded
<1>3. ASSUME NEW addr \in Addrs, OtherDial(addr) PROVE Stranded(c, a, q)'
    BY <1>0, <1>3 DEF OtherDial, Stranded, TypeOK
<1>4. ASSUME NEW d \in ConnIds, dialing[d] # NoAddr PROVE d # c /\ conn_to_dial[d] # a
    BY <1>4 DEF Stranded, OneAttemptPerSequence
<1>5. ASSUME NEW d \in ConnIds, d # c, NEW b \in Apps, b # a, TryNextAddress(d, b)
      PROVE  Stranded(c, a, q)'
    <2> DEFINE map == [conn_to_dial EXCEPT ![d] = NoApp]
    <2>1. map[c] = a /\ map \in [ConnIds -> Apps \cup {NoApp}]
        BY <1>5 DEF Stranded, TypeOK
    <2>2. conn_to_dial'[c] = a /\ dialing'[c] = NoAddr
        BY <1>1, <1>5, <2>1 DEF TryNextAddress
    <2>3. dial_queues'[a] = dial_queues[a]
        BY <1>5 DEF TryNextAddress, TypeOK
    <2> QED BY <2>2, <2>3 DEF Stranded
<1>6. ASSUME NEW d \in ConnIds, d # c, NEW b \in Apps, b # a,
             dial_queues' = [dial_queues EXCEPT ![b] = NoQueue],
             conn_to_dial' = [conn_to_dial EXCEPT ![d] = NoApp],
             dialing' = [dialing EXCEPT ![d] = NoAddr]
      PROVE  Stranded(c, a, q)'
    BY <1>6 DEF Stranded, TypeOK
<1>7. ASSUME NEW d \in ConnIds, d # c, UNCHANGED <<dial_queues, conn_to_dial>>,
             dialing' = [dialing EXCEPT ![d] = NoAddr]
      PROVE  Stranded(c, a, q)'
    BY <1>7 DEF Stranded, TypeOK
<1>8. ASSUME NEW d \in ConnIds, ConnectionEstablished(d) PROVE Stranded(c, a, q)'
    BY <1>4, <1>6, <1>7, <1>8 DEF ConnectionEstablished, SequenceConnects, TypeOK
<1>9. ASSUME NEW d \in ConnIds, OutgoingConnectionError(d) PROVE Stranded(c, a, q)'
    <2>1. CASE conn_to_dial[d] # NoApp
        BY <1>4, <1>5, <1>6, <1>9, <2>1 DEF OutgoingConnectionError, GiveUp, TypeOK
    <2>2. CASE conn_to_dial[d] = NoApp
        BY <1>4, <1>7, <1>9, <2>2 DEF OutgoingConnectionError
    <2> QED BY <2>1, <2>2
<1>10. CASE UNCHANGED vars
    BY <1>10 DEF vars, Stranded
<1> QED BY <1>2, <1>3, <1>8, <1>9, <1>10 DEF Next

\* A sequence whose dial was denied stays as it is for ever: the addresses it has
\* left are never dialed, and since its queue is never removed, every later
\* ConnectToPeer for the key is dropped.
THEOREM DeniedDialStrands ==
    ASSUME NEW c \in ConnIds, NEW a \in Apps, NEW q \in Seq(Addrs)
    PROVE  Spec => [](Stranded(c, a, q) => []Stranded(c, a, q))
<1>1. AttemptInv /\ Stranded(c, a, q) /\ [Next]_vars => Stranded(c, a, q)'
    BY StrandedStep
<1> QED BY <1>1, AttemptInvariant, PTL DEF Spec

-----------------------------------------------------------------------------
(* Order: which addresses a sequence dials. *)

\* A sequence under way is recorded as such, and its list has QUIC first.
SequenceRecorded ==
    \A a \in Apps : dial_queues[a] # NoQueue => outcome[a] = "dialing" /\ QuicFirst(wanted[a])

OrderInv ==
    AttemptInv /\ SequenceRecorded /\ NothingSkipped /\ GivenUpOnlyWhenExhausted /\ QuicDialedFirst

\* Every step keeps the order of the addresses.
LEMMA OrderStep == OrderInv /\ [Next]_vars => OrderInv'
<1> DEFINE P(a) == /\ dial_queues[a] # NoQueue =>
                        /\ outcome[a] = "dialing"
                        /\ QuicFirst(wanted[a])
                        /\ tried[a] \o dial_queues[a] = wanted[a]
                   /\ outcome[a] = "exhausted" => tried[a] = wanted[a]
                   /\ QuicFirst(tried[a])
<1>0. SequenceRecorded /\ NothingSkipped /\ GivenUpOnlyWhenExhausted /\ QuicDialedFirst
      <=> \A a \in Apps : P(a)
    BY DEF SequenceRecorded, NothingSkipped, GivenUpOnlyWhenExhausted, QuicDialedFirst
<1> SUFFICES ASSUME AttemptInv, \A a \in Apps : P(a), [Next]_vars PROVE \A a \in Apps : P(a)'
    BY <1>0, AttemptStep DEF OrderInv, SequenceRecorded, NothingSkipped, GivenUpOnlyWhenExhausted,
                             QuicDialedFirst
<1> USE DialingAssumption DEF AttemptInv
<1>1. ASSUME NEW a \in Apps, NEW r \in Requests, ConnectToPeer(a, r)
      PROVE  \A b \in Apps : P(b)'
    <2>5. PICK queue \in SortQuicFirst(r) :
          /\ dial_queues' = [dial_queues EXCEPT ![a] = Tail(queue)]
          /\ wanted' = [wanted EXCEPT ![a] = queue]
          /\ tried' = [tried EXCEPT ![a] = <<Head(queue)>>]
          /\ outcome' = [outcome EXCEPT ![a] = "dialing"]
        BY <1>1 DEF ConnectToPeer
    <2>1. /\ queue \in Seq(Addrs) /\ queue # <<>> /\ Head(queue) \in Addrs
          /\ Tail(queue) \in Seq(Addrs) /\ QuicFirst(queue)
        BY <1>1, SortedNonEmpty DEF ConnectToPeer
    <2>2. <<Head(queue)>> \o Tail(queue) = queue
        <3>1. <<>> \in Seq(Addrs) /\ Append(<<>>, Head(queue)) = <<Head(queue)>>
            BY EmptySeq
        <3>2. <<>> \o queue = queue
            BY <2>1, ConcatEmptySeq
        <3>3. Append(<<>>, Head(queue)) \o Tail(queue) = <<>> \o queue
            BY <2>1, <3>1, MoveHead
        <3> QED BY <3>1, <3>2, <3>3
    <2>3. <<Head(queue)>> \in Seq(Addrs)
        BY <2>1
    <2>4. QuicFirst(<<Head(queue)>>)
        BY <2>1, <2>2, <2>3, PrefixQuicFirst
    <2>6. P(a)'
        BY <2>1, <2>2, <2>4, <2>5 DEF TypeOK
    <2>7. ASSUME NEW b \in Apps, b # a PROVE P(b)'
        BY <2>5, <2>7 DEF TypeOK
    <2> QED BY <2>6, <2>7
<1>2. CASE UNCHANGED <<dial_queues, wanted, tried, outcome>>
    BY <1>2
<1>3. ASSUME NEW addr \in Addrs, OtherDial(addr) PROVE \A b \in Apps : P(b)'
    BY <1>2, <1>3 DEF OtherDial
<1>4. ASSUME NEW c \in ConnIds, ConnectionEstablished(c) PROVE \A b \in Apps : P(b)'
    <2>1. CASE conn_to_dial[c] = NoApp
        BY <1>2, <1>4, <2>1 DEF ConnectionEstablished
    <2>2. CASE conn_to_dial[c] # NoApp
        <3> DEFINE a == conn_to_dial[c]
        <3>1. /\ a \in Apps
              /\ dial_queues' = [dial_queues EXCEPT ![a] = NoQueue]
              /\ outcome' = [outcome EXCEPT ![a] = "connected"]
              /\ UNCHANGED <<wanted, tried>>
            BY <1>4, <2>2 DEF ConnectionEstablished, SequenceConnects, TypeOK
        <3> QED BY <3>1 DEF TypeOK
    <2> QED BY <2>1, <2>2
<1>5. ASSUME NEW c \in ConnIds, NEW a \in Apps, TryNextAddress(c, a) PROVE \A b \in Apps : P(b)'
    <2> DEFINE q == dial_queues[a]
    <2>1. q \in Seq(Addrs) /\ q # <<>> /\ q # NoQueue /\ tried[a] \in Seq(Addrs)
        BY <1>5 DEF TryNextAddress, TypeOK
    <2>2. /\ dial_queues' = [dial_queues EXCEPT ![a] = Tail(q)]
          /\ tried' = [tried EXCEPT ![a] = Append(tried[a], Head(q))]
          /\ UNCHANGED <<wanted, outcome>>
        BY <1>5 DEF TryNextAddress
    <2>3. Append(tried[a], Head(q)) \o Tail(q) = wanted[a]
        BY <2>1, MoveHead
    <2>4. Append(tried[a], Head(q)) \in Seq(Addrs) /\ Tail(q) \in Seq(Addrs)
        BY <2>1, HeadTailProperties, AppendProperties
    <2>5. QuicFirst(Append(tried[a], Head(q)))
        BY <2>1, <2>3, <2>4, PrefixQuicFirst
    <2>6. P(a)'
        BY <2>1, <2>2, <2>3, <2>5 DEF TypeOK
    <2>7. ASSUME NEW b \in Apps, b # a PROVE P(b)'
        BY <2>2, <2>7 DEF TypeOK
    <2> QED BY <2>6, <2>7
<1>6. ASSUME NEW c \in ConnIds, NEW a \in Apps, conn_to_dial[c] = a, GiveUp(c, a)
      PROVE  \A b \in Apps : P(b)'
    <2>1. dial_queues[a] = <<>> /\ <<>> # NoQueue
        BY <1>6, EmptySeq DEF GiveUp, OneAttemptPerSequence
    <2>2. tried[a] = wanted[a]
        BY <2>1, ConcatEmptySeq DEF TypeOK
    <2>3. /\ dial_queues' = [dial_queues EXCEPT ![a] = NoQueue]
          /\ outcome' = [outcome EXCEPT ![a] = "exhausted"]
          /\ UNCHANGED <<wanted, tried>>
        BY <1>6 DEF GiveUp
    <2> QED BY <2>2, <2>3 DEF TypeOK
<1>7. ASSUME NEW c \in ConnIds, OutgoingConnectionError(c) PROVE \A b \in Apps : P(b)'
    <2>1. CASE conn_to_dial[c] # NoApp
        BY <1>5, <1>6, <1>7, <2>1 DEF OutgoingConnectionError, TypeOK
    <2>2. CASE conn_to_dial[c] = NoApp
        BY <1>2, <1>7, <2>2 DEF OutgoingConnectionError
    <2> QED BY <2>1, <2>2
<1> QED BY <1>1, <1>2, <1>3, <1>4, <1>7 DEF Next, vars

LEMMA OrderInvariant == Spec => []OrderInv
<1>1. Init => SequenceRecorded /\ NothingSkipped /\ GivenUpOnlyWhenExhausted /\ QuicDialedFirst
    BY EmptySeq DEF Init, SequenceRecorded, NothingSkipped, GivenUpOnlyWhenExhausted,
                    QuicDialedFirst, QuicFirst
<1>2. Init => AttemptInv
    BY DialingAssumption, EmptySeq
    DEF Init, AttemptInv, TypeOK, Outcomes, FreshUnmapped, OneAttemptPerSequence
<1> QED BY <1>1, <1>2, OrderStep, PTL DEF Spec, OrderInv

\* A dial sequence dials the addresses of its command in sorted order, without
\* skipping or repeating one.
THEOREM FallbackComplete == Spec => []NothingSkipped
BY OrderInvariant, PTL DEF OrderInv

\* A dial sequence is given up only after all its addresses were dialed.
THEOREM GivesUpOnlyAtTheEnd == Spec => []GivenUpOnlyWhenExhausted
BY OrderInvariant, PTL DEF OrderInv

\* QUIC addresses are dialed first, also across fallbacks.
THEOREM QuicPreferred == Spec => []QuicDialedFirst
BY OrderInvariant, PTL DEF OrderInv
=============================================================================
