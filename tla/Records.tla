------------------------------- MODULE Records -------------------------------
(***************************************************************************)
(* The DHT records of other nodes, seen by one listening node: those it    *)
(* stores for them (InboundRequest::PutRecord; record_filtering is         *)
(* FilterBoth, so nothing is stored unless the handler does it) and the    *)
(* lookups of Command::FindMultiaddr, which collect records in             *)
(* kademlia_map_received_records until their query ends.                   *)
(*                                                                         *)
(* Kademlia itself is external: it delivers whatever record some node      *)
(* sends, also in answer to a query for another key, a query ends with     *)
(* exactly one final event, and the MemoryStore may refuse a record or     *)
(* drop an expired one.  The multiaddresses of a record are left out.      *)
(***************************************************************************)
EXTENDS Envelope, Sequences, FiniteSetsExt

CONSTANTS
    Keys,            \* keys of records: application keys (byos) or transport ids
    Queries,         \* bound: the query ids used
    Dates,           \* dates that records carry
    EnvelopeMaxAge,  \* envelope_max_age, in milliseconds
    MaxClockSkew,    \* max_clock_skew, in milliseconds
    MaxTime,         \* bound: the clock stops here
    MaxFound,        \* bound: the records kept for a query
    None

\* A record under a key, with data signed for a public key and a date; valid if
\* the data decode and the signature is that of the public key.
Records == [key : Keys, public_key : Keys, date : Dates, valid : BOOLEAN]

ASSUME RecordsAssumption ==
    /\ Dates \subseteq 0 .. U64 - 1
    /\ EnvelopeMaxAge \in Nat
    /\ MaxClockSkew \in Nat
    /\ MaxTime \in Nat
    /\ MaxTime + AsSecs(MaxClockSkew) < U64 - 1
    /\ None \notin Keys
    /\ None \notin Records
    /\ None \notin Seq(Records)

VARIABLES
    now,
    store,   \* MemoryStore: the record of each key
    kademlia_map_received_records,  \* the records kept for each query
    asked,   \* swarm: the key of each query so far
    live,    \* swarm: the queries that have not ended
    answer,  \* history: the answers sent for each query
    best,    \* history: the best record reported to each query
    newest   \* history: the latest date stored under each key; 0 before the first

vars == <<now, store, kademlia_map_received_records, asked, live, answer, best, newest>>
lookups == <<kademlia_map_received_records, asked, live, answer, best>>

validate_record_date(date) == RecordDateOk(now, date, EnvelopeMaxAge, MaxClockSkew)

-----------------------------------------------------------------------------
(* Storing records for others. *)

\* The checks of handle_kademlia_event that look at the record alone.
AcceptableUnderAnyKey(r) == r.valid /\ validate_record_date(r.date)

Acceptable(r) ==
    /\ r.valid
    /\ validate_record_date(r.date)
    /\ r.public_key = r.key

\* The check for replays.
NewerThanStoredUnchecked(r) == TRUE

NewerThanStored(r) == store[r.key] # None => r.date > store[r.key].date

\* handle_kademlia_event, InboundRequest::PutRecord.
InboundPutRecord(r) ==
    /\ Acceptable(r)
    /\ NewerThanStored(r)
    /\ store' = [store EXCEPT ![r.key] = r]
    /\ newest' = [newest EXCEPT ![r.key] = IF r.date > @ THEN r.date ELSE @]
    /\ UNCHANGED <<now, lookups>>

\* External: kademlia drops a record that has expired.  When is up to the record's
\* publisher and to the distance of the key.
Expire(k) ==
    /\ store[k] # None
    /\ store' = [store EXCEPT ![k] = None]
    /\ UNCHANGED <<now, newest, lookups>>

-----------------------------------------------------------------------------
(* Lookups. *)

\* Command::FindMultiaddr: ask_kademlia_get_record.
FindMultiaddrUnnoted(q, k) ==
    /\ asked[q] = None
    /\ asked' = [asked EXCEPT ![q] = k]
    /\ live' = live \cup {q}
    /\ UNCHANGED <<now, store, newest, kademlia_map_received_records, answer, best>>

FindMultiaddr(q, k) ==
    /\ asked[q] = None
    /\ asked' = [asked EXCEPT ![q] = k]
    /\ live' = live \cup {q}
    /\ kademlia_map_received_records' = [kademlia_map_received_records EXCEPT ![q] = <<>>]
    /\ UNCHANGED <<now, store, newest, answer, best>>

\* handle_kademlia_event, GetRecord(Ok(FoundRecord)).
KeepRecord(q, r) ==
    kademlia_map_received_records' =
        IF Acceptable(r) THEN [kademlia_map_received_records EXCEPT ![q] = Append(@, r)]
        ELSE kademlia_map_received_records

\* What makes a reported record good: its owner signed it, and it is neither too
\* old nor from the future.
Good(r) ==
    /\ r.valid
    /\ r.public_key = r.key
    /\ r.date >= now - AsSecs(EnvelopeMaxAge)
    /\ r.date <= now + AsSecs(MaxClockSkew)

\* The peers asked send the record, under whatever key: the handler does not
\* compare it with the key of the query.
FoundRecord(q, r) ==
    /\ q \in live
    /\ kademlia_map_received_records[q] # None
    /\ Len(kademlia_map_received_records[q]) < MaxFound
    /\ KeepRecord(q, r)
    /\ best' = IF Good(r) /\ (best[q] = None \/ r.date >= best[q].date)
               THEN [best EXCEPT ![q] = r] ELSE best
    /\ UNCHANGED <<now, store, newest, asked, live, answer>>

\* records.iter().max_by(date), which returns the last of several maxima.
OldestRecord(records) ==
    IF records = <<>> THEN None
    ELSE records[Max({i \in DOMAIN records :
                        \A j \in DOMAIN records : records[i].date <= records[j].date})]

LatestRecord(records) ==
    IF records = <<>> THEN None
    ELSE records[Max({i \in DOMAIN records :
                        \A j \in DOMAIN records : records[j].date <= records[i].date})]

finish_looking_keeping_entry(q) ==
    /\ answer' = [answer EXCEPT ![q] = Append(@, LatestRecord(kademlia_map_received_records[q]))]
    /\ UNCHANGED kademlia_map_received_records

finish_looking_for_dht_record(q) ==
    IF kademlia_map_received_records[q] # None
    THEN /\ answer' = [answer EXCEPT ![q] = Append(@, LatestRecord(kademlia_map_received_records[q]))]
         /\ kademlia_map_received_records' = [kademlia_map_received_records EXCEPT ![q] = None]
    ELSE UNCHANGED <<answer, kademlia_map_received_records>>

\* handle_kademlia_event, GetRecord: FinishedWithNoAdditionalRecord, Timeout, NotFound.
GetRecordEnds(q) ==
    /\ q \in live
    /\ live' = live \ {q}
    /\ finish_looking_for_dht_record(q)
    /\ UNCHANGED <<now, store, newest, asked, best>>

-----------------------------------------------------------------------------
Init ==
    /\ now = 0
    /\ store = [k \in Keys |-> None]
    /\ kademlia_map_received_records = [q \in Queries |-> None]
    /\ asked = [q \in Queries |-> None]
    /\ live = {}
    /\ answer = [q \in Queries |-> <<>>]
    /\ best = [q \in Queries |-> None]
    /\ newest = [k \in Keys |-> 0]

Tick ==
    /\ now < MaxTime
    /\ now' = now + 1
    /\ UNCHANGED <<store, newest, lookups>>

Next ==
    \/ Tick
    \/ \E r \in Records : InboundPutRecord(r)
    \/ \E k \in Keys : Expire(k)
    \/ \E q \in Queries :
          \/ \E k \in Keys : FindMultiaddr(q, k)
          \/ \E r \in Records : FoundRecord(q, r)
          \/ GetRecordEnds(q)

Spec == Init /\ [][Next]_vars

\* Every query ends: kademlia gives it a timeout.
FairSpec == Spec /\ \A q \in Queries : WF_vars(GetRecordEnds(q))

-----------------------------------------------------------------------------
(* Properties. *)

\* Type invariant: stores hold records, answers are records or None.
TypeOK ==
    /\ now \in 0 .. MaxTime
    /\ store \in [Keys -> Records \cup {None}]
    /\ kademlia_map_received_records \in [Queries -> Seq(Records) \cup {None}]
    /\ asked \in [Queries -> Keys \cup {None}]
    /\ live \subseteq Queries
    /\ answer \in [Queries -> Seq(Records \cup {None})]
    /\ best \in [Queries -> Records \cup {None}]
    /\ newest \in [Keys -> Nat]

\* What the node stores under a key was signed by the owner of the key, and is
\* not dated so far ahead that the owner could not replace it: a newer record of
\* an owner whose clock is right is accepted max_clock_skew later at the latest.
StoreAuthentic ==
    \A k \in Keys : store[k] # None =>
        /\ store[k].valid
        /\ store[k].public_key = k
        /\ store[k].date <= now + AsSecs(MaxClockSkew)

\* A stored record is replaced only by a newer one.  Once kademlia has dropped it
\* the node compares with nothing, but the date window still limits what a replay
\* can bring back: a record that is older than the newest the node ever stored
\* under the key by envelope_max_age and max_clock_skew at most.
ReplaysBounded ==
    [][\A k \in Keys :
          store'[k] # None /\ store'[k] # store[k] =>
              /\ store[k] # None => store'[k].date > store[k].date
              /\ store'[k].date >= newest[k] - (AsSecs(EnvelopeMaxAge) + AsSecs(MaxClockSkew))]_vars

\* Every lookup is answered once and leaves nothing behind: a query is in
\* kademlia_map_received_records exactly while it is under way, and there is one
\* ResultFindMultiaddress for each query that has ended.
OneAnswerPerLookup ==
    \A q \in Queries :
        /\ kademlia_map_received_records[q] # None <=> q \in live
        /\ Len(answer[q]) = IF asked[q] # None /\ q \notin live THEN 1 ELSE 0

\* "Most suitable in this context means with latest timestamp": the answer is the
\* latest of all records reported to the query that their owners signed and that
\* were within the date window when they came, the last one reported if several
\* have that date; None only if there was none.
AnswerIsLatest ==
    \A q \in Queries : \A i \in DOMAIN answer[q] : answer[q][i] = best[q]

\* Every FindMultiaddr command is answered.
EveryLookupAnswered ==
    \A q \in Queries : asked[q] # None ~> answer[q] # <<>>

-----------------------------------------------------------------------------
(* A statement of the documentation that the code does not meet. *)

\* FindMultiaddress is "to find peer's multiaddresses by application public key":
\* a record that answers a lookup is one of the key asked for.
AnswerOfKeyAsked ==
    \A q \in Queries : \A i \in DOMAIN answer[q] :
        answer[q][i] # None => answer[q][i].public_key = asked[q]
=============================================================================
