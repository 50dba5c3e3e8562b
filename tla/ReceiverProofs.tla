----------------------------- MODULE ReceiverProofs -----------------------------
(***************************************************************************)
(* Proofs about Receiver: its types, and what its summaries count, for any *)
(* number of clients, and for clocks, delays and losses within the windows *)
(* that the three TimeBuckets are given.                                   *)
(***************************************************************************)
EXTENDS Receiver, FiniteSetTheorems, SequenceTheorems, TLAPS

Fields == {"bucket", "last_timestamp", "last_interval"}

\* The interval a record is kept for.
KeptFor(t) == Interval * (IF t = "process" THEN 5 ELSE 2)

\* A bucket of records that their client has sent.
BucketOK(tb, t) ==
  /\ DOMAIN tb = Fields
  /\ DOMAIN tb.bucket \subseteq Client
  /\ tb.last_timestamp \in Nat
  /\ tb.last_interval \in {0, KeptFor(t)}
  /\ \A c \in DOMAIN tb.bucket :
       /\ tb.bucket[c].timestamp \in Nat
       /\ tb.bucket[c].interval = KeptFor(t)

\* A message carries the whole seconds of its sender's clock, and is no later than the
\* last that was sent.
MessageOK(m) ==
  /\ m.client \in Client /\ m.type \in Sent
  /\ m.sent \in Nat /\ m.sent >= Start /\ m.sent <= lastSent[m.client]
  /\ m.time = 2 * Seconds(m.sent + Skew[m.client])

SentInv ==
  /\ now \in Nat /\ now >= Start
  /\ alive \subseteq Client
  /\ lastSent \in [Client -> Nat] /\ \A c \in Client : lastSent[c] <= now
  /\ \A m \in network \cup inHand : MessageOK(m)
  /\ inHand = {} \/ \E m \in inHand : inHand = {m}
  /\ lost \in [Client -> [Sent -> 0..MaxLost]]

StoredInv ==
  /\ DOMAIN buckets = Types
  /\ \A t \in Types : BucketOK(buckets[t], t)
  /\ \A t \in Types : \A c \in DOMAIN buckets[t].bucket :
       buckets[t].bucket[c].timestamp <= lastSent[c] + Skew[c]

SummaryInv ==
  /\ rpc \in 0..Len(Reads)
  /\ timestamp \in Nat
  /\ published \in [Types -> SUBSET Client]
  /\ heard \subseteq Client \X Types
  /\ refused \subseteq {"message", "process", "summary"}

ReceiverInv == SentInv /\ StoredInv /\ SummaryInv

-----------------------------------------------------------------------------
(* The operators of TimeBucket. *)

LEMMA WindowOf ==
  ASSUME NEW t
  PROVE  /\ KeptFor(t) \in Nat \ {0} /\ Accept(KeptFor(t)) \in Nat
         /\ Accept(KeptFor(t)) = IF t = "process" THEN 12 ELSE 4
BY DEF KeptFor, Accept, Interval

\* A reading, or a storing before its item is set: what is stale at its time is gone.
Accessed(tb, new, time, interval) ==
  /\ DOMAIN new = Fields
  /\ DOMAIN new.bucket = Fresh(tb, time)
  /\ \A c \in Fresh(tb, time) : new.bucket[c] = tb.bucket[c]
  /\ new.last_timestamp = time
  /\ new.last_interval = LastInterval(tb, interval)

Stored(tb, new, time, interval, key) ==
  /\ DOMAIN new = Fields
  /\ DOMAIN new.bucket = Fresh(tb, time) \cup {key}
  /\ new.bucket[key].timestamp = time /\ new.bucket[key].interval = interval
  /\ \A c \in Fresh(tb, time) \ {key} : new.bucket[c] = tb.bucket[c]
  /\ new.last_timestamp = time
  /\ new.last_interval = LastInterval(tb, interval)

Kept(tb, new, interval) ==
  /\ DOMAIN new = Fields
  /\ new.bucket = tb.bucket /\ new.last_timestamp = tb.last_timestamp
  /\ new.last_interval = LastInterval(tb, interval)

LEMMA AccessIs ==
  ASSUME NEW tb, NEW time, NEW interval
  PROVE  Accessed(tb, Access(tb, time, interval), time, interval)
BY DEF Accessed, Access, Fields

LEMMA SetItemIs ==
  ASSUME NEW tb, NEW time, NEW interval, NEW key, NEW value
  PROVE  Stored(tb, SetItem(Access(tb, time, interval), time, interval, key, value), time, interval, key)
<1> DEFINE access == Access(tb, time, interval)
           item == [timestamp |-> time, interval |-> interval, value |-> value]
           bucket == [k \in DOMAIN access.bucket \cup {key} |->
                        IF k = key THEN item ELSE access.bucket[k]]
<1>1. Accessed(tb, access, time, interval)
  BY AccessIs
<1>2. SetItem(access, time, interval, key, value) = [access EXCEPT !.bucket = bucket]
  BY DEF SetItem
<1>3. item.timestamp = time /\ item.interval = interval
  OBVIOUS
<1> HIDE DEF access, item
<1>4. /\ DOMAIN bucket = Fresh(tb, time) \cup {key} /\ bucket[key] = item
      /\ \A c \in Fresh(tb, time) \ {key} : bucket[c] = tb.bucket[c]
  BY <1>1 DEF Accessed
<1> HIDE DEF bucket
<1>5. Stored(tb, [access EXCEPT !.bucket = bucket], time, interval, key)
  BY <1>1, <1>3, <1>4 DEF Accessed, Stored, Fields
<1> QED BY <1>2, <1>5 DEF access

LEMMA RefusedIs ==
  ASSUME NEW tb, DOMAIN tb = Fields, NEW interval
  PROVE  Kept(tb, RefusedAccess(tb, interval), interval)
BY DEF Kept, RefusedAccess, Fields

\* Each of the three keeps a bucket's type.
LEMMA AccessedOK ==
  ASSUME NEW t, NEW tb, NEW new, BucketOK(tb, t), NEW time \in Nat, Accessed(tb, new, time, NoInterval)
  PROVE  BucketOK(new, t)
BY DEF BucketOK, Accessed, Fresh, LastInterval

LEMMA StoredOK ==
  ASSUME NEW t, NEW tb, NEW new, BucketOK(tb, t), NEW time \in Nat, NEW key \in Client,
         Stored(tb, new, time, KeptFor(t), key)
  PROVE  BucketOK(new, t)
<1>1. LastInterval(tb, KeptFor(t)) = KeptFor(t)
  BY WindowOf DEF LastInterval, NoInterval
<1> QED BY <1>1 DEF BucketOK, Stored, Fresh

LEMMA KeptOK ==
  ASSUME NEW t, NEW tb, NEW new, BucketOK(tb, t), NEW interval \in {KeptFor(t), NoInterval},
         Kept(tb, new, interval)
  PROVE  BucketOK(new, t)
<1>1. LastInterval(tb, interval) \in {0, KeptFor(t)}
  BY DEF LastInterval, BucketOK
<1> QED BY <1>1 DEF BucketOK, Kept

-----------------------------------------------------------------------------
(* The steps. *)

LEMMA MessageTime ==
  ASSUME NEW m, SentInv, MessageOK(m)
  PROVE  /\ m.time \in Nat /\ m.time <= m.sent + Skew[m.client]
         /\ m.time >= m.sent + Skew[m.client] - 1
         /\ Seconds(m.time) = Seconds(m.sent + Skew[m.client])
<1>1. PICK x : x = m.sent + Skew[m.client]
  OBVIOUS
<1>2. x \in Int /\ x >= 0 /\ m.sent \in Int /\ Skew[m.client] \in Int
  BY <1>1, ClockAssumption DEF MessageOK
<1>3. m.time = 2 * Seconds(x)
  BY <1>1 DEF MessageOK
<1>4. 2 * (x \div 2) <= x /\ 2 * (x \div 2) >= x - 1 /\ x \div 2 \in Nat /\ (2 * (x \div 2)) \div 2 = x \div 2
  BY <1>2
<1>5. m.time \in Nat /\ m.time <= x /\ m.time >= x - 1 /\ Seconds(m.time) = Seconds(x)
  BY <1>3, <1>4 DEF Seconds
<1> QED BY <1>1, <1>2, <1>5

\* What storing in the bucket of a type does.
StoreIs(type, m, accepted, what) ==
  /\ DOMAIN buckets' = Types
  /\ \A u \in Types : u # type => buckets'[u] = buckets[u]
  /\ \/ /\ Refused(buckets[type], m.time, KeptFor(type))
        /\ Kept(buckets[type], buckets'[type], KeptFor(type))
        /\ inHand' = {} /\ heard' = heard /\ refused' = refused \cup {what}
     \/ /\ ~Refused(buckets[type], m.time, KeptFor(type))
        /\ Stored(buckets[type], buckets'[type], m.time, KeptFor(type), m.client)
        /\ inHand' = accepted /\ heard' = heard \cup {<<m.client, type>>} /\ refused' = refused

LEMMA StoreStep ==
  ASSUME StoredInv, NEW type \in Types, NEW m, NEW factor, NEW accepted, NEW what,
         Interval * factor = KeptFor(type), Store(type, m, factor, accepted, what)
  PROVE  StoreIs(type, m, accepted, what)
<1>1. DOMAIN buckets = Types /\ DOMAIN buckets[type] = Fields
  BY DEF StoredInv, BucketOK
<1>2. CASE Refused(buckets[type], m.time, KeptFor(type))
  <2>1. /\ buckets' = [buckets EXCEPT ![type] = RefusedAccess(@, KeptFor(type))]
        /\ inHand' = {} /\ heard' = heard /\ refused' = refused \cup {what}
    BY <1>2 DEF Store
  <2> QED BY <1>1, <1>2, <2>1, RefusedIs DEF StoreIs
<1>3. CASE ~Refused(buckets[type], m.time, KeptFor(type))
  <2>1. /\ buckets' = [buckets EXCEPT ![type] =
              SetItem(Access(@, m.time, KeptFor(type)), m.time, KeptFor(type), m.client, 1)]
        /\ inHand' = accepted /\ heard' = heard \cup {<<m.client, type>>} /\ refused' = refused
    BY <1>3 DEF Store
  <2> QED BY <1>1, <1>3, <2>1, SetItemIs DEF StoreIs
<1> QED BY <1>2, <1>3

\* The accesses of a summary end with the two to the process bucket.
LEMMA ReadsAre ==
  /\ Len(Reads) \in Nat \ {0}
  /\ \A n \in 1..Len(Reads) : Reads[n] \in Types
  /\ Reads[Len(Reads)] = "process"
<1> DEFINE a == IF "pool" \in Sent THEN <<"pool", "pool">> ELSE <<>>
           b == IF "totals" \in Sent THEN <<"totals", "totals">> ELSE <<>>
           c == <<"process", "process">>
<1>1. a \in Seq(Types) /\ b \in Seq(Types) /\ c \in Seq(Types)
  <2>1. "process" \in Types /\ ("pool" \in Sent => "pool" \in Types)
        /\ ("totals" \in Sent => "totals" \in Types)
    BY DEF Types
  <2> HIDE DEF Types
  <2>2. a \in Seq(Types)
    BY <2>1
  <2>3. b \in Seq(Types)
    BY <2>1
  <2>4. c \in Seq(Types)
    BY <2>1
  <2> QED BY <2>2, <2>3, <2>4
<1>2. Len(c) = 2 /\ c[2] = "process"
  OBVIOUS
<1>3. Reads = (a \o b) \o c
  BY DEF Reads
<1> HIDE DEF a, b, c
<1>4. a \o b \in Seq(Types)
  BY <1>1, ConcatProperties
<1> DEFINE d == a \o b
<1>5. /\ Reads \in Seq(Types) /\ Len(Reads) = Len(d) + 2
      /\ \A n \in 1..(Len(d) + 2) : Reads[n] = IF n <= Len(d) THEN d[n] ELSE c[n - Len(d)]
  <2> HIDE DEF d
  <2>1. d \in Seq(Types) /\ Reads = d \o c
    BY <1>3, <1>4 DEF d
  <2>2. /\ d \o c \in Seq(Types) /\ Len(d \o c) = Len(d) + Len(c)
        /\ \A n \in 1..(Len(d) + Len(c)) : (d \o c)[n] = IF n <= Len(d) THEN d[n] ELSE c[n - Len(d)]
    BY <1>1, <2>1, ConcatProperties
  <2> QED BY <1>2, <2>1, <2>2
<1>6. Len(a \o b) \in Nat
  BY <1>4, LenProperties
<1>7. Reads[Len(Reads)] = "process"
  BY <1>2, <1>5, <1>6
<1>8. \A n \in 1..Len(Reads) : Reads[n] \in Types
  BY <1>5, ElementOfSeq
<1> QED BY <1>5, <1>6, <1>7, <1>8

\* What one access of a summary does.
ReadIs(type) ==
  /\ rpc > 0 /\ type = Reads[rpc] /\ type \in Types
  /\ DOMAIN buckets' = Types
  /\ \A u \in Types : u # type => buckets'[u] = buckets[u]
  /\ \/ /\ Refused(buckets[type], timestamp, NoInterval)
        /\ Kept(buckets[type], buckets'[type], NoInterval)
        /\ refused' = refused \cup {"summary"}
        /\ rpc' = 0 /\ published' = [t \in Types |-> {}]
     \/ /\ ~Refused(buckets[type], timestamp, NoInterval)
        /\ Accessed(buckets[type], buckets'[type], timestamp, NoInterval)
        /\ refused' = refused
        /\ \/ rpc = Len(Reads) /\ rpc' = 0 /\ published' = [t \in Types |-> {}]
           \/ /\ rpc # Len(Reads) /\ rpc' = rpc + 1
              /\ published' = [published EXCEPT ![type] = Fresh(buckets[type], timestamp)]
  /\ timestamp' = IF rpc' = 0 THEN 0 ELSE timestamp

LEMMA SummarizeStep ==
  ASSUME StoredInv, SummaryInv, Summarize
  PROVE  ReadIs(Reads[rpc])
<1> DEFINE type == Reads[rpc]
           tb == Access(buckets[type], timestamp, NoInterval)
<1>1. rpc > 0 /\ rpc \in 1..Len(Reads) /\ type \in Types
  <2>1. rpc \in 0..Len(Reads) /\ rpc > 0
    BY DEF SummaryInv, Summarize
  <2>2. rpc \in 1..Len(Reads)
    BY <2>1, ReadsAre
  <2> QED BY <2>1, <2>2, ReadsAre
<1>2. DOMAIN buckets = Types /\ DOMAIN buckets[type] = Fields
  BY <1>1 DEF StoredInv, BucketOK
<1>3. timestamp' = IF rpc' = 0 THEN 0 ELSE timestamp
  BY DEF Summarize
<1>4. CASE Refused(buckets[type], timestamp, NoInterval)
  <2>1. /\ buckets' = [buckets EXCEPT ![type] = RefusedAccess(@, NoInterval)]
        /\ rpc' = 0 /\ published' = [t \in Types |-> {}] /\ refused' = refused \cup {"summary"}
    BY <1>4 DEF Summarize
  <2> HIDE DEF type
  <2> QED BY <1>1, <1>2, <1>3, <1>4, <2>1, RefusedIs DEF ReadIs, type
<1>5. CASE ~Refused(buckets[type], timestamp, NoInterval)
  <2>1. /\ buckets' = [buckets EXCEPT ![type] = tb]
        /\ published' = IF rpc = Len(Reads) THEN [t \in Types |-> {}]
                                            ELSE [published EXCEPT ![type] = DOMAIN tb.bucket]
        /\ rpc' = IF rpc = Len(Reads) THEN 0 ELSE rpc + 1
        /\ refused' = refused
    BY <1>5 DEF Summarize
  <2>2. Accessed(buckets[type], tb, timestamp, NoInterval)
    BY AccessIs
  <2>3. DOMAIN tb.bucket = Fresh(buckets[type], timestamp)
    BY <2>2 DEF Accessed
  <2>4. DOMAIN buckets' = Types /\ buckets'[type] = tb /\ \A u \in Types : u # type => buckets'[u] = buckets[u]
    BY <1>1, <1>2, <2>1
  <2> HIDE DEF type, tb
  <2> QED BY <1>1, <1>3, <1>5, <2>1, <2>2, <2>3, <2>4 DEF ReadIs, type
<1> QED BY <1>4, <1>5

-----------------------------------------------------------------------------
LEMMA ReceiverInitInv == ReceiverInit => ReceiverInv
<1> SUFFICES ASSUME ReceiverInit PROVE ReceiverInv
  OBVIOUS
<1> USE ClockAssumption DEF ReceiverInit
<1>1. SentInv
  BY DEF SentInv
<1>2. StoredInv
  BY DEF StoredInv, BucketOK, NewBucket, Fields
<1>3. SummaryInv
  BY ReadsAre DEF SummaryInv
<1> QED BY <1>1, <1>2, <1>3 DEF ReceiverInv

\* A record stored is of a message sent, and the others are where they were or gone.
LEMMA StoreKeeps ==
  ASSUME ReceiverInv, NEW type \in Types, NEW m, MessageOK(m), NEW accepted, NEW what,
         StoreIs(type, m, accepted, what), UNCHANGED lastSent
  PROVE  StoredInv' /\ heard' \subseteq Client \X Types
<1> DEFINE tb == buckets[type]
           new == buckets'[type]
<1>1. /\ BucketOK(tb, type) /\ m.client \in Client /\ m.time \in Nat
      /\ m.time <= lastSent[m.client] + Skew[m.client]
  <2>1. /\ m.client \in Client /\ m.sent \in Nat /\ m.sent <= lastSent[m.client]
        /\ lastSent[m.client] \in Nat /\ Skew[m.client] \in Int
    BY ClockAssumption DEF MessageOK, ReceiverInv, SentInv
  <2>2. m.time \in Nat /\ m.time <= m.sent + Skew[m.client]
    BY MessageTime DEF ReceiverInv
  <2> QED BY <2>1, <2>2 DEF ReceiverInv, StoredInv
<1>2. /\ BucketOK(new, type)
      /\ \A c \in DOMAIN new.bucket : new.bucket[c].timestamp <= lastSent[c] + Skew[c]
  <2>0. \A c \in DOMAIN tb.bucket : tb.bucket[c].timestamp <= lastSent[c] + Skew[c]
    BY DEF ReceiverInv, StoredInv
  <2>1. CASE Kept(tb, new, KeptFor(type))
    <3> HIDE DEF tb, new
    <3> QED BY <1>1, <2>0, <2>1, KeptOK DEF Kept
  <2>2. CASE Stored(tb, new, m.time, KeptFor(type), m.client)
    <3> HIDE DEF tb, new
    <3> QED BY <1>1, <2>0, <2>2, StoredOK DEF Stored, Fresh
  <2> QED BY <2>1, <2>2 DEF StoreIs
<1>3. \A u \in Types : u # type => buckets'[u] = buckets[u]
  BY DEF StoreIs
<1>4. StoredInv'
  <2>1. \A u \in Types : BucketOK(buckets'[u], u)
    BY <1>2, <1>3 DEF ReceiverInv, StoredInv
  <2>2. \A u \in Types : \A c \in DOMAIN buckets'[u].bucket :
          buckets'[u].bucket[c].timestamp <= lastSent'[c] + Skew[c]
    BY <1>2, <1>3 DEF ReceiverInv, StoredInv
  <2> QED BY <2>1, <2>2 DEF StoredInv, StoreIs
<1>5. heard' \subseteq Client \X Types
  BY <1>1 DEF StoreIs, ReceiverInv, SummaryInv
<1> QED BY <1>4, <1>5

LEMMA SummarizeKeeps ==
  ASSUME ReceiverInv, Summarize
  PROVE  ReceiverInv'
<1> DEFINE type == Reads[rpc]
           tb == buckets[type]
           new == buckets'[type]
<1>1. ReadIs(type) /\ UNCHANGED <<now, alive, lastSent, network, lost, inHand, heard>>
  BY SummarizeStep DEF ReceiverInv, Summarize, clientVars
<1>2. SentInv'
  BY <1>1 DEF ReceiverInv, SentInv, MessageOK
<1>3. type \in Types /\ BucketOK(tb, type) /\ timestamp \in Nat
  BY <1>1 DEF ReadIs, ReceiverInv, StoredInv, SummaryInv
<1>4. /\ BucketOK(new, type)
      /\ \A c \in DOMAIN new.bucket : c \in DOMAIN tb.bucket /\ new.bucket[c] = tb.bucket[c]
  <2>1. CASE Kept(tb, new, NoInterval)
    <3> HIDE DEF type, tb, new
    <3> QED BY <1>3, <2>1, KeptOK DEF Kept
  <2>2. CASE Accessed(tb, new, timestamp, NoInterval)
    <3> HIDE DEF type, tb, new
    <3> QED BY <1>3, <2>2, AccessedOK DEF Accessed, Fresh
  <2> QED BY <1>1, <2>1, <2>2 DEF ReadIs
<1>5. StoredInv'
  <2>1. \A u \in Types : u # type => buckets'[u] = buckets[u]
    BY <1>1 DEF ReadIs
  <2>2. \A u \in Types : BucketOK(buckets'[u], u)
    BY <1>4, <2>1 DEF ReceiverInv, StoredInv
  <2>3. \A u \in Types : \A c \in DOMAIN buckets'[u].bucket :
          buckets'[u].bucket[c].timestamp <= lastSent'[c] + Skew[c]
    <3> HIDE DEF type
    <3> QED BY <1>1, <1>3, <1>4, <2>1 DEF ReceiverInv, StoredInv
  <2> QED BY <1>1, <2>2, <2>3 DEF StoredInv, ReadIs
<1>6. SummaryInv'
  <2>1. rpc' \in 0..Len(Reads)
    <3>1. rpc \in 0..Len(Reads) /\ Len(Reads) \in Nat
      BY ReadsAre DEF ReceiverInv, SummaryInv
    <3> QED BY <1>1, <3>1 DEF ReadIs
  <2>2. published' \in [Types -> SUBSET Client]
    <3>1. Fresh(tb, timestamp) \subseteq Client
      BY <1>3 DEF BucketOK, Fresh
    <3>2. published \in [Types -> SUBSET Client]
      BY DEF ReceiverInv, SummaryInv
    <3> HIDE DEF type
    <3> QED BY <1>1, <1>3, <3>1, <3>2 DEF ReadIs
  <2>3. timestamp' \in Nat
    BY <1>1, <1>3 DEF ReadIs
  <2>4. refused' \subseteq {"message", "process", "summary"} /\ heard' = heard
    BY <1>1 DEF ReadIs, ReceiverInv, SummaryInv
  <2> QED BY <2>1, <2>2, <2>3, <2>4 DEF SummaryInv, ReceiverInv
<1> QED BY <1>2, <1>5, <1>6 DEF ReceiverInv

LEMMA SendKeeps ==
  ASSUME ReceiverInv, NEW c \in Client, Send(c)
  PROVE  ReceiverInv'
<1> DEFINE message(t) == [client |-> c, type |-> t, time |-> 2 * Seconds(Clock(c)), sent |-> now]
<1>1. /\ lastSent' = [lastSent EXCEPT ![c] = now]
      /\ network' = network \cup {message(t) : t \in Sent}
      /\ UNCHANGED <<now, alive, lost, buckets, inHand, rpc, timestamp, published, heard, refused>>
  BY DEF Send, readerVars
<1>2. /\ now \in Nat /\ now >= Start /\ lastSent \in [Client -> Nat]
      /\ \A d \in Client : lastSent[d] <= now
  BY DEF ReceiverInv, SentInv
<1>3. /\ lastSent' \in [Client -> Nat] /\ lastSent'[c] = now
      /\ \A d \in Client : lastSent[d] <= lastSent'[d] /\ lastSent'[d] <= now
  BY <1>1, <1>2
<1>4. SentInv'
  <2>1. ASSUME NEW t \in Sent PROVE MessageOK(message(t))'
    <3>1. /\ message(t).client = c /\ message(t).type = t /\ message(t).sent = now
          /\ message(t).time = 2 * Seconds(now + Skew[c])
      BY DEF Clock
    <3> HIDE DEF message
    <3>2. ASSUME NEW m, m.client = c, m.type = t, m.sent = now, m.time = 2 * Seconds(now + Skew[c])
          PROVE  /\ m.client \in Client /\ m.type \in Sent
                 /\ m.sent \in Nat /\ m.sent >= Start /\ m.sent <= lastSent'[m.client]
                 /\ m.time = 2 * Seconds(m.sent + Skew[m.client])
      BY <1>2, <1>3, <3>2
    <3>3. message(t)' = message(t)
      BY <1>1 DEF message, Clock
    <3> QED BY <3>1, <3>2, <3>3 DEF MessageOK
  <2>2. ASSUME NEW m, MessageOK(m) PROVE MessageOK(m)'
    <3>1. lastSent[m.client] <= lastSent'[m.client] /\ lastSent[m.client] \in Nat /\ lastSent'[m.client] \in Nat
      BY <1>2, <1>3, <2>2 DEF MessageOK
    <3> QED BY <2>2, <3>1 DEF MessageOK
  <2>3. \A m \in network' \cup inHand' : MessageOK(m)'
    <3>1. ASSUME NEW t \in Sent, NEW m, m = message(t) PROVE MessageOK(m)'
      <4>1. message(t)' = message(t)
        BY <1>1 DEF Clock
      <4> HIDE DEF message
      <4> QED BY <2>1, <3>1, <4>1 DEF MessageOK
    <3> HIDE DEF message
    <3> QED BY <1>1, <2>2, <3>1 DEF ReceiverInv, SentInv
  <2> QED BY <1>1, <1>2, <1>3, <2>3 DEF ReceiverInv, SentInv
<1>5. StoredInv'
  <2>1. ASSUME NEW t \in Types, NEW d \in DOMAIN buckets[t].bucket
        PROVE  buckets[t].bucket[d].timestamp <= lastSent'[d] + Skew[d]
    <3>1. /\ buckets[t].bucket[d].timestamp \in Nat /\ d \in Client
          /\ buckets[t].bucket[d].timestamp <= lastSent[d] + Skew[d]
      BY DEF ReceiverInv, StoredInv, BucketOK
    <3>2. lastSent[d] \in Nat /\ lastSent'[d] \in Nat /\ Skew[d] \in Int /\ lastSent[d] <= lastSent'[d]
      BY <1>2, <1>3, <3>1, ClockAssumption
    <3> QED BY <3>1, <3>2
  <2> QED BY <1>1, <2>1 DEF ReceiverInv, StoredInv, BucketOK
<1> QED BY <1>1, <1>4, <1>5 DEF ReceiverInv, SummaryInv

LEMMA SetStatsStep ==
  ASSUME ReceiverInv, NEW m \in network, SetStats(m)
  PROVE  /\ MessageOK(m) /\ m.type \in Types /\ m.type # "process"
         /\ StoreIs(m.type, m, {m}, "message")
         /\ inHand = {} /\ network' = network \ {m}
         /\ lost' = [lost EXCEPT ![m.client][m.type] = 0]
         /\ UNCHANGED <<now, alive, lastSent, rpc, timestamp, published>>
<1>1. MessageOK(m) /\ m.type \in Types /\ m.type # "process"
  BY ClockAssumption DEF ReceiverInv, SentInv, MessageOK, Types
<1>2. Interval * 2 = KeptFor(m.type)
  BY <1>1 DEF KeptFor
<1> QED BY <1>1, <1>2, StoreStep DEF SetStats, ReceiverInv, clientVars, readerVars

LEMMA SetProcessStatsStep ==
  ASSUME ReceiverInv, NEW m \in inHand, SetProcessStats(m)
  PROVE  /\ MessageOK(m) /\ inHand = {m}
         /\ StoreIs("process", m, {}, "process") /\ inHand' = {}
         /\ UNCHANGED <<now, alive, lastSent, network, lost, rpc, timestamp, published>>
<1>1. MessageOK(m) /\ inHand = {m}
  BY DEF ReceiverInv, SentInv
<1>2. Interval * 5 = KeptFor("process") /\ "process" \in Types
  BY DEF KeptFor, Types
<1>3. StoreIs("process", m, {}, "process")
  BY <1>2, StoreStep DEF SetProcessStats, ReceiverInv
<1> QED BY <1>1, <1>3 DEF SetProcessStats, StoreIs, clientVars, readerVars

LEMMA ReceiverNextKeeps == ReceiverInv /\ [ReceiverNext]_receiverVars => ReceiverInv'
<1> SUFFICES ASSUME ReceiverInv, [ReceiverNext]_receiverVars PROVE ReceiverInv'
  OBVIOUS
<1> USE DEF clientVars, readerVars
<1>1. CASE UNCHANGED receiverVars
  BY <1>1 DEF receiverVars, ReceiverInv, SentInv, MessageOK, StoredInv, BucketOK, SummaryInv
<1>2. CASE Tick
  <2>1. UNCHANGED <<alive, lastSent, network, lost, buckets, inHand, rpc, timestamp, published, heard, refused>>
    BY <1>2 DEF Tick
  <2>2. SentInv'
    <3>1. now \in Nat /\ Start \in Nat /\ now' = now + 1 /\ now >= Start
      BY <1>2, ClockAssumption DEF Tick, ReceiverInv, SentInv
    <3>2. \A c \in Client : lastSent[c] \in Nat /\ lastSent[c] <= now'
      BY <3>1 DEF ReceiverInv, SentInv
    <3>3. now' \in Nat /\ now' >= Start
      BY <3>1
    <3> QED BY <2>1, <3>2, <3>3 DEF ReceiverInv, SentInv, MessageOK
  <2> QED BY <2>1, <2>2 DEF ReceiverInv, StoredInv, BucketOK, SummaryInv
<1>3. ASSUME NEW c \in Client, Stop(c) PROVE ReceiverInv'
  BY <1>3 DEF Stop, ReceiverInv, SentInv, MessageOK, StoredInv, BucketOK, SummaryInv
<1>4. ASSUME NEW m \in network, Lose(m) PROVE ReceiverInv'
  <2>1. lost' \in [Client -> [Sent -> 0..MaxLost]]
    <3>1. lost[m.client] \in [Sent -> 0..MaxLost] /\ m.client \in Client /\ m.type \in Sent
      BY DEF ReceiverInv, SentInv, MessageOK
    <3>2. lost[m.client][m.type] + 1 \in 0..MaxLost
      BY <1>4, <3>1, ClockAssumption DEF Lose
    <3> QED BY <1>4, <3>1, <3>2 DEF Lose, ReceiverInv, SentInv
  <2> QED BY <1>4, <2>1 DEF Lose, ReceiverInv, SentInv, MessageOK, StoredInv, BucketOK, SummaryInv
<1>5. ASSUME NEW m \in network, SetStats(m) PROVE ReceiverInv'
  <2>1. /\ MessageOK(m) /\ m.type \in Types /\ StoreIs(m.type, m, {m}, "message")
        /\ network' = network \ {m} /\ lost' = [lost EXCEPT ![m.client][m.type] = 0]
        /\ UNCHANGED <<now, alive, lastSent, rpc, timestamp, published>>
    BY <1>5, SetStatsStep
  <2>2. StoredInv' /\ heard' \subseteq Client \X Types
    BY <2>1, StoreKeeps
  <2>3. inHand' \in {{}, {m}} /\ refused' \subseteq {"message", "process", "summary"}
    BY <2>1 DEF StoreIs, ReceiverInv, SummaryInv
  <2>4. lost' \in [Client -> [Sent -> 0..MaxLost]]
    <3>1. /\ lost \in [Client -> [Sent -> 0..MaxLost]] /\ m.client \in Client /\ m.type \in Sent
          /\ 0 \in 0..MaxLost
      BY <2>1, ClockAssumption DEF ReceiverInv, SentInv, MessageOK
    <3>2. [lost[m.client] EXCEPT ![m.type] = 0] \in [Sent -> 0..MaxLost]
      BY <3>1
    <3> QED BY <2>1, <3>1, <3>2
  <2>5. SentInv'
    BY <2>1, <2>3, <2>4 DEF ReceiverInv, SentInv, MessageOK
  <2> QED BY <2>1, <2>2, <2>3, <2>5 DEF ReceiverInv, SummaryInv
<1>6. ASSUME NEW m \in inHand, SetProcessStats(m) PROVE ReceiverInv'
  <2>1. /\ MessageOK(m) /\ StoreIs("process", m, {}, "process") /\ inHand' = {}
        /\ UNCHANGED <<now, alive, lastSent, network, lost, rpc, timestamp, published>>
    BY <1>6, SetProcessStatsStep
  <2>2. StoredInv' /\ heard' \subseteq Client \X Types
    BY <2>1, StoreKeeps DEF Types
  <2>3. refused' \subseteq {"message", "process", "summary"}
    BY <2>1 DEF StoreIs, ReceiverInv, SummaryInv
  <2>5. SentInv'
    BY <2>1 DEF ReceiverInv, SentInv, MessageOK
  <2> QED BY <2>1, <2>2, <2>3, <2>5 DEF ReceiverInv, SummaryInv
<1>7. CASE Read
  <2>1. 1 \in 0..Len(Reads) /\ now \in Nat
    BY ReadsAre DEF ReceiverInv, SentInv
  <2> QED BY <1>7, <2>1 DEF Read, ReceiverInv, SentInv, MessageOK, StoredInv, BucketOK, SummaryInv
<1> QED BY <1>1, <1>2, <1>3, <1>4, <1>5, <1>6, <1>7, SendKeeps, SummarizeKeeps DEF ReceiverNext

\* The inductive invariant that every other result rests on: what the three buckets hold
\* is of messages that their client has sent, kept for the interval of the bucket
\* (receiver.py 60-97).
THEOREM ReceiverInvariant == ReceiverSpec => []ReceiverInv
BY ReceiverInitInv, ReceiverNextKeeps, PTL DEF ReceiverSpec

\* The receiver's state keeps its type, for any number of clients, whatever their clocks
\* and the delays and losses of their messages.
THEOREM ReceiverTypeCorrect == ReceiverSpec => []ReceiverTypeOK
<1>1. ReceiverInv => ReceiverTypeOK
  <2> SUFFICES ASSUME ReceiverInv PROVE ReceiverTypeOK
    OBVIOUS
  <2>1. Cardinality(inHand) <= 1
    <3>1. CASE inHand = {}
      BY <3>1, FS_EmptySet
    <3>2. ASSUME NEW m, inHand = {m} PROVE Cardinality(inHand) <= 1
      BY <3>2, FS_Singleton
    <3> QED BY <3>1, <3>2 DEF ReceiverInv, SentInv
  <2> QED BY <2>1 DEF ReceiverTypeOK, ReceiverInv, SentInv, MessageOK, StoredInv, BucketOK, SummaryInv
<1> QED BY <1>1, ReceiverInvariant, PTL

-----------------------------------------------------------------------------
\* A step that reads a type is an access of the summary, and publishes what is not stale
\* in that type's bucket.
LEMMA JustReadIs ==
  ASSUME ReceiverInv, [ReceiverNext]_receiverVars, NEW t, JustRead(t)
  PROVE  /\ Summarize /\ ReadIs(t)
         /\ UNCHANGED <<now, alive, lastSent, network, lost, inHand, heard>>
         /\ t # "process" => rpc' # 0
         /\ rpc' # 0 => published' = [published EXCEPT ![t] = Fresh(buckets[t], timestamp)]
<1>1. rpc > 0 /\ rpc' # rpc /\ Reads[rpc] = t /\ (rpc' = 0 => rpc = Len(Reads))
  BY DEF JustRead
<1>2. Summarize
  <2>1. CASE UNCHANGED rpc
    BY <1>1, <2>1
  <2>2. ~Read
    BY <1>1 DEF Read
  <2> QED BY <2>1, <2>2 DEF ReceiverNext, receiverVars, readerVars, Tick, Send, Stop, Lose, SetStats, SetProcessStats
<1>3. ReadIs(t)
  BY <1>1, <1>2, SummarizeStep DEF ReceiverInv
<1>4. t # "process" => rpc' # 0
  BY <1>1, ReadsAre
<1>5. rpc' # 0 => published' = [published EXCEPT ![t] = Fresh(buckets[t], timestamp)]
  BY <1>3 DEF ReadIs
<1> QED BY <1>2, <1>3, <1>4, <1>5 DEF Summarize, clientVars

\* A process that stopped is in no summary once the windows have passed since it last sent,
\* by its own clock, however late its messages came and in whatever order: its connections
\* for two intervals, itself for five (receiver.py 78, 91, stream.py 104).
THEOREM ForgottenHolds == ReceiverSpec => Forgotten
<1> DEFINE Forgets ==
      \A c \in Client, t \in Types :
        JustRead(t) /\ rpc' # 0 /\ c \in published'[t] =>
          timestamp <= lastSent[c] + Skew[c]
                         + 2 * Accept(Interval * (IF t = "process" THEN 5 ELSE 2))
<1>1. ReceiverInv /\ [ReceiverNext]_receiverVars => Forgets
  <2> SUFFICES ASSUME ReceiverInv, [ReceiverNext]_receiverVars, NEW c \in Client, NEW t \in Types,
                      JustRead(t), rpc' # 0, c \in published'[t]
               PROVE  timestamp <= lastSent[c] + Skew[c] + 2 * Accept(KeptFor(t))
    BY DEF KeptFor
  <2> DEFINE r == buckets[t].bucket[c]
  <2>1. c \in Fresh(buckets[t], timestamp)
    BY JustReadIs DEF ReceiverInv, SummaryInv
  <2>2. c \in DOMAIN buckets[t].bucket /\ ~Stale(r, timestamp)
    BY <2>1 DEF Fresh
  <2>3. r.timestamp \in Nat /\ r.interval = KeptFor(t) /\ r.timestamp <= lastSent[c] + Skew[c]
    BY <2>2 DEF ReceiverInv, StoredInv, BucketOK
  <2>4. timestamp \in Nat /\ lastSent[c] \in Nat /\ Skew[c] \in Int /\ Accept(KeptFor(t)) \in Nat
    BY WindowOf, ClockAssumption DEF ReceiverInv, SentInv, SummaryInv
  <2>5. ~(r.timestamp < timestamp - 2 * Accept(KeptFor(t)))
    BY <2>2, <2>3 DEF Stale
  <2> HIDE DEF r
  <2> QED BY <2>3, <2>4, <2>5
<1> QED BY <1>1, ReceiverInvariant, PTL DEF ReceiverSpec, Forgotten

-----------------------------------------------------------------------------
(* Clocks and delays within the windows. *)

\* No message is under way for longer than MaxDelay, no summary begins at one time and
\* ends at another, and a bucket's latest access was at the time of a clock there is.
TimeInv ==
  /\ \A m \in network \cup inHand : now - m.sent <= MaxDelay
  /\ rpc > 0 => timestamp = now
  /\ \A t \in Types : \E a \in Offsets : buckets[t].last_timestamp <= now + a

LEMMA OffsetsInt == /\ Offsets \subseteq Int /\ 0 \in Offsets
                    /\ \A c \in Client : Skew[c] \in Offsets
BY ClockAssumption DEF Offsets

LEMMA TimeInitInv == ReceiverInit => TimeInv
BY OffsetsInt, ClockAssumption DEF ReceiverInit, TimeInv, NewBucket

\* When a message is stored.
LEMMA Arrival ==
  ASSUME ReceiverInv, TimeInv, NEW m \in network \cup inHand
  PROVE  /\ m.client \in Client /\ m.type \in Sent /\ m.sent \in Nat /\ m.time \in Nat
         /\ Skew[m.client] \in Offsets /\ Skew[m.client] \in Int
         /\ m.time <= now + Skew[m.client]
         /\ m.time >= now + Skew[m.client] - MaxDelay - 1
         /\ m.time >= m.sent + Skew[m.client] - 1
         /\ Seconds(m.time) = Seconds(m.sent + Skew[m.client])
         /\ now - m.sent <= MaxDelay
<1>1. MessageOK(m) /\ now - m.sent <= MaxDelay
  BY DEF ReceiverInv, SentInv, TimeInv
<1>2. /\ m.client \in Client /\ m.type \in Sent /\ m.sent \in Nat /\ m.sent <= lastSent[m.client]
  BY <1>1 DEF MessageOK
<1>3. lastSent[m.client] \in Nat /\ lastSent[m.client] <= now /\ now \in Nat /\ MaxDelay \in Nat
  BY <1>2, ClockAssumption DEF ReceiverInv, SentInv
<1>4. Skew[m.client] \in Offsets /\ Skew[m.client] \in Int
  BY <1>2, OffsetsInt
<1>5. /\ m.time \in Nat /\ m.time <= m.sent + Skew[m.client]
      /\ m.time >= m.sent + Skew[m.client] - 1
      /\ Seconds(m.time) = Seconds(m.sent + Skew[m.client])
  BY <1>1, MessageTime DEF ReceiverInv
<1> QED BY <1>1, <1>2, <1>3, <1>4, <1>5

LEMMA StoreKeepsTime ==
  ASSUME ReceiverInv, TimeInv, NEW m \in network \cup inHand, NEW type \in Types,
         NEW accepted \in SUBSET {m}, NEW what,
         StoreIs(type, m, accepted, what), network' \subseteq network,
         UNCHANGED <<now, rpc, timestamp>>
  PROVE  TimeInv'
<1>1. \A n \in network' \cup inHand' : n \in network \cup inHand
  BY DEF StoreIs
<1>2. \A t \in Types : \E a \in Offsets : buckets'[t].last_timestamp <= now + a
  <2>1. buckets'[type].last_timestamp \in {buckets[type].last_timestamp, m.time}
    BY DEF StoreIs, Stored, Kept
  <2>2. m.time <= now + Skew[m.client] /\ Skew[m.client] \in Offsets
    BY Arrival
  <2>3. \A t \in Types : \E a \in Offsets : buckets[t].last_timestamp <= now + a
    BY DEF TimeInv
  <2>4. \A t \in Types : t # type => buckets'[t] = buckets[t]
    BY DEF StoreIs
  <2> QED BY <2>1, <2>2, <2>3, <2>4
<1> QED BY <1>1, <1>2 DEF TimeInv

LEMMA TimeNextKeeps == ReceiverInv /\ TimeInv /\ [ReceiverNext]_receiverVars => TimeInv'
<1> SUFFICES ASSUME ReceiverInv, TimeInv, [ReceiverNext]_receiverVars PROVE TimeInv'
  OBVIOUS
<1> USE DEF clientVars, readerVars
<1>0. now \in Nat /\ MaxDelay \in Nat /\ \A m \in network \cup inHand : m.sent \in Nat
  BY ClockAssumption DEF ReceiverInv, SentInv, MessageOK
<1>1. CASE UNCHANGED receiverVars
  BY <1>1 DEF receiverVars, TimeInv
<1>2. CASE Tick
  <2>1. \A m \in network \cup inHand : now' - m.sent <= MaxDelay
    BY <1>0, <1>2 DEF Tick
  <2>2. ASSUME NEW t \in Types PROVE \E a \in Offsets : buckets[t].last_timestamp <= now' + a
    <3>1. PICK a \in Offsets : buckets[t].last_timestamp <= now + a
      BY DEF TimeInv
    <3>2. a \in Int /\ buckets[t].last_timestamp \in Nat
      BY OffsetsInt DEF ReceiverInv, StoredInv, BucketOK
    <3>3. buckets[t].last_timestamp <= now' + a
      BY <1>0, <1>2, <3>1, <3>2 DEF Tick
    <3> QED BY <3>3
  <2> QED BY <1>2, <2>1, <2>2 DEF Tick, TimeInv
<1>3. ASSUME NEW c \in Client, Send(c) PROVE TimeInv'
  <2>1. \A m \in network' \cup inHand' : m \in network \cup inHand \/ m.sent = now
    BY <1>3 DEF Send
  <2>2. \A m \in network' \cup inHand' : now' - m.sent <= MaxDelay
    BY <1>0, <1>3, <2>1 DEF Send, TimeInv
  <2> QED BY <1>3, <2>2 DEF Send, TimeInv
<1>4. ASSUME NEW c \in Client, Stop(c) PROVE TimeInv'
  BY <1>4 DEF Stop, TimeInv
<1>5. ASSUME NEW m \in network, Lose(m) PROVE TimeInv'
  BY <1>5 DEF Lose, TimeInv
<1>6. ASSUME NEW m \in network, SetStats(m) PROVE TimeInv'
  BY <1>6, SetStatsStep, StoreKeepsTime
<1>7. ASSUME NEW m \in inHand, SetProcessStats(m) PROVE TimeInv'
  BY <1>7, SetProcessStatsStep, StoreKeepsTime DEF Types
<1>8. CASE Read
  BY <1>8 DEF Read, TimeInv
<1>9. CASE Summarize
  <2> DEFINE type == Reads[rpc]
  <2>1. ReadIs(type) /\ UNCHANGED <<now, network, inHand>>
    BY <1>9, SummarizeStep DEF ReceiverInv, Summarize
  <2>2. rpc > 0 /\ timestamp = now /\ (rpc' > 0 => timestamp' = now')
    BY <2>1, ReadsAre DEF ReadIs, TimeInv
  <2>3. buckets'[type].last_timestamp \in {buckets[type].last_timestamp, now}
    BY <2>1, <2>2 DEF ReadIs, Accessed, Kept
  <2>4. \A t \in Types : t # type => buckets'[t] = buckets[t]
    BY <2>1 DEF ReadIs
  <2>5. now <= now + 0 /\ 0 \in Offsets
    BY <1>0, OffsetsInt
  <2> HIDE DEF type
  <2> QED BY <2>1, <2>2, <2>3, <2>4, <2>5 DEF TimeInv
<1> QED BY <1>1, <1>2, <1>3, <1>4, <1>5, <1>6, <1>7, <1>8, <1>9 DEF ReceiverNext

\* When the server stores a message, and what clocks it has heard (receiver.py 66-97).
THEOREM TimeInvariant == ReceiverSpec => []TimeInv
BY TimeInitInv, TimeNextKeeps, ReceiverInvariant, PTL DEF ReceiverSpec

\* An access by a clock that is within the window of every other is not refused.
LEMMA NotRefused ==
  ASSUME ClocksAgree, ReceiverInv, TimeInv, NEW t \in Types, NEW interval \in {KeptFor(t), NoInterval},
         NEW time \in Nat, NEW x \in Nat, Seconds(time) = Seconds(x), NEW b \in Offsets,
         x >= now + b - MaxDelay
  PROVE  ~Refused(buckets[t], time, interval)
<1> DEFINE last == LastInterval(buckets[t], interval)
           latest == buckets[t].last_timestamp
<1>1. PICK a \in Offsets : latest <= now + a
  BY DEF TimeInv
<1>2. latest \in Nat /\ last \in {0, KeptFor(t)}
  BY DEF ReceiverInv, StoredInv, BucketOK, LastInterval
<1>3. a \in Int /\ b \in Int /\ MaxDelay \in Nat /\ now \in Nat
  BY OffsetsInt, ClockAssumption DEF ReceiverInv, SentInv
<1>4. a - b + MaxDelay <= 8
  BY <1>1 DEF ClocksAgree, Accept, Interval
<1> HIDE DEF last, latest
<1>5. latest - x <= 8
  BY <1>1, <1>2, <1>3, <1>4
<1>6. latest \div 2 <= x \div 2 + 4
  BY <1>2, <1>5
<1>7. last # 0 => Accept(last) \in Nat /\ Accept(last) >= 4
  BY <1>2, WindowOf
<1>8. Seconds(latest) \in Nat /\ Seconds(x) \in Nat /\ Seconds(latest) <= Seconds(x) + 4
  BY <1>2, <1>6 DEF Seconds
<1>9. last # 0 => ~(Seconds(x) < Seconds(latest) - Accept(last))
  BY <1>7, <1>8
<1> QED BY <1>9 DEF Refused, last, latest

LEMMA StoreNotRefused ==
  ASSUME ClocksAgree, ReceiverInv, TimeInv, NEW m \in network \cup inHand, NEW t \in Types
  PROVE  ~Refused(buckets[t], m.time, KeptFor(t))
<1>1. /\ m.client \in Client /\ m.sent \in Nat /\ m.time \in Nat /\ Skew[m.client] \in Offsets
      /\ Skew[m.client] \in Int /\ Seconds(m.time) = Seconds(m.sent + Skew[m.client])
      /\ now - m.sent <= MaxDelay
  BY Arrival
<1>2. PICK x : x = m.sent + Skew[m.client]
  OBVIOUS
<1>3. x \in Nat
  <2>1. MessageOK(m) /\ Start \in Nat /\ Start + Skew[m.client] >= 0
    BY <1>1, ClockAssumption DEF ReceiverInv, SentInv
  <2>2. m.sent >= Start
    BY <2>1 DEF MessageOK
  <2> QED BY <1>1, <1>2, <2>1, <2>2
<1>4. x >= now + Skew[m.client] - MaxDelay
  BY <1>1, <1>2, ClockAssumption DEF ReceiverInv, SentInv
<1> QED BY <1>1, <1>2, <1>3, <1>4, NotRefused

LEMMA ReadNotRefused ==
  ASSUME ClocksAgree, ReceiverInv, TimeInv, rpc > 0, NEW t \in Types
  PROVE  ~Refused(buckets[t], timestamp, NoInterval)
<1>1. timestamp = now /\ now \in Nat /\ MaxDelay \in Nat /\ 0 \in Offsets
  BY OffsetsInt, ClockAssumption DEF TimeInv, ReceiverInv, SentInv
<1>2. now >= now + 0 - MaxDelay
  BY <1>1
<1> QED BY <1>1, <1>2, NotRefused

\* No message and no summary is refused, as long as the clocks of the hosts and the delays
\* are within the shorter window together (stream.py 93-101).
THEOREM NothingRefusedHolds == ASSUME ClocksAgree PROVE ReceiverSpec => []NothingRefused
<1>1. ReceiverInit => NothingRefused
  BY DEF ReceiverInit, NothingRefused
<1>2. ReceiverInv /\ TimeInv /\ NothingRefused /\ [ReceiverNext]_receiverVars => NothingRefused'
  <2> SUFFICES ASSUME ReceiverInv, TimeInv, NothingRefused, [ReceiverNext]_receiverVars
               PROVE  NothingRefused'
    OBVIOUS
  <2>1. CASE UNCHANGED refused
    BY <2>1 DEF NothingRefused
  <2>2. ASSUME NEW m \in network, SetStats(m) PROVE NothingRefused'
    BY <2>1, <2>2, SetStatsStep, StoreNotRefused DEF StoreIs
  <2>3. ASSUME NEW m \in inHand, SetProcessStats(m) PROVE NothingRefused'
    BY <2>1, <2>3, SetProcessStatsStep, StoreNotRefused DEF StoreIs, Types
  <2>4. CASE Summarize
    BY <2>1, <2>4, SummarizeStep, ReadNotRefused DEF ReadIs, ReceiverInv
  <2> QED BY <2>1, <2>2, <2>3, <2>4 DEF ReceiverNext, receiverVars, Tick, Send, Stop, Lose, Read
<1> QED BY <1>1, <1>2, ReceiverInvariant, TimeInvariant, PTL DEF ReceiverSpec

-----------------------------------------------------------------------------
(* What the summary's process count has of what its other sums have. *)

InHand == {m.client : m \in inHand}

\* The process record of a client is no older than the others of it, but for a delay and
\* the truncation to seconds.
Lag == MaxDelay + 1

HasProcess(tb, c, time) ==
  /\ c \in DOMAIN tb.bucket
  /\ tb.bucket[c].timestamp >= time - Lag

\* A client that has a record which no reading of now finds stale has a process record,
\* unless the listener is about to store it; so has every client of a summary's sums.
PairInv ==
  /\ \A t \in Sent : \A c \in DOMAIN buckets[t].bucket :
       LET time == buckets[t].bucket[c].timestamp
       IN  c \in InHand \/ time < now - 8 \/ HasProcess(buckets["process"], c, time)
  /\ \A t \in Sent : \A c \in published[t] : c \in InHand \/ HasProcess(buckets["process"], c, now - 8)
  /\ rpc = 0 => \A t \in Sent : published[t] = {}

LEMMA PairInitInv == ReceiverInit => PairInv
BY DEF ReceiverInit, PairInv, NewBucket, Types

LEMMA OffsetsBound ==
  ASSUME ClocksAgree, NEW a \in Offsets
  PROVE  a \in Int /\ a + Lag <= 9 /\ Lag - a <= 9 /\ Lag \in Nat \ {0} /\ a >= -8
<1>1. a \in Int /\ 0 \in Offsets /\ MaxDelay \in Nat
  BY OffsetsInt, ClockAssumption
<1>2. a - 0 + MaxDelay <= 8 /\ 0 - a + MaxDelay <= 8
  BY <1>1 DEF ClocksAgree, Accept, Interval
<1> QED BY <1>1, <1>2 DEF Lag

\* No access discards a process record that is as new as a summary needs.
LEMMA ProcessStays ==
  ASSUME ClocksAgree, ReceiverInv, NEW a \in Offsets, NEW time \in Nat, time <= now + a,
         NEW c, NEW since \in Int, since >= now - 8, HasProcess(buckets["process"], c, since)
  PROVE  c \in Fresh(buckets["process"], time)
<1> DEFINE r == buckets["process"].bucket[c]
<1>1. c \in DOMAIN buckets["process"].bucket /\ r.timestamp >= since - Lag
  BY DEF HasProcess
<1>2. r.timestamp \in Nat /\ r.interval = KeptFor("process")
  BY <1>1 DEF ReceiverInv, StoredInv, BucketOK, Types
<1>3. a \in Int /\ a + Lag <= 9 /\ Lag \in Nat /\ now \in Nat
  BY OffsetsBound DEF ReceiverInv, SentInv
<1>4. Accept(r.interval) = 12
  BY <1>2, WindowOf
<1> HIDE DEF r
<1>5. ~(r.timestamp < time - 2 * 12)
  BY <1>1, <1>2, <1>3
<1>6. ~Stale(r, time)
  BY <1>4, <1>5 DEF Stale
<1> QED BY <1>1, <1>6 DEF Fresh, r

\* The records of a client are of no later time than its clock's.
LEMMA RecordTime ==
  ASSUME ReceiverInv, NEW t \in Types, NEW c \in DOMAIN buckets[t].bucket
  PROVE  /\ buckets[t].bucket[c].timestamp \in Nat /\ c \in Client /\ Skew[c] \in Int
         /\ buckets[t].bucket[c].timestamp <= now + Skew[c]
<1>1. /\ buckets[t].bucket[c].timestamp \in Nat /\ c \in Client
      /\ buckets[t].bucket[c].timestamp <= lastSent[c] + Skew[c]
  BY DEF ReceiverInv, StoredInv, BucketOK
<1>2. Skew[c] \in Int /\ lastSent[c] \in Nat /\ lastSent[c] <= now /\ now \in Nat
  BY <1>1, ClockAssumption DEF ReceiverInv, SentInv
<1> QED BY <1>1, <1>2

LEMMA SetProcessStatsKeepsPair ==
  ASSUME ClocksAgree, ReceiverInv, TimeInv, PairInv, NEW m \in inHand, SetProcessStats(m)
  PROVE  PairInv'
<1> DEFINE d == m.client
           tb == buckets["process"]
           new == buckets'["process"]
<1>1. /\ inHand = {m} /\ StoreIs("process", m, {}, "process") /\ inHand' = {}
      /\ UNCHANGED <<now, rpc, published>>
  BY SetProcessStatsStep
<1>2. Stored(tb, new, m.time, KeptFor("process"), d) /\ \A t \in Types : t # "process" => buckets'[t] = buckets[t]
  BY <1>1, StoreNotRefused DEF StoreIs, Types
<1>3. /\ d \in Client /\ Skew[d] \in Offsets /\ Skew[d] \in Int /\ m.time \in Nat
      /\ m.time <= now + Skew[d] /\ m.time >= now + Skew[d] - Lag
  BY Arrival, ClockAssumption DEF Lag, ReceiverInv, SentInv
<1>4. now \in Nat /\ Lag \in Nat /\ Skew[d] >= -8
  BY <1>3, OffsetsBound DEF ReceiverInv, SentInv
<1>5. InHand = {d} /\ InHand' = {}
  BY <1>1 DEF InHand
<1>6. ASSUME NEW since \in Int, since <= now + Skew[d] PROVE HasProcess(buckets'["process"], d, since)
  <2>1. d \in DOMAIN new.bucket /\ new.bucket[d].timestamp = m.time
    BY <1>2 DEF Stored
  <2>2. m.time >= since - Lag
    BY <1>3, <1>4, <1>6
  <2> QED BY <2>1, <2>2 DEF HasProcess
<1>7. ASSUME NEW c, c # d, NEW since \in Int, since >= now - 8, HasProcess(buckets["process"], c, since)
      PROVE  HasProcess(buckets'["process"], c, since)
  <2>1. c \in Fresh(tb, m.time)
    BY <1>3, <1>7, ProcessStays
  <2>2. c \in DOMAIN new.bucket /\ new.bucket[c] = tb.bucket[c]
    BY <1>2, <1>7, <2>1 DEF Stored
  <2> QED BY <1>7, <2>2 DEF HasProcess
<1>8. ASSUME NEW t \in Sent, NEW c \in DOMAIN buckets'[t].bucket
      PROVE  LET time == buckets'[t].bucket[c].timestamp
             IN  time < now - 8 \/ HasProcess(buckets'["process"], c, time)
  <2> DEFINE time == buckets[t].bucket[c].timestamp
  <2>1. t \in Types /\ buckets'[t] = buckets[t] /\ c \in DOMAIN buckets[t].bucket
    BY <1>2, <1>8, ClockAssumption DEF Types
  <2>2. c = d \/ time < now - 8 \/ HasProcess(buckets["process"], c, time)
    BY <1>5, <2>1 DEF PairInv
  <2>3. time \in Nat /\ time <= now + Skew[c]
    BY <2>1, RecordTime
  <2>4. CASE c = d
    BY <1>6, <2>1, <2>3, <2>4
  <2>5. CASE c # d
    BY <1>4, <1>7, <2>1, <2>2, <2>3, <2>5
  <2> QED BY <2>4, <2>5
<1>9. ASSUME NEW t \in Sent, NEW c \in published'[t] PROVE HasProcess(buckets'["process"], c, now - 8)
  <2>1. c = d \/ HasProcess(buckets["process"], c, now - 8)
    BY <1>1, <1>5, <1>9 DEF PairInv
  <2>2. now - 8 \in Int /\ now - 8 <= now + Skew[d] /\ now' = now
    BY <1>1, <1>3, <1>4
  <2>3. CASE c = d
    BY <1>6, <2>2, <2>3
  <2>4. CASE c # d
    BY <1>7, <2>1, <2>2, <2>4
  <2> QED BY <2>3, <2>4
<1> QED BY <1>1, <1>8, <1>9 DEF PairInv

LEMMA SummarizeKeepsPair ==
  ASSUME ClocksAgree, ReceiverInv, TimeInv, PairInv, Summarize
  PROVE  PairInv'
<1> DEFINE type == Reads[rpc]
           tb == buckets[type]
           new == buckets'[type]
<1>1. ReadIs(type) /\ UNCHANGED <<now, inHand>> /\ rpc > 0
  BY SummarizeStep DEF ReceiverInv, Summarize, ReadIs
<1>2. timestamp = now /\ now \in Nat /\ type \in Types
  BY <1>1 DEF TimeInv, ReadIs, ReceiverInv, SentInv
<1>3. Accessed(tb, new, now, NoInterval) /\ \A t \in Types : t # type => buckets'[t] = buckets[t]
  BY <1>1, <1>2, ReadNotRefused DEF ReadIs
<1>4. InHand' = InHand
  BY <1>1 DEF InHand
<1>5. ASSUME NEW c, NEW since \in Int, since >= now - 8, HasProcess(buckets["process"], c, since)
      PROVE  HasProcess(buckets'["process"], c, since)
  <2>1. c \in Fresh(buckets["process"], now)
    BY <1>2, <1>5, ProcessStays, OffsetsInt
  <2>2. c \in DOMAIN buckets'["process"].bucket /\ buckets'["process"].bucket[c] = buckets["process"].bucket[c]
    <3>1. CASE type = "process"
      BY <1>3, <2>1, <3>1 DEF Accessed
    <3>2. CASE type # "process"
      BY <1>3, <1>5, <3>2 DEF HasProcess, Types
    <3> QED BY <3>1, <3>2
  <2> QED BY <1>5, <2>2 DEF HasProcess
<1>6. ASSUME NEW t \in Sent, NEW c \in DOMAIN buckets'[t].bucket
      PROVE  LET time == buckets'[t].bucket[c].timestamp
             IN  c \in InHand' \/ time < now' - 8 \/ HasProcess(buckets'["process"], c, time)
  <2> DEFINE time == buckets[t].bucket[c].timestamp
  <2>1. t \in Types /\ c \in DOMAIN buckets[t].bucket /\ buckets'[t].bucket[c] = buckets[t].bucket[c]
    <3>1. CASE t = type
      BY <1>2, <1>3, <3>1 DEF Accessed, Fresh
    <3>2. CASE t # type
      BY <1>3, <3>2 DEF Types
    <3> QED BY <3>1, <3>2
  <2>2. c \in InHand \/ time < now - 8 \/ HasProcess(buckets["process"], c, time)
    BY <2>1 DEF PairInv
  <2>3. time \in Nat
    BY <2>1, RecordTime
  <2> QED BY <1>1, <1>2, <1>4, <1>5, <2>1, <2>2, <2>3
<1>7. ASSUME NEW t \in Sent, NEW c \in published'[t]
      PROVE  c \in InHand' \/ HasProcess(buckets'["process"], c, now - 8)
  <2>1. t \in Types /\ published \in [Types -> SUBSET Client]
    BY DEF Types, ReceiverInv, SummaryInv
  <2>2. c \in published[t] \/ (t = type /\ c \in Fresh(tb, now))
    BY <1>1, <1>2, <1>7, <2>1 DEF ReadIs
  <2>3. CASE c \in published[t]
    <3>1. c \in InHand \/ HasProcess(buckets["process"], c, now - 8)
      BY <2>3 DEF PairInv
    <3>2. now - 8 \in Int /\ now - 8 >= now - 8 /\ now' = now
      BY <1>1, <1>2
    <3> QED BY <1>4, <1>5, <3>1, <3>2
  <2>4. CASE t = type /\ c \in Fresh(tb, now)
    <3> DEFINE r == tb.bucket[c]
    <3>1. c \in DOMAIN tb.bucket /\ ~Stale(r, now)
      BY <2>4 DEF Fresh
    <3>2. r.timestamp \in Nat /\ r.interval = KeptFor(t) /\ t # "process"
      BY <2>1, <2>4, <3>1, ClockAssumption DEF ReceiverInv, StoredInv, BucketOK
    <3>3. r.timestamp >= now - 8
      <4>1. Accept(r.interval) = 4
        BY <3>2, WindowOf
      <4> HIDE DEF r
      <4> QED BY <1>2, <3>1, <3>2, <4>1 DEF Stale
    <3>4. c \in InHand \/ HasProcess(buckets["process"], c, r.timestamp)
      <4>1. c \in InHand \/ r.timestamp < now - 8 \/ HasProcess(buckets["process"], c, r.timestamp)
        BY <2>4, <3>1 DEF PairInv
      <4> HIDE DEF r
      <4> QED BY <1>2, <3>2, <3>3, <4>1
    <3>5. ASSUME HasProcess(buckets["process"], c, r.timestamp) PROVE HasProcess(buckets["process"], c, now - 8)
      <4> HIDE DEF r
      <4>1. Lag \in Nat
        BY ClockAssumption DEF Lag
      <4>2. buckets["process"].bucket[c].timestamp \in Nat
        BY <3>5, RecordTime DEF HasProcess, Types
      <4> QED BY <1>2, <3>2, <3>3, <3>5, <4>1, <4>2 DEF HasProcess
    <3>6. now - 8 \in Int /\ now - 8 >= now - 8 /\ now' = now
      BY <1>1, <1>2
    <3> QED BY <1>4, <1>5, <3>4, <3>5, <3>6
  <2> QED BY <2>2, <2>3, <2>4
<1>8. rpc' = 0 => \A t \in Sent : published'[t] = {}
  <2>1. rpc \in 0..Len(Reads) /\ Len(Reads) \in Nat
    BY ReadsAre DEF ReceiverInv, SummaryInv
  <2> QED BY <1>1, <2>1 DEF ReadIs, Types
<1> QED BY <1>1, <1>6, <1>7, <1>8 DEF PairInv

LEMMA PairNextKeeps ==
  ASSUME ClocksAgree, ReceiverInv, TimeInv, PairInv, [ReceiverNext]_receiverVars
  PROVE  PairInv'
<1> USE DEF clientVars, readerVars
<1>1. CASE UNCHANGED <<now, buckets, inHand, published, rpc>>
  BY <1>1 DEF PairInv, HasProcess, InHand, Lag
<1>2. CASE Tick
  <2>1. UNCHANGED <<buckets, inHand, published, rpc>> /\ rpc = 0 /\ now' = now + 1 /\ now \in Nat
    BY <1>2 DEF Tick, ReceiverInv, SentInv
  <2>2. ASSUME NEW t \in Sent, NEW c \in DOMAIN buckets[t].bucket, buckets[t].bucket[c].timestamp < now - 8
        PROVE  buckets[t].bucket[c].timestamp < now' - 8
    <3>1. buckets[t].bucket[c].timestamp \in Nat
      BY RecordTime DEF Types
    <3> QED BY <2>1, <2>2, <3>1
  <2>3. \A t \in Sent : published[t] = {}
    BY <2>1 DEF PairInv
  <2> QED BY <2>1, <2>2, <2>3 DEF PairInv, HasProcess, InHand, Lag
<1>3. ASSUME NEW m \in network, SetStats(m) PROVE PairInv'
  <2>1. /\ m.type \in Types /\ m.type # "process" /\ StoreIs(m.type, m, {m}, "message")
        /\ inHand = {} /\ UNCHANGED <<now, rpc, published>>
    BY <1>3, SetStatsStep
  <2>2. Stored(buckets[m.type], buckets'[m.type], m.time, KeptFor(m.type), m.client) /\ inHand' = {m}
    BY <2>1, StoreNotRefused DEF StoreIs
  <2>3. InHand' = {m.client} /\ InHand = {}
    BY <2>1, <2>2 DEF InHand
  <2>4. \A c, time : HasProcess(buckets["process"], c, time) => HasProcess(buckets'["process"], c, time)
    BY <2>1 DEF StoreIs, HasProcess, Lag, Types
  <2>5. ASSUME NEW t \in Sent, NEW c \in DOMAIN buckets'[t].bucket, c # m.client
        PROVE  c \in DOMAIN buckets[t].bucket /\ buckets'[t].bucket[c] = buckets[t].bucket[c]
    <3>1. CASE t = m.type
      BY <2>2, <2>5, <3>1 DEF Stored, Fresh
    <3>2. CASE t # m.type
      BY <2>1, <3>2 DEF StoreIs, Types
    <3> QED BY <3>1, <3>2
  <2>6. ASSUME NEW t \in Sent, NEW c \in DOMAIN buckets'[t].bucket
        PROVE  LET time == buckets'[t].bucket[c].timestamp
               IN  c \in InHand' \/ time < now' - 8 \/ HasProcess(buckets'["process"], c, time)
    BY <2>1, <2>3, <2>4, <2>5 DEF PairInv
  <2>7. \A t \in Sent : \A c \in published'[t] : HasProcess(buckets'["process"], c, now' - 8)
    BY <2>1, <2>3, <2>4 DEF PairInv
  <2> QED BY <2>1, <2>6, <2>7 DEF PairInv
<1>4. CASE Read
  BY <1>4 DEF Read, PairInv, HasProcess, InHand, Lag
<1> QED BY <1>1, <1>2, <1>3, <1>4, SetProcessStatsKeepsPair, SummarizeKeepsPair
        DEF ReceiverNext, receiverVars, Send, Stop, Lose

\* Between its storing the two records of a message, the listener is the only reason for a
\* connection record without a process record (receiver.py 66-97).
THEOREM PairInvariant == ASSUME ClocksAgree PROVE ReceiverSpec => []PairInv
BY PairInitInv, PairNextKeeps, ReceiverInvariant, TimeInvariant, PTL DEF ReceiverSpec

\* Every process whose connections a summary adds up is in that summary's process count,
\* but for one the listener is between the two buckets with, if the clocks and the delays
\* are within the shorter window together (receiver.py 66-132).
THEOREM PoolsHaveProcessesHolds == ASSUME ClocksAgree PROVE ReceiverSpec => PoolsHaveProcesses
<1> DEFINE Contained ==
      JustRead("process") /\ rpc' # 0 =>
        UNION {published'[t] : t \in Sent} \subseteq published'["process"] \cup {m.client : m \in inHand}
<1>1. ReceiverInv /\ TimeInv /\ PairInv /\ [ReceiverNext]_receiverVars => Contained
  <2> SUFFICES ASSUME ReceiverInv, TimeInv, PairInv, [ReceiverNext]_receiverVars,
                      JustRead("process"), rpc' # 0,
                      NEW t \in Sent, NEW c \in published'[t], c \notin InHand
               PROVE  c \in published'["process"]
    BY DEF InHand
  <2>1. /\ published' = [published EXCEPT !["process"] = Fresh(buckets["process"], timestamp)]
        /\ ReadIs("process")
    BY JustReadIs
  <2>2. published \in [Types -> SUBSET Client] /\ t # "process" /\ t \in Types /\ "process" \in Types
    BY ClockAssumption DEF ReceiverInv, SummaryInv, Types
  <2>3. HasProcess(buckets["process"], c, now - 8)
    BY <2>1, <2>2 DEF PairInv
  <2>4. timestamp = now /\ now \in Nat
    BY <2>1 DEF ReadIs, TimeInv, ReceiverInv, SentInv
  <2>5. now <= now + 0 /\ 0 \in Offsets /\ now - 8 \in Int /\ now - 8 >= now - 8
    BY <2>4, OffsetsInt
  <2>6. c \in Fresh(buckets["process"], timestamp)
    BY <2>3, <2>4, <2>5, ProcessStays
  <2> QED BY <2>1, <2>2, <2>6
<1> QED BY <1>1, ReceiverInvariant, TimeInvariant, PairInvariant, PTL DEF ReceiverSpec, PoolsHaveProcesses

-----------------------------------------------------------------------------
(* What a summary has of the processes that run. *)

\* Who runs has sent lately; what is under way or in hand is what its client sent last.
PaceInv ==
  /\ \A c \in alive : lastSent[c] > 0 => now - lastSent[c] <= MaxGap
  /\ \A m \in network \cup inHand : m.sent = lastSent[m.client]
  /\ \A p \in heard : lastSent[p[1]] > 0

LEMMA PaceInitInv == ReceiverInit => PaceInv
BY DEF ReceiverInit, PaceInv

\* Nothing of a client is under way when it sends.
LEMMA NothingUnderWay ==
  ASSUME MaxDelay < MinGap, ReceiverInv, TimeInv, PaceInv, NEW c \in Client, Send(c),
         NEW m \in network \cup inHand
  PROVE  m.client # c
<1>1. /\ MessageOK(m) /\ m.sent = lastSent[m.client] /\ now - m.sent <= MaxDelay
  BY DEF ReceiverInv, SentInv, TimeInv, PaceInv
<1>2. /\ m.sent \in Nat /\ m.sent > 0 /\ now \in Nat /\ MaxDelay \in Nat /\ MinGap \in Nat
  BY <1>1, ClockAssumption DEF MessageOK, ReceiverInv, SentInv
<1>3. lastSent[c] = 0 \/ now - lastSent[c] >= MinGap
  BY DEF Send
<1> QED BY <1>1, <1>2, <1>3

LEMMA PaceNextKeeps ==
  ASSUME MaxDelay < MinGap, ReceiverInv, TimeInv, PaceInv, [ReceiverNext]_receiverVars
  PROVE  PaceInv'
<1> USE DEF clientVars, readerVars
<1>0. /\ now \in Nat /\ MaxGap \in Nat /\ lastSent \in [Client -> Nat] /\ alive \subseteq Client
      /\ heard \subseteq Client \X Types /\ \A c \in Client : lastSent[c] <= now
      /\ \A m \in network \cup inHand : m.client \in Client
  BY ClockAssumption DEF ReceiverInv, SentInv, SummaryInv, MessageOK
<1>1. CASE UNCHANGED receiverVars \/ Read \/ Summarize
  BY <1>1 DEF receiverVars, Read, Summarize, PaceInv
<1>2. CASE Tick
  <2>1. \A c \in alive : lastSent[c] > 0 => now' - lastSent[c] <= MaxGap
    BY <1>0, <1>2 DEF Tick, Overdue
  <2> QED BY <1>2, <2>1 DEF Tick, PaceInv
<1>3. ASSUME NEW c \in Client, Send(c) PROVE PaceInv'
  <2>1. lastSent' = [lastSent EXCEPT ![c] = now] /\ UNCHANGED <<now, alive, inHand, heard>> /\ now > 0
    BY <1>3, ClockAssumption DEF Send, ReceiverInv, SentInv
  <2>2. lastSent'[c] = now /\ \A d \in Client : d # c => lastSent'[d] = lastSent[d]
    BY <1>0, <2>1
  <2>3. \A m \in network' \cup inHand' : m \in network \cup inHand \/ (m.client = c /\ m.sent = now)
    BY <1>3 DEF Send
  <2>4. \A m \in network' \cup inHand' : m.sent = lastSent'[m.client]
    BY <1>0, <1>3, <2>2, <2>3, NothingUnderWay DEF PaceInv
  <2>5. \A d \in alive' : lastSent'[d] > 0 => now' - lastSent'[d] <= MaxGap
    BY <1>0, <2>1, <2>2 DEF PaceInv
  <2>6. \A p \in heard' : lastSent'[p[1]] > 0
    <3>1. \A p \in heard : p[1] \in Client
      BY <1>0
    <3> QED BY <2>1, <2>2, <3>1 DEF PaceInv
  <2> QED BY <2>4, <2>5, <2>6 DEF PaceInv
<1>4. ASSUME NEW c \in Client, Stop(c) PROVE PaceInv'
  BY <1>4 DEF Stop, PaceInv
<1>5. ASSUME NEW m \in network, Lose(m) PROVE PaceInv'
  BY <1>5 DEF Lose, PaceInv
<1>6. ASSUME NEW m \in network \cup inHand, NEW type, NEW accepted \in SUBSET {m}, NEW what,
             StoreIs(type, m, accepted, what), network' \subseteq network, UNCHANGED <<now, alive, lastSent>>
      PROVE  PaceInv'
  <2>1. m.client \in Client /\ lastSent[m.client] > 0
    <3>1. MessageOK(m) /\ Start \in Nat \ {0}
      BY ClockAssumption DEF ReceiverInv, SentInv
    <3>2. m.client \in Client /\ lastSent[m.client] \in Nat
      BY <1>0
    <3> QED BY <3>1, <3>2 DEF MessageOK
  <2>2. \A n \in network' \cup inHand' : n \in network \cup inHand
    BY <1>6 DEF StoreIs
  <2>3. \A p \in heard' : p \in heard \/ p = <<m.client, type>>
    BY <1>6 DEF StoreIs
  <2>4. \A p \in heard' : lastSent'[p[1]] > 0
    BY <1>6, <2>1, <2>3 DEF PaceInv
  <2> QED BY <1>6, <2>2, <2>4 DEF PaceInv
<1>7. ASSUME NEW m \in network, SetStats(m) PROVE PaceInv'
  BY <1>6, <1>7, SetStatsStep
<1>8. ASSUME NEW m \in inHand, SetProcessStats(m) PROVE PaceInv'
  BY <1>6, <1>8, SetProcessStatsStep
<1> QED BY <1>1, <1>2, <1>3, <1>4, <1>5, <1>7, <1>8 DEF ReceiverNext

\* Messages come before their client sends the next (client/worker.py 85-98).
THEOREM PaceInvariant == ASSUME MaxDelay < MinGap PROVE ReceiverSpec => []PaceInv
BY PaceInitInv, PaceNextKeeps, ReceiverInvariant, TimeInvariant, PTL DEF ReceiverSpec

Flies(messages, c, t) == \E m \in messages : m.client = c /\ m.type = t

\* The least that the time of a client's last message can be.
LastTime(c) == lastSent[c] + Skew[c] - 1

Since(tb, c, time) == c \in DOMAIN tb.bucket /\ tb.bucket[c].timestamp >= time

\* The record of a client that runs is of its last message, or of the one before while
\* that is under way.
RecentInv ==
  \A c \in alive, t \in Sent :
    <<c, t>> \in heard /\ lost[c][t] = 0 =>
      Since(buckets[t], c, LastTime(c) - (IF Flies(network, c, t) THEN MaxGap ELSE 0))

LEMMA RecentInitInv == ReceiverInit => RecentInv
BY DEF ReceiverInit, RecentInv

\* When a client that runs has sent.
LEMMA LastTimeIs ==
  ASSUME ReceiverInv, TimeInv, PaceInv, NEW c \in alive, NEW t \in Types, <<c, t>> \in heard
  PROVE  /\ c \in Client /\ lastSent[c] \in Nat /\ Skew[c] \in Int /\ LastTime(c) \in Int
         /\ now \in Nat /\ MaxGap \in Nat /\ MaxDelay \in Nat
         /\ LastTime(c) >= now - MaxGap + Skew[c] - 1
         /\ c \in InHand \/ (\E u \in Sent : Flies(network, c, u)) =>
              LastTime(c) >= now - MaxDelay + Skew[c] - 1
<1>1. c \in Client /\ lastSent[c] \in Nat /\ Skew[c] \in Int
  BY ClockAssumption DEF ReceiverInv, SentInv
<1>2. lastSent[c] > 0
  BY DEF PaceInv
<1>3. now \in Nat /\ MaxGap \in Nat /\ MaxDelay \in Nat /\ now - lastSent[c] <= MaxGap
  BY <1>2, ClockAssumption DEF PaceInv, ReceiverInv, SentInv
<1>4. c \in InHand \/ (\E u \in Sent : Flies(network, c, u)) => now - lastSent[c] <= MaxDelay
  BY DEF InHand, Flies, PaceInv, TimeInv
<1>5. LastTime(c) = lastSent[c] + Skew[c] - 1
  BY DEF LastTime
<1> QED BY <1>1, <1>3, <1>4, <1>5

LEMMA RecentStays ==
  ASSUME SentInTime, ReceiverInv, TimeInv, PaceInv, NEW c \in alive, NEW t \in Sent, <<c, t>> \in heard,
         Since(buckets[t], c, LastTime(c) - (IF Flies(network, c, t) THEN MaxGap ELSE 0)),
         NEW a \in Offsets, NEW time \in Nat, time <= now + a
  PROVE  c \in Fresh(buckets[t], time)
<1> DEFINE r == buckets[t].bucket[c]
<1>1. t \in Types /\ t # "process" /\ a \in Int
  BY ClockAssumption, OffsetsInt DEF Types
<1>2. /\ c \in DOMAIN buckets[t].bucket /\ r.timestamp \in Nat /\ r.interval = KeptFor(t)
  BY <1>1 DEF Since, ReceiverInv, StoredInv, BucketOK
<1>3. Accept(r.interval) = 4
  BY <1>1, <1>2, WindowOf
<1>4. /\ c \in Client /\ Skew[c] \in Int /\ LastTime(c) \in Int
      /\ now \in Nat /\ MaxGap \in Nat /\ MaxDelay \in Nat
      /\ LastTime(c) >= now - MaxGap + Skew[c] - 1
      /\ Flies(network, c, t) => LastTime(c) >= now - MaxDelay + Skew[c] - 1
  BY <1>1, LastTimeIs
<1>5. MaxGap + MaxDelay + 1 + a - Skew[c] <= 8
  BY <1>4 DEF SentInTime, Accept, Interval
<1>6. r.timestamp >= LastTime(c) - (IF Flies(network, c, t) THEN MaxGap ELSE 0)
  BY DEF Since
<1> HIDE DEF r
<1>7. ~(r.timestamp < time - 2 * 4)
  BY <1>1, <1>2, <1>4, <1>5, <1>6
<1> QED BY <1>2, <1>3, <1>7 DEF Fresh, Stale, r

LEMMA RecentNextKeeps ==
  ASSUME ClocksAgree, SentInTime, ReceiverInv, TimeInv, PaceInv, RecentInv,
         [ReceiverNext]_receiverVars
  PROVE  RecentInv'
<1> USE DEF clientVars, readerVars
<1>1. CASE UNCHANGED <<alive, lastSent, network, lost, buckets, heard>>
  BY <1>1 DEF RecentInv, LastTime
<1>2. ASSUME NEW c \in Client, Send(c) PROVE RecentInv'
  <2>1. /\ lastSent' = [lastSent EXCEPT ![c] = now] /\ UNCHANGED <<alive, lost, buckets, heard>>
        /\ network' = network \cup
             {[client |-> c, type |-> t, time |-> 2 * Seconds(Clock(c)), sent |-> now] : t \in Sent}
    BY <1>2 DEF Send
  <2>2. lastSent \in [Client -> Nat] /\ alive \subseteq Client
    BY DEF ReceiverInv, SentInv
  <2> SUFFICES ASSUME NEW d \in alive, NEW t \in Sent, <<d, t>> \in heard, lost[d][t] = 0
               PROVE  Since(buckets[t], d, LastTime(d)' - (IF Flies(network', d, t) THEN MaxGap ELSE 0))
    BY <2>1 DEF RecentInv, LastTime
  <2>3. Since(buckets[t], d, LastTime(d) - (IF Flies(network, d, t) THEN MaxGap ELSE 0))
    BY DEF RecentInv
  <2>4. CASE d # c
    <3>1. LastTime(d)' = LastTime(d)
      BY <2>1, <2>2, <2>4 DEF LastTime
    <3>2. Flies(network', d, t) = Flies(network, d, t)
      BY <2>1, <2>4 DEF Flies
    <3> QED BY <2>3, <3>1, <3>2
  <2>5. CASE d = c
    <3>1. ~Flies(network, d, t)
      BY <1>2, <2>5, NothingUnderWay DEF Flies, SentInTime
    <3>2. Flies(network', d, t)
      <4> DEFINE n == [client |-> c, type |-> t, time |-> 2 * Seconds(Clock(c)), sent |-> now]
      <4>1. n \in network' /\ n.client = d /\ n.type = t
        BY <2>1, <2>5
      <4> QED BY <4>1 DEF Flies
    <3>3. LastTime(d)' = now + Skew[d] - 1
      BY <2>1, <2>2, <2>5 DEF LastTime
    <3>4. /\ LastTime(d) >= now - MaxGap + Skew[d] - 1 /\ Skew[d] \in Int /\ now \in Nat
          /\ MaxGap \in Nat /\ LastTime(d) \in Int
      BY LastTimeIs DEF Types
    <3>5. d \in DOMAIN buckets[t].bucket /\ buckets[t].bucket[d].timestamp \in Nat
      BY <2>3, RecordTime DEF Since, Types
    <3>6. buckets[t].bucket[d].timestamp >= LastTime(d)
      BY <2>3, <3>1, <3>4, <3>5 DEF Since
    <3>7. buckets[t].bucket[d].timestamp >= now + Skew[d] - 1 - MaxGap
      BY <3>4, <3>5, <3>6
    <3> QED BY <3>2, <3>3, <3>4, <3>5, <3>7 DEF Since
  <2> QED BY <2>4, <2>5
<1>3. ASSUME NEW c \in Client, Stop(c) PROVE RecentInv'
  BY <1>3 DEF Stop, RecentInv, LastTime
<1>4. ASSUME NEW m \in network, Lose(m) PROVE RecentInv'
  <2>1. /\ network' = network \ {m} /\ lost[m.client][m.type] < MaxLost
        /\ lost' = [lost EXCEPT ![m.client][m.type] = @ + 1]
        /\ UNCHANGED <<alive, lastSent, buckets, heard>>
    BY <1>4 DEF Lose
  <2>2. /\ lost \in [Client -> [Sent -> 0..MaxLost]] /\ m.client \in Client /\ m.type \in Sent
        /\ MaxLost \in Nat /\ alive \subseteq Client
    BY ClockAssumption DEF ReceiverInv, SentInv, MessageOK
  <2>3. ASSUME NEW d \in alive, NEW t \in Sent, lost'[d][t] = 0
        PROVE  ~(d = m.client /\ t = m.type) /\ lost[d][t] = 0
    <3>1. lost'[m.client][m.type] = lost[m.client][m.type] + 1 /\ lost[m.client][m.type] \in Nat
      BY <2>1, <2>2
    <3>2. ~(d = m.client /\ t = m.type)
      BY <2>3, <3>1
    <3> QED BY <2>1, <2>2, <2>3, <3>2
  <2>4. \A d, t : ~(d = m.client /\ t = m.type) => Flies(network', d, t) = Flies(network, d, t)
    BY <2>1 DEF Flies
  <2> QED BY <2>1, <2>3, <2>4 DEF RecentInv, LastTime
<1>5. ASSUME NEW type \in Types, NEW a \in Offsets, NEW time \in Nat, time <= now + a, NEW keys,
             \A c \in Fresh(buckets[type], time) \ keys :
               c \in DOMAIN buckets'[type].bucket /\ buckets'[type].bucket[c] = buckets[type].bucket[c],
             \A u \in Types : u # type => buckets'[u] = buckets[u],
             UNCHANGED <<alive, lastSent>>,
             NEW d \in alive, NEW t \in Sent, <<d, t>> \in heard, lost[d][t] = 0,
             Flies(network', d, t) <=> Flies(network, d, t),
             ~(d \in keys /\ t = type)
      PROVE  Since(buckets'[t], d, LastTime(d)' - (IF Flies(network', d, t) THEN MaxGap ELSE 0))
  <2>1. Since(buckets[t], d, LastTime(d) - (IF Flies(network, d, t) THEN MaxGap ELSE 0))
    BY <1>5 DEF RecentInv
  <2>2. LastTime(d)' = LastTime(d)
    BY <1>5 DEF LastTime
  <2>3. d \in Fresh(buckets[t], time)
    BY <1>5, <2>1, RecentStays
  <2>4. d \in DOMAIN buckets'[t].bucket /\ buckets'[t].bucket[d] = buckets[t].bucket[d]
    <3>1. CASE t = type
      BY <1>5, <2>3, <3>1
    <3>2. CASE t # type
      BY <1>5, <2>1, <3>2 DEF Since, Types
    <3> QED BY <3>1, <3>2
  <2> QED BY <1>5, <2>1, <2>2, <2>4 DEF Since
<1>6. ASSUME NEW m \in network, SetStats(m) PROVE RecentInv'
  <2>1. /\ m.type \in Types /\ m.type \in Sent /\ StoreIs(m.type, m, {m}, "message")
        /\ network' = network \ {m} /\ lost' = [lost EXCEPT ![m.client][m.type] = 0]
        /\ UNCHANGED <<now, alive, lastSent>>
    BY <1>6, SetStatsStep DEF MessageOK
  <2>2. /\ Stored(buckets[m.type], buckets'[m.type], m.time, KeptFor(m.type), m.client)
        /\ heard' = heard \cup {<<m.client, m.type>>}
        /\ \A u \in Types : u # m.type => buckets'[u] = buckets[u]
    BY <2>1, StoreNotRefused DEF StoreIs
  <2>3. /\ m.client \in Client /\ m.time \in Nat /\ Skew[m.client] \in Offsets /\ Skew[m.client] \in Int
        /\ m.time <= now + Skew[m.client] /\ m.time >= LastTime(m.client)
        /\ LastTime(m.client) \in Int
    BY Arrival DEF PaceInv, LastTime
  <2> SUFFICES ASSUME NEW d \in alive, NEW t \in Sent, <<d, t>> \in heard', lost'[d][t] = 0
               PROVE  Since(buckets'[t], d, LastTime(d)' - (IF Flies(network', d, t) THEN MaxGap ELSE 0))
    BY <2>1 DEF RecentInv
  <2>4. CASE d = m.client /\ t = m.type
    <3>1. LastTime(d)' = LastTime(d)
      BY <2>1 DEF LastTime
    <3>2. m.time >= LastTime(d) - (IF Flies(network', d, t) THEN MaxGap ELSE 0)
      BY <2>3, <2>4, ClockAssumption
    <3> QED BY <2>2, <2>4, <3>1, <3>2 DEF Since, Stored
  <2>5. CASE ~(d = m.client /\ t = m.type)
    <3>1. <<d, t>> \in heard
      BY <2>2, <2>5
    <3>2. lost[d][t] = 0
      <4>1. lost \in [Client -> [Sent -> 0..MaxLost]] /\ d \in Client
        BY DEF ReceiverInv, SentInv
      <4> QED BY <2>1, <2>3, <2>5, <4>1
    <3>3. Flies(network', d, t) <=> Flies(network, d, t)
      BY <2>1, <2>5 DEF Flies
    <3>4. \A c \in Fresh(buckets[m.type], m.time) \ {m.client} :
            c \in DOMAIN buckets'[m.type].bucket /\ buckets'[m.type].bucket[c] = buckets[m.type].bucket[c]
      BY <2>2 DEF Stored
    <3>5. ~(d \in {m.client} /\ t = m.type)
      BY <2>5
    <3> QED BY <1>5, <2>1, <2>2, <2>3, <3>1, <3>2, <3>3, <3>4, <3>5
  <2> QED BY <2>4, <2>5
<1>7. ASSUME NEW m \in inHand, SetProcessStats(m) PROVE RecentInv'
  <2>1. /\ StoreIs("process", m, {}, "process")
        /\ UNCHANGED <<alive, lastSent, network, lost>>
    BY <1>7, SetProcessStatsStep
  <2>2. \A t \in Sent : t # "process" /\ t \in Types
    BY ClockAssumption DEF Types
  <2>3. \A t \in Sent : buckets'[t] = buckets[t]
    BY <2>1, <2>2 DEF StoreIs
  <2>4. \A d, t : <<d, t>> \in heard' /\ t \in Sent => <<d, t>> \in heard
    BY <2>1, <2>2 DEF StoreIs
  <2> QED BY <2>1, <2>3, <2>4 DEF RecentInv, LastTime
<1>8. CASE Summarize
  <2> DEFINE type == Reads[rpc]
  <2>1. /\ ReadIs(type) /\ UNCHANGED <<alive, lastSent, network, lost, heard>> /\ rpc > 0
        /\ type \in Types
    BY <1>8, SummarizeStep DEF ReceiverInv, Summarize, ReadIs
  <2>2. timestamp = now /\ now \in Nat /\ now <= now + 0 /\ 0 \in Offsets
    BY <2>1, OffsetsInt DEF TimeInv, ReceiverInv, SentInv
  <2>3. Accessed(buckets[type], buckets'[type], now, NoInterval) /\ \A u \in Types : u # type => buckets'[u] = buckets[u]
    BY <2>1, <2>2, ReadNotRefused DEF ReadIs
  <2>5. \A c \in Fresh(buckets[type], now) \ {} :
          c \in DOMAIN buckets'[type].bucket /\ buckets'[type].bucket[c] = buckets[type].bucket[c]
    BY <2>3 DEF Accessed
  <2> HIDE DEF type
  <2>6. ASSUME NEW d \in alive, NEW t \in Sent, <<d, t>> \in heard, lost[d][t] = 0
        PROVE  Since(buckets'[t], d, LastTime(d)' - (IF Flies(network', d, t) THEN MaxGap ELSE 0))
    <3>1. Flies(network', d, t) <=> Flies(network, d, t)
      BY <2>1
    <3>2. Since(buckets[t], d, LastTime(d) - (IF Flies(network, d, t) THEN MaxGap ELSE 0))
      BY <2>6 DEF RecentInv
    <3>3. LastTime(d)' = LastTime(d)
      BY <2>1 DEF LastTime
    <3>4. d \in Fresh(buckets[t], now)
      BY <2>2, <2>6, <3>2, RecentStays
    <3>5. d \in DOMAIN buckets'[t].bucket /\ buckets'[t].bucket[d] = buckets[t].bucket[d]
      <4>1. CASE t = type
        BY <2>5, <3>4, <4>1
      <4>2. CASE t # type
        BY <2>3, <3>2, <4>2 DEF Since, Types
      <4> QED BY <4>1, <4>2
    <3> QED BY <3>1, <3>2, <3>3, <3>5 DEF Since
  <2> QED BY <2>1, <2>6 DEF RecentInv
<1> QED BY <1>1, <1>2, <1>3, <1>4, <1>6, <1>7, <1>8 DEF ReceiverNext, receiverVars, Tick, Read

\* The record of a process that runs is never older than the window, unless its latest
\* messages were lost (receiver.py 66-80).
THEOREM RecentInvariant ==
  ASSUME ClocksAgree, SentInTime PROVE ReceiverSpec => []RecentInv
<1>1. MaxDelay < MinGap
  BY DEF SentInTime
<1> QED BY <1>1, RecentInitInv, RecentNextKeeps, ReceiverInvariant, TimeInvariant, PaceInvariant,
           PTL DEF ReceiverSpec

\* The connections of a process that runs are in every summary once it was heard of, unless
\* its latest message was lost, if clocks, delays and the gaps between the messages of a
\* process are within the shorter window (receiver.py 66-80).
THEOREM LiveCountedHolds ==
  ASSUME ClocksAgree, SentInTime PROVE ReceiverSpec => LiveCounted
<1> DEFINE Counted ==
      \A c \in alive, t \in Sent :
        JustRead(t) /\ <<c, t>> \in heard /\ lost[c][t] = 0 => c \in published'[t]
<1>0. MaxDelay < MinGap
  BY DEF SentInTime
<1>1. ReceiverInv /\ TimeInv /\ PaceInv /\ RecentInv /\ [ReceiverNext]_receiverVars => Counted
  <2> SUFFICES ASSUME ReceiverInv, TimeInv, PaceInv, RecentInv, [ReceiverNext]_receiverVars,
                      NEW c \in alive, NEW t \in Sent, JustRead(t), <<c, t>> \in heard, lost[c][t] = 0
               PROVE  c \in published'[t]
    OBVIOUS
  <2>1. t # "process" /\ t \in Types
    BY ClockAssumption DEF Types
  <2>2. ReadIs(t) /\ published' = [published EXCEPT ![t] = Fresh(buckets[t], timestamp)]
    BY <2>1, JustReadIs
  <2>3. timestamp = now /\ now \in Nat /\ now <= now + 0 /\ 0 \in Offsets
    BY <2>2, OffsetsInt DEF ReadIs, TimeInv, ReceiverInv, SentInv
  <2>4. Since(buckets[t], c, LastTime(c) - (IF Flies(network, c, t) THEN MaxGap ELSE 0))
    BY DEF RecentInv
  <2>5. c \in Fresh(buckets[t], timestamp)
    BY <2>3, <2>4, RecentStays
  <2>6. published \in [Types -> SUBSET Client]
    BY DEF ReceiverInv, SummaryInv
  <2> QED BY <2>1, <2>2, <2>5, <2>6
<1> QED BY <1>0, <1>1, ReceiverInvariant, TimeInvariant, PaceInvariant, RecentInvariant, PTL
        DEF ReceiverSpec, LiveCounted

-----------------------------------------------------------------------------
(* Losses within the longer window. *)

\* How far behind its client's last message a record is after so many that did not come.
Slip(messages) == messages * MaxGap

Missing(c, t) == lost[c][t] + (IF Flies(network, c, t) THEN 1 ELSE 0)

\* The process record of a client that runs is as old as the messages of a type that did not
\* come since explain, for each type there is; while the listener is about to renew it,
\* as old as the losses in a row allow.
ProcessInv ==
  \A c \in alive :
    <<c, "process">> \in heard =>
      /\ Since(buckets["process"], c, LastTime(c) - Slip(MaxLost + 1))
      /\ c \in InHand \/ \A t \in Sent : Since(buckets["process"], c, LastTime(c) - Slip(Missing(c, t)))

LEMMA ProcessInitInv == ReceiverInit => ProcessInv
BY DEF ReceiverInit, ProcessInv

LEMMA SlipIs ==
  /\ \A n \in 0..MaxLost + 1 : Slip(n) \in Nat /\ Slip(n) <= Slip(MaxLost + 1)
  /\ \A n \in 0..MaxLost : Slip(n + 1) = Slip(n) + MaxGap
<1>1. MaxLost \in Nat /\ MaxGap \in Nat
  BY ClockAssumption
<1>2. \A n \in Nat : n * MaxGap \in Nat /\ (n + 1) * MaxGap = n * MaxGap + MaxGap
  BY <1>1
<1>3. ASSUME NEW n \in 0..MaxLost + 1 PROVE Slip(n) <= Slip(MaxLost + 1)
  <2>1. PICK k \in Nat : MaxLost + 1 = n + k
    <3>1. MaxLost + 1 - n \in Nat /\ MaxLost + 1 = n + (MaxLost + 1 - n)
      BY <1>1, <1>3
    <3> QED BY <3>1
  <2>2. (n + k) * MaxGap = n * MaxGap + k * MaxGap /\ k * MaxGap \in Nat /\ n * MaxGap \in Nat
    BY <1>1, <1>2, <1>3
  <2> QED BY <2>1, <2>2 DEF Slip
<1> QED BY <1>1, <1>2, <1>3 DEF Slip

LEMMA MissingIs ==
  ASSUME ReceiverInv, NEW c \in Client, NEW t \in Sent
  PROVE  /\ Missing(c, t) \in 0..MaxLost + 1 /\ Slip(Missing(c, t)) \in Nat
         /\ Slip(Missing(c, t)) <= Slip(MaxLost + 1)
         /\ ~Flies(network, c, t) => Missing(c, t) = lost[c][t] /\ lost[c][t] \in 0..MaxLost
                                     /\ Slip(Missing(c, t)) + MaxGap <= Slip(MaxLost + 1)
<1>1. lost[c][t] \in 0..MaxLost /\ MaxLost \in Nat /\ MaxGap \in Nat
  BY ClockAssumption DEF ReceiverInv, SentInv
<1>2. Missing(c, t) \in 0..MaxLost + 1
  BY <1>1 DEF Missing
<1>3. CASE Flies(network, c, t)
  BY <1>2, <1>3, SlipIs
<1>4. CASE ~Flies(network, c, t)
  <2>1. Missing(c, t) = lost[c][t]
    BY <1>1, <1>4 DEF Missing
  <2>2. lost[c][t] + 1 \in 0..MaxLost + 1
    BY <1>1
  <2> QED BY <1>1, <1>2, <2>1, <2>2, SlipIs
<1> QED BY <1>3, <1>4

\* No access discards the process record of a client that runs.
LEMMA ProcessRecordStays ==
  ASSUME SentInTimeThoughLost, ReceiverInv, TimeInv, PaceInv, ProcessInv,
         NEW c \in alive, <<c, "process">> \in heard,
         NEW a \in Offsets, NEW time \in Nat, time <= now + a
  PROVE  c \in Fresh(buckets["process"], time)
<1> DEFINE r == buckets["process"].bucket[c]
           slack == Slip(MaxLost + 1)
<1>1. "process" \in Types /\ a \in Int /\ slack \in Nat
  BY OffsetsInt, SlipIs, ClockAssumption DEF Types
<1>2. Since(buckets["process"], c, LastTime(c) - slack)
  BY DEF ProcessInv
<1>3. /\ c \in DOMAIN buckets["process"].bucket /\ r.timestamp \in Nat /\ r.interval = KeptFor("process")
      /\ r.timestamp >= LastTime(c) - slack
  BY <1>1, <1>2 DEF Since, ReceiverInv, StoredInv, BucketOK
<1>4. Accept(r.interval) = 12
  BY <1>3, WindowOf
<1>5. /\ c \in Client /\ Skew[c] \in Int /\ LastTime(c) \in Int
      /\ now \in Nat /\ MaxGap \in Nat /\ MaxDelay \in Nat
      /\ LastTime(c) >= now - MaxGap + Skew[c] - 1
      /\ c \in InHand \/ (\E u \in Sent : Flies(network, c, u)) => LastTime(c) >= now - MaxDelay + Skew[c] - 1
  BY <1>1, LastTimeIs
<1>6. slack + MaxDelay + 1 + a - Skew[c] <= 24
  BY <1>5 DEF SentInTimeThoughLost, Slip, Accept, Interval
<1>7. r.timestamp >= now - MaxDelay + Skew[c] - 1 - slack
  <2>1. CASE c \in InHand \/ (\E u \in Sent : Flies(network, c, u))
    BY <1>1, <1>3, <1>5, <2>1
  <2>2. CASE c \notin InHand /\ ~(\E u \in Sent : Flies(network, c, u))
    <3>1. PICK t \in Sent : TRUE
      BY ClockAssumption
    <3>2. Slip(Missing(c, t)) \in Nat /\ Slip(Missing(c, t)) + MaxGap <= slack
      BY <1>5, <2>2, <3>1, MissingIs
    <3>3. r.timestamp >= LastTime(c) - Slip(Missing(c, t))
      BY <2>2, <3>1 DEF ProcessInv, Since
    <3> QED BY <1>1, <1>3, <1>5, <3>2, <3>3
  <2> QED BY <2>1, <2>2
<1> HIDE DEF r, slack
<1>8. ~(r.timestamp < time - 2 * 12)
  BY <1>1, <1>3, <1>5, <1>6, <1>7
<1>9. ~Stale(r, time)
  BY <1>4, <1>8 DEF Stale
<1> QED BY <1>3, <1>9 DEF Fresh, r

\* A client sends: what it sent before has come or is lost.
LEMMA SendKeepsProcess ==
  ASSUME SentInTimeThoughLost, ReceiverInv, TimeInv, PaceInv, ProcessInv, NEW c \in Client, Send(c)
  PROVE  ProcessInv'
<1>1. /\ lastSent' = [lastSent EXCEPT ![c] = now] /\ UNCHANGED <<alive, lost, buckets, heard, inHand>>
      /\ network' = network \cup
           {[client |-> c, type |-> t, time |-> 2 * Seconds(Clock(c)), sent |-> now] : t \in Sent}
  BY DEF Send
<1>2. lastSent \in [Client -> Nat] /\ alive \subseteq Client /\ lost \in [Client -> [Sent -> 0..MaxLost]]
  BY DEF ReceiverInv, SentInv
<1>3. InHand' = InHand
  BY <1>1 DEF InHand
<1> SUFFICES ASSUME NEW d \in alive, <<d, "process">> \in heard
             PROVE  /\ Since(buckets["process"], d, LastTime(d)' - Slip(MaxLost + 1))
                    /\ d \in InHand \/ \A t \in Sent :
                         Since(buckets["process"], d, LastTime(d)' - Slip(Missing(d, t)'))
  BY <1>1, <1>3 DEF ProcessInv, LastTime
<1>4. CASE d # c
  <2>1. LastTime(d)' = LastTime(d)
    BY <1>1, <1>2, <1>4 DEF LastTime
  <2>2. \A t : Flies(network', d, t) <=> Flies(network, d, t)
    BY <1>1, <1>4 DEF Flies
  <2>3. \A t : Missing(d, t)' = Missing(d, t)
    BY <1>1, <2>2 DEF Missing
  <2> QED BY <2>1, <2>3 DEF ProcessInv
<1>5. CASE d = c
  <2> DEFINE time == buckets["process"].bucket[d].timestamp
  <2>1. \A t : ~Flies(network, d, t)
    BY <1>5, NothingUnderWay DEF Flies, SentInTimeThoughLost
  <2>2. d \notin InHand
    BY <1>5, NothingUnderWay DEF InHand, SentInTimeThoughLost
  <2>3. LastTime(d)' = now + Skew[d] - 1
    BY <1>1, <1>2, <1>5 DEF LastTime
  <2>4. /\ LastTime(d) >= now - MaxGap + Skew[d] - 1 /\ Skew[d] \in Int /\ now \in Nat
        /\ MaxGap \in Nat /\ LastTime(d) \in Int
    BY LastTimeIs DEF Types
  <2>5. d \in DOMAIN buckets["process"].bucket /\ time \in Nat
    BY RecordTime DEF ProcessInv, Since, Types
  <2>6. ASSUME NEW t \in Sent
        PROVE  /\ Slip(Missing(d, t)') \in Nat /\ Slip(Missing(d, t)') <= Slip(MaxLost + 1)
               /\ time >= LastTime(d)' - Slip(Missing(d, t)')
    <3>1. Flies(network', d, t)
      <4> DEFINE n == [client |-> c, type |-> t, time |-> 2 * Seconds(Clock(c)), sent |-> now]
      <4>1. n \in network' /\ n.client = d /\ n.type = t
        BY <1>1, <1>5
      <4> QED BY <4>1 DEF Flies
    <3>2. lost[d][t] \in 0..MaxLost /\ lost'[d][t] = lost[d][t]
      BY <1>1, <1>2
    <3>3. Missing(d, t) = lost[d][t]
      BY <2>1, <3>2 DEF Missing
    <3>4. Missing(d, t)' = lost[d][t] + 1
      BY <3>1, <3>2 DEF Missing
    <3>5. /\ Slip(lost[d][t] + 1) = Slip(lost[d][t]) + MaxGap
          /\ Slip(lost[d][t]) \in Nat /\ Slip(lost[d][t] + 1) \in Nat
          /\ Slip(lost[d][t] + 1) <= Slip(MaxLost + 1)
      <4>1. lost[d][t] + 1 \in 0..MaxLost + 1 /\ lost[d][t] \in 0..MaxLost + 1
        BY <3>2, ClockAssumption
      <4> QED BY <3>2, <4>1, SlipIs
    <3>6. time >= LastTime(d) - Slip(lost[d][t])
      BY <2>2, <3>3 DEF ProcessInv, Since
    <3>7. time >= now + Skew[d] - 1 - (Slip(lost[d][t]) + MaxGap)
      BY <2>4, <2>5, <3>5, <3>6
    <3> QED BY <2>3, <2>4, <2>5, <3>4, <3>5, <3>7
  <2>7. LastTime(d)' \in Int /\ Slip(MaxLost + 1) \in Nat
    BY <2>3, <2>4, SlipIs, ClockAssumption
  <2>8. PICK t \in Sent : TRUE
    BY ClockAssumption
  <2>9. time >= LastTime(d)' - Slip(MaxLost + 1)
    BY <2>5, <2>6, <2>7, <2>8
  <2> QED BY <2>5, <2>6, <2>9 DEF Since
<1> QED BY <1>4, <1>5

\* A message is lost: one that was under way is one more lost.
LEMMA LoseKeepsProcess ==
  ASSUME ReceiverInv, ProcessInv, NEW m \in network, Lose(m)
  PROVE  ProcessInv'
<1> USE DEF clientVars
<1>1. /\ network' = network \ {m} /\ lost' = [lost EXCEPT ![m.client][m.type] = @ + 1]
      /\ lost[m.client][m.type] < MaxLost /\ UNCHANGED <<alive, lastSent, buckets, heard, inHand>>
  BY DEF Lose
<1>2. /\ lost \in [Client -> [Sent -> 0..MaxLost]] /\ m.client \in Client /\ m.type \in Sent
      /\ MaxLost \in Nat /\ alive \subseteq Client
  BY ClockAssumption DEF ReceiverInv, SentInv, MessageOK
<1>3. InHand' = InHand /\ \A d : LastTime(d)' = LastTime(d)
  BY <1>1 DEF InHand, LastTime
<1> SUFFICES ASSUME NEW d \in alive, <<d, "process">> \in heard, d \notin InHand, NEW t \in Sent
             PROVE  Since(buckets["process"], d, LastTime(d) - Slip(Missing(d, t)'))
  BY <1>1, <1>3 DEF ProcessInv
<1>4. Since(buckets["process"], d, LastTime(d) - Slip(Missing(d, t)))
  BY DEF ProcessInv
<1>5. CASE ~(d = m.client /\ t = m.type)
  <2>1. lost'[d][t] = lost[d][t]
    BY <1>1, <1>2, <1>5
  <2>2. Flies(network', d, t) <=> Flies(network, d, t)
    BY <1>1, <1>5 DEF Flies
  <2>3. Missing(d, t)' = Missing(d, t)
    BY <2>1, <2>2 DEF Missing
  <2> QED BY <1>4, <2>3
<1>6. CASE d = m.client /\ t = m.type
  <2>1. lost'[d][t] = lost[d][t] + 1 /\ lost[d][t] \in 0..MaxLost
    BY <1>1, <1>2, <1>6
  <2>2. Flies(network, d, t)
    BY <1>6 DEF Flies
  <2>3. Missing(d, t) = lost[d][t] + 1
    BY <2>1, <2>2 DEF Missing
  <2>4. Missing(d, t)' = lost[d][t] + 1 \/ Missing(d, t)' = lost[d][t] + 2
    BY <2>1 DEF Missing
  <2>5. lost[d][t] + 1 \in 0..MaxLost /\ lost[d][t] + 2 = (lost[d][t] + 1) + 1
    BY <1>1, <1>2, <1>6, <2>1
  <2>6. /\ Slip(lost[d][t] + 2) = Slip(lost[d][t] + 1) + MaxGap
        /\ Slip(lost[d][t] + 1) \in Nat /\ MaxGap \in Nat
    <3>1. lost[d][t] + 1 \in 0..MaxLost + 1
      BY <1>2, <2>5
    <3> QED BY <2>5, <3>1, SlipIs, ClockAssumption
  <2>7. Slip(Missing(d, t)') \in Nat /\ Slip(Missing(d, t)') >= Slip(Missing(d, t))
    BY <2>3, <2>4, <2>6
  <2>8. /\ d \in DOMAIN buckets["process"].bucket /\ buckets["process"].bucket[d].timestamp \in Nat
        /\ LastTime(d) \in Int
    <3>1. lastSent[d] \in Nat /\ Skew[d] \in Int /\ "process" \in Types
      BY <1>2, ClockAssumption DEF ReceiverInv, SentInv, Types
    <3> QED BY <1>4, <3>1, RecordTime DEF Since, LastTime
  <2>9. Slip(Missing(d, t)) \in Nat
    BY <2>3, <2>6
  <2> QED BY <1>4, <2>7, <2>8, <2>9 DEF Since
<1> QED BY <1>5, <1>6

LEMMA ProcessNextKeeps ==
  ASSUME ClocksAgree, SentInTimeThoughLost, ReceiverInv, TimeInv, PaceInv, ProcessInv,
         [ReceiverNext]_receiverVars
  PROVE  ProcessInv'
<1> USE DEF clientVars, readerVars
<1>1. ASSUME UNCHANGED <<lastSent, network, lost, heard, inHand, buckets>>, alive' \subseteq alive
      PROVE  ProcessInv'
  <2>1. InHand' = InHand /\ \A d : LastTime(d)' = LastTime(d) /\ \A t : Missing(d, t)' = Missing(d, t)
    BY <1>1 DEF InHand, LastTime, Missing
  <2> QED BY <1>1, <2>1 DEF ProcessInv
<1>2. CASE UNCHANGED receiverVars \/ Tick \/ Read
  BY <1>1, <1>2 DEF receiverVars, Tick, Read
<1>3. ASSUME NEW c \in Client, Send(c) PROVE ProcessInv'
  BY <1>3, SendKeepsProcess
<1>4. ASSUME NEW c \in Client, Stop(c) PROVE ProcessInv'
  BY <1>1, <1>4 DEF Stop
<1>5. ASSUME NEW m \in network, Lose(m) PROVE ProcessInv'
  BY <1>5, LoseKeepsProcess
<1>6. ASSUME NEW m \in network, SetStats(m) PROVE ProcessInv'
  <2>1. /\ m.type \in Types /\ m.type # "process" /\ StoreIs(m.type, m, {m}, "message")
        /\ inHand = {} /\ network' = network \ {m} /\ lost' = [lost EXCEPT ![m.client][m.type] = 0]
        /\ UNCHANGED <<alive, lastSent>> /\ MessageOK(m)
    BY <1>6, SetStatsStep
  <2>2. /\ heard' = heard \cup {<<m.client, m.type>>} /\ inHand' = {m}
        /\ buckets'["process"] = buckets["process"]
    BY <2>1, StoreNotRefused DEF StoreIs, Types
  <2>3. InHand = {} /\ InHand' = {m.client} /\ \A d : LastTime(d)' = LastTime(d)
    BY <2>1, <2>2 DEF InHand, LastTime
  <2>4. ASSUME NEW d \in alive, d # m.client, NEW t \in Sent PROVE Missing(d, t)' = Missing(d, t)
    <3>1. lost'[d][t] = lost[d][t]
      BY <2>1, <2>4 DEF ReceiverInv, SentInv
    <3>2. Flies(network', d, t) <=> Flies(network, d, t)
      BY <2>1, <2>4 DEF Flies
    <3> QED BY <3>1, <3>2 DEF Missing
  <2>5. \A d : <<d, "process">> \in heard' => <<d, "process">> \in heard
    BY <2>1, <2>2
  <2> QED BY <2>1, <2>2, <2>3, <2>4, <2>5 DEF ProcessInv
<1>7. ASSUME NEW type \in Types, NEW a \in Offsets, NEW time \in Nat, time <= now + a,
             NEW d \in alive, <<d, "process">> \in heard,
             type = "process" /\ d \in Fresh(buckets[type], time) =>
               d \in DOMAIN buckets'[type].bucket /\ buckets'[type].bucket[d] = buckets[type].bucket[d],
             \A u \in Types : u # type => buckets'[u] = buckets[u]
      PROVE  \A since : Since(buckets["process"], d, since) => Since(buckets'["process"], d, since)
  <2>1. d \in Fresh(buckets["process"], time)
    BY <1>7, ProcessRecordStays
  <2> QED BY <1>7, <2>1 DEF Since, Types
<1>8. ASSUME NEW m \in inHand, SetProcessStats(m) PROVE ProcessInv'
  <2>1. /\ StoreIs("process", m, {}, "process") /\ inHand = {m} /\ inHand' = {}
        /\ UNCHANGED <<alive, lastSent, network, lost>>
    BY <1>8, SetProcessStatsStep
  <2>2. /\ Stored(buckets["process"], buckets'["process"], m.time, KeptFor("process"), m.client)
        /\ heard' = heard \cup {<<m.client, "process">>}
        /\ \A u \in Types : u # "process" => buckets'[u] = buckets[u]
    BY <2>1, StoreNotRefused DEF StoreIs, Types
  <2>3. /\ m.client \in Client /\ m.time \in Nat /\ Skew[m.client] \in Offsets
        /\ m.time <= now + Skew[m.client] /\ m.time >= LastTime(m.client) /\ LastTime(m.client) \in Int
    BY Arrival DEF PaceInv, LastTime
  <2>4. InHand = {m.client} /\ \A d : LastTime(d)' = LastTime(d) /\ \A t : Missing(d, t)' = Missing(d, t)
    BY <2>1 DEF InHand, LastTime, Missing
  <2> SUFFICES ASSUME NEW d \in alive, <<d, "process">> \in heard'
               PROVE  /\ Since(buckets'["process"], d, LastTime(d) - Slip(MaxLost + 1))
                      /\ \A t \in Sent : Since(buckets'["process"], d, LastTime(d) - Slip(Missing(d, t)))
    BY <2>1, <2>4 DEF ProcessInv
  <2>5. CASE d = m.client
    <3>1. \A n \in Nat : m.time >= LastTime(d) - n
      BY <2>3, <2>5
    <3>2. \A n \in Nat : Since(buckets'["process"], d, LastTime(d) - n)
      BY <2>2, <2>5, <3>1 DEF Since, Stored
    <3>3. Slip(MaxLost + 1) \in Nat /\ \A t \in Sent : Slip(Missing(d, t)) \in Nat
      BY <2>3, <2>5, MissingIs, SlipIs, ClockAssumption
    <3> QED BY <3>2, <3>3
  <2>6. CASE d # m.client
    <3>1. <<d, "process">> \in heard /\ d \notin InHand
      BY <2>2, <2>4, <2>6
    <3>2. d \in Fresh(buckets["process"], m.time) =>
            d \in DOMAIN buckets'["process"].bucket
              /\ buckets'["process"].bucket[d] = buckets["process"].bucket[d]
      BY <2>2, <2>6 DEF Stored
    <3>3. \A since : Since(buckets["process"], d, since) => Since(buckets'["process"], d, since)
      BY <1>7, <2>2, <2>3, <3>1, <3>2 DEF Types
    <3> QED BY <3>1, <3>3 DEF ProcessInv
  <2> QED BY <2>5, <2>6
<1>9. CASE Summarize
  <2> DEFINE type == Reads[rpc]
  <2>1. /\ ReadIs(type) /\ UNCHANGED <<alive, lastSent, network, lost, heard, inHand>> /\ rpc > 0
        /\ type \in Types
    BY <1>9, SummarizeStep DEF ReceiverInv, Summarize, ReadIs
  <2>2. timestamp = now /\ now \in Nat /\ now <= now + 0 /\ 0 \in Offsets
    BY <2>1, OffsetsInt DEF TimeInv, ReceiverInv, SentInv
  <2>3. Accessed(buckets[type], buckets'[type], now, NoInterval) /\ \A u \in Types : u # type => buckets'[u] = buckets[u]
    BY <2>1, <2>2, ReadNotRefused DEF ReadIs
  <2>4. InHand' = InHand /\ \A d : LastTime(d)' = LastTime(d) /\ \A t : Missing(d, t)' = Missing(d, t)
    BY <2>1 DEF InHand, LastTime, Missing
  <2> HIDE DEF type
  <2>5. ASSUME NEW d \in alive, <<d, "process">> \in heard
        PROVE  \A since : Since(buckets["process"], d, since) => Since(buckets'["process"], d, since)
    <3>1. d \in Fresh(buckets[type], now) =>
            d \in DOMAIN buckets'[type].bucket /\ buckets'[type].bucket[d] = buckets[type].bucket[d]
      BY <2>3 DEF Accessed
    <3> QED BY <1>7, <2>1, <2>2, <2>3, <2>5, <3>1
  <2> QED BY <2>1, <2>4, <2>5 DEF ProcessInv
<1> QED BY <1>2, <1>3, <1>4, <1>5, <1>6, <1>8, <1>9 DEF ReceiverNext

\* The process record of a process that runs is never older than the longer window, however
\* its messages are lost, so long as not too many are in a row (receiver.py 82-97).
THEOREM ProcessInvariant ==
  ASSUME ClocksAgree, SentInTimeThoughLost PROVE ReceiverSpec => []ProcessInv
<1>1. MaxDelay < MinGap
  BY DEF SentInTimeThoughLost
<1> QED BY <1>1, ProcessInitInv, ProcessNextKeeps, ReceiverInvariant, TimeInvariant, PaceInvariant,
           PTL DEF ReceiverSpec

\* A process that runs and was heard of is in every summary's process count, losses
\* included, if clocks, delays and the gap that the losses in a row make are within the
\* longer window (receiver.py 82-97).
THEOREM LiveProcessCountedHolds ==
  ASSUME ClocksAgree, SentInTimeThoughLost PROVE ReceiverSpec => LiveProcessCounted
<1> DEFINE Counted ==
      \A c \in alive :
        JustRead("process") /\ rpc' # 0 /\ <<c, "process">> \in heard => c \in published'["process"]
<1>0. MaxDelay < MinGap
  BY DEF SentInTimeThoughLost
<1>1. ReceiverInv /\ TimeInv /\ PaceInv /\ ProcessInv /\ [ReceiverNext]_receiverVars => Counted
  <2> SUFFICES ASSUME ReceiverInv, TimeInv, PaceInv, ProcessInv, [ReceiverNext]_receiverVars,
                      NEW c \in alive, JustRead("process"), rpc' # 0, <<c, "process">> \in heard
               PROVE  c \in published'["process"]
    OBVIOUS
  <2>1. /\ ReadIs("process")
        /\ published' = [published EXCEPT !["process"] = Fresh(buckets["process"], timestamp)]
    BY JustReadIs
  <2>2. timestamp = now /\ now \in Nat /\ now <= now + 0 /\ 0 \in Offsets
    BY <2>1, OffsetsInt DEF ReadIs, TimeInv, ReceiverInv, SentInv
  <2>3. c \in Fresh(buckets["process"], timestamp)
    BY <2>2, ProcessRecordStays
  <2>4. published \in [Types -> SUBSET Client] /\ "process" \in Types
    BY DEF ReceiverInv, SummaryInv, Types
  <2> QED BY <2>1, <2>3, <2>4
<1> QED BY <1>0, <1>1, ReceiverInvariant, TimeInvariant, PaceInvariant, ProcessInvariant, PTL
        DEF ReceiverSpec, LiveProcessCounted
=============================================================================
