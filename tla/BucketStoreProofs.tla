-------------------------- MODULE BucketStoreProofs --------------------------
(***************************************************************************)
(* What the docstring of stream.TimeBucket promises, proved for every set  *)
(* of keys, values, timestamps and intervals.  The windows are never       *)
(* looked into: any function from intervals to numbers would do.           *)
(***************************************************************************)
EXTENDS BucketStore, TLAPS

\* A window is a number of whole seconds (stream.py 91).
LEMMA AcceptNat == ASSUME NEW interval \in Nat PROVE Accept(interval) \in Nat
BY DEF Accept

\* The comparison of stream.py 104 with its subtraction moved to the other side.
LEMMA BeforeWindow ==
  ASSUME NEW record \in Nat, NEW window \in Nat, NEW time \in Nat, record < time - 2 * window
  PROVE  record + 2 * window < time
OBVIOUS

\* An access returns the records that are not stale, unchanged.
LEMMA AccessBucket ==
  ASSUME NEW timestamp, NEW interval
  PROVE  LET access == Access(tb, timestamp, interval)
         IN  /\ DOMAIN access.bucket = Fresh(tb, timestamp)
             /\ \A k \in DOMAIN access.bucket : access.bucket[k] = tb.bucket[k]
             /\ access.last_timestamp = timestamp
             /\ access.last_interval = LastInterval(tb, interval)
BY DEF Access

\* Setting an item changes that key only.
LEMMA SetItemBucket ==
  ASSUME NEW timestamp, NEW interval, NEW key, NEW value
  PROVE  LET access == Access(tb, timestamp, interval)
             set == SetItem(access, timestamp, interval, key, value)
         IN  /\ DOMAIN set.bucket = Fresh(tb, timestamp) \cup {key}
             /\ set.bucket[key] = [timestamp |-> timestamp, interval |-> interval, value |-> value]
             /\ \A k \in Fresh(tb, timestamp) \ {key} : set.bucket[k] = tb.bucket[k]
             /\ set.last_timestamp = timestamp
             /\ set.last_interval = LastInterval(tb, interval)
             /\ DOMAIN set = {"bucket", "last_timestamp", "last_interval"}
BY AccessBucket DEF Access, SetItem

-----------------------------------------------------------------------------
\* The bucket holds records of the keys and times it was given, whatever the
\* order of the accesses (stream.py 85-119).
THEOREM StoreTypeCorrect == StoreSpec => []StoreTypeOK
<1> USE TimesAssumption DEF StoreTypeOK
<1>1. StoreInit => StoreTypeOK
  BY DEF StoreInit, NewBucket
<1>2. StoreTypeOK /\ [StoreNext]_storeVars => StoreTypeOK'
  <2> SUFFICES ASSUME StoreTypeOK, [StoreNext]_storeVars PROVE StoreTypeOK'
    OBVIOUS
  <2>1. ASSUME NEW interval \in Intervals \cup {NoInterval}
        PROVE  LastInterval(tb, interval) \in Intervals \cup {0}
    BY <2>1 DEF LastInterval
  <2>2. ASSUME NEW timestamp \in Times PROVE Later(newest, timestamp) \in Times \cup {0}
    BY <2>2 DEF Later
  <2>3. ASSUME NEW timestamp \in Times, NEW interval \in Intervals, NEW key \in Keys,
               NEW data \in Data, Put(timestamp, interval, key, data)
        PROVE  StoreTypeOK'
    <3>1. [timestamp |-> timestamp, interval |-> interval, value |-> data] \in Record
      BY DEF Record
    <3>2. received' \in [Keys -> Record \cup {NoRecord}]
      BY <2>3, <3>1 DEF Put
    <3>3. \A k \in DOMAIN tb'.bucket : tb'.bucket[k] \in Record
      BY <2>3, <3>1, SetItemBucket DEF Put, Fresh
    <3>4. DOMAIN tb' = {"bucket", "last_timestamp", "last_interval"} /\ DOMAIN tb'.bucket \subseteq Keys
      BY <2>3, SetItemBucket DEF Put, Fresh
    <3>5. tb'.last_timestamp \in Times /\ tb'.last_interval \in Intervals \cup {0}
      <4>1. tb'.last_timestamp = timestamp /\ tb'.last_interval = LastInterval(tb, interval)
        BY <2>3, SetItemBucket DEF Put
      <4> QED BY <2>1, <4>1
    <3>6. newest' \in Times \cup {0}
      BY <2>2, <2>3 DEF Put
    <3> QED BY <3>2, <3>3, <3>4, <3>5, <3>6
  <2>4. ASSUME NEW timestamp \in Times, NEW interval \in Intervals \cup {NoInterval},
               GetData(timestamp, interval)
        PROVE  StoreTypeOK'
    <3>1. DOMAIN tb' = {"bucket", "last_timestamp", "last_interval"}
      BY <2>4 DEF GetData, Access
    <3> QED BY <2>1, <2>2, <2>4, <3>1, AccessBucket DEF GetData, Fresh
  <2>5. ASSUME NEW timestamp \in Times, NEW interval \in Intervals \cup {NoInterval},
               Refuse(timestamp, interval)
        PROVE  StoreTypeOK'
    BY <2>1, <2>5 DEF Refuse, RefusedAccess
  <2>6. CASE UNCHANGED storeVars
    BY <2>6 DEF storeVars
  <2> QED BY <2>3, <2>4, <2>5, <2>6 DEF StoreNext
<1> QED BY <1>1, <1>2, PTL DEF StoreSpec

-----------------------------------------------------------------------------
StoreInv == LatestReceived /\ NothingStale /\ GoneOnlyIfStale

\* Each access preserves the three promises (stream.py 85-132).
LEMMA StoreInvStep ==
  ASSUME StoreTypeOK, StoreInv, [StoreNext]_storeVars
  PROVE  StoreInv'
<1> USE TimesAssumption DEF StoreTypeOK, StoreInv, LatestReceived, NothingStale, GoneOnlyIfStale
<1>1. ASSUME NEW timestamp \in Times, NEW k \in DOMAIN tb.bucket, Stale(tb.bucket[k], timestamp)
      PROVE  received[k].timestamp + 2 * Accept(received[k].interval) < Later(newest, timestamp)
  <2>1. tb.bucket[k] = received[k] /\ received[k].timestamp \in Nat /\ received[k].interval \in Nat
    BY DEF Record
  <2>2. Accept(received[k].interval) \in Nat
    BY <2>1, AcceptNat
  <2>3. received[k].timestamp < timestamp - 2 * Accept(received[k].interval)
    BY <1>1, <2>1 DEF Stale
  <2>4. newest \in Nat /\ timestamp \in Nat
    OBVIOUS
  <2>5. received[k].timestamp + 2 * Accept(received[k].interval) < timestamp
    BY <2>1, <2>2, <2>3, <2>4, BeforeWindow
  <2> HIDE DEF StoreTypeOK, StoreInv, LatestReceived, NothingStale, GoneOnlyIfStale
  <2> QED BY <2>1, <2>2, <2>4, <2>5 DEF Later
<1>2. ASSUME NEW timestamp \in Times, NEW k \in Keys \ DOMAIN tb.bucket, received[k] # NoRecord
      PROVE  received[k].timestamp + 2 * Accept(received[k].interval) < Later(newest, timestamp)
  <2>1. received[k].timestamp \in Nat /\ received[k].interval \in Nat
    BY <1>2 DEF Record
  <2>2. Accept(received[k].interval) \in Nat
    BY <2>1, AcceptNat
  <2>3. received[k].timestamp + 2 * Accept(received[k].interval) < newest
    BY <1>2
  <2>4. newest \in Nat /\ timestamp \in Nat
    OBVIOUS
  <2> HIDE DEF StoreTypeOK, StoreInv, LatestReceived, NothingStale, GoneOnlyIfStale
  <2> QED BY <2>1, <2>2, <2>3, <2>4 DEF Later
<1>3. ASSUME NEW timestamp \in Times, NEW interval \in Intervals, NEW key \in Keys,
             NEW data \in Data, Put(timestamp, interval, key, data)
      PROVE  StoreInv'
  <2>1. ~Stale([timestamp |-> timestamp, interval |-> interval, value |-> data], timestamp)
    <3>1. Accept(interval) \in Nat /\ timestamp \in Nat
      BY AcceptNat
    <3> HIDE DEF StoreTypeOK, StoreInv, LatestReceived, NothingStale, GoneOnlyIfStale
    <3> QED BY <3>1 DEF Stale
  <2>2. LatestReceived'
    BY <1>3, SetItemBucket DEF Put, Fresh
  <2>3. NothingStale'
    BY <1>3, <2>1, SetItemBucket DEF Put, Fresh
  <2>4. GoneOnlyIfStale'
    <3> SUFFICES ASSUME NEW k \in Keys \ DOMAIN tb'.bucket, received'[k] # NoRecord
                 PROVE  received'[k].timestamp + 2 * Accept(received'[k].interval) < newest'
      OBVIOUS
    <3>1. k # key /\ k \notin Fresh(tb, timestamp)
      BY <1>3, SetItemBucket DEF Put
    <3>2. received'[k] = received[k] /\ newest' = Later(newest, timestamp)
      BY <1>3, <3>1 DEF Put
    <3> QED BY <1>1, <1>2, <3>1, <3>2 DEF Fresh
  <2> QED BY <2>2, <2>3, <2>4
<1>4. ASSUME NEW timestamp \in Times, NEW interval, GetData(timestamp, interval)
      PROVE  StoreInv'
  <2>1. LatestReceived'
    BY <1>4, AccessBucket DEF GetData, Fresh
  <2>2. NothingStale'
    BY <1>4, AccessBucket DEF GetData, Fresh
  <2>3. GoneOnlyIfStale'
    <3> SUFFICES ASSUME NEW k \in Keys \ DOMAIN tb'.bucket, received'[k] # NoRecord
                 PROVE  received'[k].timestamp + 2 * Accept(received'[k].interval) < newest'
      OBVIOUS
    <3>1. k \notin Fresh(tb, timestamp)
      BY <1>4, AccessBucket DEF GetData
    <3>2. received'[k] = received[k] /\ newest' = Later(newest, timestamp)
      BY <1>4 DEF GetData
    <3> QED BY <1>1, <1>2, <3>1, <3>2 DEF Fresh
  <2> QED BY <2>1, <2>2, <2>3
<1>5. ASSUME NEW timestamp, NEW interval, Refuse(timestamp, interval)
      PROVE  StoreInv'
  <2>1. tb'.bucket = tb.bucket /\ tb'.last_timestamp = tb.last_timestamp
    BY <1>5 DEF Refuse, RefusedAccess
  <2> QED BY <1>5, <2>1 DEF Refuse
<1>6. CASE UNCHANGED storeVars
  BY <1>6 DEF storeVars
<1> QED BY <1>3, <1>4, <1>5, <1>6 DEF StoreNext

\* The three promises of the docstring, together: each step needs all of them
\* (stream.py 69-75).
THEOREM StoreInvariant == StoreSpec => []StoreInv
<1>1. StoreInit => StoreInv
  BY DEF StoreInit, NewBucket, StoreInv, LatestReceived, NothingStale, GoneOnlyIfStale, NoRecord
<1>2. StoreTypeOK /\ StoreInv /\ [StoreNext]_storeVars => StoreInv'
  BY StoreInvStep
<1> QED BY <1>1, <1>2, StoreTypeCorrect, PTL DEF StoreSpec

\* The bucket keeps the latest record received for each key (stream.py 165-166).
THEOREM LatestReceivedHolds == StoreSpec => []LatestReceived
<1>1. StoreInv => LatestReceived BY DEF StoreInv
<1> QED BY <1>1, StoreInvariant, PTL

\* No access leaves a record that is stale for its time (stream.py 102-107).
THEOREM NothingStaleHolds == StoreSpec => []NothingStale
<1>1. StoreInv => NothingStale BY DEF StoreInv
<1> QED BY <1>1, StoreInvariant, PTL

\* No record is discarded before its own window has passed (stream.py 102-105).
THEOREM GoneOnlyIfStaleHolds == StoreSpec => []GoneOnlyIfStale
<1>1. StoreInv => GoneOnlyIfStale BY DEF StoreInv
<1> QED BY <1>1, StoreInvariant, PTL
=============================================================================
