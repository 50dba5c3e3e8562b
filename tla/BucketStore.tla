----------------------------- MODULE BucketStore -----------------------------
(***************************************************************************)
(* One TimeBucket and any sequence of put(), get() and get_data() on it    *)
(* (stream.py 110-132).  The times come from many clocks: they need not    *)
(* increase.  Two history variables hold what the docstring promises about.*)
(***************************************************************************)
EXTENDS TimeBucket

CONSTANTS
  Keys, Data,
  Times,        \* the timestamps of accesses, in half seconds
  Intervals     \* the intervals given with them, in seconds

ASSUME TimesAssumption == Times \subseteq Nat /\ Intervals \subseteq Nat

VARIABLES
  tb,           \* the TimeBucket
  received,     \* history: the record of the latest put accepted for each key
  newest        \* history: the latest time any access was accepted at

storeVars == <<tb, received, newest>>

Record == [timestamp : Times, interval : Intervals, value : Data]
NoRecord == [timestamp |-> -1, interval |-> -1]

StoreTypeOK ==
  /\ DOMAIN tb = {"bucket", "last_timestamp", "last_interval"}
  /\ tb.last_timestamp \in Times \cup {0}
  /\ tb.last_interval \in Intervals \cup {0}
  /\ DOMAIN tb.bucket \subseteq Keys
  /\ \A k \in DOMAIN tb.bucket : tb.bucket[k] \in Record
  /\ received \in [Keys -> Record \cup {NoRecord}]
  /\ newest \in Times \cup {0}

StoreInit ==
  /\ tb = NewBucket
  /\ received = [k \in Keys |-> NoRecord]
  /\ newest = 0

Later(s, t) == IF s < t THEN t ELSE s

Refuse(timestamp, interval) ==
  /\ Refused(tb, timestamp, interval)
  /\ tb' = RefusedAccess(tb, interval)
  /\ UNCHANGED <<received, newest>>

Put(timestamp, interval, key, data) ==
  /\ ~Refused(tb, timestamp, interval)
  /\ tb' = SetItem(Access(tb, timestamp, interval), timestamp, interval, key, data)
  /\ received' = [received EXCEPT ![key] =
       [timestamp |-> timestamp, interval |-> interval, value |-> data]]
  /\ newest' = Later(newest, timestamp)

\* get() looks one key up in what get_data() returns.
GetData(timestamp, interval) ==
  /\ ~Refused(tb, timestamp, interval)
  /\ tb' = Access(tb, timestamp, interval)
  /\ newest' = Later(newest, timestamp)
  /\ UNCHANGED received

StoreNext ==
  \E timestamp \in Times :
    \/ \E interval \in Intervals, key \in Keys, data \in Data :
         Put(timestamp, interval, key, data)
    \/ \E interval \in Intervals \cup {NoInterval} :
         GetData(timestamp, interval) \/ Refuse(timestamp, interval)

StoreSpec == StoreInit /\ [][StoreNext]_storeVars

-----------------------------------------------------------------------------
(***************************************************************************)
(* "the latest one received": no record in the bucket is an older one of   *)
(* its key, whatever the times they carry (stream.py 165-166).             *)
(***************************************************************************)
LatestReceived == \A k \in DOMAIN tb.bucket : tb.bucket[k] = received[k]

(***************************************************************************)
(* "discarding those that are stale": what an access returns holds nothing *)
(* stale for its time, though earlier accesses may have been later ones    *)
(* (stream.py 102-107).                                                    *)
(***************************************************************************)
NothingStale == \A k \in DOMAIN tb.bucket : ~Stale(tb.bucket[k], tb.last_timestamp)

(***************************************************************************)
(* Nothing else is discarded: the latest record of a key is gone only when *)
(* some access came more than that record's own window after it (1.2       *)
(* intervals, in whole seconds: stream.py 83, 104).                        *)
(***************************************************************************)
GoneOnlyIfStale ==
  \A k \in Keys \ DOMAIN tb.bucket :
    received[k] # NoRecord =>
      received[k].timestamp + 2 * Accept(received[k].interval) < newest
=============================================================================
