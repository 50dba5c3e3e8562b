------------------------------ MODULE TimeBucket ------------------------------
(***************************************************************************)
(* stream.TimeBucket, as operators on its state (stream.py 69-178): "Store *)
(* objects based on the latest one received, discarding those that are     *)
(* stale based on the timestamp / interval given for that value."          *)
(*                                                                         *)
(* Time is counted in half seconds: the timestamps of messages are whole   *)
(* seconds, those of a reading are not, and the code truncates in one of   *)
(* its two comparisons only.  Intervals are in seconds.                    *)
(***************************************************************************)
EXTENDS Integers

Seconds(ticks) == ticks \div 2      \* int(timestamp), of a time that is not negative

\* int(interval * self.interval_factor), the factor being 1.2
Accept(interval) == (interval * 12) \div 10

NoInterval == -1                    \* the interval None of a reading

\* TimeBucket(): the dict maps keys to records (timestamp, interval, value).
NewBucket == [bucket |-> [k \in {} |-> {}], last_timestamp |-> 0, last_interval |-> 0]

\* Mutated: the interval is kept when it is None too.
LastInterval_Unconditional(tb, interval) == interval

LastInterval(tb, interval) == IF interval = NoInterval THEN tb.last_interval ELSE interval

\* Mutated: no time before the last one is accepted.
Refused_NoSlack(tb, timestamp, interval) ==
  LET last == LastInterval(tb, interval)
  IN  last # 0 /\ Seconds(timestamp) < Seconds(tb.last_timestamp)

\* Does an access raise ValueError?
Refused(tb, timestamp, interval) ==
  LET last == LastInterval(tb, interval)
  IN  last # 0 /\ Seconds(timestamp) < Seconds(tb.last_timestamp) - Accept(last)

\* What a refused access leaves changed.
RefusedAccess(tb, interval) == [tb EXCEPT !.last_interval = LastInterval(tb, interval)]

\* Mutated: a record as old as the window is stale.
Stale_Inclusive(record, timestamp) ==
  record.timestamp <= timestamp - 2 * Accept(record.interval)

\* Mutated: the window is rounded up.
Stale_RoundedUp(record, timestamp) ==
  record.timestamp < timestamp - 2 * (Accept(record.interval) + 1)

Stale(record, timestamp) ==
  record.timestamp < timestamp - 2 * Accept(record.interval)

\* Mutated: the time of the access before is what records are compared with.
Fresh_LastAccess(tb, timestamp) == {k \in DOMAIN tb.bucket : ~Stale(tb.bucket[k], tb.last_timestamp)}

Fresh(tb, timestamp) == {k \in DOMAIN tb.bucket : ~Stale(tb.bucket[k], timestamp)}

\* _get_bucket() of an access that is not refused.
Access(tb, timestamp, interval) ==
  [bucket |-> [k \in Fresh(tb, timestamp) |-> tb.bucket[k]],
   last_timestamp |-> timestamp,
   last_interval |-> LastInterval(tb, interval)]

\* Mutated: a key that is there keeps its record.
SetItem_First(tb, timestamp, interval, key, value) ==
  [tb EXCEPT !.bucket = [k \in DOMAIN tb.bucket \cup {key} |->
     IF k \in DOMAIN tb.bucket
       THEN tb.bucket[k]
       ELSE [timestamp |-> timestamp, interval |-> interval, value |-> value]]]

\* DictFacade.__setitem__ on what an access with that time and interval returned.
SetItem(tb, timestamp, interval, key, value) ==
  [tb EXCEPT !.bucket = [k \in DOMAIN tb.bucket \cup {key} |->
     IF k = key
       THEN [timestamp |-> timestamp, interval |-> interval, value |-> value]
       ELSE tb.bucket[k]]]
=============================================================================
