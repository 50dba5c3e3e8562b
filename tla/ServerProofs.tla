------------------------------ MODULE ServerProofs ------------------------------
(***************************************************************************)
(* Proofs about Server.                                                    *)
(***************************************************************************)
EXTENDS Server, MessageProofs

Names == STRING \cup {None}

Messages ==
  [type : Names, type_instance : Names, plugin : Names, plugin_instance : Names, host : Names,
   time : Nat, interval : Nat, values : Seq(Nat)]

\* The first value of a message of a type, at most, at a time.
Most(type, time) == IF type = "sqlalchemy_totals" THEN time ELSE 1

\* What arrives of a message sent at a time.
SentAt(v, time) ==
  /\ v \in Messages
  /\ KeyOf(v) \in Keys /\ v.type \in Sent /\ v.plugin = "sqlalchemy"
  /\ v.time = Whole(time) /\ v.interval = 2 * Interval
  /\ Len(v.values) >= 1 /\ v.values[1] = Most(v.type, time)

LEMMA WholeIs ==
  ASSUME NEW time \in Nat
  PROVE  Whole(time) \in Nat /\ Whole(time) = time - (time % 2) /\ time % 2 \in 0..1
BY DEF Whole

\* The names that the code gives are no None.
LEMMA WordsAre ==
  /\ {"sqlalchemy", "host", "count", "derive", "sqlalchemy_pool", "sqlalchemy_process", "sqlalchemy_totals"}
       \subseteq STRING \ NonAscii
  /\ \A type \in internal_types : \A i \in DOMAIN type.names : type.names[i] \in STRING
  /\ \A word \in STRING : word # None
<1>1. \A type \in internal_types :
        {"sqlalchemy", "host", type.name, type.kind} \cup Range(type.names) \subseteq STRING \ NonAscii
  BY NameAssumption
<1>2. \A type \in internal_types : /\ {"sqlalchemy", "host", type.name, type.kind} \subseteq STRING \ NonAscii
                                   /\ Range(type.names) \subseteq STRING
  BY <1>1
<1>3. \A type \in internal_types : \A i \in DOMAIN type.names : type.names[i] \in STRING
  BY <1>2 DEF Range
<1>4. pool_internal \in internal_types /\ process_internal \in internal_types /\ totals_internal \in internal_types
  BY DEF internal_types
<1>5. /\ pool_internal.name = "sqlalchemy_pool" /\ process_internal.name = "sqlalchemy_process"
      /\ totals_internal.name = "sqlalchemy_totals" /\ pool_internal.kind = "count" /\ totals_internal.kind = "derive"
  BY DEF Type, pool_internal, process_internal, totals_internal
<1> QED BY <1>2, <1>3, <1>4, <1>5, NameAssumption

LEMMA NamesOf ==
  ASSUME NEW k \in Keys
  PROVE  /\ k \in STRING \X STRING \X STRING /\ k = <<k[1], k[2], k[3]>>
         /\ \A i \in 1..3 : k[i] \in STRING /\ k[i] # None /\ k[i] \notin NonAscii
         /\ k[2] # "host"
<1>1. PICK i \in DOMAIN Client : k = Client[i]
  BY DEF Keys
<1>2. k \in STRING \X STRING \X STRING
  BY <1>1, NameAssumption
<1>3. k = <<k[1], k[2], k[3]>> /\ \A j \in 1..3 : k[j] \in STRING
  BY <1>2
<1>4. \A x \in {Client[i][1], Client[i][2], Client[i][3]} : x \notin NonAscii
  BY NameAssumption
<1>5. \A j \in 1..3 : k[j] \notin NonAscii
  <2>1. k[1] \notin NonAscii /\ k[2] \notin NonAscii /\ k[3] \notin NonAscii
    BY <1>1, <1>4
  <2> QED BY <2>1
<1> QED BY <1>1, <1>2, <1>3, <1>5, NameAssumption

LEMMA SendingArrives ==
  ASSUME NEW k \in Keys, NEW type \in Sent, now' \in Nat
  PROVE  LET datagram == Pack(Sending(k, type), internal_types)
         IN  /\ ~Skipped(datagram, internal_types) /\ ~Incomplete(datagram, internal_types)
             /\ SentAt(Unpack(datagram), now')
             /\ KeyOf(Unpack(datagram)) = k /\ Unpack(datagram).type = type
<1> DEFINE u == Sending(k, type)
           d == Pack(u, internal_types)
           v == Unpack(d)
           values == IF type = "sqlalchemy_pool" THEN <<1, 1, 0, 0, 1>> ELSE <<now', 0, 0, 0>>
<1>0. Interval \in Nat \ {0} /\ type \in {"sqlalchemy_pool", "sqlalchemy_totals"}
  BY ServerAssumption
<1>00. type \in STRING /\ type \notin NonAscii /\ "sqlalchemy" \in STRING /\ "sqlalchemy" \notin NonAscii
  BY <1>0, WordsAre
<1>1. 2 * Interval # None
  BY <1>0, NameAssumption
<1>2. /\ u.type = type /\ u.host = k[1] /\ u.plugin = "sqlalchemy" /\ u.plugin_instance = k[2]
      /\ u.type_instance = k[3] /\ u.time = now' /\ u.interval = 2 * Interval /\ u.values = values
  BY <1>1 DEF Sending, Values, Slots
<1>3. TypeNames(internal_types) = {"sqlalchemy_pool", "sqlalchemy_process", "sqlalchemy_totals"}
  BY DEF TypeNames, internal_types, Type, pool_internal, process_internal, totals_internal
<1>4. \A i \in 1..3 : k[i] \in STRING /\ k[i] # None /\ k[i] \notin NonAscii
  BY NamesOf
<1> HIDE DEF u
<1>5. Packable(u, internal_types)
  <2>1. ASSUME NEW code \in Strings PROVE u[SlotOf[code]] \notin NonAscii
    BY <1>00, <1>2, <1>4 DEF Strings, SlotOf
  <2> QED BY <1>0, <1>2, <1>3, <2>1 DEF Packable
<1>6. Whole(u.interval) = 2 * Interval
  BY <1>0, <1>2 DEF Whole
<1>7. /\ v = [slot \in Slots |-> v[slot]]
      /\ \A code \in DOMAIN SlotOf : v[SlotOf[code]] = Payload(code, u[SlotOf[code]])
  BY <1>1, <1>5, <1>6, UnpackPacked
<1>8. DOMAIN Parts(d) = DOMAIN SlotOf /\ Parts(d)["TYPE"] = type
  <2>1. /\ DOMAIN Parts(d) = DOMAIN SlotOf
        /\ \A code \in DOMAIN SlotOf : Parts(d)[code] = Payload(code, u[SlotOf[code]])
    BY <1>5, PartsOfPacked
  <2>2. type # None
    BY <1>00, NameAssumption
  <2> HIDE DEF d
  <2>3. Payload("TYPE", type) = type
    BY <2>2 DEF Payload, Strings, Longs
  <2>4. "TYPE" \in DOMAIN SlotOf /\ u[SlotOf["TYPE"]] = type
    BY <1>2 DEF SlotOf
  <2> QED BY <2>1, <2>3, <2>4
<1>9. ~Skipped(d, internal_types) /\ ~Incomplete(d, internal_types)
  <2> HIDE DEF d
  <2>1. "TYPE" \in DOMAIN SlotOf
    BY DEF SlotOf
  <2> QED BY <1>0, <1>3, <1>8, <2>1 DEF Skipped, Incomplete
<1> HIDE DEF v, d
<1>10. /\ v.host = Payload("HOST", u.host) /\ v.plugin = Payload("PLUGIN", u.plugin)
       /\ v.plugin_instance = Payload("PLUGIN_INSTANCE", u.plugin_instance)
       /\ v.type = Payload("TYPE", u.type) /\ v.type_instance = Payload("TYPE_INSTANCE", u.type_instance)
       /\ v.time = Payload("TIME", u.time)
       /\ v.interval = Payload("INTERVAL", u.interval) /\ v.values = Payload("VALUES", u.values)
  BY <1>7 DEF SlotOf
<1>11. /\ v.host = k[1] /\ v.plugin = "sqlalchemy" /\ v.plugin_instance = k[2] /\ v.type = type
       /\ v.type_instance = k[3] /\ v.time = Whole(now') /\ v.interval = 2 * Interval /\ v.values = values
  <2>1. type # None /\ "sqlalchemy" # None
    BY <1>00, NameAssumption
  <2> HIDE DEF values
  <2> QED BY <1>2, <1>4, <1>6, <1>10, <2>1 DEF Payload, Strings, Longs
<1>12. values \in Seq(Nat) /\ Len(values) >= 1 /\ values[1] = Most(type, now')
  BY <1>0 DEF Most
<1>13. v \in Messages
  <2>1. v = [slot \in Slots |-> v[slot]]
    BY <1>7
  <2>2. Whole(now') \in Nat /\ 2 * Interval \in Nat
    BY <1>0, WholeIs
  <2> HIDE DEF values
  <2> QED BY <1>00, <1>4, <1>11, <1>12, <2>1, <2>2 DEF Messages, Names, Slots
<1>14. KeyOf(v) = k
  BY <1>11, NamesOf DEF KeyOf
<1> HIDE DEF values
<1> QED BY <1>9, <1>11, <1>12, <1>13, <1>14 DEF SentAt, u, d, v

-----------------------------------------------------------------------------
(* What an access is made of, step by step. *)

AccessFields == {"at", "type", "timestamp", "interval", "todo", "key"}

\* The access that a step leaves is of the same call, at another point of it.
Onward(a, b, at, todo, key) ==
  /\ DOMAIN b = AccessFields /\ b.at = at
  /\ b.type = a.type /\ b.timestamp = a.timestamp /\ b.interval = a.interval
  /\ b.todo = todo /\ b.key = key

LEMMA CallIs ==
  ASSUME NEW type, NEW timestamp, NEW interval
  PROVE  LET a == Call(type, timestamp, interval)
         IN  /\ DOMAIN a = AccessFields /\ a.at = "enter"
             /\ a.type = type /\ a.timestamp = timestamp /\ a.interval = interval
BY DEF Call, AccessFields

LEMMA AccessMoves ==
  ASSUME NEW a, DOMAIN a = AccessFields, NEW set, NEW k
  PROVE  /\ Onward(a, [a EXCEPT !.at = "scan", !.todo = set], "scan", set, a.key)
         /\ Onward(a, [a EXCEPT !.at = "delete", !.key = k], "delete", a.todo, k)
         /\ a.at = "scan" => Onward(a, [a EXCEPT !.todo = @ \ {k}], "scan", a.todo \ {k}, a.key)
         /\ Onward(a, [a EXCEPT !.at = "scan", !.todo = @ \ {a.key}, !.key = None], "scan", a.todo \ {a.key}, None)
         /\ Onward(a, [a EXCEPT !.at = "done"], "done", a.todo, a.key)
BY DEF Onward, AccessFields

LEMMA RefusedAccessIs ==
  ASSUME NEW tb, DOMAIN tb = {"bucket", "last_timestamp", "last_interval"}, NEW interval
  PROVE  LET new == RefusedAccess(tb, interval)
         IN  DOMAIN new = {"bucket", "last_timestamp", "last_interval"} /\ new.bucket = tb.bucket
BY DEF RefusedAccess

LEMMA SetItemIs ==
  ASSUME NEW tb, DOMAIN tb = {"bucket", "last_timestamp", "last_interval"},
         NEW timestamp, NEW interval, NEW key, NEW value
  PROVE  LET new == SetItem(tb, timestamp, interval, key, value)
         IN  /\ DOMAIN new = {"bucket", "last_timestamp", "last_interval"}
             /\ DOMAIN new.bucket = DOMAIN tb.bucket \cup {key}
             /\ new.bucket[key] = [timestamp |-> timestamp, interval |-> interval, value |-> value]
             /\ \A k \in DOMAIN tb.bucket : k # key => new.bucket[k] = tb.bucket[k]
BY DEF SetItem

LEMMA SetItemGrows ==
  ASSUME NEW tb, DOMAIN tb = {"bucket", "last_timestamp", "last_interval"},
         NEW timestamp, NEW interval, NEW key, NEW value
  PROVE  DOMAIN tb.bucket \subseteq DOMAIN SetItem(tb, timestamp, interval, key, value).bucket
BY DEF SetItem

LEMMA GetsAre ==
  /\ DOMAIN Gets = 1..6 /\ Len(Gets) = 6
  /\ \A i \in 1..6 : Gets[i].type \in Types /\ Gets[i].by \in {"progname", "hostname"}
  /\ \A i, j \in 1..6 : Gets[i].type = Gets[j].type /\ Gets[i].by = Gets[j].by => i = j
<1>1. /\ Gets[1] = [type |-> "sqlalchemy_pool", by |-> "progname"]
      /\ Gets[2] = [type |-> "sqlalchemy_pool", by |-> "hostname"]
      /\ Gets[3] = [type |-> "sqlalchemy_totals", by |-> "progname"]
      /\ Gets[4] = [type |-> "sqlalchemy_totals", by |-> "hostname"]
      /\ Gets[5] = [type |-> "sqlalchemy_process", by |-> "progname"]
      /\ Gets[6] = [type |-> "sqlalchemy_process", by |-> "hostname"]
  BY DEF Gets
<1>2. DOMAIN Gets = 1..6 /\ Len(Gets) = 6
  BY DEF Gets
<1>3. \A i \in 1..6 : i = 1 \/ i = 2 \/ i = 3 \/ i = 4 \/ i = 5 \/ i = 6
  OBVIOUS
<1>4. \A i \in 1..6 : Gets[i].type \in Types /\ Gets[i].by \in {"progname", "hostname"}
  BY <1>1, <1>3 DEF Types
<1>5. \A i, j \in 1..6 : Gets[i].type = Gets[j].type /\ Gets[i].by = Gets[j].by => i = j
  BY <1>1, <1>3
<1> QED BY <1>2, <1>4, <1>5

-----------------------------------------------------------------------------
(* The types: what is under way, what is stored, and the calls of the two  *)
(* threads.                                                                *)

Window(type) == IF type = "sqlalchemy_process" THEN 5 * Interval ELSE 2 * Interval

\* A record that a bucket may hold, at a time.
RecordAt(r, k, type, time) ==
  /\ k \in Keys /\ type \in Sent \cup {"sqlalchemy_process"} /\ Sent # {}
  /\ type = "sqlalchemy_process" => k[3] # ""
  /\ r.timestamp \in Start..time /\ r.interval = Window(type)
  /\ r.value \in Messages /\ KeyOf(r.value) = k
  /\ r.value.type = type /\ r.value.plugin = "sqlalchemy"
  /\ Len(r.value.values) >= 1 /\ r.value.values[1] <= Most(type, time)
  /\ type # "sqlalchemy_totals" => r.value.values[1] = 1

ClockInv ==
  /\ now \in Nat /\ Start <= now
  /\ streak \in [Keys -> 0..2] /\ lastSent \in [Keys -> {0} \cup Start..now]
  /\ \A k \in Keys : streak[k] >= 1 => now - lastSent[k] < MaxGap

PendingInv ==
  \A d \in pending :
    /\ ~Skipped(d, internal_types) /\ ~Incomplete(d, internal_types)
    /\ now > Start /\ SentAt(Unpack(d), now) /\ lastSent[KeyOf(Unpack(d))] = now

BucketFields == {"bucket", "last_timestamp", "last_interval"}

BucketsInv ==
  /\ DOMAIN buckets = Types
  /\ \A type \in Types : DOMAIN buckets[type] = BucketFields
  /\ \A type \in Types : \A k \in DOMAIN buckets[type].bucket : RecordAt(buckets[type].bucket[k], k, type, now)

Timed == {"enter", "scan", "delete", "done"}

AccessAt(a, time) ==
  /\ a.at \in {"idle", "read"} \cup Timed
  /\ a = NoAccess <=> a.at = "idle"
  /\ a.at \in Timed =>
       /\ DOMAIN a = AccessFields /\ a.type \in Types
       /\ a.timestamp \in Nat /\ a.timestamp <= time
       /\ a.todo \subseteq Keys
  /\ a.at = "delete" => a.key \in Keys

AccessInv ==
  /\ DOMAIN access = Threads
  /\ \A t \in Threads : AccessAt(access[t], now)

\* The message at hand, and what the listener's call says of it.
MessageInv ==
  /\ message # <<>> => /\ message = <<Head(message)>> /\ now > Start /\ SentAt(Head(message), now)
                       /\ lastSent[KeyOf(Head(message))] = now
  /\ message # <<>> <=> access["listener"] # NoAccess
  /\ access["listener"].at # "read"
  /\ access["listener"].at \in Timed =>
       LET a == access["listener"]
           v == Head(message)
       IN  /\ a.timestamp = v.time /\ a.interval = Window(a.type)
           /\ a.type \in {v.type, "sqlalchemy_process"}
           /\ a.type = "sqlalchemy_process" => v.type_instance # ""

SummaryInv ==
  /\ get \in 0..7
  /\ access["collectd"] # NoAccess => get \in 1..6
  /\ access["collectd"].at \in Timed =>
       /\ access["collectd"].type = Gets[get].type
       /\ access["collectd"].timestamp = now /\ access["collectd"].interval = NoInterval
  /\ access["collectd"].at = "read" => keys # {}
  /\ access["collectd"].at # "read" => keys = {}
  /\ keys \subseteq DOMAIN listed /\ DOMAIN listed \subseteq Keys

ServerInv == ClockInv /\ PendingInv /\ BucketsInv /\ AccessInv /\ MessageInv /\ SummaryInv

LEMMA InvIsTyped == ServerInv => ServerTypeOK
<1> SUFFICES ASSUME ServerInv PROVE ServerTypeOK
  OBVIOUS
<1>1. now \in Nat /\ streak \in [Keys -> 0..2] /\ \A k \in Keys : lastSent[k] \in {0} \cup Start..now
  BY DEF ServerInv, ClockInv
<1>2. \A t \in Types : \A k \in DOMAIN buckets[t].bucket :
        LET record == buckets[t].bucket[k]
        IN  k \in Keys /\ record.value.type = t /\ record.timestamp \in Start..now
  BY DEF ServerInv, BucketsInv, RecordAt
<1>3. \A t \in Threads : access[t].at \in {"idle", "enter", "scan", "delete", "done", "read"}
  BY DEF ServerInv, AccessInv, AccessAt, Timed
<1>4. message # <<>> <=> access["listener"] # NoAccess
  BY DEF ServerInv, MessageInv
<1>5. get \in 0..Len(Gets) + 1 /\ (access["collectd"] # NoAccess => get \in DOMAIN Gets) /\ keys \subseteq DOMAIN listed
  BY GetsAre DEF ServerInv, SummaryInv
<1> QED BY <1>1, <1>2, <1>3, <1>4, <1>5 DEF ServerTypeOK

LEMMA InitInv == ServerInit => ServerInv
<1> SUFFICES ASSUME ServerInit PROVE ServerInv
  OBVIOUS
<1>1. ClockInv
  BY ServerAssumption DEF ServerInit, ClockInv
<1>2. PendingInv
  BY DEF ServerInit, PendingInv
<1>3. BucketsInv
  BY DEF ServerInit, BucketsInv, BucketFields, NewBucket
<1>4. access = [t \in Threads |-> NoAccess] /\ NoAccess.at = "idle" /\ "listener" \in Threads /\ "collectd" \in Threads
  BY DEF ServerInit, NoAccess, Threads
<1>5. AccessInv
  BY <1>4 DEF AccessInv, AccessAt, Timed
<1>6. MessageInv
  BY <1>4 DEF ServerInit, MessageInv, Timed
<1>7. SummaryInv
  BY <1>4 DEF ServerInit, SummaryInv, Timed
<1> QED BY <1>1, <1>2, <1>3, <1>5, <1>6, <1>7 DEF ServerInv

LEMMA ThreadsAre ==
  /\ Threads = {"listener", "collectd"} /\ "listener" # "collectd"
  /\ NoAccess.at = "idle" /\ "idle" \notin Timed /\ "read" \notin Timed
BY DEF Threads, NoAccess, Timed

LEMMA AtListener ==
  ASSUME ServerInv, message # <<>>
  PROVE  /\ message = <<Head(message)>> /\ SentAt(Head(message), now) /\ now > Start
         /\ KeyOf(Head(message)) \in Keys
BY DEF ServerInv, MessageInv, SentAt

\* A thread that raises leaves the others as they are.
LEMMA FailKeeps ==
  ASSUME ServerInv, NEW t \in Threads, access[t] # NoAccess, Fail(t), now' = now /\ lastSent' = lastSent
  PROVE  ClockInv' /\ AccessInv' /\ MessageInv' /\ SummaryInv'
<1>1. access' = [access EXCEPT ![t] = NoAccess] /\ DOMAIN access = Threads
  BY DEF Fail, ServerInv, AccessInv
<1>2. \A u \in Threads : access'[u] = IF u = t THEN NoAccess ELSE access[u]
  BY <1>1
<1>3. AccessInv'
  <2>1. AccessAt(NoAccess, now)
    BY ThreadsAre DEF AccessAt
  <2>2. \A u \in Threads : AccessAt(access'[u], now)
    BY <1>2, <2>1 DEF ServerInv, AccessInv
  <2>3. DOMAIN access' = Threads
    BY <1>1
  <2> QED BY <2>2, <2>3 DEF AccessInv
<1>4. CASE t = "listener"
  <2>1. /\ message' = <<>> /\ access'["listener"] = NoAccess /\ access'["collectd"] = access["collectd"]
        /\ get' = get /\ keys' = keys /\ listed' = listed
        /\ streak' = [streak EXCEPT ![KeyOf(Head(message))] = 0]
    BY <1>2, <1>4, ThreadsAre DEF Fail, summaryVars
  <2>2. MessageInv'
    BY <2>1, ThreadsAre DEF MessageInv
  <2>3. SummaryInv'
    BY <2>1 DEF ServerInv, SummaryInv
  <2>4. streak' \in [Keys -> 0..2] /\ \A k \in Keys : streak'[k] = 0 \/ streak'[k] = streak[k]
    <3>1. streak \in [Keys -> 0..2] /\ 0 \in 0..2
      BY DEF ServerInv, ClockInv
    <3> DEFINE c == KeyOf(Head(message))
    <3>2. streak' = [streak EXCEPT ![c] = 0]
      BY <2>1
    <3> HIDE DEF c
    <3>3. \A k \in Keys : streak'[k] = IF k = c THEN 0 ELSE streak[k]
      BY <3>1, <3>2
    <3>4. streak' \in [Keys -> 0..2]
      BY <3>1, <3>2
    <3> QED BY <3>3, <3>4
  <2>5. \A k \in Keys : streak'[k] >= 1 => now - lastSent[k] < MaxGap
    <3>1. \A k \in Keys : streak[k] >= 1 => now - lastSent[k] < MaxGap
      BY DEF ServerInv, ClockInv
    <3> QED BY <2>4, <3>1
  <2>6. ClockInv'
    BY <2>4, <2>5 DEF ServerInv, ClockInv
  <2> QED BY <1>3, <2>2, <2>3, <2>6
<1>5. CASE t = "collectd"
  <2>1. /\ message' = message /\ access'["collectd"] = NoAccess /\ access'["listener"] = access["listener"]
        /\ get' = 0 /\ keys' = {} /\ listed' = <<>> /\ streak' = streak
    BY <1>2, <1>5, ThreadsAre DEF Fail
  <2>2. MessageInv'
    BY <2>1 DEF ServerInv, MessageInv
  <2>3. SummaryInv'
    BY <2>1, ThreadsAre DEF SummaryInv
  <2> QED BY <1>3, <2>1, <2>2, <2>3 DEF ServerInv, ClockInv
<1> QED BY <1>4, <1>5, ThreadsAre

\* A thread that goes on with its call leaves what the call is of.
LEMMA GoesKeeps ==
  ASSUME ServerInv, NEW t \in Threads, access[t].at \in Timed,
         NEW b, NEW at \in Timed, NEW todo \in SUBSET Keys, NEW key,
         Onward(access[t], b, at, todo, key), at = "delete" => key \in Keys,
         Goes(t, b), now' = now /\ lastSent' = lastSent
  PROVE  ClockInv' /\ AccessInv' /\ MessageInv' /\ SummaryInv'
<1>1. access' = [access EXCEPT ![t] = b] /\ DOMAIN access = Threads
  BY DEF Goes, ServerInv, AccessInv
<1>2. \A u \in Threads : access'[u] = IF u = t THEN b ELSE access[u]
  BY <1>1
<1>3. /\ message' = message /\ streak' = streak
      /\ get' = get /\ keys' = keys /\ listed' = listed
  BY DEF Goes, summaryVars
<1>4. AccessAt(b, now)
  <2>1. AccessAt(access[t], now)
    BY DEF ServerInv, AccessInv
  <2>2. b.at = at /\ b # NoAccess
    BY ThreadsAre DEF Onward
  <2> QED BY <2>1, <2>2, ThreadsAre DEF AccessAt, Onward
<1>5. AccessInv'
  <2>1. \A u \in Threads : AccessAt(access'[u], now)
    BY <1>2, <1>4 DEF ServerInv, AccessInv
  <2>2. DOMAIN access' = Threads
    BY <1>1
  <2> QED BY <2>1, <2>2 DEF AccessInv
<1>6. b # NoAccess /\ b.at \in Timed /\ access[t] # NoAccess
  BY ThreadsAre DEF Onward
<1>7. MessageInv'
  <2>1. access'["listener"] = access["listener"] \/ (t = "listener" /\ access'["listener"] = b)
    BY <1>2, ThreadsAre
  <2>2. CASE t = "listener" /\ access'["listener"] = b
    BY <1>3, <1>6, <2>2, ThreadsAre DEF ServerInv, MessageInv, Onward
  <2> QED BY <1>3, <2>1, <2>2 DEF ServerInv, MessageInv
<1>8. SummaryInv'
  <2>1. access'["collectd"] = access["collectd"] \/ (t = "collectd" /\ access'["collectd"] = b)
    BY <1>2, ThreadsAre
  <2>2. CASE t = "collectd" /\ access'["collectd"] = b
    BY <1>3, <1>6, <2>2, ThreadsAre DEF ServerInv, SummaryInv, Onward
  <2> QED BY <1>3, <2>1, <2>2 DEF ServerInv, SummaryInv
<1> QED BY <1>3, <1>5, <1>7, <1>8 DEF ServerInv, ClockInv

\* A bucket that has no record more than before and none changed.
Smaller(new, old) ==
  /\ DOMAIN new = BucketFields
  /\ DOMAIN new.bucket \subseteq DOMAIN old.bucket
  /\ \A k \in DOMAIN new.bucket : new.bucket[k] = old.bucket[k]

LEMMA SmallerKeeps ==
  ASSUME ServerInv, NEW type \in Types, NEW new, Smaller(new, buckets[type]),
         buckets' = [buckets EXCEPT ![type] = new], now' = now
  PROVE  BucketsInv'
<1>1. DOMAIN buckets' = Types /\ \A u \in Types : buckets'[u] = IF u = type THEN new ELSE buckets[u]
  BY DEF ServerInv, BucketsInv
<1>2. \A u \in Types : DOMAIN buckets'[u] = BucketFields
  BY <1>1 DEF ServerInv, BucketsInv, Smaller
<1>3. ASSUME NEW u \in Types, NEW k \in DOMAIN buckets'[u].bucket PROVE RecordAt(buckets'[u].bucket[k], k, u, now)
  <2>1. k \in DOMAIN buckets[u].bucket /\ buckets'[u].bucket[k] = buckets[u].bucket[k]
    BY <1>1, <1>3 DEF Smaller
  <2> QED BY <2>1 DEF ServerInv, BucketsInv
<1> QED BY <1>1, <1>2, <1>3 DEF BucketsInv

LEMMA PendingStays ==
  ASSUME ServerInv, pending' \subseteq pending, now' = now /\ lastSent' = lastSent
  PROVE  PendingInv'
BY DEF ServerInv, PendingInv

LEMMA EnterKeeps ==
  ASSUME ServerInv, NEW t \in Threads, Enter(t)
  PROVE  ServerInv'
<1> DEFINE a == access[t]
           tb == buckets[a.type]
<1>1. AccessAt(a, now) /\ a.at = "enter" /\ "enter" \in Timed /\ "scan" \in Timed /\ a # NoAccess
  BY ThreadsAre DEF Enter, ServerInv, AccessInv, Timed
<1>2. DOMAIN a = AccessFields /\ a.type \in Types
  BY <1>1 DEF AccessAt
<1>3. now' = now /\ lastSent' = lastSent /\ pending' = pending /\ buckets' = [buckets EXCEPT ![a.type] = RefusedAccess(tb, a.interval)]
  BY DEF Enter
<1>4. DOMAIN tb = BucketFields /\ DOMAIN tb.bucket \subseteq Keys
  BY <1>2 DEF ServerInv, BucketsInv, RecordAt
<1>5. BucketsInv'
  <2>1. Smaller(RefusedAccess(tb, a.interval), tb)
    BY <1>4, RefusedAccessIs DEF Smaller, BucketFields
  <2> QED BY <1>2, <1>3, <2>1, SmallerKeeps
<1>6. CASE Fail(t)
  BY <1>1, <1>3, <1>5, <1>6, FailKeeps, PendingStays DEF ServerInv
<1>7. CASE Goes(t, [a EXCEPT !.at = "scan", !.todo = DOMAIN tb.bucket])
  <2> DEFINE b == [a EXCEPT !.at = "scan", !.todo = DOMAIN tb.bucket]
  <2>1. Onward(a, b, "scan", DOMAIN tb.bucket, a.key)
    BY <1>2, AccessMoves
  <2> HIDE DEF b
  <2>2. ClockInv' /\ AccessInv' /\ MessageInv' /\ SummaryInv'
    BY <1>1, <1>3, <1>4, <1>7, <2>1, GoesKeeps DEF b
  <2> QED BY <1>3, <1>5, <2>2, PendingStays DEF ServerInv
<1> QED BY <1>6, <1>7 DEF Enter

LEMMA ScanKeeps ==
  ASSUME ServerInv, NEW t \in Threads, Scan(t)
  PROVE  ServerInv'
<1> DEFINE a == access[t]
           bucket == buckets[a.type].bucket
<1>1. AccessAt(a, now) /\ a.at = "scan" /\ {"scan", "delete"} \subseteq Timed /\ a # NoAccess
  BY ThreadsAre DEF Scan, ServerInv, AccessInv, Timed
<1>2. DOMAIN a = AccessFields /\ a.type \in Types /\ a.todo \subseteq Keys
  BY <1>1 DEF AccessAt
<1>3. now' = now /\ lastSent' = lastSent /\ pending' = pending /\ buckets' = buckets
  BY DEF Scan
<1>4. BucketsInv' /\ PendingInv'
  BY <1>3, PendingStays DEF ServerInv, BucketsInv
<1>5. PICK k \in a.todo : \/ Fail(t)
                          \/ Goes(t, [a EXCEPT !.at = "delete", !.key = k])
                          \/ Goes(t, [a EXCEPT !.todo = @ \ {k}])
  BY DEF Scan
<1>6. CASE Fail(t)
  BY <1>1, <1>3, <1>4, <1>6, FailKeeps DEF ServerInv
<1>7. CASE Goes(t, [a EXCEPT !.at = "delete", !.key = k])
  <2> DEFINE b == [a EXCEPT !.at = "delete", !.key = k]
  <2>1. Onward(a, b, "delete", a.todo, k) /\ k \in Keys
    BY <1>2, AccessMoves
  <2> HIDE DEF b
  <2>2. ClockInv' /\ AccessInv' /\ MessageInv' /\ SummaryInv'
    BY <1>1, <1>2, <1>3, <1>7, <2>1, GoesKeeps DEF b
  <2> QED BY <1>4, <2>2 DEF ServerInv
<1>8. CASE Goes(t, [a EXCEPT !.todo = @ \ {k}])
  <2> DEFINE b == [a EXCEPT !.todo = @ \ {k}]
             rest == a.todo \ {k}
  <2>1. Onward(a, b, "scan", rest, a.key) /\ rest \in SUBSET Keys
    BY <1>1, <1>2, AccessMoves
  <2> HIDE DEF b, rest
  <2>2. ClockInv' /\ AccessInv' /\ MessageInv' /\ SummaryInv'
    BY <1>1, <1>2, <1>3, <1>8, <2>1, GoesKeeps DEF b
  <2> QED BY <1>4, <2>2 DEF ServerInv
<1> QED BY <1>5, <1>6, <1>7, <1>8

LEMMA DeleteKeeps ==
  ASSUME ServerInv, NEW t \in Threads, Delete(t)
  PROVE  ServerInv'
<1> DEFINE a == access[t]
           tb == buckets[a.type]
           bucket == tb.bucket
<1>1. AccessAt(a, now) /\ a.at = "delete" /\ {"scan", "delete"} \subseteq Timed /\ a # NoAccess
  BY ThreadsAre DEF Delete, ServerInv, AccessInv, Timed
<1>2. DOMAIN a = AccessFields /\ a.type \in Types /\ a.todo \subseteq Keys
  BY <1>1 DEF AccessAt
<1>3. now' = now /\ lastSent' = lastSent /\ pending' = pending
  BY DEF Delete
<1>4. CASE a.key \in DOMAIN bucket
  <2> DEFINE new == [tb EXCEPT !.bucket = Restrict(bucket, DOMAIN bucket \ {a.key})]
             b == [a EXCEPT !.at = "scan", !.todo = @ \ {a.key}, !.key = None]
             rest == a.todo \ {a.key}
  <2>1. buckets' = [buckets EXCEPT ![a.type].bucket = Restrict(bucket, DOMAIN bucket \ {a.key})] /\ Goes(t, b)
    BY <1>4 DEF Delete
  <2>2. DOMAIN tb = BucketFields
    BY <1>2 DEF ServerInv, BucketsInv
  <2>3. Smaller(new, tb)
    BY <2>2 DEF Smaller, Restrict, BucketFields
  <2>4. buckets' = [buckets EXCEPT ![a.type] = new]
    BY <2>1
  <2>5. BucketsInv'
    <3> HIDE DEF new
    <3> QED BY <1>2, <1>3, <2>3, <2>4, SmallerKeeps
  <2>6. Onward(a, b, "scan", rest, None) /\ rest \in SUBSET Keys
    BY <1>2, AccessMoves
  <2> HIDE DEF b, rest
  <2>7. ClockInv' /\ AccessInv' /\ MessageInv' /\ SummaryInv'
    BY <1>1, <1>3, <2>1, <2>6, GoesKeeps
  <2> QED BY <1>3, <2>5, <2>7, PendingStays DEF ServerInv
<1>5. CASE a.key \notin DOMAIN bucket
  <2>1. Fail(t) /\ buckets' = buckets
    BY <1>5 DEF Delete
  <2>2. BucketsInv'
    BY <1>3, <2>1 DEF ServerInv, BucketsInv
  <2> QED BY <1>1, <1>3, <2>1, <2>2, FailKeeps, PendingStays DEF ServerInv
<1> QED BY <1>4, <1>5

LEMMA LeaveKeeps ==
  ASSUME ServerInv, NEW t \in Threads, Leave(t)
  PROVE  ServerInv'
<1> DEFINE a == access[t]
           tb == buckets[a.type]
           new == [tb EXCEPT !.last_timestamp = a.timestamp]
           b == [a EXCEPT !.at = "done"]
<1>1. AccessAt(a, now) /\ a.at = "scan" /\ {"scan", "done"} \subseteq Timed /\ a # NoAccess
  BY ThreadsAre DEF Leave, ServerInv, AccessInv, Timed
<1>2. DOMAIN a = AccessFields /\ a.type \in Types /\ a.todo \subseteq Keys
  BY <1>1 DEF AccessAt
<1>3. /\ now' = now /\ lastSent' = lastSent /\ pending' = pending /\ Goes(t, b)
      /\ buckets' = [buckets EXCEPT ![a.type].last_timestamp = a.timestamp]
  BY DEF Leave
<1>4. DOMAIN tb = BucketFields
  BY <1>2 DEF ServerInv, BucketsInv
<1>5. Smaller(new, tb)
  BY <1>4 DEF Smaller, BucketFields
<1>6. buckets' = [buckets EXCEPT ![a.type] = new]
  BY <1>3
<1>7. Onward(a, b, "done", a.todo, a.key)
  BY <1>2, AccessMoves
<1> HIDE DEF new, b
<1>8. BucketsInv'
  BY <1>2, <1>3, <1>5, <1>6, SmallerKeeps
<1>9. ClockInv' /\ AccessInv' /\ MessageInv' /\ SummaryInv'
  BY <1>1, <1>2, <1>3, <1>7, GoesKeeps
<1> QED BY <1>3, <1>8, <1>9, PendingStays DEF ServerInv

LEMMA RecordStays ==
  ASSUME NEW r, NEW k, NEW type, NEW time \in Nat, NEW later \in Nat, time <= later, RecordAt(r, k, type, time)
  PROVE  RecordAt(r, k, type, later)
<1> DEFINE first == r.value.values[1]
<1>0. /\ r.value \in Messages /\ Len(r.value.values) >= 1
      /\ r.timestamp \in Start..time /\ first <= Most(type, time)
  BY DEF RecordAt
<1>1. first \in Nat
  <2>1. r.value.values \in Seq(Nat)
    BY <1>0 DEF Messages
  <2> QED BY <1>0, <2>1
<1>2. Most(type, time) <= Most(type, later) /\ Most(type, time) \in Nat /\ Most(type, later) \in Nat
  BY DEF Most
<1>3. first <= Most(type, later)
  <2> HIDE DEF first
  <2> QED BY <1>0, <1>1, <1>2
<1>4. r.timestamp \in Start..later
  <2>1. Start \in Nat
    BY ServerAssumption
  <2> QED BY <1>0, <2>1
<1> QED BY <1>3, <1>4 DEF RecordAt

\* Half a second passes: who sends, who has fallen silent, and who has been neither long enough.
LEMMA TickIs ==
  ASSUME ServerInv, Tick
  PROVE  /\ now \in Nat /\ now' = now + 1 /\ now' \in Nat
         /\ lastSent' \in [Keys -> {0} \cup Start..now'] /\ streak' \in [Keys -> 0..2]
         /\ \E senders \in SUBSET Keys :
              /\ \A k \in senders : lastSent'[k] = now' /\ streak'[k] = IF streak[k] < 2 THEN streak[k] + 1 ELSE 2
              /\ \A k \in Keys \ senders :
                   /\ lastSent'[k] = lastSent[k]
                   /\ streak'[k] = 0 \/ (streak'[k] = streak[k] /\ now' - lastSent[k] < MaxGap)
              /\ pending' = UNION {{Pack(Sending(k, type), internal_types) : type \in Sent} : k \in senders}
<1>1. PICK senders \in SUBSET Keys :
        LET silent == {k \in Keys \ senders : now' - lastSent[k] >= MaxGap}
        IN  /\ lastSent' = [k \in Keys |-> IF k \in senders THEN now' ELSE lastSent[k]]
            /\ streak' = [k \in Keys |-> IF k \in silent THEN 0
                                         ELSE IF k \in senders /\ streak[k] < 2 THEN streak[k] + 1
                                         ELSE streak[k]]
            /\ pending' = UNION {{Pack(Sending(k, type), internal_types) : type \in Sent} : k \in senders}
  BY DEF Tick
<1>2. now \in Nat /\ now' = now + 1 /\ now' \in Nat /\ Start <= now /\ Start \in Nat /\ MaxGap \in Nat
  BY ServerAssumption DEF ServerInv, ClockInv, Tick
<1>3. \A k \in Keys : lastSent[k] \in {0} \cup Start..now /\ lastSent[k] \in Nat /\ streak[k] \in 0..2
  BY <1>2 DEF ServerInv, ClockInv
<1>4. lastSent' \in [Keys -> {0} \cup Start..now']
  <2>1. now' \in Start..now' /\ Start..now \subseteq Start..now'
    BY <1>2
  <2> QED BY <1>1, <1>3, <2>1
<1>5. ASSUME NEW k \in senders
      PROVE  lastSent'[k] = now' /\ streak'[k] = IF streak[k] < 2 THEN streak[k] + 1 ELSE 2
  <2>1. streak[k] \in 0..2 /\ k \in Keys
    BY <1>3
  <2> QED BY <1>1, <2>1
<1>6. ASSUME NEW k \in Keys \ senders
      PROVE  /\ lastSent'[k] = lastSent[k]
             /\ streak'[k] = 0 \/ (streak'[k] = streak[k] /\ now' - lastSent[k] < MaxGap)
  <2>1. now' \in Nat /\ MaxGap \in Nat /\ lastSent[k] \in Nat
    BY <1>2, <1>3
  <2>2. CASE now' - lastSent[k] >= MaxGap
    <3>1. k \in {c \in Keys \ senders : now' - lastSent[c] >= MaxGap} /\ k \in Keys /\ k \notin senders
      BY <2>2
    <3>2. lastSent'[k] = lastSent[k]
      BY <1>1, <3>1
    <3>3. streak'[k] = 0
      BY <1>1, <3>1
    <3> QED BY <3>2, <3>3
  <2>3. CASE ~(now' - lastSent[k] >= MaxGap)
    <3>1. now' - lastSent[k] < MaxGap
      BY <2>1, <2>3
    <3>2. k \notin {c \in Keys \ senders : now' - lastSent[c] >= MaxGap} /\ k \in Keys /\ k \notin senders
      BY <2>3
    <3>3. lastSent'[k] = lastSent[k] /\ streak'[k] = streak[k]
      BY <1>1, <3>2
    <3> QED BY <3>1, <3>3
  <2> QED BY <2>2, <2>3
<1>7. streak' \in [Keys -> 0..2]
  <2>1. DOMAIN streak' = Keys /\ streak' = [k \in Keys |-> streak'[k]]
    BY <1>1
  <2>2. ASSUME NEW k \in Keys PROVE streak'[k] \in 0..2
    <3>1. streak[k] \in 0..2
      BY <1>3
    <3> QED BY <1>5, <1>6, <3>1
  <2> QED BY <2>1, <2>2
<1> QED BY <1>1, <1>2, <1>4, <1>5, <1>6, <1>7

LEMMA TickKeeps ==
  ASSUME ServerInv, Tick
  PROVE  ServerInv'
<1>1. /\ now \in Nat /\ now' \in Nat /\ now' > now /\ now' > Start /\ Start \in Nat /\ MaxGap \in Nat \ {0}
  BY ServerAssumption, TickIs DEF ServerInv, ClockInv
<1>2. PICK senders \in SUBSET Keys :
        /\ \A k \in senders : lastSent'[k] = now' /\ streak'[k] = IF streak[k] < 2 THEN streak[k] + 1 ELSE 2
        /\ \A k \in Keys \ senders :
             /\ lastSent'[k] = lastSent[k]
             /\ streak'[k] = 0 \/ (streak'[k] = streak[k] /\ now' - lastSent[k] < MaxGap)
        /\ pending' = UNION {{Pack(Sending(k, type), internal_types) : type \in Sent} : k \in senders}
  BY TickIs
<1>3. /\ \A t \in Threads : access[t] = NoAccess
      /\ buckets' = buckets /\ access' = access /\ message = <<>> /\ message' = <<>>
      /\ get = 0 /\ get' = 0 /\ keys' = keys /\ listed' = listed
  BY DEF Tick, summaryVars
<1>4. ClockInv'
  <2>1. ASSUME NEW k \in Keys, streak'[k] >= 1 PROVE now' - lastSent'[k] < MaxGap
    <3>1. CASE k \in senders
      BY <1>1, <1>2, <3>1
    <3>2. CASE k \notin senders
      BY <1>2, <2>1, <3>2
    <3> QED BY <3>1, <3>2
  <2> QED BY <1>1, <2>1, TickIs DEF ClockInv
<1>5. PendingInv'
  <2>1. ASSUME NEW d \in pending'
        PROVE  /\ ~Skipped(d, internal_types) /\ ~Incomplete(d, internal_types)
               /\ SentAt(Unpack(d), now') /\ lastSent'[KeyOf(Unpack(d))] = now'
    <3>1. PICK k \in senders, type \in Sent : d = Pack(Sending(k, type), internal_types)
      BY <1>2, <2>1
    <3>2. k \in Keys /\ lastSent'[k] = now'
      BY <1>2
    <3> QED BY <1>1, <3>1, <3>2, SendingArrives
  <2> QED BY <1>1, <2>1 DEF PendingInv
<1>6. BucketsInv'
  <2>1. ASSUME NEW type \in Types, NEW k \in DOMAIN buckets[type].bucket
        PROVE  RecordAt(buckets[type].bucket[k], k, type, now')
    <3>1. RecordAt(buckets[type].bucket[k], k, type, now)
      BY DEF ServerInv, BucketsInv
    <3>2. now <= now'
      BY <1>1
    <3> QED BY <1>1, <3>1, <3>2, RecordStays
  <2> QED BY <1>3, <2>1 DEF ServerInv, BucketsInv
<1>7. AccessInv'
  <2>1. AccessAt(NoAccess, now')
    BY ThreadsAre DEF AccessAt
  <2> QED BY <1>3, <2>1 DEF ServerInv, AccessInv
<1>8. MessageInv' /\ SummaryInv'
  <2>1. access'["listener"] = NoAccess /\ access'["collectd"] = NoAccess
    BY <1>3, ThreadsAre
  <2>2. MessageInv'
    BY <1>3, <2>1, ThreadsAre DEF MessageInv
  <2>3. SummaryInv'
    BY <1>3, <2>1, ThreadsAre DEF ServerInv, SummaryInv
  <2> QED BY <2>2, <2>3
<1> QED BY <1>4, <1>5, <1>6, <1>7, <1>8 DEF ServerInv

\* What a thread does leaves the call of the other.
LEMMA AccessKeeps ==
  ASSUME ServerInv, NEW t \in Threads, NEW b, AccessAt(b, now), access' = [access EXCEPT ![t] = b], now' = now
  PROVE  AccessInv' /\ access'[t] = b /\ \A u \in Threads : u # t => access'[u] = access[u]
<1>1. DOMAIN access = Threads
  BY DEF ServerInv, AccessInv
<1>2. \A u \in Threads : access'[u] = IF u = t THEN b ELSE access[u]
  BY <1>1
<1>3. \A u \in Threads : AccessAt(access'[u], now)
  BY <1>2 DEF ServerInv, AccessInv
<1>4. DOMAIN access' = Threads
  BY <1>1
<1> QED BY <1>2, <1>3, <1>4 DEF AccessInv

LEMMA CallAt ==
  ASSUME NEW type \in Types, NEW timestamp \in Nat, NEW time, timestamp <= time, NEW interval
  PROVE  AccessAt(Call(type, timestamp, interval), time) /\ Call(type, timestamp, interval) # NoAccess
<1> DEFINE b == Call(type, timestamp, interval)
<1>1. DOMAIN b = AccessFields /\ b.at = "enter" /\ b.type = type /\ b.timestamp = timestamp /\ b.todo = {}
  BY DEF Call, AccessFields
<1> HIDE DEF b
<1>2. b # NoAccess /\ "enter" \in Timed /\ {} \subseteq Keys
  BY <1>1, ThreadsAre DEF Timed
<1> QED BY <1>1, <1>2 DEF AccessAt, b

\* The datagram that is received is one of those that arrived, or is dropped.
LEMMA ReceiveIs ==
  ASSUME ServerInv, Receive
  PROVE  /\ now' = now /\ lastSent' = lastSent /\ streak' = streak /\ buckets' = buckets /\ message = <<>>
         /\ UNCHANGED summaryVars
         /\ \/ UNCHANGED <<pending, message, access>>
            \/ \E d \in pending :
                 /\ pending' = pending \ {d} /\ message' = <<Unpack(d)>>
                 /\ access' = [access EXCEPT !["listener"] =
                                 Call(Unpack(d).type, Unpack(d).time, Lasting(Unpack(d), 2))]
<1>1. PICK d \in pending \cup Garbled :
        /\ pending' = pending \ {d}
        /\ IF Skipped(d, internal_types) \/ Incomplete(d, internal_types)
             THEN UNCHANGED <<message, access>>
             ELSE /\ message' = <<Unpack(d)>>
                  /\ access' = [access EXCEPT !["listener"] =
                                  Call(Unpack(d).type, Unpack(d).time, Lasting(Unpack(d), 2))]
  BY DEF Receive
<1>2. now' = now /\ lastSent' = lastSent /\ streak' = streak /\ buckets' = buckets /\ message = <<>> /\ UNCHANGED summaryVars
  BY DEF Receive, ServerInv, MessageInv
<1>3. CASE Skipped(d, internal_types) \/ Incomplete(d, internal_types)
  <2>1. d \notin pending
    BY <1>3 DEF ServerInv, PendingInv
  <2> QED BY <1>1, <1>2, <1>3, <2>1
<1>4. CASE ~(Skipped(d, internal_types) \/ Incomplete(d, internal_types))
  <2>1. d \in pending
    BY <1>4, ServerAssumption
  <2> QED BY <1>1, <1>2, <1>4, <2>1
<1> QED BY <1>3, <1>4

LEMMA SentIs ==
  ASSUME NEW v, NEW time \in Nat, SentAt(v, time)
  PROVE  /\ v.type \in Types /\ v.type # "sqlalchemy_process" /\ v.time = Whole(time) /\ v.time \in Nat /\ v.time <= time
         /\ Lasting(v, 2) = Window(v.type)
         /\ Lasting(v, 5) = Window("sqlalchemy_process")
<1>1. v.type \in {"sqlalchemy_pool", "sqlalchemy_totals"} /\ Interval \in Nat
  BY ServerAssumption DEF SentAt
<1>2. v.time = Whole(time) /\ v.time \in Nat /\ v.time <= time
  <2>1. Whole(time) \in Nat /\ Whole(time) = time - (time % 2) /\ time % 2 \in 0..1
    BY WholeIs
  <2> QED BY <2>1 DEF SentAt
<1>3. Seconds(v.interval) = Interval
  BY <1>1 DEF SentAt, Seconds
<1> QED BY <1>1, <1>2, <1>3 DEF Window, Types, Lasting

LEMMA ReceiveKeeps ==
  ASSUME ServerInv, Receive
  PROVE  ServerInv'
<1>1. now' = now /\ lastSent' = lastSent /\ streak' = streak /\ buckets' = buckets /\ message = <<>> /\ UNCHANGED summaryVars
  BY ReceiveIs
<1>2. ClockInv' /\ BucketsInv' /\ now \in Nat
  BY <1>1 DEF ServerInv, ClockInv, BucketsInv
<1>3. CASE UNCHANGED <<pending, message, access>>
  <2>1. PendingInv' /\ AccessInv' /\ MessageInv' /\ SummaryInv'
    BY <1>1, <1>3 DEF ServerInv, PendingInv, AccessInv, MessageInv, SummaryInv, summaryVars
  <2> QED BY <1>2, <2>1 DEF ServerInv
<1>4. ASSUME NEW d \in pending, pending' = pending \ {d}, message' = <<Unpack(d)>>,
             access' = [access EXCEPT !["listener"] =
                          Call(Unpack(d).type, Unpack(d).time, Lasting(Unpack(d), 2))]
      PROVE  ServerInv'
  <2> DEFINE v == Unpack(d)
             b == Call(v.type, v.time, Lasting(v, 2))
  <2>1. SentAt(v, now) /\ now > Start /\ lastSent[KeyOf(v)] = now
    BY DEF ServerInv, PendingInv
  <2>2. /\ v.type \in Types /\ v.type # "sqlalchemy_process" /\ v.time \in Nat /\ v.time <= now
        /\ Lasting(v, 2) = Window(v.type)
    BY <1>2, <2>1, SentIs
  <2>3. AccessAt(b, now) /\ b # NoAccess
    BY <2>2, CallAt
  <2>4. b.at = "enter" /\ b.type = v.type /\ b.timestamp = v.time /\ b.interval = Window(v.type)
    BY <2>2, CallIs
  <2> HIDE DEF b, v
  <2>5. AccessInv' /\ access'["listener"] = b /\ access'["collectd"] = access["collectd"]
    BY <1>1, <1>4, <2>3, ThreadsAre, AccessKeeps DEF b, v
  <2>6. message' = <<v>> /\ Head(message') = v /\ message' # <<>>
    BY <1>4 DEF v
  <2>7. MessageInv'
    BY <1>1, <2>1, <2>2, <2>3, <2>4, <2>5, <2>6 DEF MessageInv
  <2>8. SummaryInv'
    BY <1>1, <2>5 DEF ServerInv, SummaryInv, summaryVars
  <2>9. PendingInv'
    BY <1>1, <1>4, PendingStays
  <2> QED BY <1>2, <2>5, <2>7, <2>8, <2>9 DEF ServerInv
<1> QED BY <1>3, <1>4, ReceiveIs

LEMMA CountedIs ==
  ASSUME NEW v \in Messages
  PROVE  /\ Counted(v) \in Messages /\ KeyOf(Counted(v)) = KeyOf(v)
         /\ Counted(v).type = "sqlalchemy_process" /\ Counted(v).plugin = v.plugin /\ Counted(v).values = <<1>>
<1> DEFINE w == Counted(v)
<1>1. v.interval # None
  <2>1. v.interval \in Nat
    BY DEF Messages
  <2> QED BY <2>1, NameAssumption
<1>2. /\ w = [slot \in Slots |-> w[slot]]
      /\ w.type = "sqlalchemy_process" /\ w.values = <<1>> /\ w.type_instance = v.type_instance
      /\ w.plugin = v.plugin /\ w.plugin_instance = v.plugin_instance /\ w.host = v.host
      /\ w.time = v.time /\ w.interval = v.interval
  BY <1>1 DEF Counted, Build, Values, Slots
<1> HIDE DEF w
<1>3. "sqlalchemy_process" \in Names /\ <<1>> \in Seq(Nat)
  BY WordsAre DEF Names
<1>4. /\ v.type_instance \in Names /\ v.plugin \in Names /\ v.plugin_instance \in Names /\ v.host \in Names
      /\ v.time \in Nat /\ v.interval \in Nat
  BY DEF Messages
<1>5. w \in Messages
  BY <1>2, <1>3, <1>4 DEF Messages, Slots
<1> QED BY <1>2, <1>5 DEF KeyOf, w

\* What the listener stores, and of which bucket.
LEMMA StoredIs ==
  ASSUME ServerInv, SetRecord
  PROVE  LET a == access["listener"]
             v == Head(message)
             value == IF a.type = v.type THEN v ELSE Counted(v)
             r == [timestamp |-> v.time, interval |-> Window(a.type), value |-> value]
         IN  /\ a.at = "done" /\ a # NoAccess /\ message # <<>> /\ a.type \in Types /\ SentAt(v, now)
             /\ a.type \in {v.type, "sqlalchemy_process"} /\ v.type # "sqlalchemy_process"
             /\ buckets' = [buckets EXCEPT ![a.type] = SetItem(buckets[a.type], v.time, Window(a.type), KeyOf(v), value)]
             /\ RecordAt(r, KeyOf(v), a.type, now)
<1> DEFINE a == access["listener"]
           v == Head(message)
           value == IF a.type = v.type THEN v ELSE Counted(v)
           r == [timestamp |-> v.time, interval |-> Window(a.type), value |-> value]
<1>1. a.at = "done" /\ a.at \in Timed /\ a # NoAccess /\ a.type \in Types
  BY ThreadsAre DEF SetRecord, Timed, ServerInv, AccessInv, AccessAt
<1>2. /\ message # <<>> /\ SentAt(v, now) /\ now > Start /\ now \in Nat
      /\ a.timestamp = v.time /\ a.interval = Window(a.type)
      /\ a.type \in {v.type, "sqlalchemy_process"} /\ (a.type = "sqlalchemy_process" => v.type_instance # "")
  BY <1>1 DEF ServerInv, MessageInv, ClockInv
<1>3. v.type \in Types /\ v.type # "sqlalchemy_process" /\ v.time = Whole(now) /\ v.time \in Nat /\ v.time <= now
  BY <1>2, SentIs
<1>4. buckets' = [buckets EXCEPT ![a.type] = SetItem(buckets[a.type], v.time, Window(a.type), KeyOf(v), value)]
  BY <1>2 DEF SetRecord
<1>5. v.time \in Start..now
  <2>1. Start \in Nat
    BY ServerAssumption
  <2>2. Whole(now) = now - (now % 2) /\ now % 2 \in 0..1
    BY <1>2, WholeIs
  <2>3. v.time = Whole(now) /\ now > Start /\ now \in Nat
    BY <1>2, <1>3
  <2> HIDE DEF v
  <2>4. v.time >= Start /\ v.time <= now /\ v.time \in Int
    BY <2>1, <2>2, <2>3
  <2> QED BY <2>1, <2>3, <2>4
<1>6. /\ v \in Messages /\ KeyOf(v) \in Keys /\ v.type \in Sent /\ v.plugin = "sqlalchemy"
      /\ Len(v.values) >= 1 /\ v.values[1] = Most(v.type, now)
  BY <1>2 DEF SentAt
<1>7. KeyOf(v)[3] = v.type_instance
  BY DEF KeyOf
<1>8. CASE a.type = v.type
  <2>1. r.value = v /\ r.timestamp = v.time /\ r.interval = Window(a.type)
    BY <1>8
  <2>2. v.values[1] <= Most(v.type, now) /\ (v.type # "sqlalchemy_totals" => v.values[1] = 1)
    <3>1. Most(v.type, now) \in Nat
      BY <1>2 DEF Most
    <3> QED BY <1>6, <3>1 DEF Most
  <2> HIDE DEF r, v, a
  <2>3. RecordAt(r, KeyOf(v), a.type, now)
    BY <1>3, <1>5, <1>6, <1>8, <2>1, <2>2 DEF RecordAt
  <2> QED BY <1>1, <1>2, <1>3, <1>4, <2>3 DEF r, v, a
<1>9. CASE a.type # v.type
  <2>1. a.type = "sqlalchemy_process" /\ KeyOf(v)[3] # ""
    BY <1>2, <1>7, <1>9
  <2>2. r.value = Counted(v) /\ r.timestamp = v.time /\ r.interval = Window(a.type)
    BY <1>9
  <2>3. /\ Counted(v) \in Messages /\ KeyOf(Counted(v)) = KeyOf(v)
        /\ Counted(v).type = "sqlalchemy_process" /\ Counted(v).plugin = v.plugin /\ Counted(v).values = <<1>>
    BY <1>6, CountedIs
  <2>4. Len(Counted(v).values) >= 1 /\ Counted(v).values[1] = 1 /\ 1 <= Most("sqlalchemy_process", now)
    BY <2>3 DEF Most
  <2> HIDE DEF r, v, a
  <2>5. RecordAt(r, KeyOf(v), a.type, now)
    BY <1>3, <1>5, <1>6, <2>1, <2>2, <2>3, <2>4 DEF RecordAt
  <2> QED BY <1>1, <1>2, <1>3, <1>4, <2>5 DEF r, v, a
<1> QED BY <1>8, <1>9

LEMMA SetRecordKeeps ==
  ASSUME ServerInv, SetRecord
  PROVE  ServerInv'
<1> DEFINE a == access["listener"]
           v == Head(message)
           value == IF a.type = v.type THEN v ELSE Counted(v)
           tb == buckets[a.type]
           new == SetItem(tb, v.time, Window(a.type), KeyOf(v), value)
           r == [timestamp |-> v.time, interval |-> Window(a.type), value |-> value]
           b == Call(Counted(v).type, v.time, Lasting(v, 5))
<1>1. /\ a # NoAccess /\ message # <<>> /\ a.type \in Types /\ SentAt(v, now) /\ buckets' = [buckets EXCEPT ![a.type] = new]
      /\ RecordAt(r, KeyOf(v), a.type, now)
  BY StoredIs
<1>2. now' = now /\ lastSent' = lastSent /\ streak' = streak /\ pending' = pending /\ UNCHANGED summaryVars
  BY DEF SetRecord
<1>3. now \in Nat /\ DOMAIN buckets = Types /\ \A u \in Types : DOMAIN buckets[u] = BucketFields
  BY DEF ServerInv, BucketsInv, ClockInv
<1>4. BucketsInv'
  <2>1. /\ DOMAIN new = BucketFields /\ DOMAIN new.bucket = DOMAIN tb.bucket \cup {KeyOf(v)}
        /\ new.bucket[KeyOf(v)] = r
        /\ \A k \in DOMAIN tb.bucket : k # KeyOf(v) => new.bucket[k] = tb.bucket[k]
    <3>1. DOMAIN tb = {"bucket", "last_timestamp", "last_interval"}
      BY <1>1, <1>3 DEF BucketFields
    <3> HIDE DEF tb, v, a, value
    <3> QED BY <3>1, SetItemIs DEF BucketFields
  <2> HIDE DEF new, r, v
  <2>2. DOMAIN buckets' = Types /\ \A u \in Types : buckets'[u] = IF u = a.type THEN new ELSE buckets[u]
    BY <1>1, <1>3
  <2>3. \A u \in Types : DOMAIN buckets'[u] = BucketFields
    BY <1>3, <2>1, <2>2
  <2>4. ASSUME NEW u \in Types, NEW k \in DOMAIN buckets'[u].bucket PROVE RecordAt(buckets'[u].bucket[k], k, u, now)
    <3>1. CASE u = a.type /\ k = KeyOf(v)
      BY <1>1, <2>1, <2>2, <3>1
    <3>2. CASE ~(u = a.type /\ k = KeyOf(v))
      <4>1. k \in DOMAIN buckets[u].bucket /\ buckets'[u].bucket[k] = buckets[u].bucket[k]
        BY <2>1, <2>2, <2>4, <3>2
      <4> QED BY <4>1 DEF ServerInv, BucketsInv
    <3> QED BY <3>1, <3>2
  <2> QED BY <1>2, <2>2, <2>3, <2>4 DEF BucketsInv
<1>5. ClockInv' /\ PendingInv'
  BY <1>2, PendingStays DEF ServerInv, ClockInv
<1>6. CASE access' = [access EXCEPT !["listener"] = b] /\ message' = message /\ v.type_instance # ""
  <2>1. Counted(v).type = "sqlalchemy_process" /\ v.time \in Nat /\ v.time <= now
        /\ Lasting(v, 5) = Window("sqlalchemy_process")
    BY <1>1, <1>3, CountedIs, SentIs DEF SentAt
  <2>2. AccessAt(b, now) /\ b # NoAccess
    BY <2>1, CallAt DEF Types
  <2>3. b.at = "enter" /\ b.type = "sqlalchemy_process" /\ b.timestamp = v.time /\ b.interval = Window(b.type)
    BY <2>1, CallIs
  <2> HIDE DEF b
  <2>4. AccessInv' /\ access'["listener"] = b /\ access'["collectd"] = access["collectd"]
    BY <1>2, <1>6, <2>2, ThreadsAre, AccessKeeps
  <2>5. MessageInv'
    BY <1>1, <1>2, <1>6, <2>2, <2>3, <2>4 DEF ServerInv, MessageInv
  <2>6. SummaryInv'
    BY <1>2, <2>4 DEF ServerInv, SummaryInv, summaryVars
  <2> QED BY <1>4, <1>5, <2>4, <2>5, <2>6 DEF ServerInv
<1>7. CASE access' = [access EXCEPT !["listener"] = NoAccess] /\ message' = <<>>
  <2>1. AccessAt(NoAccess, now)
    BY ThreadsAre DEF AccessAt
  <2>2. AccessInv' /\ access'["listener"] = NoAccess /\ access'["collectd"] = access["collectd"]
    BY <1>2, <1>7, <2>1, ThreadsAre, AccessKeeps
  <2>3. MessageInv'
    BY <1>7, <2>2, ThreadsAre DEF MessageInv
  <2>4. SummaryInv'
    BY <1>2, <2>2 DEF ServerInv, SummaryInv, summaryVars
  <2> QED BY <1>4, <1>5, <2>2, <2>3, <2>4 DEF ServerInv
<1> QED BY <1>6, <1>7 DEF SetRecord

\* On to a call, or past the last.
LEMMA NextKeeps ==
  ASSUME ServerInv, NEW i \in 1..7, Next(i), now' = now /\ lastSent' = lastSent, streak' = streak, message' = message
  PROVE  ClockInv' /\ AccessInv' /\ MessageInv' /\ SummaryInv'
<1> DEFINE b == IF i \in DOMAIN Gets THEN Call(Gets[i].type, now, NoInterval) ELSE NoAccess
<1>1. get' = i /\ keys' = {} /\ listed' = <<>> /\ access' = [access EXCEPT !["collectd"] = b]
  BY DEF Next
<1>2. now \in Nat
  BY DEF ServerInv, ClockInv
<1>3. i \in DOMAIN Gets <=> i # 7
  BY GetsAre
<1>4. AccessAt(b, now) /\ b.at # "read"
      /\ (b # NoAccess => i \in 1..6 /\ b.type = Gets[i].type /\ b.timestamp = now /\ b.interval = NoInterval)
  <2>1. CASE i = 7
    <3>1. b = NoAccess
      BY <1>3, <2>1
    <3> HIDE DEF b
    <3> QED BY <3>1, ThreadsAre DEF AccessAt
  <2>2. CASE i # 7
    <3>1. b = Call(Gets[i].type, now, NoInterval) /\ i \in 1..6 /\ Gets[i].type \in Types
      BY <1>3, <2>2, GetsAre
    <3> HIDE DEF b
    <3>2. now <= now
      BY <1>2
    <3> DEFINE type == Gets[i].type
    <3>3. type \in Types
      BY <3>1
    <3> HIDE DEF type
    <3>4. AccessAt(Call(type, now, NoInterval), now) /\ Call(type, now, NoInterval) # NoAccess
      BY <1>2, <3>2, <3>3, CallAt
    <3>5. /\ Call(type, now, NoInterval).at = "enter" /\ Call(type, now, NoInterval).type = type
          /\ Call(type, now, NoInterval).timestamp = now /\ Call(type, now, NoInterval).interval = NoInterval
      BY CallIs
    <3>6. b = Call(type, now, NoInterval) /\ i \in 1..6
      BY <3>1 DEF type
    <3> QED BY <3>4, <3>5, <3>6 DEF type
  <2> QED BY <2>1, <2>2
<1> HIDE DEF b
<1>5. AccessInv' /\ access'["collectd"] = b /\ access'["listener"] = access["listener"]
  BY <1>1, <1>4, ThreadsAre, AccessKeeps
<1>6. MessageInv'
  BY <1>5 DEF ServerInv, MessageInv
<1>7. b.at \in Timed => b # NoAccess
  BY ThreadsAre
<1>8. SummaryInv'
  BY <1>1, <1>4, <1>5, <1>7 DEF SummaryInv
<1> QED BY <1>5, <1>6, <1>8 DEF ServerInv, ClockInv

LEMMA SummaryStepsKeep ==
  ASSUME ServerInv, Read \/ ListKeys \/ LookUp \/ EndSummary
  PROVE  ServerInv'
<1>1. now' = now /\ lastSent' = lastSent /\ pending' = pending /\ buckets' = buckets
  BY DEF Read, ListKeys, LookUp, EndSummary
<1>2. PendingInv' /\ BucketsInv'
  BY <1>1, PendingStays DEF ServerInv, BucketsInv
<1>3. get \in 0..7 /\ (access["collectd"] # NoAccess => get \in 1..6)
  BY DEF ServerInv, SummaryInv
<1>4. CASE Read
  BY <1>1, <1>2, <1>4, NextKeeps DEF Read, ServerInv
<1>5. CASE ListKeys
  <2>1. access["collectd"].at = "done" /\ access["collectd"] # NoAccess /\ get \in 1..6 /\ streak' = streak /\ message' = message
    BY <1>3, <1>5, ThreadsAre DEF ListKeys, Timed
  <2> DEFINE bucket == buckets[Gets[get].type].bucket
             b == [at |-> "read"]
  <2>2. CASE DOMAIN bucket = {}
    <3>1. Next(get + 1) /\ get + 1 \in 1..7
      BY <1>5, <2>1, <2>2 DEF ListKeys
    <3> QED BY <1>1, <1>2, <2>1, <3>1, NextKeeps DEF ServerInv
  <2>3. CASE DOMAIN bucket # {}
    <3>1. access' = [access EXCEPT !["collectd"] = b] /\ keys' = DOMAIN bucket /\ listed' = bucket /\ get' = get
      BY <1>5, <2>3 DEF ListKeys
    <3>2. AccessAt(b, now) /\ b # NoAccess /\ b.at = "read"
      BY DEF AccessAt, NoAccess, Timed
    <3>3. AccessInv' /\ access'["collectd"] = b /\ access'["listener"] = access["listener"]
      BY <1>1, <3>1, <3>2, ThreadsAre, AccessKeeps
    <3>4. DOMAIN bucket \subseteq Keys
      BY <2>1, GetsAre DEF ServerInv, BucketsInv, RecordAt
    <3>5. SummaryInv'
      BY <2>1, <2>3, <3>1, <3>2, <3>3, <3>4, ThreadsAre DEF SummaryInv
    <3>6. MessageInv'
      BY <1>1, <2>1, <3>3 DEF ServerInv, MessageInv
    <3> QED BY <1>1, <1>2, <2>1, <3>3, <3>5, <3>6 DEF ServerInv, ClockInv
  <2> QED BY <2>2, <2>3
<1>6. CASE LookUp
  <2> DEFINE k == First(keys)
             rest == keys \ {k}
  <2>1. access["collectd"].at = "read" /\ access["collectd"] # NoAccess /\ get \in 1..6
    BY <1>3, <1>6, ThreadsAre DEF LookUp
  <2>2. CASE Fail("collectd")
    BY <1>1, <1>2, <2>1, <2>2, ThreadsAre, FailKeeps DEF ServerInv
  <2>3. CASE ~Fail("collectd")
    <3>1. streak' = streak /\ message' = message
      BY <1>6, <2>3 DEF LookUp
    <3>2. CASE rest = {}
      <4>1. Next(get + 1) /\ get + 1 \in 1..7
        BY <1>6, <2>1, <2>3, <3>2 DEF LookUp
      <4> QED BY <1>1, <1>2, <3>1, <4>1, NextKeeps DEF ServerInv
    <3>3. CASE rest # {}
      <4>1. keys' = rest /\ get' = get /\ listed' = listed /\ access' = access
        BY <1>6, <2>3, <3>3 DEF LookUp
      <4>2. SummaryInv'
        BY <2>1, <3>3, <4>1, ThreadsAre DEF ServerInv, SummaryInv
      <4>3. AccessInv' /\ MessageInv'
        BY <1>1, <3>1, <4>1 DEF ServerInv, AccessInv, MessageInv
      <4> QED BY <1>1, <1>2, <3>1, <4>2, <4>3 DEF ServerInv, ClockInv
    <3> QED BY <3>2, <3>3
  <2> QED BY <2>2, <2>3
<1>7. CASE EndSummary
  <2>1. get = 7 /\ access["collectd"] = NoAccess
    BY <1>3, <1>7, GetsAre DEF EndSummary
  <2>2. get' = 0 /\ keys' = keys /\ listed' = listed /\ access' = access /\ message' = message /\ streak' = streak
    BY <1>7 DEF EndSummary
  <2>3. SummaryInv'
    BY <2>1, <2>2, ThreadsAre DEF ServerInv, SummaryInv
  <2>4. ClockInv' /\ AccessInv' /\ MessageInv'
    BY <1>1, <2>2 DEF ServerInv, ClockInv, AccessInv, MessageInv
  <2> QED BY <1>2, <2>3, <2>4 DEF ServerInv
<1> QED BY <1>4, <1>5, <1>6, <1>7

LEMMA StepKeeps == ServerInv /\ [ServerNext]_serverVars => ServerInv'
<1> SUFFICES ASSUME ServerInv, [ServerNext]_serverVars PROVE ServerInv'
  OBVIOUS
<1>1. CASE Tick
  BY <1>1, TickKeeps
<1>2. ASSUME NEW t \in Threads, Enter(t) \/ Scan(t) \/ Delete(t) \/ Leave(t) PROVE ServerInv'
  BY <1>2, EnterKeeps, ScanKeeps, DeleteKeeps, LeaveKeeps
<1>3. CASE Receive
  BY <1>3, ReceiveKeeps
<1>4. CASE SetRecord
  BY <1>4, SetRecordKeeps
<1>5. CASE Read \/ ListKeys \/ LookUp \/ EndSummary
  BY <1>5, SummaryStepsKeep
<1>6. CASE UNCHANGED serverVars
  BY <1>6 DEF serverVars, summaryVars, ServerInv, ClockInv, PendingInv, BucketsInv, AccessInv, MessageInv, SummaryInv
<1> QED BY <1>1, <1>2, <1>3, <1>4, <1>5, <1>6 DEF ServerNext

(***************************************************************************)
(* What arrives can be stored, a record is of a process that has sent it   *)
(* since the start, and each thread is in a call for the message or the    *)
(* summary it is at.                                                       *)
(***************************************************************************)
THEOREM ServerInvariant == ServerSpec => []ServerInv
<1>1. ServerInit => ServerInv
  BY InitInv
<1> QED BY <1>1, StepKeeps, PTL DEF ServerSpec

(***************************************************************************)
(* ServerTypeOK, whatever the clients and the times.                       *)
(***************************************************************************)
THEOREM ServerTypeCorrect == ServerSpec => []ServerTypeOK
BY ServerInvariant, InvIsTyped, PTL

\* What a call of _get_bucket does in a step: it takes records away at most, and fails or goes on.
LEMMA CallIsOnward ==
  ASSUME ServerInv, NEW t \in Threads, Enter(t) \/ Scan(t) \/ Delete(t) \/ Leave(t)
  PROVE  LET a == access[t]
             bucket == buckets[a.type].bucket
         IN  /\ AccessAt(a, now) /\ a.at \in Timed /\ a.type \in Types /\ a.timestamp \in Nat /\ a.timestamp <= now
             /\ now' = now /\ lastSent' = lastSent /\ pending' = pending
             /\ \A type \in Types : \A k \in DOMAIN buckets'[type].bucket :
                  k \in DOMAIN buckets[type].bucket /\ buckets'[type].bucket[k] = buckets[type].bucket[k]
             /\ \/ Fail(t)
                \/ \E b : /\ b.type = a.type /\ b.at \in Timed /\ Goes(t, b)
                          /\ b.at = "delete" => b.key \in DOMAIN bucket /\ Stale(bucket[b.key], a.timestamp)
<1> DEFINE a == access[t]
           tb == buckets[a.type]
<1>1. AccessAt(a, now) /\ a.at \in Timed /\ a.at \in {"enter", "scan", "delete"}
  BY DEF Enter, Scan, Delete, Leave, ServerInv, AccessInv, Timed
<1>2. DOMAIN a = AccessFields /\ a.type \in Types /\ a.timestamp \in Nat /\ a.timestamp <= now
  BY <1>1 DEF AccessAt
<1>3. now' = now /\ lastSent' = lastSent /\ pending' = pending
  BY DEF Enter, Scan, Delete, Leave
<1>4. DOMAIN tb = BucketFields /\ DOMAIN buckets = Types
  BY <1>2 DEF ServerInv, BucketsInv
<1> DEFINE Less == \A type \in Types : \A k \in DOMAIN buckets'[type].bucket :
                     k \in DOMAIN buckets[type].bucket /\ buckets'[type].bucket[k] = buckets[type].bucket[k]
           Onwards(b) == /\ b.type = a.type /\ b.at \in Timed /\ Goes(t, b)
                         /\ b.at = "delete" => b.key \in DOMAIN tb.bucket /\ Stale(tb.bucket[b.key], a.timestamp)
<1>5. ASSUME NEW b, b.type = a.type, b.at \in {"scan", "done"}, Goes(t, b) PROVE Onwards(b)
  BY <1>5 DEF Timed
<1>6. CASE Enter(t)
  <2>1. Less
    <3> DEFINE new == RefusedAccess(tb, a.interval)
    <3>1. buckets' = [buckets EXCEPT ![a.type] = new]
      BY <1>6 DEF Enter
    <3>2. new.bucket = tb.bucket
      BY <1>4, RefusedAccessIs DEF BucketFields
    <3> HIDE DEF new
    <3> QED BY <1>4, <3>1, <3>2
  <2> DEFINE b == [a EXCEPT !.at = "scan", !.todo = DOMAIN tb.bucket]
  <2>2. Fail(t) \/ Goes(t, b)
    BY <1>6 DEF Enter
  <2>3. b.type = a.type /\ b.at = "scan"
    BY <1>2, AccessMoves DEF Onward
  <2> HIDE DEF b, Less, Onwards
  <2>4. Fail(t) \/ \E c : Onwards(c)
    BY <1>5, <2>2, <2>3
  <2> QED BY <1>1, <1>2, <1>3, <2>1, <2>4 DEF Less, Onwards
<1>7. CASE Scan(t)
  <2>1. Less
    BY <1>7 DEF Scan
  <2>2. PICK k \in a.todo : \/ Fail(t)
                            \/ /\ k \in DOMAIN tb.bucket /\ Stale(tb.bucket[k], a.timestamp)
                               /\ Goes(t, [a EXCEPT !.at = "delete", !.key = k])
                            \/ Goes(t, [a EXCEPT !.todo = @ \ {k}])
    BY <1>7 DEF Scan
  <2>3. Fail(t) \/ \E c : Onwards(c)
    <3>1. CASE /\ k \in DOMAIN tb.bucket /\ Stale(tb.bucket[k], a.timestamp)
               /\ Goes(t, [a EXCEPT !.at = "delete", !.key = k])
      <4> DEFINE b == [a EXCEPT !.at = "delete", !.key = k]
      <4>1. b.type = a.type /\ b.key = k /\ b.at = "delete" /\ "delete" \in Timed
        BY <1>2, AccessMoves DEF Onward, Timed
      <4> HIDE DEF b
      <4>2. Onwards(b)
        BY <3>1, <4>1 DEF b
      <4> QED BY <4>2
    <3>2. CASE Goes(t, [a EXCEPT !.todo = @ \ {k}])
      <4> DEFINE b == [a EXCEPT !.todo = @ \ {k}]
      <4>1. a.at = "scan"
        BY <1>7 DEF Scan
      <4>2. b.type = a.type /\ b.at = "scan"
        BY <1>2, <4>1, AccessMoves DEF Onward
      <4> HIDE DEF b, Onwards
      <4>3. Onwards(b)
        BY <1>5, <3>2, <4>2 DEF b
      <4> QED BY <4>3
    <3> QED BY <2>2, <3>1, <3>2
  <2> HIDE DEF Less, Onwards
  <2> QED BY <1>1, <1>2, <1>3, <2>1, <2>3 DEF Less, Onwards
<1>8. CASE Delete(t)
  <2> DEFINE b == [a EXCEPT !.at = "scan", !.todo = @ \ {a.key}, !.key = None]
  <2>1. Less
    <3> DEFINE new == [tb EXCEPT !.bucket = Restrict(tb.bucket, DOMAIN tb.bucket \ {a.key})]
    <3>1. buckets' = buckets \/ buckets' = [buckets EXCEPT ![a.type] = new]
      BY <1>8 DEF Delete
    <3>2. \A k \in DOMAIN new.bucket : k \in DOMAIN tb.bucket /\ new.bucket[k] = tb.bucket[k]
      BY <1>4 DEF Restrict, BucketFields
    <3> HIDE DEF new
    <3> QED BY <1>4, <3>1, <3>2
  <2>2. Fail(t) \/ Goes(t, b)
    BY <1>8 DEF Delete
  <2>3. b.type = a.type /\ b.at = "scan"
    BY <1>2, AccessMoves DEF Onward
  <2> HIDE DEF b, Less, Onwards
  <2>4. Fail(t) \/ \E c : Onwards(c)
    BY <1>5, <2>2, <2>3
  <2> QED BY <1>1, <1>2, <1>3, <2>1, <2>4 DEF Less, Onwards
<1>9. CASE Leave(t)
  <2> DEFINE b == [a EXCEPT !.at = "done"]
  <2>1. Less
    <3> DEFINE new == [tb EXCEPT !.last_timestamp = a.timestamp]
    <3>1. buckets' = [buckets EXCEPT ![a.type] = new]
      BY <1>9 DEF Leave
    <3>2. new.bucket = tb.bucket
      BY <1>4 DEF BucketFields
    <3> HIDE DEF new
    <3> QED BY <1>4, <3>1, <3>2
  <2>2. Goes(t, b)
    BY <1>9 DEF Leave
  <2>3. b.type = a.type /\ b.at = "done"
    BY <1>2, AccessMoves DEF Onward
  <2> HIDE DEF b, Less, Onwards
  <2>4. Fail(t) \/ \E c : Onwards(c)
    BY <1>5, <2>2, <2>3
  <2> QED BY <1>1, <1>2, <1>3, <2>1, <2>4 DEF Less, Onwards
<1> QED BY <1>6, <1>7, <1>8, <1>9

-----------------------------------------------------------------------------
(* The records of those that send are fresh. *)

\* A record will be set by what has arrived.
Unset(k, type) ==
  \/ \E d \in pending : KeyOf(Unpack(d)) = k /\ type \in {Unpack(d).type, "sqlalchemy_process"}
  \/ /\ message # <<>> /\ KeyOf(Head(message)) = k
     /\ \/ type = "sqlalchemy_process"
        \/ type = Head(message).type /\ access["listener"].type = type

\* How old a record may be of a process that has sent some messages in a row.
FreshAt(timestamp, s, unset, last) ==
  /\ s >= 1 /\ ~unset => timestamp >= last - 1
  /\ s >= 2 /\ unset => timestamp >= last - MaxGap - 1

FreshInv ==
  \A type \in Types : \A k \in DOMAIN buckets[type].bucket :
    FreshAt(buckets[type].bucket[k].timestamp, streak[k], Unset(k, type), lastSent[k])

DeleteInv == \A t \in Threads : access[t].at = "delete" => streak[access[t].key] <= 1

\* A record that is set is fresh, and the process's next message finds it a gap older.
LEMMA FreshIs ==
  ASSUME NEW last \in Nat, NEW timestamp \in Nat, NEW s \in 0..2
  PROVE  /\ \A unset \in BOOLEAN : timestamp >= last - 1 => FreshAt(timestamp, s, unset, last)
         /\ \A unset : FreshAt(timestamp, 0, unset, last)
         /\ \A later \in Nat : FreshAt(timestamp, s, FALSE, last) /\ later - last <= MaxGap =>
              FreshAt(timestamp, IF s < 2 THEN s + 1 ELSE 2, TRUE, later)
<1>1. MaxGap \in Nat
  BY ServerAssumption
<1>2. s = 0 \/ s = 1 \/ s = 2
  OBVIOUS
<1> QED BY <1>1, <1>2 DEF FreshAt

LEMMA RecordIs ==
  ASSUME ServerInv, NEW type \in Types, NEW k \in DOMAIN buckets[type].bucket
  PROVE  /\ RecordAt(buckets[type].bucket[k], k, type, now) /\ k \in Keys
         /\ buckets[type].bucket[k].timestamp \in Nat /\ buckets[type].bucket[k].timestamp <= now
         /\ now \in Nat /\ streak[k] \in 0..2 /\ lastSent[k] \in Nat /\ lastSent[k] <= now
<1>1. RecordAt(buckets[type].bucket[k], k, type, now) /\ now \in Nat /\ Start \in Nat
  BY ServerAssumption DEF ServerInv, BucketsInv, ClockInv
<1>2. k \in Keys /\ buckets[type].bucket[k].timestamp \in Start..now
  BY <1>1 DEF RecordAt
<1>3. streak[k] \in 0..2 /\ lastSent[k] \in Nat /\ lastSent[k] <= now
  BY <1>1, <1>2 DEF ServerInv, ClockInv
<1> QED BY <1>1, <1>2, <1>3

LEMMA UnsetIsBoolean ==
  ASSUME NEW k, NEW type
  PROVE  Unset(k, type) \in BOOLEAN
BY DEF Unset

\* A step within half a second, in which records are set for the second or left as they are.
LEMMA FreshStays ==
  ASSUME ServerInv, FreshInv, now' = now /\ lastSent' = lastSent,
         \A type \in Types : \A k \in DOMAIN buckets'[type].bucket :
           \/ buckets'[type].bucket[k].timestamp = Whole(now) /\ k \in Keys /\ streak'[k] \in 0..2
           \/ /\ k \in DOMAIN buckets[type].bucket
              /\ buckets'[type].bucket[k].timestamp = buckets[type].bucket[k].timestamp
              /\ streak'[k] = streak[k] /\ (Unset(k, type)' <=> Unset(k, type))
  PROVE  FreshInv'
<1> SUFFICES ASSUME NEW type \in Types, NEW k \in DOMAIN buckets'[type].bucket
             PROVE  FreshAt(buckets'[type].bucket[k].timestamp, streak'[k], Unset(k, type)', lastSent[k])
  BY DEF FreshInv
<1>1. now \in Nat /\ Whole(now) \in Nat /\ Whole(now) >= now - 1
  <2>1. now \in Nat
    BY DEF ServerInv, ClockInv
  <2> QED BY <2>1, WholeIs
<1>2. CASE buckets'[type].bucket[k].timestamp = Whole(now) /\ k \in Keys /\ streak'[k] \in 0..2
  <2>1. lastSent[k] \in Nat /\ lastSent[k] <= now
    <3>1. lastSent[k] \in {0} \cup Start..now /\ Start \in Nat
      BY <1>2, ServerAssumption DEF ServerInv, ClockInv
    <3> QED BY <1>1, <3>1
  <2>2. Whole(now) >= lastSent[k] - 1
    BY <1>1, <2>1
  <2>3. Unset(k, type)' \in BOOLEAN
    BY DEF Unset
  <2> QED BY <1>1, <1>2, <2>1, <2>2, <2>3, FreshIs
<1>3. CASE /\ k \in DOMAIN buckets[type].bucket
           /\ buckets'[type].bucket[k].timestamp = buckets[type].bucket[k].timestamp
           /\ streak'[k] = streak[k] /\ (Unset(k, type)' <=> Unset(k, type))
  <2>1. FreshAt(buckets[type].bucket[k].timestamp, streak[k], Unset(k, type), lastSent[k])
    BY <1>3 DEF FreshInv
  <2> QED BY <1>3, <2>1 DEF FreshAt
<1> QED BY <1>2, <1>3

LEMMA TickKeepsFresh ==
  ASSUME ServerInv, FreshInv, Tick
  PROVE  FreshInv' /\ DeleteInv'
<1>1. /\ now' = now + 1 /\ buckets' = buckets /\ pending = {} /\ message = <<>> /\ message' = <<>> /\ now \in Nat
      /\ access' = access /\ \A t \in Threads : access[t] = NoAccess
  BY DEF Tick, ServerInv, ClockInv
<1>2. PICK senders \in SUBSET Keys :
        /\ \A k \in senders : lastSent'[k] = now' /\ streak'[k] = IF streak[k] < 2 THEN streak[k] + 1 ELSE 2
        /\ \A k \in Keys \ senders :
             /\ lastSent'[k] = lastSent[k]
             /\ streak'[k] = 0 \/ (streak'[k] = streak[k] /\ now' - lastSent[k] < MaxGap)
        /\ pending' = UNION {{Pack(Sending(k, type), internal_types) : type \in Sent} : k \in senders}
  BY TickIs
<1>3. DeleteInv'
  BY <1>1, ThreadsAre DEF DeleteInv
<1>4. ASSUME NEW type \in Types, NEW k \in DOMAIN buckets[type].bucket
      PROVE  FreshAt(buckets[type].bucket[k].timestamp, streak'[k], Unset(k, type)', lastSent'[k])
  <2> DEFINE ts == buckets[type].bucket[k].timestamp
  <2>1. /\ RecordAt(buckets[type].bucket[k], k, type, now) /\ k \in Keys /\ ts \in Nat /\ streak[k] \in 0..2
        /\ lastSent[k] \in Nat
    BY RecordIs
  <2>2. ~Unset(k, type)
    BY <1>1 DEF Unset
  <2>3. FreshAt(ts, streak[k], FALSE, lastSent[k])
    BY <2>2 DEF FreshInv, FreshAt
  <2>4. now' \in Nat /\ MaxGap \in Nat
    BY <1>1, ServerAssumption
  <2> HIDE DEF ts
  <2>5. CASE k \notin senders
    <3>1. lastSent'[k] = lastSent[k] /\ (streak'[k] = 0 \/ streak'[k] = streak[k])
      BY <1>2, <2>1, <2>5
    <3>2. ~Unset(k, type)'
      <4>1. ASSUME NEW d \in pending' PROVE KeyOf(Unpack(d)) # k
        <5>1. PICK c \in senders, u \in Sent : d = Pack(Sending(c, u), internal_types)
          BY <1>2, <4>1
        <5>2. c \in Keys
          BY <1>2
        <5>3. KeyOf(Unpack(d)) = c
          BY <2>4, <5>1, <5>2, SendingArrives
        <5> QED BY <2>5, <5>3
      <4> QED BY <1>1, <4>1 DEF Unset
    <3>3. CASE streak'[k] = 0
      BY <2>1, <3>1, <3>3, FreshIs DEF ts
    <3>4. CASE streak'[k] = streak[k]
      BY <2>3, <3>1, <3>2, <3>4 DEF ts, FreshAt
    <3> QED BY <3>1, <3>3, <3>4
  <2>6. CASE k \in senders
    <3>1. lastSent'[k] = now' /\ streak'[k] = IF streak[k] < 2 THEN streak[k] + 1 ELSE 2
      BY <1>2, <2>6
    <3>2. FreshAt(ts, streak'[k], TRUE, now')
      <4>1. CASE streak[k] = 0
        BY <3>1, <4>1 DEF FreshAt
      <4>2. CASE streak[k] # 0
        <5>1. now - lastSent[k] < MaxGap
          BY <2>1, <4>2 DEF ServerInv, ClockInv
        <5>2. now' - lastSent[k] <= MaxGap
          BY <1>1, <2>1, <2>4, <5>1
        <5> QED BY <2>1, <2>3, <2>4, <3>1, <5>2, FreshIs
      <4> QED BY <4>1, <4>2
    <3>3. Unset(k, type)'
      <4>1. PICK u \in Sent : u = type \/ type = "sqlalchemy_process"
        BY <2>1 DEF RecordAt
      <4> DEFINE d == Pack(Sending(k, u), internal_types)
      <4>2. d \in pending'
        BY <1>2, <2>6
      <4>3. SentAt(Unpack(d), now') /\ KeyOf(Unpack(d)) = k /\ Unpack(d).type = u
        BY <2>1, <2>4, SendingArrives
      <4>4. KeyOf(Unpack(d)) = k /\ type \in {Unpack(d).type, "sqlalchemy_process"}
        BY <4>1, <4>3
      <4> HIDE DEF d
      <4> QED BY <4>2, <4>4 DEF Unset
    <3> QED BY <3>1, <3>2, <3>3 DEF ts, FreshAt
  <2> QED BY <2>5, <2>6
<1>5. FreshInv'
  BY <1>1, <1>4 DEF FreshInv
<1> QED BY <1>3, <1>5

\* What a step within a call leaves: the records it does not delete, and what is to be set.
LEMMA CallKeepsFresh ==
  ASSUME ServerInv, FreshInv, DeleteInv, NEW t \in Threads, access[t].at \in Timed,
         now' = now /\ lastSent' = lastSent, pending' = pending,
         \A type \in Types : \A k \in DOMAIN buckets'[type].bucket :
           k \in DOMAIN buckets[type].bucket /\ buckets'[type].bucket[k] = buckets[type].bucket[k],
         \/ Fail(t)
         \/ \E b : /\ b.type = access[t].type /\ (b.at = "delete" => streak[b.key] <= 1)
                  /\ Goes(t, b)
  PROVE  FreshInv' /\ DeleteInv'
<1>1. DOMAIN access = Threads /\ access[t] # NoAccess
  BY ThreadsAre DEF ServerInv, AccessInv
<1>2. ASSUME NEW b, b.type = access[t].type, b.at = "delete" => streak[b.key] <= 1, Goes(t, b)
      PROVE  FreshInv' /\ DeleteInv'
  <2>1. message' = message /\ streak' = streak /\ \A u \in Threads : access'[u] = IF u = t THEN b ELSE access[u]
    BY <1>1, <1>2 DEF Goes
  <2>2. access'["listener"].type = access["listener"].type
    BY <1>2, <2>1, ThreadsAre
  <2>3. \A type, k : Unset(k, type)' <=> Unset(k, type)
    BY <2>1, <2>2 DEF Unset
  <2>4. FreshInv'
    <3>1. ASSUME NEW type \in Types, NEW k \in DOMAIN buckets'[type].bucket
          PROVE  /\ k \in DOMAIN buckets[type].bucket
                 /\ buckets'[type].bucket[k].timestamp = buckets[type].bucket[k].timestamp
                 /\ streak'[k] = streak[k] /\ (Unset(k, type)' <=> Unset(k, type))
      BY <2>1, <2>3
    <3> QED BY <3>1, FreshStays
  <2>5. DeleteInv'
    BY <1>2, <2>1 DEF DeleteInv
  <2> QED BY <2>4, <2>5
<1>3. CASE Fail(t) /\ t = "collectd"
  <2>1. message' = message /\ streak' = streak /\ \A u \in Threads : access'[u] = IF u = t THEN NoAccess ELSE access[u]
    BY <1>1, <1>3, ThreadsAre DEF Fail
  <2>2. access'["listener"] = access["listener"]
    BY <1>3, <2>1, ThreadsAre
  <2>3. \A type, k : Unset(k, type)' <=> Unset(k, type)
    BY <2>1, <2>2 DEF Unset
  <2>4. FreshInv'
    <3>1. ASSUME NEW type \in Types, NEW k \in DOMAIN buckets'[type].bucket
          PROVE  /\ k \in DOMAIN buckets[type].bucket
                 /\ buckets'[type].bucket[k].timestamp = buckets[type].bucket[k].timestamp
                 /\ streak'[k] = streak[k] /\ (Unset(k, type)' <=> Unset(k, type))
      BY <2>1, <2>3
    <3> QED BY <3>1, FreshStays
  <2>5. DeleteInv'
    BY <2>1, ThreadsAre DEF DeleteInv
  <2> QED BY <2>4, <2>5
<1>4. CASE Fail(t) /\ t = "listener"
  <2> DEFINE c == KeyOf(Head(message))
  <2>1. /\ message' = <<>> /\ \A u \in Threads : access'[u] = IF u = t THEN NoAccess ELSE access[u]
        /\ streak' = [streak EXCEPT ![c] = 0]
    BY <1>1, <1>4, ThreadsAre DEF Fail
  <2>2. c \in Keys /\ streak \in [Keys -> 0..2]
    BY <1>1, <1>4, AtListener DEF ServerInv, MessageInv, ClockInv
  <2>3. \A k \in Keys : streak'[k] = IF k = c THEN 0 ELSE streak[k]
    BY <2>1, <2>2
  <2>4. \A type, k : k # c => (Unset(k, type)' <=> Unset(k, type))
    BY <2>1 DEF Unset
  <2> HIDE DEF c
  <2>5. ASSUME NEW type \in Types, NEW k \in DOMAIN buckets'[type].bucket
        PROVE  FreshAt(buckets'[type].bucket[k].timestamp, streak'[k], Unset(k, type)', lastSent[k])
    <3> DEFINE ts == buckets[type].bucket[k].timestamp
    <3>1. k \in DOMAIN buckets[type].bucket /\ buckets'[type].bucket[k].timestamp = ts
      OBVIOUS
    <3>2. k \in Keys /\ ts \in Nat /\ lastSent[k] \in Nat /\ FreshAt(ts, streak[k], Unset(k, type), lastSent[k])
      BY <3>1, RecordIs DEF FreshInv
    <3> HIDE DEF ts
    <3>3. CASE k # c
      BY <2>3, <2>4, <3>1, <3>2, <3>3 DEF FreshAt
    <3>4. CASE k = c
      BY <2>3, <3>1, <3>2, <3>4 DEF FreshAt
    <3> QED BY <3>3, <3>4
  <2>6. FreshInv'
    BY <2>5 DEF FreshInv
  <2>7. DeleteInv'
    <3>1. ASSUME NEW u \in Threads, access'[u].at = "delete" PROVE streak'[access'[u].key] <= 1
      <4>1. access'[u] = access[u]
        BY <2>1, <3>1, ThreadsAre
      <4>2. streak[access[u].key] <= 1 /\ access[u].key \in Keys
        BY <3>1, <4>1 DEF DeleteInv, ServerInv, AccessInv, AccessAt
      <4> QED BY <2>3, <4>1, <4>2
    <3> QED BY <3>1 DEF DeleteInv
  <2> QED BY <2>6, <2>7
<1> QED BY <1>2, <1>3, <1>4, ThreadsAre

\* A process that has sent two messages in a row has no stale record.
LEMMA NotStale ==
  ASSUME GapInWindow, ServerInv, FreshInv, NEW type \in Types, NEW k \in DOMAIN buckets[type].bucket,
         streak[k] >= 2, NEW timestamp \in Nat, timestamp <= now
  PROVE  ~Stale(buckets[type].bucket[k], timestamp)
<1> DEFINE r == buckets[type].bucket[k]
           ts == r.timestamp
<1>1. /\ RecordAt(r, k, type, now) /\ k \in Keys /\ ts \in Nat /\ now \in Nat /\ streak[k] \in 0..2
      /\ lastSent[k] \in Nat
  BY RecordIs
<1>2. FreshAt(ts, streak[k], Unset(k, type), lastSent[k])
  BY DEF FreshInv
<1>3. r.interval = Window(type) /\ Interval \in Nat /\ MaxGap \in Nat
  BY <1>1, ServerAssumption DEF RecordAt
<1> HIDE DEF ts
<1>4. ts >= now - MaxGap - 1
  <2>1. CASE Unset(k, type)
    <3>1. lastSent[k] = now
      BY <2>1 DEF Unset, ServerInv, PendingInv, MessageInv
    <3> QED BY <1>2, <2>1, <3>1 DEF FreshAt
  <2>2. CASE ~Unset(k, type)
    <3>1. now - lastSent[k] < MaxGap
      BY <1>1 DEF ServerInv, ClockInv
    <3>2. ts >= lastSent[k] - 1
      BY <1>1, <1>2, <2>2 DEF FreshAt
    <3> QED BY <1>1, <1>3, <3>1, <3>2
  <2> QED BY <2>1, <2>2
<1>5. MaxGap + 1 <= 2 * Accept(2 * Interval)
  BY DEF GapInWindow
<1>6. Accept(2 * Interval) <= Accept(Window(type)) /\ Accept(Window(type)) \in Nat /\ Accept(2 * Interval) \in Nat
  <2>1. Accept(2 * Interval) <= Accept(5 * Interval) /\ Accept(5 * Interval) \in Nat /\ Accept(2 * Interval) \in Nat
    BY <1>3 DEF Accept
  <2> QED BY <2>1 DEF Window
<1>7. ts >= timestamp - 2 * Accept(Window(type))
  <2> DEFINE n == Accept(2 * Interval)
             m == Accept(Window(type))
  <2>1. n \in Nat /\ m \in Nat /\ n <= m /\ MaxGap + 1 <= 2 * n
    BY <1>5, <1>6
  <2> HIDE DEF n, m
  <2>2. ts >= timestamp - 2 * m
    BY <1>1, <1>3, <1>4, <2>1
  <2> QED BY <2>2 DEF m
<1>8. Stale(r, timestamp) <=> ts < timestamp - 2 * Accept(Window(type))
  BY <1>3 DEF Stale, ts
<1> QED BY <1>1, <1>6, <1>7, <1>8

LEMMA CallsKeepFresh ==
  ASSUME GapInWindow, ServerInv, FreshInv, DeleteInv, NEW t \in Threads,
         Enter(t) \/ Scan(t) \/ Delete(t) \/ Leave(t)
  PROVE  FreshInv' /\ DeleteInv'
<1> DEFINE a == access[t]
           bucket == buckets[a.type].bucket
<1>1. CASE Fail(t)
  BY <1>1, CallIsOnward, CallKeepsFresh
<1>2. CASE ~Fail(t)
  <2>1. PICK b : /\ b.type = a.type /\ Goes(t, b)
                 /\ b.at = "delete" => b.key \in DOMAIN bucket /\ Stale(bucket[b.key], a.timestamp)
    BY <1>2, CallIsOnward
  <2>2. ASSUME b.at = "delete" PROVE streak[b.key] <= 1
    <3>1. a.type \in Types /\ a.timestamp \in Nat /\ a.timestamp <= now
      BY CallIsOnward
    <3>2. streak[b.key] \in 0..2 /\ ~(streak[b.key] >= 2)
      BY <2>1, <2>2, <3>1, RecordIs, NotStale
    <3> QED BY <3>2
  <2> QED BY <2>1, <2>2, CallIsOnward, CallKeepsFresh
<1> QED BY <1>1, <1>2

LEMMA ReceiveKeepsFresh ==
  ASSUME ServerInv, FreshInv, DeleteInv, Receive
  PROVE  FreshInv' /\ DeleteInv'
<1>1. /\ now' = now /\ lastSent' = lastSent /\ streak' = streak /\ buckets' = buckets /\ message = <<>> /\ DOMAIN access = Threads
      /\ \A type \in Types : \A k \in DOMAIN buckets[type].bucket : k \in Keys
  BY ReceiveIs, RecordIs DEF ServerInv, AccessInv
<1>2. CASE UNCHANGED <<pending, message, access>>
  BY <1>1, <1>2 DEF FreshInv, DeleteInv, FreshAt, Unset
<1>3. ASSUME NEW d \in pending, pending' = pending \ {d}, message' = <<Unpack(d)>>,
             access' = [access EXCEPT !["listener"] =
                          Call(Unpack(d).type, Unpack(d).time, Lasting(Unpack(d), 2))]
      PROVE  FreshInv' /\ DeleteInv'
  <2> DEFINE v == Unpack(d)
             b == Call(v.type, v.time, Lasting(v, 2))
  <2>1. b.at = "enter" /\ b.type = v.type
    BY CallIs
  <2> HIDE DEF b, v
  <2>2. \A u \in Threads : access'[u] = IF u = "listener" THEN b ELSE access[u]
    BY <1>1, <1>3 DEF b, v
  <2>3. message' # <<>> /\ Head(message') = v /\ access'["listener"].type = v.type
    BY <1>3, <2>1, <2>2, ThreadsAre DEF v
  <2>4. \A type, k : Unset(k, type)' <=> Unset(k, type)
    BY <1>1, <1>3, <2>3 DEF Unset, v
  <2>5. FreshInv'
    <3>1. ASSUME NEW type \in Types, NEW k \in DOMAIN buckets'[type].bucket
          PROVE  /\ k \in DOMAIN buckets[type].bucket
                 /\ buckets'[type].bucket[k].timestamp = buckets[type].bucket[k].timestamp
                 /\ streak'[k] = streak[k] /\ (Unset(k, type)' <=> Unset(k, type))
      BY <1>1, <2>4
    <3> QED BY <1>1, <3>1, FreshStays
  <2>6. DeleteInv'
    BY <1>1, <2>1, <2>2 DEF DeleteInv
  <2> QED BY <2>5, <2>6
<1> QED BY <1>2, <1>3, ReceiveIs

LEMMA SetRecordKeepsFresh ==
  ASSUME ServerInv, FreshInv, DeleteInv, SetRecord
  PROVE  FreshInv' /\ DeleteInv'
<1> DEFINE a == access["listener"]
           v == Head(message)
           c == KeyOf(v)
           value == IF a.type = v.type THEN v ELSE Counted(v)
           tb == buckets[a.type]
           new == SetItem(tb, v.time, Window(a.type), c, value)
           r == [timestamp |-> v.time, interval |-> Window(a.type), value |-> value]
           b == Call(Counted(v).type, v.time, Lasting(v, 5))
<1>1. /\ message # <<>> /\ a.type \in Types /\ SentAt(v, now) /\ buckets' = [buckets EXCEPT ![a.type] = new]
      /\ a.type \in {v.type, "sqlalchemy_process"} /\ v.type # "sqlalchemy_process"
  BY StoredIs
<1>2. now' = now /\ lastSent' = lastSent /\ streak' = streak /\ pending' = pending /\ DOMAIN access = Threads /\ now \in Nat
  BY DEF SetRecord, ServerInv, AccessInv, ClockInv
<1>3. DOMAIN buckets = Types /\ DOMAIN tb = BucketFields
  BY <1>1 DEF ServerInv, BucketsInv
<1>4. c \in Keys /\ streak[c] \in 0..2 /\ v.time = Whole(now) /\ v \in Messages /\ c[3] = v.type_instance
  BY <1>1, <1>2, SentIs DEF SentAt, ServerInv, ClockInv, KeyOf
<1>5. /\ DOMAIN new.bucket = DOMAIN tb.bucket \cup {c} /\ new.bucket[c] = r
      /\ \A k \in DOMAIN tb.bucket : k # c => new.bucket[k] = tb.bucket[k]
  <2>1. DOMAIN tb = {"bucket", "last_timestamp", "last_interval"}
    BY <1>3 DEF BucketFields
  <2> HIDE DEF tb, v, a, c, value
  <2> QED BY <2>1, SetItemIs
<1>6. r.timestamp = Whole(now)
  BY <1>4
<1>7. /\ \A t \in Threads : t # "listener" => access'[t] = access[t]
      /\ access'["listener"].at # "delete"
      /\ \/ /\ message' = message /\ access'["listener"].type = "sqlalchemy_process"
            /\ a.type = v.type
         \/ /\ message' = <<>> /\ (a.type = v.type => c[3] = "")
  <2>1. CASE a.type = v.type /\ v.type_instance # ""
    <3>1. access' = [access EXCEPT !["listener"] = b] /\ message' = message
      BY <2>1 DEF SetRecord
    <3>2. b.at = "enter" /\ b.type = "sqlalchemy_process"
      BY <1>4, CallIs, CountedIs
    <3> HIDE DEF b, a, v
    <3>3. \A u \in Threads : access'[u] = IF u = "listener" THEN b ELSE access[u]
      BY <1>2, <3>1
    <3> QED BY <2>1, <3>1, <3>2, <3>3, ThreadsAre
  <2>2. CASE ~(a.type = v.type /\ v.type_instance # "")
    <3>1. access' = [access EXCEPT !["listener"] = NoAccess] /\ message' = <<>>
      BY <2>2 DEF SetRecord
    <3>2. \A u \in Threads : access'[u] = IF u = "listener" THEN NoAccess ELSE access[u]
      BY <1>2, <3>1
    <3> QED BY <1>4, <2>2, <3>1, <3>2, ThreadsAre
  <2> QED BY <2>1, <2>2
<1> HIDE DEF new, r, c, value, b
<1>8. ASSUME NEW type \in Types, NEW k \in DOMAIN buckets'[type].bucket
      PROVE  \/ buckets'[type].bucket[k].timestamp = Whole(now) /\ k \in Keys /\ streak'[k] \in 0..2
             \/ /\ k \in DOMAIN buckets[type].bucket
                /\ buckets'[type].bucket[k].timestamp = buckets[type].bucket[k].timestamp
                /\ streak'[k] = streak[k] /\ (Unset(k, type)' <=> Unset(k, type))
  <2>1. \A u \in Types : buckets'[u] = IF u = a.type THEN new ELSE buckets[u]
    BY <1>1, <1>3
  <2>2. CASE type = a.type /\ k = c
    BY <1>2, <1>4, <1>5, <1>6, <2>1, <2>2
  <2>3. CASE ~(type = a.type /\ k = c)
    <3>1. k \in DOMAIN buckets[type].bucket /\ buckets'[type].bucket[k] = buckets[type].bucket[k]
      BY <1>5, <1>8, <2>1, <2>3
    <3>2. type = "sqlalchemy_process" => k[3] # ""
      <4>1. RecordAt(buckets[type].bucket[k], k, type, now)
        BY <3>1, RecordIs
      <4> QED BY <4>1 DEF RecordAt
    <3>3. Unset(k, type)' <=> Unset(k, type)
      <4>1. CASE k # c
        BY <1>1, <1>2, <1>7, <4>1 DEF Unset, c
      <4>2. CASE k = c
        <5>1. type # a.type
          BY <2>3, <4>2
        <5> HIDE DEF a, v
        <5> QED BY <1>1, <1>2, <1>7, <3>2, <4>2, <5>1 DEF Unset, c, a, v
      <4> QED BY <4>1, <4>2
    <3> QED BY <1>2, <3>1, <3>3
  <2> QED BY <2>2, <2>3
<1>9. FreshInv'
  BY <1>2, <1>8, FreshStays
<1>10. DeleteInv'
  BY <1>2, <1>7, ThreadsAre DEF DeleteInv
<1> QED BY <1>9, <1>10

LEMMA SummaryStepsKeepFresh ==
  ASSUME ServerInv, FreshInv, DeleteInv, Read \/ ListKeys \/ LookUp \/ EndSummary
  PROVE  FreshInv' /\ DeleteInv'
<1>1. now' = now /\ lastSent' = lastSent /\ pending' = pending /\ buckets' = buckets /\ DOMAIN access = Threads
  BY DEF Read, ListKeys, LookUp, EndSummary, ServerInv, AccessInv
<1>2. ASSUME NEW i, Next(i)
      PROVE  access'["collectd"].at # "delete" /\ \A t \in Threads : t # "collectd" => access'[t] = access[t]
  <2> DEFINE b == IF i \in DOMAIN Gets THEN Call(Gets[i].type, now, NoInterval) ELSE NoAccess
  <2>1. b.at # "delete"
    BY ThreadsAre, CallIs
  <2>2. access' = [access EXCEPT !["collectd"] = b]
    BY <1>2 DEF Next
  <2> HIDE DEF b
  <2>3. \A u \in Threads : access'[u] = IF u = "collectd" THEN b ELSE access[u]
    BY <1>1, <2>2
  <2> QED BY <2>1, <2>3, ThreadsAre
<1>3. /\ message' = message /\ streak' = streak
      /\ access'["collectd"].at = "delete" => access'["collectd"] = access["collectd"]
      /\ access'["listener"] = access["listener"]
  <2>1. CASE Read
    BY <1>2, <2>1, ThreadsAre DEF Read
  <2>2. CASE ListKeys
    <3>1. Next(get + 1) \/ access' = [access EXCEPT !["collectd"] = [at |-> "read"]]
      BY <2>2 DEF ListKeys
    <3>2. CASE access' = [access EXCEPT !["collectd"] = [at |-> "read"]]
      <4>1. \A u \in Threads : access'[u] = IF u = "collectd" THEN [at |-> "read"] ELSE access[u]
        BY <1>1, <3>2
      <4> QED BY <2>2, <4>1, ThreadsAre DEF ListKeys
    <3> QED BY <1>2, <2>2, <3>1, <3>2, ThreadsAre DEF ListKeys
  <2>3. CASE LookUp
    <3>1. CASE Fail("collectd")
      <4>1. \A u \in Threads : access'[u] = IF u = "collectd" THEN NoAccess ELSE access[u]
        BY <1>1, <3>1 DEF Fail
      <4> QED BY <3>1, <4>1, ThreadsAre DEF Fail
    <3>2. CASE ~Fail("collectd")
      <4>1. (Next(get + 1) \/ access' = access) /\ message' = message /\ streak' = streak
        BY <2>3, <3>2 DEF LookUp
      <4> QED BY <1>2, <4>1, ThreadsAre
    <3> QED BY <3>1, <3>2
  <2>4. CASE EndSummary
    BY <2>4 DEF EndSummary
  <2> QED BY <2>1, <2>2, <2>3, <2>4
<1>4. \A type, k : Unset(k, type)' <=> Unset(k, type)
  BY <1>1, <1>3 DEF Unset
<1>5. FreshInv'
  BY <1>1, <1>3, <1>4, FreshStays
<1>6. DeleteInv'
  BY <1>3, ThreadsAre DEF DeleteInv
<1> QED BY <1>5, <1>6

LEMMA FreshStep ==
  ASSUME GapInWindow
  PROVE  ServerInv /\ FreshInv /\ DeleteInv /\ [ServerNext]_serverVars => FreshInv' /\ DeleteInv'
<1> SUFFICES ASSUME ServerInv, FreshInv, DeleteInv, [ServerNext]_serverVars PROVE FreshInv' /\ DeleteInv'
  OBVIOUS
<1>1. CASE Tick
  BY <1>1, TickKeepsFresh
<1>2. ASSUME NEW t \in Threads, Enter(t) \/ Scan(t) \/ Delete(t) \/ Leave(t) PROVE FreshInv' /\ DeleteInv'
  BY <1>2, CallsKeepFresh
<1>3. CASE Receive
  BY <1>3, ReceiveKeepsFresh
<1>4. CASE SetRecord
  BY <1>4, SetRecordKeepsFresh
<1>5. CASE Read \/ ListKeys \/ LookUp \/ EndSummary
  BY <1>5, SummaryStepsKeepFresh
<1>6. CASE UNCHANGED serverVars
  <2>1. UNCHANGED <<now, lastSent, streak, pending, buckets, access, message>>
    BY <1>6 DEF serverVars
  <2>2. \A type, k : Unset(k, type)' <=> Unset(k, type)
    BY <2>1 DEF Unset
  <2> QED BY <2>1, <2>2 DEF FreshInv, DeleteInv, FreshAt
<1> QED BY <1>1, <1>2, <1>3, <1>4, <1>5, <1>6 DEF ServerNext

\* Only a deletion makes a bucket smaller, and of one record.
LEMMA KeptStep ==
  ASSUME ServerInv, DeleteInv, [ServerNext]_serverVars
  PROVE  \A type \in Types, k \in Keys :
           streak[k] >= 2 /\ k \in DOMAIN buckets[type].bucket => k \in DOMAIN buckets'[type].bucket
<1>1. DOMAIN buckets = Types /\ \A type \in Types : DOMAIN buckets[type] = BucketFields
  BY DEF ServerInv, BucketsInv
<1>2. ASSUME buckets' = buckets PROVE \A type \in Types : DOMAIN buckets'[type].bucket = DOMAIN buckets[type].bucket
  BY <1>2
<1>3. ASSUME NEW t \in Threads, Enter(t) \/ Leave(t)
      PROVE  \A type \in Types : DOMAIN buckets'[type].bucket = DOMAIN buckets[type].bucket
  <2> DEFINE a == access[t]
             tb == buckets[a.type]
  <2>1. a.type \in Types
    BY <1>3 DEF Enter, Leave, ServerInv, AccessInv, AccessAt, Timed
  <2>2. RefusedAccess(tb, a.interval).bucket = tb.bucket
    BY <1>1, <2>1, RefusedAccessIs DEF BucketFields
  <2>3. [tb EXCEPT !.last_timestamp = a.timestamp].bucket = tb.bucket
    BY <1>1, <2>1 DEF BucketFields
  <2>4. \/ buckets' = [buckets EXCEPT ![a.type] = RefusedAccess(tb, a.interval)]
        \/ buckets' = [buckets EXCEPT ![a.type] = [tb EXCEPT !.last_timestamp = a.timestamp]]
    BY <1>3 DEF Enter, Leave
  <2> HIDE DEF a
  <2> QED BY <1>1, <2>1, <2>2, <2>3, <2>4
<1>4. ASSUME NEW t \in Threads, Delete(t)
      PROVE  \A type \in Types : \A k \in DOMAIN buckets[type].bucket \ {access[t].key} : k \in DOMAIN buckets'[type].bucket
  <2> DEFINE a == access[t]
             tb == buckets[a.type]
             new == [tb EXCEPT !.bucket = Restrict(tb.bucket, DOMAIN tb.bucket \ {a.key})]
  <2>1. a.type \in Types
    BY <1>4 DEF Delete, ServerInv, AccessInv, AccessAt, Timed
  <2>2. DOMAIN new.bucket = DOMAIN tb.bucket \ {a.key}
    BY <1>1, <2>1 DEF Restrict, BucketFields
  <2>3. buckets' = buckets \/ buckets' = [buckets EXCEPT ![a.type] = new]
    BY <1>4 DEF Delete
  <2> HIDE DEF new
  <2> QED BY <1>1, <2>1, <2>2, <2>3
<1>5. ASSUME NEW t \in Threads, Delete(t) PROVE streak[access[t].key] <= 1
  BY <1>5 DEF Delete, DeleteInv
<1>6. ASSUME SetRecord
      PROVE  \A type \in Types : DOMAIN buckets[type].bucket \subseteq DOMAIN buckets'[type].bucket
  <2> DEFINE a == access["listener"]
             v == Head(message)
             value == IF a.type = v.type THEN v ELSE Counted(v)
             tb == buckets[a.type]
             new == SetItem(tb, v.time, Window(a.type), KeyOf(v), value)
  <2>1. a.type \in Types /\ buckets' = [buckets EXCEPT ![a.type] = new]
    BY <1>6, StoredIs
  <2>2. DOMAIN tb = {"bucket", "last_timestamp", "last_interval"}
    BY <1>1, <2>1 DEF BucketFields
  <2>3. DOMAIN tb.bucket \subseteq DOMAIN new.bucket
    <3> HIDE DEF tb
    <3> QED BY <2>2, SetItemGrows
  <2>4. DOMAIN buckets[a.type].bucket \subseteq DOMAIN new.bucket
    BY <2>3
  <2> HIDE DEF new, a
  <2> QED BY <1>1, <2>1, <2>4
<1>7. Tick \/ Receive \/ Read \/ ListKeys \/ LookUp \/ EndSummary \/ UNCHANGED serverVars => buckets' = buckets
  BY DEF Tick, Receive, Read, ListKeys, LookUp, EndSummary, serverVars
<1>8. ASSUME NEW t \in Threads, Scan(t) PROVE buckets' = buckets
  BY <1>8 DEF Scan
<1>9. \A k \in Keys : streak[k] \in 0..2
  BY DEF ServerInv, ClockInv
<1>10. \A n \in 0..2 : n >= 2 => ~(n <= 1)
  OBVIOUS
<1> QED BY <1>2, <1>3, <1>4, <1>5, <1>6, <1>7, <1>8, <1>9, <1>10 DEF ServerNext

(***************************************************************************)
(* No record of a process that has sent two messages in a row is as old as *)
(* its window, and no thread is about to delete one, whatever the process  *)
(* takes from one message to the next of what the window outlasts: by      *)
(* GapInWindow that is, of the worker's interval of 2 seconds, up to 3.5.  *)
(***************************************************************************)
THEOREM FreshInvariant == ASSUME GapInWindow PROVE ServerSpec => [](ServerInv /\ FreshInv /\ DeleteInv)
<1>1. ServerInit => ServerInv /\ FreshInv /\ DeleteInv
  BY InitInv, ThreadsAre DEF ServerInit, FreshInv, DeleteInv, NewBucket
<1>2. ServerInv /\ FreshInv /\ DeleteInv /\ [ServerNext]_serverVars => (ServerInv /\ FreshInv /\ DeleteInv)'
  BY StepKeeps, FreshStep
<1> QED BY <1>1, <1>2, PTL DEF ServerSpec

(***************************************************************************)
(* RegularKept: no access deletes the record of a process that has sent    *)
(* two messages in a row, whatever the interleaving of the two threads,    *)
(* the half seconds they read and the time from message to message that    *)
(* GapInWindow allows.                                                     *)
(***************************************************************************)
THEOREM RegularKeptHolds == ASSUME GapInWindow PROVE ServerSpec => RegularKept
<1>1. ServerInv /\ DeleteInv /\ [ServerNext]_serverVars =>
        [\A t \in Types, k \in Keys :
           streak[k] >= 2 /\ k \in DOMAIN buckets[t].bucket => k \in DOMAIN buckets'[t].bucket]_serverVars
  BY KeptStep
<1> QED BY <1>1, FreshInvariant, PTL DEF ServerSpec, RegularKept

-----------------------------------------------------------------------------
(* What a summary has read and added up, and what it has published. *)

\* The values that slots have.
Fields == STRING \cup {None} \cup Nat \cup Seq(Nat)

\* What the records of a group add up to is of the group.
Sums(type, by, group) ==
  {v \in [Slots -> Fields] :
     /\ v.type = type /\ v.plugin = "sqlalchemy" /\ GroupOf(<<v.host, v.plugin_instance>>, by) = group
     /\ v.values \in Seq(Nat) /\ Len(v.values) >= 1}

\* The first value of a sum of a group, between what the records had as they were listed and what they can have.
Between(value, type, taken, was, time) ==
  /\ value \in Nat
  /\ SumFunction([j \in taken |-> was[j].value.values[1]]) <= value
  /\ value <= Most(type, time) * Cardinality(taken)

\* What has been read of a group, of the keys of it that have been looked up.
GroupRead(rs, type, by, group, taken, was, time) ==
  /\ rs \in Seq(Sums(type, by, group))
  /\ rs = <<>> <=> taken = {}
  /\ rs # <<>> => Between(Sum(rs).values[1], type, taken, was, time)

Place(k) == CHOOSE i \in DOMAIN Client : Client[i] = k /\ \A h \in 1..i - 1 : Client[h] # k

\* Those that are looked up come before the others.
OrderInv == \A j \in DOMAIN listed \ keys, k \in keys : Place(j) < Place(k)

RestInv == access["collectd"].at # "read" => DOMAIN listed = {} /\ recs = <<>>

\* A record that is still there, or again, is no less than what was listed.
ListedInv ==
  \A k \in DOMAIN listed :
    /\ RecordAt(listed[k], k, Gets[get].type, now)
    /\ k \in DOMAIN buckets[Gets[get].type].bucket =>
         listed[k].value.values[1] <= buckets[Gets[get].type].bucket[k].value.values[1]

ReadInv ==
  access["collectd"].at = "read" =>
    LET by == Gets[get].by
        group == GroupOf(First(keys), by)
        taken == {j \in DOMAIN listed \ keys : GroupOf(j, by) = group}
    IN  GroupRead(recs, Gets[get].type, by, group, taken, listed, now)

\* A sum of the group of a key, made by a get_data() call.
SumOf(v, i, k) ==
  /\ v.type = Gets[i].type /\ v.plugin = "sqlalchemy" /\ v.values \in Seq(Nat)
  /\ v.host = k[1] /\ v.plugin_instance = IF Gets[i].by = "progname" THEN k[2] ELSE "host"

\* A sum is of a group that has been looked up whole.
PublishedInv ==
  \A v \in published : \E i \in 1..6, k \in Keys :
    /\ SumOf(v, i, k) /\ i <= get
    /\ i = get => k \in DOMAIN listed \ keys /\ \A j \in keys : GroupOf(j, Gets[i].by) # GroupOf(k, Gets[i].by)

UniqueInv ==
  \A v, w \in published : v.type = w.type /\ v.host = w.host /\ v.plugin_instance = w.plugin_instance => v = w

SumsInv == OrderInv /\ RestInv /\ ListedInv /\ ReadInv /\ PublishedInv /\ UniqueInv

-----------------------------------------------------------------------------
(* The order of the keys. *)

LEMMA PlaceIs ==
  ASSUME NEW k \in Keys
  PROVE  Place(k) \in DOMAIN Client /\ Client[Place(k)] = k /\ \A h \in 1..Place(k) - 1 : Client[h] # k
<1> DEFINE T == {i \in DOMAIN Client : Client[i] = k}
<1>1. DOMAIN Client = 1..Len(Client) /\ Len(Client) \in Nat
  BY NameAssumption
<1>2. T \subseteq Nat /\ T # {}
  BY <1>1 DEF Keys
<1>3. PICK m \in T : \A i \in T : m <= i
  BY <1>2, LeastNatural
<1>4. ASSUME NEW h \in 1..m - 1 PROVE Client[h] # k
  <2>1. m \in 1..Len(Client) /\ h \in 1..Len(Client) /\ ~(m <= h)
    BY <1>1
  <2> QED BY <1>1, <1>3, <2>1
<1> QED BY <1>3, <1>4 DEF Place

LEMMA FirstIs ==
  ASSUME NEW ks \in SUBSET Keys, ks # {}
  PROVE  First(ks) \in ks /\ \A j \in ks \ {First(ks)} : Place(First(ks)) < Place(j)
<1> DEFINE T == {i \in DOMAIN Client : Client[i] \in ks}
           k == First(ks)
<1>1. DOMAIN Client = 1..Len(Client) /\ Len(Client) \in Nat
  BY NameAssumption
<1>2. T \subseteq Nat /\ T # {}
  BY <1>1 DEF Keys
<1>3. PICK m \in T : \A i \in T : m <= i
  BY <1>2, LeastNatural
<1>4. Client[m] \in ks /\ \A j \in 1..m - 1 : Client[j] \notin ks
  <2>1. ASSUME NEW h \in 1..m - 1 PROVE Client[h] \notin ks
    <3>1. m \in 1..Len(Client) /\ h \in 1..Len(Client) /\ ~(m <= h)
      BY <1>1
    <3> QED BY <1>1, <1>3, <3>1
  <2> QED BY <2>1
<1>5. k \in ks /\ \E i \in DOMAIN Client : k = Client[i] /\ \A j \in 1..i - 1 : Client[j] \notin ks
  BY <1>3, <1>4 DEF First
<1>6. PICK i \in DOMAIN Client : k = Client[i] /\ \A j \in 1..i - 1 : Client[j] \notin ks
  BY <1>5
<1> HIDE DEF k
<1>7. ASSUME NEW j \in ks PROVE Place(j) \in 1..Len(Client) /\ Client[Place(j)] = j /\ i <= Place(j)
  <2>1. Place(j) \in 1..Len(Client) /\ Client[Place(j)] = j
    BY <1>1, PlaceIs
  <2>2. Place(j) \notin 1..i - 1
    BY <1>6, <2>1
  <2> QED BY <1>1, <2>1, <2>2
<1>8. Place(k) = i
  <2>1. \A h \in 1..Place(k) - 1 : Client[h] # k
    BY <1>5, PlaceIs
  <2>2. Place(k) \in 1..Len(Client) /\ i <= Place(k)
    BY <1>5, <1>7
  <2>3. i \notin 1..Place(k) - 1
    BY <1>6, <2>1
  <2> QED BY <1>1, <2>2, <2>3
<1>9. ASSUME NEW j \in ks \ {k} PROVE Place(k) < Place(j)
  <2>1. Place(j) # i
    BY <1>6, <1>7
  <2> QED BY <1>1, <1>7, <1>8, <2>1
<1> QED BY <1>5, <1>9 DEF k

\* The keys of a group are side by side.
LEMMA Together ==
  ASSUME NEW a \in Keys, NEW b \in Keys, NEW c \in Keys, Place(a) < Place(b), Place(b) < Place(c),
         NEW by \in {"progname", "hostname"}, GroupOf(a, by) = GroupOf(c, by)
  PROVE  GroupOf(b, by) = GroupOf(c, by)
<1>1. /\ Place(a) \in DOMAIN Client /\ Place(b) \in DOMAIN Client /\ Place(c) \in DOMAIN Client
      /\ Client[Place(a)] = a /\ Client[Place(b)] = b /\ Client[Place(c)] = c
  BY PlaceIs
<1>2. a[1] = c[1] => b[1] = a[1] /\ (a[2] = c[2] => b[2] = a[2])
  BY <1>1, OrderAssumption
<1> QED BY <1>2 DEF GroupOf

LEMMA KeysFinite == IsFiniteSet(Keys)
<1>1. DOMAIN Client = 1..Len(Client) /\ Len(Client) \in Nat
  BY NameAssumption
<1>2. IsFiniteSet(DOMAIN Client)
  BY <1>1, FS_Interval
<1>3. [i \in DOMAIN Client |-> Client[i]] \in Surjection(DOMAIN Client, Keys)
  BY DEF Surjection, Keys
<1> QED BY <1>2, <1>3, FS_Surjection

-----------------------------------------------------------------------------
(* Adding up. *)

LEMMA ElementIs ==
  ASSUME NEW s \in Seq(Nat), NEW i \in 1..Len(s)
  PROVE  s[i] \in Nat
OBVIOUS

LEMMA SumsAre ==
  ASSUME NEW type, NEW by, NEW group, NEW v \in Sums(type, by, group)
  PROVE  /\ v \in [Slots -> Fields] /\ v.type = type /\ v.plugin = "sqlalchemy"
         /\ GroupOf(<<v.host, v.plugin_instance>>, by) = group
         /\ v.values \in Seq(Nat) /\ Len(v.values) \in Nat /\ Len(v.values) >= 1 /\ v.values[1] \in Nat
BY DEF Sums

\* The sum of two sums of a group is of the group.
LEMMA AddKeeps ==
  ASSUME NEW type, NEW by \in {"progname", "hostname"}, NEW group,
         NEW v \in Sums(type, by, group), NEW w \in Sums(type, by, group)
  PROVE  Add(v, w) \in Sums(type, by, group) /\ Add(v, w).values[1] = v.values[1] + w.values[1]
<1> DEFINE sum == Add(v, w)
           n == Shorter(v.values, w.values)
<1>1. /\ sum = [slot \in Slots |-> sum[slot]]
      /\ \A slot \in Slots \ {"values", "interval"} : sum[slot] = IF v[slot] = w[slot] THEN v[slot] ELSE None
      /\ sum.interval = IF v.interval = w.interval /\ v.interval # None THEN v.interval ELSE DEFAULT_INTERVAL
      /\ sum.values = [i \in 1..n |-> v.values[i] + w.values[i]]
  BY AddIs
<1>2. /\ v \in [Slots -> Fields] /\ v.type = type /\ v.plugin = "sqlalchemy"
      /\ GroupOf(<<v.host, v.plugin_instance>>, by) = group
      /\ v.values \in Seq(Nat) /\ Len(v.values) \in Nat /\ Len(v.values) >= 1 /\ v.values[1] \in Nat
  BY SumsAre
<1>3. /\ w \in [Slots -> Fields] /\ w.type = type /\ w.plugin = "sqlalchemy"
      /\ GroupOf(<<w.host, w.plugin_instance>>, by) = group
      /\ w.values \in Seq(Nat) /\ Len(w.values) \in Nat /\ Len(w.values) >= 1 /\ w.values[1] \in Nat
  BY SumsAre
<1> HIDE DEF sum
<1>4. n \in Nat /\ n >= 1 /\ n <= Len(v.values) /\ n <= Len(w.values)
  BY <1>2, <1>3 DEF Shorter
<1>5. sum.values \in Seq(Nat) /\ Len(sum.values) = n /\ sum.values[1] = v.values[1] + w.values[1]
  <2> HIDE DEF n
  <2>1. ASSUME NEW i \in 1..n PROVE v.values[i] + w.values[i] \in Nat
    <3>1. i \in 1..Len(v.values) /\ i \in 1..Len(w.values)
      BY <1>2, <1>3, <1>4
    <3>2. v.values[i] \in Nat /\ w.values[i] \in Nat
      BY <1>2, <1>3, <3>1, ElementIs
    <3> QED BY <3>2
  <2> QED BY <1>1, <1>4, <2>1
<1>6. {"type", "plugin", "host", "plugin_instance"} \subseteq Slots \ {"values", "interval"} /\ "interval" \in Slots
  BY DEF Slots
<1>7. sum.type = type /\ sum.plugin = "sqlalchemy"
  BY <1>1, <1>2, <1>3, <1>6
<1>8. GroupOf(<<sum.host, sum.plugin_instance>>, by) = group
  <2>1. v.host = w.host /\ (by = "progname" => v.plugin_instance = w.plugin_instance)
    BY <1>2, <1>3 DEF GroupOf
  <2>2. sum.host = v.host /\ (by = "progname" => sum.plugin_instance = v.plugin_instance)
    BY <1>1, <1>6, <2>1
  <2> QED BY <1>2, <2>2 DEF GroupOf
<1>9. sum \in [Slots -> Fields]
  <2>1. ASSUME NEW slot \in Slots PROVE sum[slot] \in Fields
    <3>1. CASE slot = "values"
      BY <1>5, <3>1 DEF Fields
    <3>2. CASE slot = "interval"
      BY <1>1, <1>2, <3>2, <1>6 DEF Fields, DEFAULT_INTERVAL
    <3>3. CASE slot \in Slots \ {"values", "interval"}
      BY <1>1, <1>2, <3>3 DEF Fields
    <3> QED BY <3>1, <3>2, <3>3
  <2> QED BY <1>1, <2>1
<1> QED BY <1>4, <1>5, <1>7, <1>8, <1>9 DEF Sums, sum

LEMMA SumsClosed ==
  ASSUME NEW type, NEW by \in {"progname", "hostname"}, NEW group
  PROVE  Closed(Sums(type, by, group))
BY AddKeeps DEF Closed

\* What a record adds to a sum.
LEMMA RecordAdds ==
  ASSUME NEW r, NEW k, NEW type, NEW time \in Nat, RecordAt(r, k, type, time), NEW by \in {"progname", "hostname"}
  PROVE  /\ r.value \in Sums(type, by, GroupOf(k, by))
         /\ r.value.values[1] \in Nat /\ r.value.values[1] <= Most(type, time)
<1> DEFINE v == r.value
<1>1. /\ v \in Messages /\ KeyOf(v) = k /\ v.type = type /\ v.plugin = "sqlalchemy"
      /\ Len(v.values) >= 1 /\ v.values[1] <= Most(type, time)
  BY DEF RecordAt
<1> HIDE DEF v
<1>2. /\ v = [slot \in Slots |-> v[slot]] /\ v.values \in Seq(Nat)
      /\ \A slot \in Slots : v[slot] \in Fields
  BY <1>1 DEF Messages, Slots, Fields, Names
<1>3. v \in [Slots -> Fields]
  BY <1>2
<1>4. GroupOf(<<v.host, v.plugin_instance>>, by) = GroupOf(k, by)
  <2>1. k[1] = v.host /\ k[2] = v.plugin_instance
    BY <1>1 DEF KeyOf
  <2> QED BY <2>1 DEF GroupOf
<1>5. v.values[1] \in Nat
  BY <1>1, <1>2
<1> QED BY <1>1, <1>2, <1>3, <1>4, <1>5 DEF Sums, v

LEMMA OneMore == \A m, n \in Nat : m * n \in Nat /\ m * (n + 1) = m * n + m
OBVIOUS

\* A record more is read of a group.
LEMMA GroupGrows ==
  ASSUME NEW type, NEW by \in {"progname", "hostname"}, NEW group, NEW taken, IsFiniteSet(taken), NEW k, k \notin taken,
         NEW was, NEW time \in Nat, NEW rs, NEW v \in Sums(type, by, group),
         GroupRead(rs, type, by, group, taken, was, time),
         \A j \in taken \cup {k} : was[j].value.values[1] \in Nat,
         was[k].value.values[1] <= v.values[1], v.values[1] <= Most(type, time)
  PROVE  /\ GroupRead(Append(rs, v), type, by, group, taken \cup {k}, was, time)
         /\ Sum(Append(rs, v)) \in Sums(type, by, group)
<1> DEFINE V == Sums(type, by, group)
           more == taken \cup {k}
           f == [j \in taken |-> was[j].value.values[1]]
           g == [j \in more |-> was[j].value.values[1]]
           read == Append(rs, v)
           most == Most(type, time)
<1>1. IsFiniteSet(more) /\ Cardinality(more) = Cardinality(taken) + 1 /\ Cardinality(taken) \in Nat
  BY FS_AddElement, FS_CardinalityType
<1>2. SumFunction(g) = SumFunction(f) + was[k].value.values[1] /\ SumFunction(f) \in Nat
  <2>1. /\ k \in DOMAIN g /\ DOMAIN g = more /\ DOMAIN f = taken /\ DOMAIN f = DOMAIN g \ {k}
        /\ g \in [DOMAIN g -> Nat] /\ f \in [DOMAIN f -> Nat] /\ \A y \in DOMAIN f : f[y] = g[y]
        /\ g[k] = was[k].value.values[1]
    OBVIOUS
  <2>2. IsFiniteSet(DOMAIN g) /\ IsFiniteSet(DOMAIN f)
    BY <1>1, <2>1
  <2> HIDE DEF f, g
  <2> QED BY <2>1, <2>2, SumOfMore, SumIsNat
<1>3. Closed(V) /\ rs \in Seq(V)
  BY SumsClosed DEF GroupRead
<1>4. most \in Nat /\ v.values[1] \in Nat /\ was[k].value.values[1] \in Nat
  BY SumsAre DEF Most
<1> HIDE DEF most
<1>5. most * Cardinality(taken) \in Nat /\ most * Cardinality(more) = most * Cardinality(taken) + most
  BY <1>1, <1>4, OneMore
<1>6. /\ rs = <<>> => Sum(read) = v
      /\ rs # <<>> => Sum(rs) \in V /\ Sum(read) = Add(Sum(rs), v)
  <2> HIDE DEF V
  <2> QED BY <1>3, SumOfAppended DEF V
<1>7. read \in Seq(V) /\ read # <<>>
  <2>1. v \in V
    OBVIOUS
  <2> HIDE DEF V
  <2>2. read \in Seq(V)
    BY <1>3, <2>1
  <2>3. Len(read) = Len(rs) + 1 /\ Len(rs) \in Nat
    BY <1>3, <2>1
  <2>4. read # <<>>
    BY <2>3
  <2> QED BY <2>2, <2>4
<1>8. Sum(read) \in V /\ Between(Sum(read).values[1], type, more, was, time)
  <2>1. CASE rs = <<>>
    <3>1. taken = {}
      BY <2>1 DEF GroupRead
    <3>2. SumFunction(f) = 0 /\ Cardinality(taken) = 0
      <4>1. DOMAIN f = {}
        BY <3>1
      <4> HIDE DEF f
      <4> QED BY <3>1, <4>1, SumOfNone, FS_EmptySet
    <3>3. Sum(read) = v
      BY <1>6, <2>1
    <3>4. SumFunction(g) <= v.values[1] /\ v.values[1] <= most * Cardinality(more)
      <4>1. v.values[1] <= most
        BY DEF most
      <4>2. most * Cardinality(taken) = 0
        BY <1>4, <3>2
      <4> HIDE DEF f, g, more
      <4> QED BY <1>2, <1>4, <1>5, <3>2, <4>1, <4>2
    <3> HIDE DEF read
    <3> QED BY <1>4, <3>3, <3>4 DEF Between, most
  <2>2. CASE rs # <<>>
    <3> DEFINE sum == Sum(rs)
    <3>1. sum \in V /\ Sum(read) = Add(sum, v)
      BY <1>6, <2>2
    <3>2. sum.values[1] \in Nat /\ SumFunction(f) <= sum.values[1] /\ sum.values[1] <= most * Cardinality(taken)
      BY <2>2 DEF GroupRead, Between, most
    <3> HIDE DEF sum
    <3>3. Add(sum, v) \in V /\ Add(sum, v).values[1] = sum.values[1] + v.values[1]
      BY <3>1, AddKeeps
    <3>4. /\ sum.values[1] + v.values[1] \in Nat
          /\ SumFunction(g) <= sum.values[1] + v.values[1]
          /\ sum.values[1] + v.values[1] <= most * Cardinality(more)
      <4>1. v.values[1] <= most
        BY DEF most
      <4> HIDE DEF f, g, more
      <4> QED BY <1>2, <1>4, <1>5, <3>2, <4>1
    <3> HIDE DEF read
    <3> QED BY <3>1, <3>3, <3>4 DEF Between, most
  <2> QED BY <2>1, <2>2
<1> HIDE DEF read
<1> QED BY <1>7, <1>8 DEF GroupRead, read

\* What is handed on of a sum.
LEMMA SummedIs ==
  ASSUME NEW type, NEW by \in {"progname", "hostname"}, NEW k \in Keys, NEW rs,
         Sum(rs) \in Sums(type, by, GroupOf(k, by))
  PROVE  LET v == Summed(rs, by)
         IN  /\ v.type = type /\ v.plugin = "sqlalchemy" /\ v.values = Sum(rs).values
             /\ v.host = k[1] /\ v.plugin_instance = IF by = "progname" THEN k[2] ELSE "host"
<1> DEFINE sum == Sum(rs)
           interval == rs[1].interval
           all == Build(sum, [time |-> now, interval |-> interval])
           v == Summed(rs, by)
<1>1. /\ sum.type = type /\ sum.plugin = "sqlalchemy"
      /\ GroupOf(<<sum.host, sum.plugin_instance>>, by) = GroupOf(k, by)
  BY SumsAre
<1> HIDE DEF sum, interval
<1>2. /\ all.type = type /\ all.plugin = "sqlalchemy" /\ all.values = sum.values
      /\ all.host = sum.host /\ all.plugin_instance = sum.plugin_instance
  BY <1>1 DEF Build, Values, Slots
<1>3. sum.host = k[1] /\ (by = "progname" => sum.plugin_instance = k[2])
  BY <1>1 DEF GroupOf
<1>4. v = IF by = "progname" THEN all ELSE Build(all, [plugin_instance |-> "host"])
  BY DEF Summed, sum, interval
<1> HIDE DEF all
<1>5. LET w == Build(all, [plugin_instance |-> "host"])
      IN  /\ w.type = all.type /\ w.plugin = all.plugin /\ w.values = all.values
          /\ w.host = all.host /\ w.plugin_instance = "host"
  BY DEF Build, Values, Slots
<1> HIDE DEF v
<1> QED BY <1>2, <1>3, <1>4, <1>5 DEF v, sum

\* What the lookup of the first of the keys means for the groups.
LEMMA GroupsGoOn ==
  ASSUME NEW ks \in SUBSET Keys, ks # {}, NEW done \in SUBSET Keys, \A j \in done, l \in ks : Place(j) < Place(l),
         NEW by \in {"progname", "hostname"}
  PROVE  LET k == First(ks)
             rest == ks \ {k}
             group == GroupOf(k, by)
             more == done \cup {k}
         IN  /\ k \in ks /\ k \notin done
             /\ \A j \in more, l \in rest : Place(j) < Place(l)
             /\ rest = {} \/ GroupOf(First(rest), by) # group => \A j \in rest : GroupOf(j, by) # group
             /\ rest # {} /\ GroupOf(First(rest), by) # group => \A j \in more : GroupOf(j, by) # GroupOf(First(rest), by)
<1> DEFINE k == First(ks)
           rest == ks \ {k}
           group == GroupOf(k, by)
           more == done \cup {k}
<1>1. k \in ks /\ \A j \in ks \ {k} : Place(k) < Place(j)
  BY FirstIs
<1>2. \A j \in Keys : Place(j) \in Int
  BY PlaceIs, NameAssumption
<1> HIDE DEF k
<1>3. k \notin done /\ \A j \in more, l \in rest : Place(j) < Place(l)
  BY <1>1, <1>2
<1>4. CASE rest = {}
  BY <1>1, <1>3, <1>4 DEF k
<1>5. CASE rest # {}
  <2> DEFINE l == First(rest)
  <2>1. l \in rest /\ \A j \in rest \ {l} : Place(l) < Place(j)
    <3> HIDE DEF rest
    <3>1. rest \in SUBSET Keys
      BY DEF rest
    <3> QED BY <1>5, <3>1, FirstIs
  <2> HIDE DEF l
  <2>2. ASSUME GroupOf(l, by) # group, NEW j \in rest PROVE GroupOf(j, by) # group
    <3>1. CASE j = l
      BY <2>2, <3>1
    <3>2. CASE j # l
      <4>1. Place(k) < Place(l) /\ Place(l) < Place(j)
        BY <1>3, <2>1, <2>2, <3>2
      <4> QED BY <1>1, <2>1, <2>2, <4>1, Together
    <3> QED BY <3>1, <3>2
  <2>3. ASSUME GroupOf(l, by) # group, NEW j \in more PROVE GroupOf(j, by) # GroupOf(l, by)
    <3>1. CASE j = k
      BY <2>3, <3>1
    <3>2. CASE j # k
      <4>1. Place(j) < Place(k) /\ Place(k) < Place(l) /\ j \in Keys
        BY <1>1, <1>3, <2>1, <2>3, <3>2
      <4> QED BY <1>1, <2>1, <2>3, <4>1, Together
    <3> QED BY <3>1, <3>2
  <2> QED BY <1>1, <1>3, <1>5, <2>2, <2>3 DEF k, l
<1> QED BY <1>4, <1>5

\* Between two groups, and outside of a summary, nothing is said of what was read.
LEMMA NothingRead ==
  ASSUME ServerInv', DOMAIN listed' = {}, recs' = <<>>, keys' = {}
  PROVE  OrderInv' /\ RestInv' /\ ListedInv' /\ ReadInv'
<1>1. access'["collectd"].at # "read"
  BY DEF ServerInv, SummaryInv
<1> QED BY <1>1 DEF OrderInv, RestInv, ListedInv, ReadInv

\* A step that is no summary's.
LEMMA SummaryStays ==
  ASSUME ServerInv, SumsInv, UNCHANGED summaryVars, now' = now,
         access'["collectd"].at = "read" <=> access["collectd"].at = "read",
         \A type \in Types : \A k \in DOMAIN buckets'[type].bucket :
           \/ k \in DOMAIN buckets[type].bucket /\ buckets'[type].bucket[k] = buckets[type].bucket[k]
           \/ buckets'[type].bucket[k].value.values[1] = Most(type, now)
  PROVE  SumsInv'
<1>1. get' = get /\ keys' = keys /\ recs' = recs /\ listed' = listed /\ published' = published
  BY DEF summaryVars
<1>2. OrderInv' /\ RestInv' /\ PublishedInv' /\ UniqueInv'
  BY <1>1 DEF SumsInv, OrderInv, RestInv, PublishedInv, UniqueInv
<1>3. ReadInv'
  BY <1>1 DEF SumsInv, ReadInv
<1>4. ListedInv'
  <2> DEFINE type == Gets[get].type
  <2>1. SUFFICES ASSUME NEW k \in DOMAIN listed
                 PROVE  /\ RecordAt(listed[k], k, type, now)
                        /\ k \in DOMAIN buckets'[type].bucket =>
                             listed[k].value.values[1] <= buckets'[type].bucket[k].value.values[1]
    BY <1>1 DEF ListedInv
  <2>2. /\ RecordAt(listed[k], k, type, now)
        /\ k \in DOMAIN buckets[type].bucket =>
             listed[k].value.values[1] <= buckets[type].bucket[k].value.values[1]
    BY DEF SumsInv, ListedInv
  <2>3. type \in Types
    <3>1. get \in 1..6
      BY ThreadsAre DEF ServerInv, SummaryInv, SumsInv, RestInv
    <3> QED BY <3>1, GetsAre
  <2>4. listed[k].value.values[1] <= Most(type, now)
    BY <2>2 DEF RecordAt
  <2> QED BY <2>2, <2>3, <2>4
<1> QED BY <1>2, <1>3, <1>4 DEF SumsInv

LEMMA CallsKeepSums ==
  ASSUME ServerInv, SumsInv, ServerInv', NEW t \in Threads, Enter(t) \/ Scan(t) \/ Delete(t) \/ Leave(t)
  PROVE  SumsInv'
<1>1. /\ access[t].at \in Timed /\ now' = now
      /\ \A type \in Types : \A k \in DOMAIN buckets'[type].bucket :
           k \in DOMAIN buckets[type].bucket /\ buckets'[type].bucket[k] = buckets[type].bucket[k]
  BY CallIsOnward
<1>2. Fail(t) \/ \E b : b.at \in Timed /\ Goes(t, b)
  BY CallIsOnward
<1>3. DOMAIN access = Threads /\ "read" \notin Timed
  BY ThreadsAre DEF ServerInv, AccessInv
<1>4. CASE Fail(t) /\ t = "collectd"
  <2>1. DOMAIN listed' = {} /\ recs' = <<>> /\ keys' = {} /\ published' = {}
    BY <1>4 DEF Fail
  <2> QED BY <2>1, NothingRead DEF SumsInv, PublishedInv, UniqueInv
<1>5. CASE Fail(t) /\ t = "listener"
  <2>1. UNCHANGED summaryVars /\ access' = [access EXCEPT ![t] = NoAccess]
    BY <1>5 DEF Fail
  <2>2. access'["collectd"] = access["collectd"]
    BY <1>3, <1>5, <2>1, ThreadsAre
  <2> QED BY <1>1, <2>1, <2>2, SummaryStays
<1>6. ASSUME NEW b, b.at \in Timed, Goes(t, b) PROVE SumsInv'
  <2>1. UNCHANGED summaryVars /\ access' = [access EXCEPT ![t] = b]
    BY <1>6 DEF Goes
  <2>2. \A u \in Threads : access'[u] = IF u = t THEN b ELSE access[u]
    BY <1>3, <2>1
  <2>3. access'["collectd"].at = "read" <=> access["collectd"].at = "read"
    BY <1>1, <1>3, <1>6, <2>2, ThreadsAre
  <2> QED BY <1>1, <2>1, <2>3, SummaryStays
<1> QED BY <1>2, <1>4, <1>5, <1>6, ThreadsAre

LEMMA ListenerKeepsSums ==
  ASSUME ServerInv, SumsInv, Receive \/ SetRecord
  PROVE  SumsInv'
<1>1. UNCHANGED summaryVars /\ now' = now /\ DOMAIN access = Threads
  BY DEF Receive, SetRecord, ServerInv, AccessInv
<1>2. access'["collectd"] = access["collectd"]
  <2>1. access' = access \/ \E b : access' = [access EXCEPT !["listener"] = b]
    BY DEF Receive, SetRecord
  <2> QED BY <1>1, <2>1, ThreadsAre
<1>3. CASE Receive
  BY <1>1, <1>2, <1>3, SummaryStays DEF Receive
<1>4. CASE SetRecord
  <2> DEFINE a == access["listener"]
             v == Head(message)
             value == IF a.type = v.type THEN v ELSE Counted(v)
             r == [timestamp |-> v.time, interval |-> Window(a.type), value |-> value]
             tb == buckets[a.type]
             new == SetItem(tb, v.time, Window(a.type), KeyOf(v), value)
  <2>1. /\ a.type \in Types /\ SentAt(v, now) /\ a.type \in {v.type, "sqlalchemy_process"}
        /\ buckets' = [buckets EXCEPT ![a.type] = new] /\ RecordAt(r, KeyOf(v), a.type, now)
    BY <1>4, StoredIs
  <2>2. DOMAIN buckets = Types /\ DOMAIN tb = {"bucket", "last_timestamp", "last_interval"}
    BY <2>1 DEF ServerInv, BucketsInv, BucketFields
  <2>3. r.value.values[1] = Most(a.type, now)
    BY <2>1 DEF RecordAt, SentAt, Most
  <2>4. /\ DOMAIN new.bucket = DOMAIN tb.bucket \cup {KeyOf(v)}
        /\ new.bucket[KeyOf(v)] = r
        /\ \A k \in DOMAIN tb.bucket : k # KeyOf(v) => new.bucket[k] = tb.bucket[k]
    <3>1. DOMAIN tb = {"bucket", "last_timestamp", "last_interval"}
      BY <2>2
    <3> HIDE DEF tb, v, a, value
    <3> QED BY <3>1, SetItemIs
  <2> HIDE DEF new, r, v, a
  <2>5. ASSUME NEW type \in Types, NEW k \in DOMAIN buckets'[type].bucket
        PROVE  \/ k \in DOMAIN buckets[type].bucket /\ buckets'[type].bucket[k] = buckets[type].bucket[k]
               \/ buckets'[type].bucket[k].value.values[1] = Most(type, now)
    <3>1. CASE type = a.type
      <4>1. buckets'[type] = new
        BY <2>1, <2>2, <3>1
      <4> QED BY <2>3, <2>4, <2>5, <3>1, <4>1
    <3>2. CASE type # a.type
      BY <2>1, <2>2, <2>5, <3>2
    <3> QED BY <3>1, <3>2
  <2> QED BY <1>1, <1>2, <2>5, SummaryStays
<1> QED BY <1>3, <1>4

\* Outside of a summary there is none, and past its call a sum is complete.
LEMMA OnKeepsSums ==
  ASSUME ServerInv, SumsInv, ServerInv', get' \in Int, get < get', DOMAIN listed' = {}, recs' = <<>>, keys' = {},
         published' = published
  PROVE  SumsInv'
<1>1. OrderInv' /\ RestInv' /\ ListedInv' /\ ReadInv'
  BY NothingRead
<1>2. get \in Int
  BY DEF ServerInv, SummaryInv
<1>3. PublishedInv'
  <2>1. SUFFICES ASSUME NEW v \in published
                 PROVE  \E i \in 1..6, k \in Keys : SumOf(v, i, k) /\ i <= get' /\ i # get'
    BY DEF PublishedInv
  <2>2. PICK i \in 1..6, k \in Keys : SumOf(v, i, k) /\ i <= get
    BY DEF SumsInv, PublishedInv
  <2> QED BY <1>2, <2>2
<1>4. UniqueInv'
  BY DEF SumsInv, UniqueInv
<1> QED BY <1>1, <1>3, <1>4 DEF SumsInv

\* The values of a group's records, and of the one that is looked up, as LookUp takes them.
LEMMA LookUpReads ==
  ASSUME ServerInv, SumsInv, LookUp, First(keys) \in DOMAIN buckets[Gets[get].type].bucket
  PROVE  LET type == Gets[get].type
             by == Gets[get].by
             k == First(keys)
             rest == keys \ {k}
             group == GroupOf(k, by)
             done == DOMAIN listed \ keys
             more == done \cup {k}
             read == Append(recs, buckets[type].bucket[k].value)
         IN  /\ get \in 1..6 /\ by \in {"progname", "hostname"} /\ k \in keys /\ k \in Keys /\ more = DOMAIN listed \ rest
             /\ \A j \in more, l \in rest : Place(j) < Place(l)
             /\ rest = {} \/ GroupOf(First(rest), by) # group => \A j \in rest : GroupOf(j, by) # group
             /\ rest # {} /\ GroupOf(First(rest), by) # group => \A j \in more : GroupOf(j, by) # GroupOf(First(rest), by)
             /\ GroupRead(read, type, by, group, {j \in more : GroupOf(j, by) = group}, listed, now)
             /\ Sum(read) \in Sums(type, by, group)
<1> DEFINE type == Gets[get].type
           by == Gets[get].by
           k == First(keys)
           rest == keys \ {k}
           group == GroupOf(k, by)
           done == DOMAIN listed \ keys
           more == done \cup {k}
           taken == {j \in done : GroupOf(j, by) = group}
           value == buckets[type].bucket[k].value
           read == Append(recs, value)
<1>1. access["collectd"].at = "read" /\ access["collectd"] # NoAccess
  BY ThreadsAre DEF LookUp
<1>2. get \in 1..6 /\ type \in Types /\ by \in {"progname", "hostname"}
  BY <1>1, GetsAre DEF ServerInv, SummaryInv
<1>3. keys # {} /\ keys \in SUBSET Keys /\ done \in SUBSET Keys /\ keys \subseteq DOMAIN listed /\ DOMAIN listed \subseteq Keys
  BY <1>1 DEF ServerInv, SummaryInv
<1>4. /\ k \in keys /\ k \notin done
      /\ \A j \in more, l \in rest : Place(j) < Place(l)
      /\ rest = {} \/ GroupOf(First(rest), by) # group => \A j \in rest : GroupOf(j, by) # group
      /\ rest # {} /\ GroupOf(First(rest), by) # group => \A j \in more : GroupOf(j, by) # GroupOf(First(rest), by)
  <2>1. \A j \in done, l \in keys : Place(j) < Place(l)
    BY DEF SumsInv, OrderInv
  <2> HIDE DEF done, by
  <2> QED BY <1>2, <1>3, <2>1, GroupsGoOn
<1>5. more = DOMAIN listed \ rest /\ k \in Keys
  BY <1>3, <1>4
<1>6. GroupRead(recs, type, by, group, taken, listed, now)
  BY <1>1 DEF SumsInv, ReadInv
<1>7. /\ RecordAt(listed[k], k, type, now) /\ listed[k].value.values[1] <= value.values[1]
      /\ RecordAt(buckets[type].bucket[k], k, type, now)
      /\ \A j \in DOMAIN listed : RecordAt(listed[j], j, type, now)
  BY <1>2, <1>3, <1>4 DEF SumsInv, ListedInv, ServerInv, BucketsInv
<1>8. now \in Nat /\ IsFiniteSet(taken)
  <2>1. taken \subseteq Keys
    BY <1>3
  <2>2. now \in Nat
    BY DEF ServerInv, ClockInv
  <2> HIDE DEF taken
  <2> QED BY <2>1, <2>2, KeysFinite, FS_Subset
<1>9. \A j \in taken \cup {k} : listed[j].value.values[1] \in Nat
  <2>1. \A j \in DOMAIN listed : listed[j].value.values[1] \in Nat
    BY <1>2, <1>7, <1>8, RecordAdds
  <2> QED BY <1>3, <1>4, <2>1
<1>10. value \in Sums(type, by, group) /\ value.values[1] <= Most(type, now)
  <2> DEFINE r == buckets[type].bucket[k]
  <2>1. RecordAt(r, k, type, now)
    BY <1>7
  <2> HIDE DEF r, type, by, k
  <2>2. r.value \in Sums(type, by, GroupOf(k, by)) /\ r.value.values[1] <= Most(type, now)
    BY <1>2, <1>8, <2>1, RecordAdds
  <2> QED BY <2>2 DEF r, type, by, k
<1>11. k \notin taken /\ taken \cup {k} = {j \in more : GroupOf(j, by) = group}
  BY <1>4
<1>12. listed[k].value.values[1] <= value.values[1]
  BY <1>7
<1> HIDE DEF type, by, k, group, taken, value
<1>13. /\ GroupRead(Append(recs, value), type, by, group, taken \cup {k}, listed, now)
       /\ Sum(Append(recs, value)) \in Sums(type, by, group)
  BY <1>2, <1>6, <1>8, <1>9, <1>10, <1>11, <1>12, GroupGrows
<1> QED BY <1>2, <1>4, <1>5, <1>11, <1>13 DEF type, by, k, group, taken, value

\* What a lookup publishes is the sum of its group.
LEMMA LookUpPublishes ==
  ASSUME ServerInv, SumsInv, LookUp, First(keys) \in DOMAIN buckets[Gets[get].type].bucket
  PROVE  LET by == Gets[get].by
             k == First(keys)
             rest == keys \ {k}
             v == Summed(Append(recs, buckets[Gets[get].type].bucket[k].value), by)
         IN  /\ published' = published
                \/ /\ published' = published \cup {v}
                   /\ \A j \in rest : GroupOf(j, by) # GroupOf(k, by)
             /\ rest = {} \/ GroupOf(First(rest), by) # GroupOf(k, by) => published' = published \cup {v}
             /\ SumOf(v, get, k) /\ v.values = Sum(Append(recs, buckets[Gets[get].type].bucket[k].value)).values
<1> DEFINE type == Gets[get].type
           by == Gets[get].by
           k == First(keys)
           rest == keys \ {k}
           last == rest = {} \/ GroupOf(First(rest), by) # GroupOf(k, by)
           read == Append(recs, buckets[type].bucket[k].value)
           v == Summed(read, by)
<1>1. /\ get \in 1..6 /\ by \in {"progname", "hostname"} /\ k \in Keys
      /\ last => \A j \in rest : GroupOf(j, by) # GroupOf(k, by)
      /\ Sum(read) \in Sums(type, by, GroupOf(k, by))
  BY LookUpReads
<1>2. published' = IF last THEN published \cup {v} ELSE published
  BY DEF LookUp
<1>3. SumOf(v, get, k) /\ v.values = Sum(read).values
  <2>1. Sum(read).values \in Seq(Nat)
    BY <1>1, SumsAre
  <2> HIDE DEF read
  <2>2. /\ v.type = type /\ v.plugin = "sqlalchemy" /\ v.values = Sum(read).values
        /\ v.host = k[1] /\ v.plugin_instance = IF by = "progname" THEN k[2] ELSE "host"
    <3> HIDE DEF type, by, k
    <3> QED BY <1>1, SummedIs
  <2> HIDE DEF v
  <2> QED BY <2>1, <2>2 DEF SumOf
<1> HIDE DEF v
<1> QED BY <1>1, <1>2, <1>3 DEF v

\* A sum of a group that is looked up is of no group that has been published.
LEMMA SumIsNew ==
  ASSUME ServerInv, SumsInv, NEW k \in keys, get \in 1..6, NEW v, SumOf(v, get, k), NEW w \in published
  PROVE  ~(v.type = w.type /\ v.host = w.host /\ v.plugin_instance = w.plugin_instance)
<1> SUFFICES ASSUME v.type = w.type, v.host = w.host, v.plugin_instance = w.plugin_instance PROVE FALSE
  OBVIOUS
<1>1. k \in Keys
  BY DEF ServerInv, SummaryInv
<1>2. PICK i \in 1..6, l \in Keys :
        /\ SumOf(w, i, l)
        /\ i = get => \A j \in keys : GroupOf(j, Gets[i].by) # GroupOf(l, Gets[i].by)
  BY DEF SumsInv, PublishedInv
<1>3. k[2] # "host" /\ l[2] # "host"
  BY <1>1, NamesOf
<1>4. Gets[i].type = Gets[get].type /\ k[1] = l[1]
  BY <1>2 DEF SumOf
<1>5. /\ Gets[i].by \in {"progname", "hostname"} /\ Gets[get].by \in {"progname", "hostname"}
      /\ Gets[i].by = Gets[get].by => i = get
  BY <1>2, <1>4, GetsAre
<1>6. Gets[i].by = Gets[get].by /\ (Gets[i].by = "progname" => k[2] = l[2])
  BY <1>2, <1>3, <1>5 DEF SumOf
<1>7. GroupOf(k, Gets[i].by) = GroupOf(l, Gets[i].by)
  BY <1>4, <1>5, <1>6 DEF GroupOf
<1> QED BY <1>2, <1>5, <1>6, <1>7

LEMMA LookUpKeepsSums ==
  ASSUME ServerInv, SumsInv, ServerInv', LookUp
  PROVE  SumsInv'
<1> DEFINE type == Gets[get].type
           by == Gets[get].by
           k == First(keys)
           rest == keys \ {k}
           group == GroupOf(k, by)
           more == DOMAIN listed \ rest
           read == Append(recs, buckets[type].bucket[k].value)
           v == Summed(read, by)
<1>1. CASE k \notin DOMAIN buckets[type].bucket
  <2>1. Fail("collectd")
    BY <1>1 DEF LookUp
  <2>2. DOMAIN listed' = {} /\ recs' = <<>> /\ keys' = {} /\ published' = {}
    BY <2>1, ThreadsAre DEF Fail
  <2> QED BY <2>2, NothingRead DEF SumsInv, PublishedInv, UniqueInv
<1>2. CASE k \in DOMAIN buckets[type].bucket
  <2>1. /\ get \in 1..6 /\ by \in {"progname", "hostname"} /\ k \in keys /\ k \in Keys
        /\ more = (DOMAIN listed \ keys) \cup {k}
        /\ \A j \in more, l \in rest : Place(j) < Place(l)
        /\ rest # {} /\ GroupOf(First(rest), by) # group => \A j \in more : GroupOf(j, by) # GroupOf(First(rest), by)
        /\ GroupRead(read, type, by, group, {j \in more : GroupOf(j, by) = group}, listed, now)
    BY <1>2, LookUpReads
  <2>2. /\ \/ published' = published
           \/ /\ published' = published \cup {v}
              /\ \A j \in rest : GroupOf(j, by) # group
        /\ SumOf(v, get, k)
    BY <1>2, LookUpPublishes
  <2>3. now' = now /\ buckets' = buckets
    BY DEF LookUp
  <2> HIDE DEF v
  <2>4. UniqueInv'
    BY <2>1, <2>2, SumIsNew DEF SumsInv, UniqueInv
  <2>5. CASE rest = {}
    <3>1. get' = get + 1 /\ keys' = {} /\ recs' = <<>> /\ listed' = <<>>
      BY <1>2, <2>5 DEF LookUp, Next
    <3>2. OrderInv' /\ RestInv' /\ ListedInv' /\ ReadInv'
      BY <3>1, NothingRead
    <3>3. PublishedInv'
      <4>1. SUFFICES ASSUME NEW w \in published'
                     PROVE  \E i \in 1..6, l \in Keys : SumOf(w, i, l) /\ i <= get + 1 /\ i # get + 1
        BY <3>1 DEF PublishedInv
      <4>2. PICK i \in 1..6, l \in Keys : SumOf(w, i, l) /\ i <= get
        <5>1. CASE w \in published
          BY <5>1 DEF SumsInv, PublishedInv
        <5>2. CASE w = v
          BY <2>1, <2>2, <5>2
        <5> QED BY <2>2, <5>1, <5>2
      <4> QED BY <2>1, <4>2
    <3> QED BY <2>4, <3>2, <3>3 DEF SumsInv
  <2>6. CASE rest # {}
    <3> DEFINE last == GroupOf(First(rest), by) # group
    <3>1. /\ keys' = rest /\ recs' = IF last THEN <<>> ELSE read
          /\ get' = get /\ listed' = listed /\ access' = access
      BY <1>2, <2>6 DEF LookUp
    <3>2. DOMAIN listed \ keys' = more
      BY <3>1
    <3>3. OrderInv'
      BY <2>1, <3>1, <3>2 DEF OrderInv
    <3>4. ListedInv'
      BY <2>3, <3>1 DEF SumsInv, ListedInv
    <3>5. access["collectd"].at = "read"
      BY DEF LookUp
    <3>6. RestInv'
      BY <3>1, <3>5 DEF RestInv
    <3>7. ReadInv'
      <4> DEFINE g == GroupOf(First(rest), by)
                 taken == {j \in more : GroupOf(j, by) = g}
      <4>1. SUFFICES GroupRead(recs', type, by, g, taken, listed, now)
        BY <2>3, <3>1 DEF ReadInv
      <4>2. CASE last
        <5>1. taken = {} /\ recs' = <<>>
          BY <2>1, <2>6, <3>1, <4>2
        <5> HIDE DEF type, by, g, taken
        <5> QED BY <5>1 DEF GroupRead
      <4>3. CASE ~last
        BY <2>1, <3>1, <4>3
      <4> QED BY <4>2, <4>3
    <3>8. PublishedInv'
      <4>1. SUFFICES ASSUME NEW w \in published'
                     PROVE  \E i \in 1..6, l \in Keys :
                              /\ SumOf(w, i, l) /\ i <= get
                              /\ i = get => l \in more /\ \A j \in rest : GroupOf(j, Gets[i].by) # GroupOf(l, Gets[i].by)
        BY <3>1 DEF PublishedInv
      <4>2. CASE w \in published
        BY <2>1, <4>2 DEF SumsInv, PublishedInv
      <4>3. CASE w = v /\ \A j \in rest : GroupOf(j, by) # group
        BY <2>1, <2>2, <4>3
      <4> QED BY <2>2, <4>2, <4>3
    <3> QED BY <2>4, <3>3, <3>4, <3>6, <3>7, <3>8 DEF SumsInv
  <2> QED BY <2>5, <2>6
<1> QED BY <1>1, <1>2

LEMMA SumsStep == ServerInv /\ SumsInv /\ ServerInv' /\ [ServerNext]_serverVars => SumsInv'
<1> SUFFICES ASSUME ServerInv, SumsInv, ServerInv', [ServerNext]_serverVars PROVE SumsInv'
  OBVIOUS
<1>1. get \in 0..7 /\ (access["collectd"] # NoAccess => get \in 1..6) /\ (access["collectd"].at # "read" => keys = {})
  BY DEF ServerInv, SummaryInv
<1>2. access["collectd"].at # "read" => DOMAIN listed = {} /\ recs = <<>>
  BY DEF SumsInv, RestInv
<1>3. get = 0 => published = {}
  BY DEF SumsInv, PublishedInv
<1>4. DOMAIN <<>> = {}
  OBVIOUS
<1>5. CASE Tick
  <2>1. access["collectd"].at # "read" /\ get = 0 /\ UNCHANGED summaryVars
    BY <1>5, ThreadsAre DEF Tick
  <2>2. DOMAIN listed' = {} /\ recs' = <<>> /\ keys' = {} /\ published' = {}
    BY <1>1, <1>2, <1>3, <2>1 DEF summaryVars
  <2> QED BY <2>2, NothingRead DEF SumsInv, PublishedInv, UniqueInv
<1>6. ASSUME NEW t \in Threads, Enter(t) \/ Scan(t) \/ Delete(t) \/ Leave(t) PROVE SumsInv'
  BY <1>6, CallsKeepSums
<1>7. CASE Receive \/ SetRecord
  BY <1>7, ListenerKeepsSums
<1>8. CASE Read
  <2>1. /\ get = 0 /\ get' = 1 /\ keys' = {} /\ recs' = <<>> /\ listed' = <<>> /\ published' = published
    BY <1>8 DEF Read, Next
  <2> QED BY <1>4, <2>1, OnKeepsSums
<1>9. CASE ListKeys
  <2> DEFINE type == Gets[get].type
             bucket == buckets[type].bucket
  <2>1. access["collectd"].at = "done" /\ access["collectd"] # NoAccess /\ get \in 1..6
    BY <1>1, <1>9, ThreadsAre DEF ListKeys
  <2>2. DOMAIN listed = {} /\ recs = <<>> /\ type \in Types
    BY <1>2, <2>1, GetsAre
  <2>3. CASE DOMAIN bucket = {}
    <3>1. /\ get' = get + 1 /\ keys' = {} /\ recs' = <<>> /\ listed' = <<>> /\ published' = published
      BY <1>9, <2>3 DEF ListKeys, Next
    <3> QED BY <1>4, <2>1, <3>1, OnKeepsSums
  <2>4. CASE DOMAIN bucket # {}
    <3>1. /\ access' = [access EXCEPT !["collectd"] = [at |-> "read"]] /\ keys' = DOMAIN bucket /\ listed' = bucket
          /\ get' = get /\ recs' = recs /\ published' = published /\ now' = now /\ buckets' = buckets
      BY <1>9, <2>4 DEF ListKeys
    <3>2. access'["collectd"].at = "read"
      <4>1. access'["collectd"] = [at |-> "read"]
        BY <3>1, ThreadsAre DEF ServerInv, AccessInv
      <4> QED BY <4>1
    <3>3. DOMAIN listed' \ keys' = {}
      BY <3>1
    <3>4. OrderInv' /\ RestInv'
      BY <3>2, <3>3 DEF OrderInv, RestInv
    <3>5. ASSUME NEW k \in DOMAIN bucket
          PROVE  RecordAt(bucket[k], k, type, now) /\ bucket[k].value.values[1] <= bucket[k].value.values[1]
      <4>1. RecordAt(bucket[k], k, type, now) /\ now \in Nat
        BY <2>2 DEF ServerInv, BucketsInv, ClockInv
      <4> DEFINE r == bucket[k]
      <4> HIDE DEF r, type
      <4>2. r.value.values[1] \in Nat
        BY <4>1, RecordAdds DEF r
      <4> QED BY <4>1, <4>2 DEF r
    <3>6. ListedInv'
      BY <3>1, <3>5 DEF ListedInv
    <3>7. ReadInv'
      <4>1. \A by, group : GroupRead(<<>>, type, by, group, {}, bucket, now)
        <5> HIDE DEF type, bucket
        <5> QED BY DEF GroupRead
      <4> QED BY <2>2, <3>1, <3>3, <4>1 DEF ReadInv
    <3>8. PublishedInv'
      <4>1. \A v \in published : \E i \in 1..6, k \in Keys : SumOf(v, i, k) /\ i <= get /\ i # get
        BY <2>2 DEF SumsInv, PublishedInv
      <4> QED BY <3>1, <4>1 DEF PublishedInv
    <3>9. UniqueInv'
      BY <3>1 DEF SumsInv, UniqueInv
    <3> QED BY <3>4, <3>6, <3>7, <3>8, <3>9 DEF SumsInv
  <2> QED BY <2>3, <2>4
<1>10. CASE LookUp
  BY <1>10, LookUpKeepsSums
<1>11. CASE EndSummary
  <2>1. get = 7 /\ access["collectd"].at # "read"
    BY <1>1, <1>11, GetsAre, ThreadsAre DEF EndSummary
  <2>2. DOMAIN listed' = {} /\ recs' = <<>> /\ keys' = {} /\ published' = {}
    BY <1>1, <1>2, <1>11, <2>1 DEF EndSummary
  <2> QED BY <2>2, NothingRead DEF SumsInv, PublishedInv, UniqueInv
<1>12. CASE UNCHANGED serverVars
  BY <1>12, SummaryStays DEF serverVars
<1> QED BY <1>5, <1>6, <1>7, <1>8, <1>9, <1>10, <1>11, <1>12 DEF ServerNext

\* The values of types of different names are named differently.
LEMMA NamesDiffer ==
  /\ TypeNames(internal_types) = Types
  /\ \A s, t \in internal_types : s.name # t.name =>
       \A i \in DOMAIN s.names, j \in DOMAIN t.names : s.names[i] # t.names[j]
<1>1. /\ pool_internal.name = "sqlalchemy_pool" /\ process_internal.name = "sqlalchemy_process"
      /\ totals_internal.name = "sqlalchemy_totals"
  BY DEF Type, pool_internal, process_internal, totals_internal
<1>2. \A i \in DOMAIN pool_internal.names :
        pool_internal.names[i] \in {"numpools", "checkedout", "checkedin", "detached", "connections"}
  BY DEF Type, pool_internal
<1>3. \A i \in DOMAIN process_internal.names : process_internal.names[i] = "numprocs"
  BY DEF Type, process_internal
<1>4. \A i \in DOMAIN totals_internal.names :
        totals_internal.names[i] \in {"checkouts", "invalidated", "connects", "disconnects"}
  BY DEF Type, totals_internal
<1>5. internal_types = {pool_internal, process_internal, totals_internal}
  BY DEF internal_types
<1>6. TypeNames(internal_types) = Types
  BY <1>1, <1>5 DEF TypeNames, Types
<1> QED BY <1>1, <1>2, <1>3, <1>4, <1>5, <1>6

\* What collectd is handed of a sum.
LEMMA DispatchedIs ==
  ASSUME NEW v, NEW i \in 1..6, NEW k \in Keys, SumOf(v, i, k), NEW d \in Dispatched(v)
  PROVE  /\ Identity \subseteq DOMAIN d
         /\ d["host"] = v.host /\ d["plugin_instance"] = v.plugin_instance
         /\ \E t \in internal_types : t.name = v.type /\ \E n \in DOMAIN t.names : d["type_instance"] = t.names[n]
<1> DEFINE t == CHOOSE type \in internal_types : type.name = v.type
           made(n) == Build(v, [type |-> t.kind, type_instance |-> t.names[n], values |-> <<v.values[n]>>])
<1>1. v.type \in TypeNames(internal_types)
  BY GetsAre, NamesDiffer DEF SumOf
<1>2. t \in internal_types /\ t.name = v.type
  BY <1>1 DEF TypeNames
<1>3. PICK n \in 1..Shorter(t.names, v.values) : d = ToCollectd(made(n))
  BY DEF Dispatched, Break
<1>4. /\ DOMAIN t.names = 1..Len(t.names) /\ Len(t.names) \in Nat /\ t.kind \in {"count", "derive"}
      /\ \A x \in DOMAIN t.names : t.names[x] # None
  <2>1. t.kind \in {"count", "derive"}
    <3>1. pool_internal.kind = "count" /\ process_internal.kind = "count" /\ totals_internal.kind = "derive"
      BY DEF pool_internal, process_internal, totals_internal, Type
    <3> QED BY <1>2, <3>1 DEF internal_types
  <2>2. DOMAIN t.names = 1..Len(t.names) /\ Len(t.names) \in Nat
    <3>1. DOMAIN pool_internal.names = 1..Len(pool_internal.names) /\ Len(pool_internal.names) \in Nat
      BY DEF pool_internal, Type
    <3>2. DOMAIN process_internal.names = 1..Len(process_internal.names) /\ Len(process_internal.names) \in Nat
      BY DEF process_internal, Type
    <3>3. DOMAIN totals_internal.names = 1..Len(totals_internal.names) /\ Len(totals_internal.names) \in Nat
      BY DEF totals_internal, Type
    <3> QED BY <1>2, <3>1, <3>2, <3>3 DEF internal_types
  <2>3. \A x \in DOMAIN t.names : t.names[x] # None
    BY <1>2, WordsAre
  <2> QED BY <2>1, <2>2, <2>3
<1> HIDE DEF t
<1>5. n \in DOMAIN t.names
  <2>1. v.values \in Seq(Nat) /\ Len(v.values) \in Nat
    BY DEF SumOf
  <2> QED BY <1>4, <2>1 DEF Shorter
<1> DEFINE w == made(n)
<1>6. /\ w.type = t.kind /\ w.type_instance = t.names[n] /\ w.host = v.host /\ w.plugin = v.plugin
      /\ w.plugin_instance = v.plugin_instance
  BY DEF Build, Values, Slots
<1> HIDE DEF w, made
<1>7. /\ w.type # None /\ w.type_instance # None /\ w.host # None /\ w.plugin # None /\ w.plugin_instance # None
  <2>1. t.kind # None /\ t.names[n] # None
    BY <1>4, <1>5, WordsAre
  <2>2. v.host # None /\ v.plugin # None /\ v.plugin_instance # None
    BY WordsAre, NamesOf DEF SumOf
  <2> QED BY <1>6, <2>1, <2>2
<1>8. Identity \subseteq Slots /\ "interval" \notin Identity
  BY DEF Identity, Slots
<1>9. /\ \A slot \in Identity : w[slot] # None
      /\ Identity \subseteq DOMAIN d /\ \A slot \in Identity : d[slot] = w[slot]
  <2>1. \A slot \in Identity : w[slot] # None
    BY <1>7 DEF Identity
  <2>2. d = ToCollectd(w)
    BY <1>3 DEF w
  <2> QED BY <1>8, <2>1, <2>2 DEF ToCollectd
<1>10. {"host", "plugin_instance", "type_instance"} \subseteq Identity
  BY DEF Identity
<1> QED BY <1>2, <1>5, <1>6, <1>9, <1>10

LEMMA SumsAreUnique == SumsInv => IdentitiesUnique
<1> SUFFICES ASSUME SumsInv PROVE IdentitiesUnique
  OBVIOUS
<1>1. \A v \in published : \E i \in 1..6, k \in Keys : SumOf(v, i, k)
  BY DEF SumsInv, PublishedInv
<1>2. ASSUME NEW v \in published, NEW d \in Dispatched(v) PROVE Identity \subseteq DOMAIN d
  <2>1. PICK i \in 1..6, k \in Keys : SumOf(v, i, k)
    BY <1>1
  <2> QED BY <2>1, DispatchedIs
<1>3. ASSUME NEW v \in published, NEW w \in published, v # w, NEW d \in Dispatched(v), NEW e \in Dispatched(w)
      PROVE  \E part \in Identity : d[part] # e[part]
  <2>1. ~(v.type = w.type /\ v.host = w.host /\ v.plugin_instance = w.plugin_instance)
    BY <1>3 DEF SumsInv, UniqueInv
  <2>2. PICK i \in 1..6, k \in Keys : SumOf(v, i, k)
    BY <1>1
  <2>3. PICK j \in 1..6, l \in Keys : SumOf(w, j, l)
    BY <1>1
  <2>4. /\ d["host"] = v.host /\ d["plugin_instance"] = v.plugin_instance
        /\ \E t \in internal_types : t.name = v.type /\ \E n \in DOMAIN t.names : d["type_instance"] = t.names[n]
    BY <2>2, DispatchedIs
  <2>5. /\ e["host"] = w.host /\ e["plugin_instance"] = w.plugin_instance
        /\ \E t \in internal_types : t.name = w.type /\ \E n \in DOMAIN t.names : e["type_instance"] = t.names[n]
    BY <2>3, DispatchedIs
  <2>6. v.type # w.type => d["type_instance"] # e["type_instance"]
    BY <2>4, <2>5, NamesDiffer
  <2>7. {"host", "plugin_instance", "type_instance"} \subseteq Identity
    BY DEF Identity
  <2> QED BY <2>1, <2>4, <2>5, <2>6, <2>7
<1>4. ASSUME NEW one \in {<<v, Dispatched(v)>> : v \in published}, NEW other \in {<<v, Dispatched(v)>> : v \in published},
             one # other, NEW d \in one[2], NEW e \in other[2]
      PROVE  \E part \in Identity : d[part] # e[part]
  <2>1. PICK v \in published, w \in published : one = <<v, Dispatched(v)>> /\ other = <<w, Dispatched(w)>>
    BY <1>4
  <2>2. v # w /\ d \in Dispatched(v) /\ e \in Dispatched(w)
    BY <1>4, <2>1
  <2> QED BY <1>3, <2>2
<1> QED BY <1>2, <1>4 DEF IdentitiesUnique

\* What is published is a sum of what its keys had, with what they had been sent since at most.
LEMMA BetweenStep ==
  ASSUME ServerInv, SumsInv, [ServerNext]_serverVars, NEW v \in Added
  PROVE  LET before == SumFunction([k \in Grouped(v) |-> listed[k].value.values[1]])
             most == IF v.type = "sqlalchemy_totals" THEN now ELSE 1
         IN  v.values[1] \in before..(most * Cardinality(Grouped(v)))
<1> DEFINE type == Gets[get].type
           by == Gets[get].by
           k == First(keys)
           rest == keys \ {k}
           group == GroupOf(k, by)
           read == Append(recs, buckets[type].bucket[k].value)
           taken == {j \in (DOMAIN listed \ keys) \cup {k} : GroupOf(j, by) = group}
<1>1. v \in published' /\ v \notin published
  BY DEF Added
<1>2. LookUp /\ k \in DOMAIN buckets[type].bucket
  <2>1. \A t \in Threads : Fail(t) => published' = published \/ published' = {}
    BY DEF Fail, summaryVars
  <2>2. \A t \in Threads : \A b : Goes(t, b) => published' = published
    BY DEF Goes, summaryVars
  <2>3. ASSUME NEW t \in Threads, Enter(t) \/ Scan(t) \/ Delete(t) \/ Leave(t) PROVE FALSE
    <3>1. Fail(t) \/ \E b : Goes(t, b)
      BY <2>3, CallIsOnward
    <3> QED BY <1>1, <2>1, <2>2, <3>1
  <2>4. ~(Tick \/ Receive \/ SetRecord \/ Read \/ ListKeys \/ EndSummary \/ UNCHANGED serverVars)
    BY <1>1 DEF Tick, Receive, SetRecord, Read, ListKeys, EndSummary, serverVars, summaryVars
  <2>5. LookUp
    BY <2>3, <2>4 DEF ServerNext
  <2>6. k \notin DOMAIN buckets[type].bucket => Fail("collectd")
    BY <2>5 DEF LookUp
  <2> QED BY <1>1, <2>1, <2>5, <2>6, ThreadsAre
<1>3. /\ get \in 1..6 /\ by \in {"progname", "hostname"} /\ k \in keys
      /\ GroupRead(read, type, by, group, taken, listed, now)
      /\ Sum(read) \in Sums(type, by, group)
  BY <1>2, LookUpReads
<1>4. /\ v = Summed(read, by) /\ (\A j \in rest : GroupOf(j, by) # group)
      /\ SumOf(Summed(read, by), get, k) /\ Summed(read, by).values = Sum(read).values
  BY <1>1, <1>2, LookUpPublishes
<1>5. v.type = type /\ v.host = k[1] /\ (by = "progname" => v.plugin_instance = k[2])
  BY <1>4 DEF SumOf
<1>6. Grouped(v) = taken
  <2>1. Grouped(v) = {j \in DOMAIN listed : GroupOf(j, by) = group}
    BY <1>3, <1>5 DEF Grouped, GroupOf
  <2>2. k \in DOMAIN listed
    BY <1>3 DEF ServerInv, SummaryInv
  <2>3. ASSUME NEW j \in DOMAIN listed, GroupOf(j, by) = group PROVE j \in taken
    <3>1. j \notin rest
      BY <1>4, <2>3
    <3> QED BY <2>3, <3>1
  <2>4. taken \subseteq {j \in DOMAIN listed : GroupOf(j, by) = group}
    BY <2>2
  <2> HIDE DEF taken, by, group
  <2> QED BY <2>1, <2>3, <2>4
<1>7. v.values[1] = Sum(read).values[1]
  BY <1>4
<1>8. read # <<>>
  <2>1. recs \in Seq(Sums(type, by, GroupOf(First(keys), by)))
    BY <1>2 DEF LookUp, SumsInv, ReadInv, GroupRead
  <2> QED BY <2>1
<1>9. /\ Sum(read).values[1] \in Nat /\ IsFiniteSet(taken)
      /\ SumFunction([j \in taken |-> listed[j].value.values[1]]) <= Sum(read).values[1]
      /\ Sum(read).values[1] <= Most(type, now) * Cardinality(taken)
  <2>1. taken \subseteq Keys
    BY <1>3 DEF ServerInv, SummaryInv
  <2> HIDE DEF taken, read
  <2> QED BY <1>3, <1>8, <2>1, KeysFinite, FS_Subset DEF GroupRead, Between
<1>10. SumFunction([j \in taken |-> listed[j].value.values[1]]) \in Nat
  <2> DEFINE f == [j \in taken |-> listed[j].value.values[1]]
  <2>1. \A j \in taken : listed[j].value.values[1] \in Nat
    <3>1. now \in Nat /\ \A j \in DOMAIN listed : RecordAt(listed[j], j, type, now)
      BY DEF ServerInv, ClockInv, SumsInv, ListedInv
    <3>2. taken \subseteq DOMAIN listed
      BY <1>3 DEF ServerInv, SummaryInv
    <3> QED BY <1>3, <3>1, <3>2, RecordAdds
  <2>2. DOMAIN f = taken /\ f \in [DOMAIN f -> Nat]
    BY <2>1
  <2> HIDE DEF f, taken
  <2> QED BY <1>9, <2>2, SumIsNat DEF f
<1>11. now \in Nat /\ Cardinality(taken) \in Nat
  BY <1>9, FS_CardinalityType DEF ServerInv, ClockInv
<1> DEFINE before == SumFunction([j \in taken |-> listed[j].value.values[1]])
           most == Most(type, now)
<1>12. v.values[1] \in before..(most * Cardinality(taken))
  <2>1. most \in Nat /\ most * Cardinality(taken) \in Nat
    BY <1>11, OneMore DEF Most
  <2> HIDE DEF before, most, taken, read
  <2> QED BY <1>7, <1>9, <1>10, <2>1 DEF before, most
<1> QED BY <1>5, <1>6, <1>12 DEF Most

(***************************************************************************)
(* Whatever the two threads do, a summary has read of a group what its     *)
(* records add up to, and published a sum once of each group that it is    *)
(* through with.                                                           *)
(***************************************************************************)
THEOREM SumsInvariant == ServerSpec => [](ServerInv /\ SumsInv)
<1>1. ServerInit => ServerInv /\ SumsInv
  <2> SUFFICES ASSUME ServerInit PROVE SumsInv
    BY InitInv
  <2>1. DOMAIN listed = {} /\ recs = <<>> /\ published = {} /\ access["collectd"].at # "read"
    BY ThreadsAre DEF ServerInit
  <2> QED BY <2>1 DEF SumsInv, OrderInv, RestInv, ListedInv, ReadInv, PublishedInv, UniqueInv
<1>2. ServerInv /\ SumsInv /\ [ServerNext]_serverVars => (ServerInv /\ SumsInv)'
  BY StepKeeps, SumsStep
<1> QED BY <1>1, <1>2, PTL DEF ServerSpec

(***************************************************************************)
(* IdentitiesUnique: no two values of a summary reach collectd as one.     *)
(***************************************************************************)
THEOREM IdentitiesUniqueHolds == ServerSpec => []IdentitiesUnique
BY SumsInvariant, SumsAreUnique, PTL

(***************************************************************************)
(* SumsBetween: though the listener stores and evicts between the lookups, *)
(* a sum has every record that was listed, and once.                       *)
(***************************************************************************)
THEOREM SumsBetweenHolds == ServerSpec => SumsBetween
<1>1. ServerInv /\ SumsInv /\ [ServerNext]_serverVars =>
        [\A v \in Added :
           LET before == SumFunction([k \in Grouped(v) |-> listed[k].value.values[1]])
               most == IF v.type = "sqlalchemy_totals" THEN now ELSE 1
           IN  v.values[1] \in before..(most * Cardinality(Grouped(v)))]_serverVars
  BY BetweenStep
<1> QED BY <1>1, SumsInvariant, PTL DEF ServerSpec, SumsBetween
=============================================================================
