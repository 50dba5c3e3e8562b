--------------------------------- MODULE Server ---------------------------------
(***************************************************************************)
(* collectd's server plugin, statement by statement: the listener's thread *)
(* stores messages (Receiver._set_stats) and collectd's thread reads a     *)
(* summary (Receiver.summarize), both evicting what is stale from the same *)
(* dictionaries (TimeBucket._get_bucket) with no lock between them.        *)
(*                                                                         *)
(* Half a second passes when both threads are done with what there was to  *)
(* do in it.  A client sends when more than the interval has passed since  *)
(* its last message, which it looks for five times a second (worker.py 46- *)
(* 61), or falls silent.  The clocks are one here: Receiver has several,   *)
(* and delays.  The totals of a client are the half seconds it has run for.*)
(***************************************************************************)
EXTENDS Message, TimeBucket, FiniteSets, Functions

CONSTANTS
  Client,       \* in the order of sorted(): a sequence of <<host, program, token>>
  Steady,       \* those of them that are never silent
  Sent,         \* the names of the types that are sent
  Interval,     \* the interval of the messages, in seconds
  MinGap, MaxGap, \* half seconds between two messages of a client that is not silent
  Start,        \* the half second before the first message
  Garbled       \* other datagrams that arrive

ASSUME ServerAssumption ==
  /\ Sent \subseteq {"sqlalchemy_pool", "sqlalchemy_totals"}
  /\ {Interval, MaxGap} \subseteq Nat \ {0} /\ {MinGap, Start} \subseteq Nat
  /\ \A datagram \in Garbled : Skipped(datagram, internal_types) \/ Incomplete(datagram, internal_types)

\* Clients have names, which they can encode, and no program is named host.
ASSUME NameAssumption ==
  /\ Client \in Seq(STRING \X STRING \X STRING)
  /\ None \notin Int /\ None \notin STRING
  /\ NonAscii \cap UNION {{Client[i][1], Client[i][2], Client[i][3]} : i \in DOMAIN Client} = {}
  /\ \A type \in internal_types :
       {"sqlalchemy", "host", type.name, type.kind} \cup Range(type.names) \subseteq STRING \ NonAscii
  /\ \A i \in DOMAIN Client : Client[i][2] # "host"

\* In their order the programs of a host, and the processes of a program, are side by side.
ASSUME OrderAssumption ==
  \A i, j, k \in DOMAIN Client : i < j /\ j < k /\ Client[i][1] = Client[k][1] =>
    /\ Client[j][1] = Client[i][1]
    /\ Client[i][2] = Client[k][2] => Client[j][2] = Client[i][2]

VARIABLES
  now,
  lastSent,     \* when each client sent last; 0 before it did
  streak,       \* history: messages of each in a row that were not dropped, up to 2
  pending,      \* the datagrams that arrived and are not received yet
  buckets,      \* Receiver.buckets
  access,       \* the call of _get_bucket each thread is in
  message,      \* what the listener is storing, in a sequence of at most one
  get,          \* the get_data() of summarize() that collectd's thread is at; 0: none
  keys,         \* the keys it has listed and not looked up yet: they are taken in order
  recs,         \* the records it looked up of a group
  listed,       \* history: what the bucket held as it listed the keys
  published     \* the sums of the summary so far

summaryVars == <<get, keys, recs, listed, published>>
serverVars == <<now, lastSent, streak, pending, buckets, access, message, summaryVars>>

Keys == {Client[i] : i \in DOMAIN Client}
Types == {"sqlalchemy_pool", "sqlalchemy_totals", "sqlalchemy_process"}
Threads == {"listener", "collectd"}

NoAccess == [at |-> "idle"]

ServerInit ==
  /\ now = Start
  /\ lastSent = [k \in Keys |-> 0]
  /\ streak = [k \in Keys |-> 0]
  /\ pending = {}
  /\ buckets = [t \in Types |-> NewBucket]
  /\ access = [t \in Threads |-> NoAccess]
  /\ message = <<>>
  /\ get = 0 /\ keys = {} /\ recs = <<>> /\ published = {}
  /\ listed = <<>>

-----------------------------------------------------------------------------
\* What a client sends: Sender.send().
Sending(k, type) ==
  Values([type |-> type, host |-> k[1], plugin |-> "sqlalchemy", plugin_instance |-> k[2],
          type_instance |-> k[3], time |-> now', interval |-> 2 * Interval,
          values |-> IF type = "sqlalchemy_pool" THEN <<1, 1, 0, 0, 1>> ELSE <<now', 0, 0, 0>>])

Tick ==
  /\ pending = {} /\ \A t \in Threads : access[t] = NoAccess
  /\ message = <<>> /\ get = 0
  /\ now' = now + 1
  /\ \E senders \in SUBSET {k \in Keys : lastSent[k] = 0 \/ now' - lastSent[k] >= MinGap} :
       LET silent == {k \in Keys \ senders : now' - lastSent[k] >= MaxGap}
       IN  /\ silent \cap Steady = {}
           /\ lastSent' = [k \in Keys |-> IF k \in senders THEN now' ELSE lastSent[k]]
           /\ streak' = [k \in Keys |-> IF k \in silent THEN 0
                                        ELSE IF k \in senders /\ streak[k] < 2 THEN streak[k] + 1
                                        ELSE streak[k]]
           /\ pending' = UNION {{Pack(Sending(k, type), internal_types) : type \in Sent} : k \in senders}
  /\ UNCHANGED <<buckets, access, message, summaryVars>>

-----------------------------------------------------------------------------
\* A thread calls get_data(); it will have keys to do, and one to delete.
Call(type, timestamp, interval) ==
  [at |-> "enter", type |-> type, timestamp |-> timestamp, interval |-> interval, todo |-> {}, key |-> None]

\* Mutated: the processes of a program share a record.
KeyOf_Program(v) == <<v.host, v.plugin_instance, "">>

KeyOf(v) == <<v.host, v.plugin_instance, v.type_instance>>

\* Mutated: a record is kept for the interval it was sent with.
Lasting_OneInterval(v, factor) == Seconds(v.interval)

\* The interval a message's record is stored with: some of those it was sent with.
Lasting(v, factor) == Seconds(v.interval) * factor

\* An exception: the listener logs it and drops the message, a summary ends.
Fail(t) ==
  /\ access' = [access EXCEPT ![t] = NoAccess]
  /\ IF t = "listener"
       THEN /\ message' = <<>>
            /\ streak' = [streak EXCEPT ![KeyOf(Head(message))] = 0]
            /\ UNCHANGED summaryVars
       ELSE /\ get' = 0 /\ keys' = {} /\ recs' = <<>> /\ listed' = <<>> /\ published' = {}
            /\ UNCHANGED <<message, streak>>

Goes(t, a) == access' = [access EXCEPT ![t] = a] /\ UNCHANGED <<message, streak, summaryVars>>

\* The check of the timestamp, and list(self.bucket).
Enter(t) ==
  LET a == access[t]
      tb == buckets[a.type]
  IN  /\ a.at = "enter"
      /\ buckets' = [buckets EXCEPT ![a.type] = RefusedAccess(@, a.interval)]
      /\ IF Refused(tb, a.timestamp, a.interval)
           THEN Fail(t)
           ELSE Goes(t, [a EXCEPT !.at = "scan", !.todo = DOMAIN tb.bucket])
      /\ UNCHANGED <<now, lastSent, pending>>

\* One round of the loop: the record is looked up, and deleted in another step.
Scan(t) ==
  LET a == access[t]
      bucket == buckets[a.type].bucket
  IN  /\ a.at = "scan"
      /\ \E k \in a.todo :
           IF k \notin DOMAIN bucket THEN Fail(t)
           ELSE IF Stale(bucket[k], a.timestamp) THEN Goes(t, [a EXCEPT !.at = "delete", !.key = k])
           ELSE Goes(t, [a EXCEPT !.todo = @ \ {k}])
      /\ UNCHANGED <<now, lastSent, pending, buckets>>

Delete(t) ==
  LET a == access[t]
      bucket == buckets[a.type].bucket
  IN  /\ a.at = "delete"
      /\ IF a.key \in DOMAIN bucket
           THEN /\ buckets' = [buckets EXCEPT ![a.type].bucket = Restrict(bucket, DOMAIN bucket \ {a.key})]
                /\ Goes(t, [a EXCEPT !.at = "scan", !.todo = @ \ {a.key}, !.key = None])
           ELSE Fail(t) /\ UNCHANGED buckets
      /\ UNCHANGED <<now, lastSent, pending>>

Leave(t) ==
  LET a == access[t]
  IN  /\ a.at = "scan" /\ a.todo = {}
      /\ buckets' = [buckets EXCEPT ![a.type].last_timestamp = a.timestamp]
      /\ Goes(t, [a EXCEPT !.at = "done"])
      /\ UNCHANGED <<now, lastSent, pending>>

-----------------------------------------------------------------------------
\* receive(): a datagram that does not unpack is skipped, or raises, and is gone.
Receive ==
  /\ access["listener"] = NoAccess
  /\ \E datagram \in pending \cup Garbled :
       /\ pending' = pending \ {datagram}
       /\ IF Skipped(datagram, internal_types) \/ Incomplete(datagram, internal_types)
            THEN UNCHANGED <<message, access>>
            ELSE LET v == Unpack(datagram)
                 IN  /\ message' = <<v>>
                     /\ access' = [access EXCEPT !["listener"] = Call(v.type, v.time, Lasting(v, 2))]
  /\ UNCHANGED <<now, lastSent, streak, buckets, summaryVars>>

\* Mutated: the values of the message are kept.
Counted_Values(v) == Build(v, [type |-> "sqlalchemy_process"])

\* The process record made of a message.
Counted(v) == Build(v, [type |-> "sqlalchemy_process", values |-> <<1>>])

\* records[...] = values, in the bucket of the message and then in that of the processes.
SetRecord ==
  LET a == access["listener"]
      v == Head(message)
      first == a.type = v.type
  IN  /\ a.at = "done"
      /\ buckets' = [buckets EXCEPT ![a.type] =
                       SetItem(@, a.timestamp, a.interval, KeyOf(v), IF first THEN v ELSE Counted(v))]
      /\ IF first /\ v.type_instance # ""
           THEN /\ access' = [access EXCEPT !["listener"] = Call(Counted(v).type, v.time, Lasting(v, 5))]
                /\ UNCHANGED message
           ELSE /\ access' = [access EXCEPT !["listener"] = NoAccess]
                /\ message' = <<>>
      /\ UNCHANGED <<now, lastSent, streak, pending, summaryVars>>

-----------------------------------------------------------------------------
\* The get_data() calls of summarize(), with what each groups by.
Gets ==
  LET types == <<"sqlalchemy_pool", "sqlalchemy_totals", "sqlalchemy_process">>
  IN  [i \in 1..6 |-> [type |-> types[(i + 1) \div 2], by |-> IF i % 2 = 1 THEN "progname" ELSE "hostname"]]

\* On to a get_data() call, or past the last.
Next(i) ==
  /\ get' = i
  /\ keys' = {} /\ recs' = <<>> /\ listed' = <<>>
  /\ access' = [access EXCEPT !["collectd"] = IF i \in DOMAIN Gets THEN Call(Gets[i].type, now, NoInterval) ELSE NoAccess]

Read ==
  /\ get = 0
  /\ Next(1)
  /\ UNCHANGED <<now, lastSent, streak, pending, buckets, message, published>>

\* The keys are listed, to be taken in order: sorted(records).
ListKeys ==
  LET bucket == buckets[Gets[get].type].bucket
  IN  /\ access["collectd"].at = "done"
      /\ IF DOMAIN bucket = {}
           THEN Next(get + 1)
           ELSE /\ access' = [access EXCEPT !["collectd"] = [at |-> "read"]]
                /\ keys' = DOMAIN bucket
                /\ listed' = bucket
                /\ UNCHANGED <<get, recs>>
      /\ UNCHANGED <<now, lastSent, streak, pending, buckets, message, published>>

\* The first of some keys in the order of sorted().
First(ks) == CHOOSE k \in ks : \E i \in DOMAIN Client : k = Client[i] /\ \A j \in 1..i - 1 : Client[j] \notin ks

GroupOf(k, by) == IF by = "progname" THEN <<k[1], k[2]>> ELSE <<k[1]>>

\* Mutated: what is summed up for a host keeps the program's name.
Summed_NoHost(values, by) ==
  Build(Sum(values), [time |-> now, interval |-> values[1].interval])

\* The values of a group, added up.
Summed(values, by) ==
  LET sum == Build(Sum(values), [time |-> now, interval |-> values[1].interval])
  IN  IF by = "progname" THEN sum ELSE Build(sum, [plugin_instance |-> "host"])

\* records[key]; with the last of a group the group is added up and handed to collectd.
LookUp ==
  LET bucket == buckets[Gets[get].type].bucket
      by == Gets[get].by
      k == First(keys)
      rest == keys \ {k}
      last == rest = {} \/ GroupOf(First(rest), by) # GroupOf(k, by)
      read == Append(recs, bucket[k].value)
  IN  /\ access["collectd"].at = "read"
      /\ IF k \notin DOMAIN bucket THEN Fail("collectd")
         ELSE /\ published' = IF last THEN published \cup {Summed(read, by)} ELSE published
              /\ IF rest = {}
                   THEN Next(get + 1)
                   ELSE /\ keys' = rest
                        /\ recs' = IF last THEN <<>> ELSE read
                        /\ UNCHANGED <<get, listed, access>>
              /\ UNCHANGED <<message, streak>>
      /\ UNCHANGED <<now, lastSent, pending, buckets>>

EndSummary ==
  /\ get > Len(Gets)
  /\ get' = 0 /\ published' = {}
  /\ UNCHANGED <<now, lastSent, streak, pending, buckets, access, message, keys, recs, listed>>

ServerNext ==
  \/ Tick
  \/ \E t \in Threads : Enter(t) \/ Scan(t) \/ Delete(t) \/ Leave(t)
  \/ Receive
  \/ SetRecord
  \/ Read
  \/ ListKeys
  \/ LookUp
  \/ EndSummary

ServerSpec == ServerInit /\ [][ServerNext]_serverVars

-----------------------------------------------------------------------------
ServerTypeOK ==
  /\ now \in Nat
  /\ streak \in [Keys -> 0..2] /\ \A k \in Keys : lastSent[k] \in {0} \cup Start..now
  /\ \A t \in Types : \A k \in DOMAIN buckets[t].bucket :
       LET record == buckets[t].bucket[k]
       IN  k \in Keys /\ record.value.type = t /\ record.timestamp \in Start..now
  /\ \A t \in Threads : access[t].at \in {"idle", "enter", "scan", "delete", "done", "read"}
  /\ message # <<>> <=> access["listener"] # NoAccess
  /\ get \in 0..Len(Gets) + 1
  /\ access["collectd"] # NoAccess => get \in DOMAIN Gets
  /\ keys \subseteq DOMAIN listed

\* A record outlives the time to the next message, with what the message's time lost to
\* whole seconds: for the worker's messages, of the interval 2 and at most 2.5 seconds
\* apart, 3 seconds of 4.
GapInWindow == MaxGap + 1 <= 2 * Accept(2 * Interval)

(***************************************************************************)
(* A process that sends its messages keeps its record, whatever the two    *)
(* threads do to the records of others and to an old one of its own, at    *)
(* any half second: no lookup of it raises KeyError, in either thread.     *)
(* The last takes GapInWindow.  A message that is dropped, because another *)
(* process has gone (stream.py 103, 105), may cost the process its place   *)
(* in the sums until it has sent two more, and a process that comes back   *)
(* after a silence may lose its first message.                             *)
(***************************************************************************)
RegularKept ==
  [][\A t \in Types, k \in Keys :
       streak[k] >= 2 /\ k \in DOMAIN buckets[t].bucket => k \in DOMAIN buckets'[t].bucket]_serverVars

\* What the step adds to the summary, and the keys it was added up from.
Added == published' \ published

Grouped(v) ==
  {k \in DOMAIN listed : GroupOf(k, Gets[get].by) =
     IF Gets[get].by = "progname" THEN <<v.host, v.plugin_instance>> ELSE <<v.host>>}

(***************************************************************************)
(* A sum takes in every record that was there when its keys were listed,   *)
(* each with a value it had then or was sent since, though the listener    *)
(* stores and evicts between the lookups (receiver.py 103-127); processes  *)
(* are counted exactly.                                                    *)
(***************************************************************************)
SumsBetween ==
  [][\A v \in Added :
       LET before == SumFunction([k \in Grouped(v) |-> listed[k].value.values[1]])
           most == IF v.type = "sqlalchemy_totals" THEN now ELSE 1
       IN  v.values[1] \in before..(most * Cardinality(Grouped(v)))]_serverVars

\* What collectd is handed of a summary.
Dispatched(v) == {ToCollectd(Break(v)[i]) : i \in DOMAIN Break(v)}

Identity == {"host", "plugin", "plugin_instance", "type", "type_instance"}

(***************************************************************************)
(* What collectd is handed in a summary has an identity each, whole and    *)
(* its own: the sums of a program and those of its host, whose differing   *)
(* tokens and programs the sum has made None, are told apart (protocol.py  *)
(* 169-197, receiver.py 111, 124; README.rst: 'a fixed "plugin instance"   *)
(* called "host"').  A program of the name host would not be.              *)
(***************************************************************************)
IdentitiesUnique ==
  /\ \A v \in published : \A d \in Dispatched(v) : Identity \subseteq DOMAIN d
  /\ LET handed == {<<v, Dispatched(v)>> : v \in published}
     IN  \A one, other \in handed : one # other =>
           \A d \in one[2], e \in other[2] : \E part \in Identity : d[part] # e[part]
=============================================================================
