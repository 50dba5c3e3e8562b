------------------------------- MODULE StatProofs -------------------------------
(***************************************************************************)
(* Proofs about Stat.                                                      *)
(***************************************************************************)
EXTENDS Stat, MessageProofs

\* What arrives of a value that is reported: everything, in whole seconds.
LEMMA ReportedIs ==
  ASSUME NEW h \in Host, NEW metric \in UNION Metrics, NEW count
  PROVE  LET v == Unpack(Pack(Reported(h, metric, count), external_types))
         IN  /\ v.host = h /\ v.plugin_instance = metric[1] /\ v.type_instance = metric[2]
             /\ v.time = Whole(now) /\ v.interval = Whole(Interval)
             /\ v.values[1] = IF metric[2] \in {"checkouts", "connects"} THEN total'[h] ELSE count
<1> DEFINE u == Reported(h, metric, count)
           v == Unpack(Pack(u, external_types))
<1>1. /\ u.type \in {"count", "derive"} /\ u.type_instance = metric[2] /\ u.plugin = "sqlalchemy" /\ u.host = h
      /\ u.plugin_instance = metric[1] /\ u.time = now /\ u.interval = Interval
      /\ u.values = <<IF metric[2] \in {"checkouts", "connects"} THEN total'[h] ELSE count>>
  BY DEF Reported
<1>2. /\ h \in STRING /\ metric[1] \in STRING /\ metric[2] \in STRING
      /\ h \notin NonAscii /\ metric[1] \notin NonAscii /\ metric[2] \notin NonAscii
  BY NameAssumption
<1>3. TypeNames(external_types) = {"count", "derive"}
  BY DEF TypeNames, external_types, Type
<1> HIDE DEF u
<1>4. Packable(u, external_types)
  <2>1. ASSUME NEW code \in Strings PROVE u[SlotOf[code]] \notin NonAscii
    BY <1>1, <1>2, NameAssumption DEF Strings, SlotOf
  <2> QED BY <1>1, <1>3, <2>1 DEF Packable
<1>5. Whole(u.interval) # None
  <2>1. Interval \in Nat
    BY StatAssumption
  <2>2. Whole(Interval) \in Int
    BY <2>1 DEF Whole
  <2> QED BY <1>1, <2>2, NameAssumption
<1>6. \A code \in DOMAIN SlotOf : v[SlotOf[code]] = Payload(code, u[SlotOf[code]])
  BY <1>4, <1>5, UnpackPacked
<1> HIDE DEF v
<1>7. /\ v.host = Payload("HOST", u.host) /\ v.plugin_instance = Payload("PLUGIN_INSTANCE", u.plugin_instance)
      /\ v.type_instance = Payload("TYPE_INSTANCE", u.type_instance) /\ v.time = Payload("TIME", u.time)
      /\ v.interval = Payload("INTERVAL", u.interval) /\ v.values = Payload("VALUES", u.values)
  BY <1>6 DEF SlotOf
<1>8. /\ v.host = h /\ v.plugin_instance = metric[1] /\ v.type_instance = metric[2]
      /\ v.time = Whole(now) /\ v.interval = Whole(Interval) /\ v.values = u.values
  BY <1>1, <1>2, <1>7, NameAssumption DEF Payload, Strings, Longs
<1> QED BY <1>1, <1>8 DEF u, v

-----------------------------------------------------------------------------
(* What an updater makes of a row. *)

RowFields ==
  {"last_time", "interval", "count", "max", "total_connects", "interval_connects", "total_checkouts",
   "interval_checkouts", "last_total_checkout_time", "checkouts_per_second"}

\* A rate that was computed is over a span.
RateOK(rate) == rate # None => rate[2] > 0

RowOK(hp) ==
  /\ DOMAIN hp = RowFields
  /\ hp.last_time \in Nat /\ hp.interval \in {0, Whole(Interval)}
  /\ hp.count \in [Gauges -> Counts \cup {0, None}]
  /\ hp.max \in [Gauges -> Counts \cup {0}]
  /\ \A g \in Gauges : hp.count[g] # None => hp.count[g] <= hp.max[g]
  /\ hp.last_total_checkout_time # None => hp.last_total_checkout_time \in Nat /\ hp.total_checkouts \in Nat
  /\ RateOK(hp.checkouts_per_second)

\* What a datagram made at a time says.
ValueOK(v, sent) ==
  /\ v.host \in Host /\ <<v.plugin_instance, v.type_instance>> \in metrics
  /\ v.time = Whole(sent) /\ v.interval = Whole(Interval)
  /\ v.type_instance \in Gauges => v.values[1] \in Counts
  /\ v.type_instance = "checkouts" => v.values[1] \in Nat

Keeps(hp, new, fields) == DOMAIN new = RowFields /\ \A f \in fields : new[f] = hp[f]

LEMMA NewRowOK == RowOK(NewHostProg) /\ NewHostProg.last_total_checkout_time = None
BY NameAssumption DEF RowOK, NewHostProg, RowFields, RateOK

LEMMA GaugeIs ==
  ASSUME NEW hp, DOMAIN hp = RowFields, NEW v
  PROVE  LET new == UpdateGauge(hp, v)
             g == v.type_instance
         IN  /\ Keeps(hp, new, RowFields \ {"count", "max"})
             /\ new.count = [hp.count EXCEPT ![g] = v.values[1]]
             /\ new.max = [hp.max EXCEPT ![g] = Larger(v.values[1], @)]
BY DEF UpdateGauge, Keeps, RowFields

LEMMA ConnectsIs ==
  ASSUME NEW hp, DOMAIN hp = RowFields, NEW v
  PROVE  Keeps(hp, UpdateTotalConnects(hp, v), RowFields \ {"total_connects", "interval_connects"})
BY DEF UpdateTotalConnects, Keeps, RowFields

LEMMA CheckoutsIs ==
  ASSUME NEW hp, DOMAIN hp = RowFields, NEW v
  PROVE  LET new == UpdateTotalCheckouts(hp, v)
             again == hp.last_total_checkout_time # None
         IN  /\ Keeps(hp, new, {"last_time", "interval", "count", "max"})
             /\ new.checkouts_per_second = IF again /\ ~Fails(hp, v) THEN Rate(hp, v) ELSE hp.checkouts_per_second
             /\ new.total_checkouts = IF Fails(hp, v) THEN hp.total_checkouts ELSE v.values[1]
             /\ new.last_total_checkout_time = IF Fails(hp, v) THEN hp.last_total_checkout_time ELSE v.time
BY DEF UpdateTotalCheckouts, Keeps, RowFields

\* The last total a row has had, with its time.
Point(hp) == <<hp.last_total_checkout_time, hp.total_checkouts>>

LEMMA GaugeOK ==
  ASSUME NEW hp, RowOK(hp), NEW v, v.type_instance \in Gauges, v.values[1] \in Counts
  PROVE  /\ RowOK(UpdateGauge(hp, v))
         /\ UpdateGauge(hp, v).last_total_checkout_time = hp.last_total_checkout_time
         /\ Point(UpdateGauge(hp, v)) = Point(hp)
<1> DEFINE new == UpdateGauge(hp, v)
           g == v.type_instance
           value == v.values[1]
<1>1. /\ Keeps(hp, new, RowFields \ {"count", "max"})
      /\ new.count = [hp.count EXCEPT ![g] = value] /\ new.max = [hp.max EXCEPT ![g] = Larger(value, @)]
  BY GaugeIs DEF RowOK
<1>2. /\ hp.count \in [Gauges -> Counts \cup {0, None}] /\ hp.max \in [Gauges -> Counts \cup {0}]
      /\ \A x \in Gauges : hp.count[x] # None => hp.count[x] <= hp.max[x]
      /\ g \in Gauges /\ value \in Counts /\ Counts \subseteq Nat
  BY StatAssumption DEF RowOK
<1> HIDE DEF new, g, value
<1>3. Larger(value, hp.max[g]) \in Counts \cup {0} /\ value <= Larger(value, hp.max[g])
  <2>1. hp.max[g] \in Counts \cup {0} /\ hp.max[g] \in Nat /\ value \in Nat
    <3>1. hp.max[g] \in Counts \cup {0} /\ value \in Counts /\ Counts \subseteq Nat
      BY <1>2
    <3>2. \A x \in Counts \cup {0} : x \in Nat
      BY StatAssumption
    <3> QED BY <3>1, <3>2
  <2>2. Larger(value, hp.max[g]) \in {value, hp.max[g]}
    BY DEF Larger
  <2>3. value <= Larger(value, hp.max[g])
    BY <2>1 DEF Larger
  <2> QED BY <1>2, <2>1, <2>2, <2>3
<1>4. new.count \in [Gauges -> Counts \cup {0, None}] /\ new.max \in [Gauges -> Counts \cup {0}]
  BY <1>1, <1>2, <1>3
<1>5. \A x \in Gauges : new.count[x] # None => new.count[x] <= new.max[x]
  BY <1>1, <1>2, <1>3
<1>6. /\ DOMAIN new = RowFields /\ new.last_time = hp.last_time /\ new.interval = hp.interval
      /\ new.last_total_checkout_time = hp.last_total_checkout_time
      /\ new.total_checkouts = hp.total_checkouts /\ new.checkouts_per_second = hp.checkouts_per_second
  BY <1>1 DEF Keeps, RowFields
<1>7. RowOK(new)
  BY <1>4, <1>5, <1>6 DEF RowOK
<1> QED BY <1>6, <1>7 DEF Point, new

LEMMA ConnectsOK ==
  ASSUME NEW hp, RowOK(hp), NEW v
  PROVE  /\ RowOK(UpdateTotalConnects(hp, v))
         /\ UpdateTotalConnects(hp, v).last_total_checkout_time = hp.last_total_checkout_time
         /\ Point(UpdateTotalConnects(hp, v)) = Point(hp)
<1> DEFINE new == UpdateTotalConnects(hp, v)
<1>1. Keeps(hp, new, RowFields \ {"total_connects", "interval_connects"})
  BY ConnectsIs DEF RowOK
<1> HIDE DEF new
<1>2. /\ DOMAIN new = RowFields /\ new.last_time = hp.last_time /\ new.interval = hp.interval
      /\ new.count = hp.count /\ new.max = hp.max
      /\ new.last_total_checkout_time = hp.last_total_checkout_time
      /\ new.total_checkouts = hp.total_checkouts /\ new.checkouts_per_second = hp.checkouts_per_second
  BY <1>1 DEF Keeps, RowFields
<1> QED BY <1>2 DEF RowOK, Point, new

\* A rate of two totals is over a span: one of no span would be a division by zero, which
\* fails.
LEMMA CheckoutsOK ==
  ASSUME NEW hp, RowOK(hp), NEW v, v.type_instance = "checkouts",
         v.time \in Nat, v.interval \in Nat, v.values[1] \in Nat
  PROVE  /\ RowOK(UpdateTotalCheckouts(hp, v))
         /\ \/ /\ UpdateTotalCheckouts(hp, v).last_total_checkout_time = hp.last_total_checkout_time
               /\ Point(UpdateTotalCheckouts(hp, v)) = Point(hp)
            \/ Point(UpdateTotalCheckouts(hp, v)) = <<v.time, v.values[1]>>
<1> DEFINE new == UpdateTotalCheckouts(hp, v)
           again == hp.last_total_checkout_time # None
           span == v.time - hp.last_total_checkout_time
           value == v.values[1]
<1>1. /\ Keeps(hp, new, {"last_time", "interval", "count", "max"})
      /\ new.checkouts_per_second = IF again /\ ~Fails(hp, v) THEN Rate(hp, v) ELSE hp.checkouts_per_second
      /\ new.total_checkouts = IF Fails(hp, v) THEN hp.total_checkouts ELSE value
      /\ new.last_total_checkout_time = IF Fails(hp, v) THEN hp.last_total_checkout_time ELSE v.time
  BY CheckoutsIs DEF RowOK
<1>2. RateOK(hp.checkouts_per_second) /\ value \in Nat
      /\ (again => hp.last_total_checkout_time \in Nat /\ hp.total_checkouts \in Nat)
  BY DEF RowOK
<1>3. ASSUME again, ~Fails(hp, v) PROVE RateOK(Rate(hp, v))
  <2>1. CASE span >= v.interval /\ hp.total_checkouts > 0
    <3>1. Rate(hp, v) = <<value - hp.total_checkouts, span>>
      BY <2>1 DEF Rate
    <3>2. ~(v.interval = 0 /\ v.time = hp.last_total_checkout_time)
      BY <1>3, <2>1 DEF Fails
    <3>3. span > 0
      BY <1>2, <1>3, <2>1, <3>2
    <3> QED BY <3>1, <3>3 DEF RateOK
  <2>2. CASE ~(span >= v.interval /\ hp.total_checkouts > 0)
    <3>1. Rate(hp, v) = hp.checkouts_per_second
      BY <2>2 DEF Rate
    <3> QED BY <1>2, <3>1
  <2> QED BY <2>1, <2>2
<1>4. RateOK(new.checkouts_per_second)
  BY <1>1, <1>2, <1>3
<1> HIDE DEF new
<1>5. /\ DOMAIN new = RowFields /\ new.last_time = hp.last_time /\ new.interval = hp.interval
      /\ new.count = hp.count /\ new.max = hp.max
  BY <1>1 DEF Keeps
<1>6. new.last_total_checkout_time # None =>
        new.last_total_checkout_time \in Nat /\ new.total_checkouts \in Nat
  BY <1>1, <1>2 DEF Fails
<1>7. RowOK(new)
  BY <1>4, <1>5, <1>6 DEF RowOK
<1>8. \/ new.last_total_checkout_time = hp.last_total_checkout_time /\ Point(new) = Point(hp)
      \/ Point(new) = <<v.time, value>>
  BY <1>1 DEF Point
<1> QED BY <1>7, <1>8 DEF new

\* A row's time is that of a datagram it was updated by.
LEMMA TouchOK ==
  ASSUME NEW hp, RowOK(hp), NEW v, NEW sent \in Nat, ValueOK(v, sent)
  PROVE  /\ RowOK(Touch(hp, v))
         /\ Touch(hp, v).last_time \in {hp.last_time, v.time}
         /\ \/ /\ Touch(hp, v).last_total_checkout_time = hp.last_total_checkout_time
               /\ Point(Touch(hp, v)) = Point(hp)
            \/ v.type_instance = "checkouts" /\ Point(Touch(hp, v)) = <<v.time, v.values[1]>>
<1> DEFINE up == Updated(hp, v)
<1>0. v.time \in Nat /\ v.interval = Whole(Interval) /\ v.interval \in Nat
  <2>1. Interval \in Nat
    BY StatAssumption
  <2> QED BY <2>1 DEF ValueOK, Whole
<1>1. /\ RowOK(up)
      /\ \/ up.last_total_checkout_time = hp.last_total_checkout_time /\ Point(up) = Point(hp)
         \/ v.type_instance = "checkouts" /\ Point(up) = <<v.time, v.values[1]>>
  <2>1. CASE v.type_instance \in Gauges
    <3>1. up = UpdateGauge(hp, v)
      BY <2>1 DEF Updated, Gauges
    <3> QED BY <2>1, <3>1, GaugeOK DEF ValueOK
  <2>2. CASE v.type_instance = "connects"
    <3>1. up = UpdateTotalConnects(hp, v)
      BY <2>2 DEF Updated, Gauges
    <3> QED BY <3>1, ConnectsOK
  <2>3. CASE v.type_instance = "checkouts"
    <3>1. up = UpdateTotalCheckouts(hp, v)
      BY <2>3 DEF Updated, Gauges
    <3>2. v.values[1] \in Nat
      BY <2>3 DEF ValueOK
    <3> QED BY <1>0, <2>3, <3>1, <3>2, CheckoutsOK
  <2>4. CASE v.type_instance \notin Gauges \cup {"connects", "checkouts"}
    <3>1. up = hp
      BY <2>4 DEF Updated
    <3> QED BY <3>1
  <2> QED BY <2>1, <2>2, <2>3, <2>4
<1>2. up.last_time = hp.last_time
  <2>1. DOMAIN hp = RowFields
    BY DEF RowOK
  <2>2. /\ UpdateGauge(hp, v).last_time = hp.last_time
        /\ UpdateTotalConnects(hp, v).last_time = hp.last_time
        /\ UpdateTotalCheckouts(hp, v).last_time = hp.last_time
    BY <2>1 DEF UpdateGauge, UpdateTotalConnects, UpdateTotalCheckouts, RowFields
  <2>3. up \in {UpdateGauge(hp, v), UpdateTotalConnects(hp, v), UpdateTotalCheckouts(hp, v), hp}
    BY DEF Updated
  <2> HIDE DEF up
  <2> QED BY <2>2, <2>3
<1> HIDE DEF up
<1>3. CASE ~(v.type_instance \in Updates /\ ~Fails(hp, v))
  <2>1. Touch(hp, v) = up
    BY <1>3 DEF Touch, up
  <2> QED BY <1>1, <1>2, <2>1
<1>4. CASE v.type_instance \in Updates /\ ~Fails(hp, v)
  <2> DEFINE new == [up EXCEPT !.interval = v.interval, !.last_time = v.time]
  <2>1. Touch(hp, v) = new
    BY <1>4 DEF Touch, up
  <2>2. /\ DOMAIN new = DOMAIN up /\ new.interval = v.interval /\ new.last_time = v.time
        /\ new.count = up.count /\ new.max = up.max
        /\ new.last_total_checkout_time = up.last_total_checkout_time
        /\ new.total_checkouts = up.total_checkouts /\ new.checkouts_per_second = up.checkouts_per_second
    BY <1>1 DEF RowOK, RowFields
  <2> HIDE DEF new
  <2>3. RowOK(new) /\ Point(new) = Point(up)
    BY <1>0, <1>1, <2>2 DEF RowOK, Point
  <2> QED BY <1>1, <2>1, <2>2, <2>3
<1> QED BY <1>3, <1>4

-----------------------------------------------------------------------------
(* What is under way and what the table has of it. *)

SourceInv ==
  /\ now \in Nat /\ now >= Start /\ swept \in BOOLEAN /\ metrics \in Metrics
  /\ total \in [Host -> Nat] /\ fell \in [Host -> Nat]
  /\ lastSent \in [Host -> Nat] /\ \A h \in Host : lastSent[h] <= now
  /\ \A m \in network :
       /\ m.sent \in Nat /\ m.sent <= now /\ now - m.sent <= MaxDelay /\ m.fell \in Nat
       /\ ValueOK(Unpack(m.datagram), m.sent)

TableInv ==
  /\ DOMAIN hostprogs \subseteq Host \X {metric[1] : metric \in metrics}
  /\ DOMAIN hosts \subseteq Host
  /\ \A r \in DOMAIN hostprogs : RowOK(hostprogs[r])
  /\ \A r \in DOMAIN latest : latest[r].sent \in Nat
  /\ \A r \in DOMAIN hostprogs : r \in DOMAIN latest /\ hostprogs[r].last_time <= latest[r].sent

Counting(h) == {m \in network : Unpack(m.datagram).host = h /\ Unpack(m.datagram).type_instance = "checkouts"}

Counters(h) == {r \in DOMAIN hostprogs : r[1] = h /\ hostprogs[r].last_total_checkout_time # None}

\* The totals of a host's checkouts that are under way or in its rows, with their times.
Points(h) ==
  {<<Unpack(m.datagram).time, Unpack(m.datagram).values[1]>> : m \in Counting(h)}
    \cup {Point(hostprogs[r]) : r \in Counters(h)}

\* Has a total of a time not been followed by a smaller one, or is there a fall after it?
NoFall(point, value, fall) == point[2] <= value \/ fall > point[1]

\* Of two totals of a host the later one is not the smaller, but for a fall that its
\* datagram knows of; and none is of a time to come.
OrderInv ==
  \A h \in Host :
    /\ \A p \in Points(h) :
         p[1] \in Nat /\ p[2] \in Nat /\ p[1] <= lastSent[h] /\ NoFall(p, total[h], fell[h])
    /\ \A p \in Points(h), m \in Counting(h) :
         LET v == Unpack(m.datagram)
         IN  p[1] < v.time => NoFall(p, v.values[1], m.fell)

StatInv == SourceInv /\ TableInv /\ OrderInv

LEMMA WholeIs ==
  /\ \A x \in Nat : Whole(x) \in Nat /\ Whole(x) <= x /\ x - 1 <= Whole(x)
  /\ \A x, y \in Nat : x <= y => Whole(x) <= Whole(y)
BY DEF Whole

LEMMA StatInitInv == StatInit => StatInv
<1> SUFFICES ASSUME StatInit PROVE StatInv
  OBVIOUS
<1>1. SourceInv
  <2>1. now = Start /\ Start \in Nat /\ swept = FALSE /\ metrics \in Metrics /\ network = {}
    BY StatAssumption DEF StatInit
  <2>2. /\ total \in [Host -> Nat] /\ fell \in [Host -> Nat]
        /\ lastSent \in [Host -> Nat] /\ \A h \in Host : lastSent[h] <= now
    BY StatAssumption DEF StatInit
  <2>3. swept \in BOOLEAN
    BY <2>1
  <2>5. now >= Start /\ now \in Nat
    BY <2>1
  <2>4. \A m \in network : FALSE
    BY <2>1
  <2> QED BY <2>1, <2>2, <2>3, <2>4, <2>5 DEF SourceInv
<1>2. TableInv
  BY DEF StatInit, TableInv
<1>3. \A h : Points(h) = {}
  BY DEF StatInit, Points, Counting, Counters
<1> QED BY <1>1, <1>2, <1>3 DEF StatInv, OrderInv

\* A step after which there are no totals but some of those before keeps their order.
LEMMA FewerPoints ==
  ASSUME OrderInv, UNCHANGED sourceVars, network' \subseteq network,
         \A h \in Host : Points(h)' \subseteq Points(h)
  PROVE  OrderInv'
<1>1. \A h \in Host : Counting(h)' \subseteq Counting(h)
  BY DEF Counting
<1>2. UNCHANGED <<lastSent, total, fell>>
  BY DEF sourceVars
<1> SUFFICES ASSUME NEW h \in Host
             PROVE  /\ \A p \in Points(h)' :
                         /\ p[1] \in Nat /\ p[2] \in Nat /\ p[1] <= lastSent'[h]
                         /\ NoFall(p, total'[h], fell'[h])
                    /\ \A p \in Points(h)', m \in Counting(h)' :
                         p[1] < Unpack(m.datagram).time =>
                           NoFall(p, Unpack(m.datagram).values[1], m.fell)
  BY DEF OrderInv, NoFall
<1> QED BY <1>1, <1>2 DEF OrderInv

\* A report: what is new under way is what arrives of it, with the host's total of now.
Sends(h, sum, count, arriving) ==
  /\ total' = [total EXCEPT ![h] = sum]
  /\ fell' = [fell EXCEPT ![h] = IF sum < total[h] THEN now ELSE @]
  /\ lost' = [lost EXCEPT ![h] = @ \cup (metrics \ arriving)]
  /\ network \subseteq network'
  /\ \A metric \in arriving : \E m \in network' :
       /\ m.sent = now /\ Unpack(m.datagram).host = h
       /\ Unpack(m.datagram).plugin_instance = metric[1]
       /\ Unpack(m.datagram).type_instance = metric[2]
  /\ \A m \in network' : m \notin network =>
       LET v == Unpack(m.datagram)
       IN  /\ m.sent = now /\ m.fell = fell'[h]
           /\ v.host = h /\ v.time = Whole(now) /\ v.interval = Whole(Interval)
           /\ <<v.plugin_instance, v.type_instance>> \in metrics
           /\ v.values[1] = IF v.type_instance \in {"checkouts", "connects"} THEN total'[h] ELSE count

LEMMA ReportIs ==
  ASSUME StatInv, NEW h \in Host, Report(h)
  PROVE  /\ UNCHANGED <<metrics, now, swept, hostprogs, hosts, latest>>
         /\ lastSent' = [lastSent EXCEPT ![h] = now]
         /\ lastSent[h] < now
         /\ \E sum \in 0..MaxTotal, count \in Counts, arriving \in SUBSET metrics : Sends(h, sum, count, arriving)
<1>0. lastSent[h] < now
  <2>1. /\ now \in Nat /\ 0 < now /\ lastSent[h] \in Nat /\ MinGap \in Nat \ {0}
        /\ lastSent[h] = 0 \/ now - lastSent[h] >= MinGap
    BY StatAssumption DEF StatInv, SourceInv, Report
  <2> QED BY <2>1
<1>1. PICK sum \in 0..MaxTotal, count \in Counts, arriving \in Arriving :
        /\ total' = [total EXCEPT ![h] = sum]
        /\ fell' = [fell EXCEPT ![h] = IF sum < total[h] THEN now ELSE @]
        /\ network' = network \cup
             {[sent |-> now, fell |-> fell'[h], datagram |-> Pack(Reported(h, metric, count), external_types)] :
                metric \in arriving}
        /\ lost' = [lost EXCEPT ![h] = @ \cup (metrics \ arriving)]
  BY DEF Report
<1>2. UNCHANGED <<metrics, now, swept, hostprogs, hosts, latest>> /\ lastSent' = [lastSent EXCEPT ![h] = now]
  BY DEF Report, tableVars
<1>3. arriving \subseteq metrics /\ metrics \in Metrics
  BY DEF Arriving, StatInv, SourceInv
<1>4. \A metric \in arriving : metric \in UNION Metrics /\ metric = <<metric[1], metric[2]>> /\ metric \in metrics
  BY <1>3, NameAssumption
<1> DEFINE sending(metric) ==
             [sent |-> now, fell |-> fell'[h], datagram |-> Pack(Reported(h, metric, count), external_types)]
<1>5. ASSUME NEW metric \in arriving
      PROVE  LET v == Unpack(sending(metric).datagram)
             IN  /\ sending(metric).sent = now /\ sending(metric).fell = fell'[h]
                 /\ v.host = h /\ v.time = Whole(now) /\ v.interval = Whole(Interval)
                 /\ v.plugin_instance = metric[1] /\ v.type_instance = metric[2]
                 /\ <<v.plugin_instance, v.type_instance>> \in metrics
                 /\ v.values[1] = IF v.type_instance \in {"checkouts", "connects"} THEN total'[h] ELSE count
  <2>1. sending(metric).sent = now /\ sending(metric).fell = fell'[h] /\ sending(metric).datagram = Pack(Reported(h, metric, count), external_types)
    OBVIOUS
  <2>2. metric \in UNION Metrics /\ metric = <<metric[1], metric[2]>> /\ metric \in metrics
    BY <1>4
  <2> HIDE DEF sending
  <2> QED BY <2>1, <2>2, ReportedIs
<1>6. /\ \A m \in network' : m \notin network => \E metric \in arriving : m = sending(metric)
      /\ \A metric \in arriving : sending(metric) \in network'
      /\ network \subseteq network'
  BY <1>1
<1> HIDE DEF sending
<1>7. ASSUME NEW m \in network', m \notin network
      PROVE  LET v == Unpack(m.datagram)
             IN  /\ m.sent = now /\ m.fell = fell'[h]
                 /\ v.host = h /\ v.time = Whole(now) /\ v.interval = Whole(Interval)
                 /\ <<v.plugin_instance, v.type_instance>> \in metrics
                 /\ v.values[1] = IF v.type_instance \in {"checkouts", "connects"} THEN total'[h] ELSE count
  BY <1>5, <1>6, <1>7
<1>8. ASSUME NEW metric \in arriving
      PROVE  \E m \in network' :
               /\ m.sent = now /\ Unpack(m.datagram).host = h
               /\ Unpack(m.datagram).plugin_instance = metric[1]
               /\ Unpack(m.datagram).type_instance = metric[2]
  BY <1>5, <1>6
<1>9. arriving \in SUBSET metrics
  BY <1>3
<1>10. Sends(h, sum, count, arriving)
  BY <1>1, <1>6, <1>7, <1>8 DEF Sends
<1> QED BY <1>0, <1>2, <1>9, <1>10

LEMMA ReportKeeps ==
  ASSUME StatInv, NEW h \in Host, Report(h)
  PROVE  StatInv'
<1>1. PICK sum \in 0..MaxTotal, count \in Counts, arriving \in SUBSET metrics : Sends(h, sum, count, arriving)
  BY ReportIs
<1>2. /\ UNCHANGED <<metrics, now, swept, hostprogs, hosts, latest>>
      /\ lastSent' = [lastSent EXCEPT ![h] = now] /\ lastSent[h] < now
  BY ReportIs
<1>3. sum \in Nat /\ now \in Nat
  BY StatAssumption DEF StatInv, SourceInv
<1>4. /\ total \in [Host -> Nat] /\ total' \in [Host -> Nat] /\ total'[h] = sum
      /\ fell \in [Host -> Nat] /\ fell' \in [Host -> Nat]
      /\ fell'[h] = IF sum < total[h] THEN now ELSE fell[h]
      /\ lastSent \in [Host -> Nat] /\ lastSent' \in [Host -> Nat] /\ lastSent'[h] = now
      /\ \A k \in Host : k # h => total'[k] = total[k] /\ fell'[k] = fell[k] /\ lastSent'[k] = lastSent[k]
      /\ \A k \in Host : lastSent'[k] <= now
  BY <1>1, <1>2, <1>3 DEF StatInv, SourceInv, Sends
<1>5. now \in Nat /\ MaxDelay \in Nat
  BY StatAssumption DEF StatInv, SourceInv
<1>7. ASSUME NEW m \in network', m \notin network
      PROVE  LET v == Unpack(m.datagram)
             IN  /\ m.sent = now /\ m.fell = fell'[h]
                 /\ v.host = h /\ v.time = Whole(now) /\ v.interval = Whole(Interval)
                 /\ <<v.plugin_instance, v.type_instance>> \in metrics
                 /\ v.values[1] = IF v.type_instance \in {"checkouts", "connects"} THEN total'[h] ELSE count
  BY <1>1, <1>7 DEF Sends
<1>8. SourceInv'
  <2>1. ASSUME NEW m \in network'
        PROVE  /\ m.sent \in Nat /\ m.sent <= now /\ now - m.sent <= MaxDelay /\ m.fell \in Nat
               /\ ValueOK(Unpack(m.datagram), m.sent)'
    <3> DEFINE v == Unpack(m.datagram)
    <3>1. CASE m \in network
      <4>1. ValueOK(v, m.sent)
        BY <3>1 DEF StatInv, SourceInv
      <4>3. ValueOK(v, m.sent)'
        BY <1>2, <4>1 DEF ValueOK
      <4> QED BY <3>1, <4>3 DEF StatInv, SourceInv
    <3>2. CASE m \notin network
      <4>1. /\ m.sent = now /\ m.fell = fell'[h] /\ v.host = h /\ v.time = Whole(now) /\ v.interval = Whole(Interval)
            /\ <<v.plugin_instance, v.type_instance>> \in metrics
            /\ v.values[1] = IF v.type_instance \in {"checkouts", "connects"} THEN total'[h] ELSE count
        BY <1>7, <3>2
      <4>2. v.type_instance \in Gauges => v.values[1] \in Counts
        BY <4>1 DEF Gauges
      <4>3. v.type_instance = "checkouts" => v.values[1] \in Nat
        BY <1>4, <4>1
      <4>4. ValueOK(v, m.sent)'
        BY <1>2, <4>1, <4>2, <4>3 DEF ValueOK
      <4> QED BY <1>4, <1>5, <4>1, <4>4
    <3> QED BY <3>1, <3>2
  <2> QED BY <1>2, <1>4, <2>1 DEF StatInv, SourceInv
<1>9. TableInv'
  BY <1>2 DEF StatInv, TableInv
<1>10. ASSUME NEW k \in Host, NEW p \in Points(k)'
       PROVE  p \in Points(k) \/ (k = h /\ p = <<Whole(now), total'[h]>>)
  <2>1. Counters(k)' = Counters(k)
    BY <1>2 DEF Counters
  <2>2. CASE p \in {Point(hostprogs[r]) : r \in Counters(k)}
    BY <2>2 DEF Points
  <2>3. CASE p \in {<<Unpack(m.datagram).time, Unpack(m.datagram).values[1]>> : m \in Counting(k)'}
    <3>1. PICK m \in Counting(k)' : p = <<Unpack(m.datagram).time, Unpack(m.datagram).values[1]>>
      BY <2>3
    <3>2. m \in network' /\ Unpack(m.datagram).host = k /\ Unpack(m.datagram).type_instance = "checkouts"
      BY <3>1 DEF Counting
    <3>3. CASE m \in network
      BY <3>1, <3>2, <3>3 DEF Points, Counting
    <3>4. CASE m \notin network
      BY <1>7, <3>1, <3>2, <3>4
    <3> QED BY <3>3, <3>4
  <2> QED BY <1>2, <2>1, <2>2, <2>3 DEF Points
<1>11. ASSUME NEW k \in Host, NEW m \in Counting(k)', m \notin network
       PROVE  k = h /\ m.fell = fell'[h] /\ Unpack(m.datagram).time = Whole(now)
                /\ Unpack(m.datagram).values[1] = sum
  BY <1>4, <1>7, <1>11 DEF Counting
<1>12. OrderInv'
  <2> SUFFICES ASSUME NEW k \in Host
               PROVE  /\ \A p \in Points(k)' :
                           /\ p[1] \in Nat /\ p[2] \in Nat /\ p[1] <= lastSent'[k]
                           /\ NoFall(p, total'[k], fell'[k])
                      /\ \A p \in Points(k)', m \in Counting(k)' :
                           p[1] < Unpack(m.datagram).time => NoFall(p, Unpack(m.datagram).values[1], m.fell)
    BY DEF OrderInv, NoFall
  <2>1. ASSUME NEW p \in Points(k)
        PROVE  p[1] \in Nat /\ p[2] \in Nat /\ p[1] <= lastSent[k] /\ NoFall(p, total[k], fell[k])
    BY DEF StatInv, OrderInv
  <2>2. Whole(now) \in Nat /\ Whole(now) <= now
    BY <1>5, WholeIs
  <2>3. ASSUME NEW p \in Points(h) PROVE p[1] < now /\ NoFall(p, sum, fell'[h])
    <3>1. p[1] \in Nat /\ p[2] \in Nat /\ p[1] <= lastSent[h] /\ NoFall(p, total[h], fell[h])
      BY DEF StatInv, OrderInv
    <3>2. lastSent[h] \in Nat /\ total[h] \in Nat /\ fell[h] \in Nat /\ lastSent[h] < now
      BY <1>2, <1>4
    <3>3. CASE sum < total[h]
      <4>1. fell'[h] = now
        BY <1>4, <3>3
      <4> QED BY <1>3, <3>1, <3>2, <4>1 DEF NoFall
    <3>4. CASE ~(sum < total[h])
      <4>1. fell'[h] = fell[h] /\ total[h] <= sum
        BY <1>3, <1>4, <3>2, <3>4
      <4> QED BY <1>3, <3>1, <3>2, <4>1 DEF NoFall
    <3> QED BY <3>3, <3>4
  <2>4. ASSUME NEW p \in Points(k)'
        PROVE  /\ p[1] \in Nat /\ p[2] \in Nat /\ p[1] <= lastSent'[k]
               /\ NoFall(p, total'[k], fell'[k])
    <3>1. CASE p \in Points(k) /\ k # h
      BY <1>4, <2>1, <3>1
    <3>2. CASE p \in Points(k) /\ k = h
      <4>1. p[1] \in Nat /\ p[2] \in Nat /\ p[1] < now /\ NoFall(p, sum, fell'[h])
        BY <2>1, <2>3, <3>2
      <4> QED BY <1>4, <1>5, <3>2, <4>1
    <3>3. CASE k = h /\ p = <<Whole(now), total'[h]>>
      <4>1. p[1] = Whole(now) /\ p[2] = sum /\ sum <= sum
        BY <1>3, <1>4, <3>3
      <4> QED BY <1>3, <1>4, <2>2, <3>3, <4>1 DEF NoFall
    <3> QED BY <1>10, <3>1, <3>2, <3>3
  <2>5. ASSUME NEW p \in Points(k)', NEW m \in Counting(k)', p[1] < Unpack(m.datagram).time
        PROVE  NoFall(p, Unpack(m.datagram).values[1], m.fell)
    <3>1. CASE m \in network
      <4>1. m \in Counting(k)
        BY <3>1 DEF Counting
      <4>2. Unpack(m.datagram).time <= Whole(now) /\ Unpack(m.datagram).time \in Nat
        <5>1. m.sent \in Nat /\ m.sent <= now /\ ValueOK(Unpack(m.datagram), m.sent)
          BY <3>1 DEF StatInv, SourceInv
        <5> QED BY <1>5, <5>1, WholeIs DEF ValueOK
      <4>3. p \in Points(k)
        BY <1>10, <2>2, <2>5, <4>2
      <4> QED BY <2>5, <4>1, <4>3 DEF StatInv, OrderInv
    <3>2. CASE m \notin network
      <4>1. k = h /\ m.fell = fell'[h] /\ Unpack(m.datagram).time = Whole(now) /\ Unpack(m.datagram).values[1] = sum
        BY <1>11, <3>2
      <4>2. p \in Points(h)
        BY <1>10, <2>2, <2>5, <4>1
      <4> QED BY <2>3, <4>1, <4>2
    <3> QED BY <3>1, <3>2
  <2> QED BY <2>4, <2>5
<1> QED BY <1>8, <1>9, <1>12 DEF StatInv

\* What a datagram makes of the table and of the history of what was received.
LEMMA UpdateIs ==
  ASSUME NEW m \in network, Update(m)
  PROVE  LET v == Unpack(m.datagram)
             r == <<v.host, v.plugin_instance>>
             hp == IF r \in DOMAIN hostprogs THEN hostprogs[r] ELSE NewHostProg
             before == IF r \in DOMAIN latest THEN latest[r].sent ELSE 0
         IN  /\ UNCHANGED <<metrics, now, swept, total, fell, lastSent, stats>> /\ network' = network \ {m}
             /\ DOMAIN latest' = DOMAIN latest \cup {r}
             /\ latest'[r].sent = Larger(before, m.sent)
             /\ \A k \in DOMAIN latest : k # r => latest'[k] = latest[k]
             /\ \/ hostprogs' = hostprogs /\ DOMAIN hosts' = DOMAIN hosts \cup {v.host}
                \/ /\ hosts' = hosts /\ DOMAIN hostprogs' = DOMAIN hostprogs \cup {r}
                   /\ hostprogs'[r] = Touch(hp, v)
                   /\ \A k \in DOMAIN hostprogs : k # r => hostprogs'[k] = hostprogs[k]
<1> DEFINE v == Unpack(m.datagram)
           r == <<v.host, v.plugin_instance>>
           hp == IF r \in DOMAIN hostprogs THEN hostprogs[r] ELSE NewHostProg
           before == IF r \in DOMAIN latest THEN latest[r] ELSE [sent |-> 0, count |-> [g \in Gauges |-> None]]
<1>1. UNCHANGED <<metrics, now, swept, total, fell, lastSent, stats>> /\ network' = network \ {m}
  BY DEF Update, sourceVars
<1>2. latest' = Received(r, v, m.sent)
  BY DEF Update
<1>3. IF v.plugin_instance \in {None, "host"}
        THEN hosts' = PutRow(hosts, v.host, v) /\ UNCHANGED hostprogs
        ELSE hostprogs' = PutRow(hostprogs, r, v) /\ UNCHANGED hosts
  BY DEF Update
<1> HIDE DEF v
<1>4. /\ DOMAIN latest' = DOMAIN latest \cup {r}
      /\ latest'[r].sent = Larger(before.sent, m.sent)
      /\ \A k \in DOMAIN latest : k # r => latest'[k] = latest[k]
  BY <1>2 DEF Received
<1>5. before.sent = IF r \in DOMAIN latest THEN latest[r].sent ELSE 0
  OBVIOUS
<1>6. ASSUME NEW table, NEW key
      PROVE  /\ DOMAIN PutRow(table, key, v) = DOMAIN table \cup {key}
             /\ PutRow(table, key, v)[key] = Touch(IF key \in DOMAIN table THEN table[key] ELSE NewHostProg, v)
             /\ \A k \in DOMAIN table : k # key => PutRow(table, key, v)[k] = table[k]
  BY DEF PutRow
<1>7. CASE v.plugin_instance \in {None, "host"}
  <2>1. hosts' = PutRow(hosts, v.host, v) /\ hostprogs' = hostprogs
    BY <1>3, <1>7
  <2>2. DOMAIN hosts' = DOMAIN hosts \cup {v.host}
    BY <2>1 DEF PutRow
  <2> HIDE DEF r, before
  <2> QED BY <1>1, <1>4, <1>5, <2>1, <2>2 DEF v, r
<1>8. CASE v.plugin_instance \notin {None, "host"}
  <2>1. hostprogs' = PutRow(hostprogs, r, v) /\ hosts' = hosts
    BY <1>3, <1>8
  <2>2. /\ DOMAIN hostprogs' = DOMAIN hostprogs \cup {r}
        /\ hostprogs'[r] = Touch(hp, v)
        /\ \A k \in DOMAIN hostprogs : k # r => hostprogs'[k] = hostprogs[k]
    <3> HIDE DEF r
    <3>1. hp = IF r \in DOMAIN hostprogs THEN hostprogs[r] ELSE NewHostProg
      OBVIOUS
    <3> HIDE DEF hp
    <3> QED BY <1>6, <2>1, <3>1
  <2> HIDE DEF r, before, hp
  <2> QED BY <1>1, <1>4, <1>5, <2>1, <2>2 DEF v, r, hp
<1> QED BY <1>7, <1>8

\* A datagram is received: what its row then has was under way.
LEMMA UpdateKeeps ==
  ASSUME StatInv, NEW m \in network, Update(m)
  PROVE  StatInv'
<1> DEFINE v == Unpack(m.datagram)
           r == <<v.host, v.plugin_instance>>
           hp == IF r \in DOMAIN hostprogs THEN hostprogs[r] ELSE NewHostProg
<1>1. /\ UNCHANGED <<metrics, now, swept, sourceVars>> /\ network' = network \ {m}
      /\ DOMAIN latest' = DOMAIN latest \cup {r}
      /\ latest'[r].sent = Larger(IF r \in DOMAIN latest THEN latest[r].sent ELSE 0, m.sent)
      /\ \A k \in DOMAIN latest : k # r => latest'[k] = latest[k]
      /\ \/ hostprogs' = hostprogs /\ DOMAIN hosts' = DOMAIN hosts \cup {v.host}
         \/ /\ hosts' = hosts /\ DOMAIN hostprogs' = DOMAIN hostprogs \cup {r}
            /\ hostprogs'[r] = Touch(hp, v)
            /\ \A k \in DOMAIN hostprogs : k # r => hostprogs'[k] = hostprogs[k]
  BY UpdateIs DEF sourceVars
<1>2. /\ m.sent \in Nat /\ m.sent <= now /\ now \in Nat /\ ValueOK(v, m.sent)
      /\ v.time = Whole(m.sent) /\ v.time \in Nat /\ v.time <= m.sent /\ v.host \in Host
      /\ <<v.plugin_instance, v.type_instance>> \in metrics
  BY WholeIs DEF StatInv, SourceInv, ValueOK
<1>3. r \in Host \X {metric[1] : metric \in metrics}
  BY <1>2
<1>4. \A k \in DOMAIN latest : latest[k].sent \in Nat
  BY DEF StatInv, TableInv
<1> HIDE DEF v
<1>5. /\ latest'[r].sent \in Nat /\ latest'[r].sent >= m.sent
      /\ r \in DOMAIN latest => latest'[r].sent >= latest[r].sent
  BY <1>1, <1>2, <1>4 DEF Larger
<1>6. SourceInv'
  <2>1. \A n \in network' : n \in network
    BY <1>1
  <2>2. \A n : ValueOK(Unpack(n.datagram), n.sent)' <=> ValueOK(Unpack(n.datagram), n.sent)
    BY <1>1 DEF ValueOK
  <2> QED BY <1>1, <2>1, <2>2 DEF StatInv, SourceInv, sourceVars
<1>7. /\ RowOK(hp)
      /\ hp.last_total_checkout_time # None => r \in DOMAIN hostprogs /\ r \in Counters(v.host)
      /\ r \in DOMAIN hostprogs => hp.last_time <= latest[r].sent /\ r \in DOMAIN latest
      /\ r \notin DOMAIN hostprogs => hp.last_time = 0
  <2>1. CASE r \in DOMAIN hostprogs
    BY <2>1 DEF StatInv, TableInv, Counters
  <2>2. CASE r \notin DOMAIN hostprogs
    BY <2>2, NewRowOK DEF NewHostProg
  <2> QED BY <2>1, <2>2
<1>8. v.type_instance = "checkouts" => <<v.time, v.values[1]>> \in Points(v.host)
  BY DEF Points, Counting, v
<1>9. hp.last_total_checkout_time # None => Point(hp) \in Points(v.host)
  BY <1>7 DEF Points
<1> HIDE DEF r, hp
<1>11. /\ RowOK(Touch(hp, v)) /\ Touch(hp, v).last_time \in {hp.last_time, v.time}
       /\ \/ /\ Touch(hp, v).last_total_checkout_time = hp.last_total_checkout_time
             /\ Point(Touch(hp, v)) = Point(hp)
          \/ v.type_instance = "checkouts" /\ Point(Touch(hp, v)) = <<v.time, v.values[1]>>
  BY <1>2, <1>7, TouchOK
<1>12. TableInv'
  <2>1. \A k \in DOMAIN latest' : latest'[k].sent \in Nat
    BY <1>1, <1>4, <1>5
  <2>2. \A k \in DOMAIN latest : k \in DOMAIN latest' /\ latest'[k].sent >= latest[k].sent
    BY <1>1, <1>4, <1>5
  <2>3. /\ DOMAIN hostprogs \subseteq Host \X {metric[1] : metric \in metrics} /\ DOMAIN hosts \subseteq Host
        /\ \A k \in DOMAIN hostprogs : /\ RowOK(hostprogs[k]) /\ hostprogs[k].last_time \in Nat
                                       /\ k \in DOMAIN latest /\ hostprogs[k].last_time <= latest[k].sent
    BY DEF StatInv, TableInv, RowOK
  <2>4. \A k \in DOMAIN hostprogs : k \in DOMAIN latest' /\ hostprogs[k].last_time <= latest'[k].sent
    BY <1>4, <2>1, <2>2, <2>3
  <2>5. RowOK(Touch(hp, v)) /\ Touch(hp, v).last_time <= latest'[r].sent /\ r \in DOMAIN latest'
    <3>1. hp.last_time \in Nat /\ hp.last_time <= latest'[r].sent
      BY <1>4, <1>5, <1>7, <2>3 DEF RowOK
    <3> QED BY <1>1, <1>2, <1>5, <1>11, <3>1
  <2>6. CASE hostprogs' = hostprogs /\ DOMAIN hosts' = DOMAIN hosts \cup {v.host}
    <3>1. \A hq : RowOK(hq)' <=> RowOK(hq)
      BY DEF RowOK
    <3> QED BY <1>1, <1>2, <2>1, <2>3, <2>4, <2>6 DEF TableInv
  <2>7. CASE /\ hosts' = hosts /\ DOMAIN hostprogs' = DOMAIN hostprogs \cup {r}
             /\ hostprogs'[r] = Touch(hp, v)
             /\ \A k \in DOMAIN hostprogs : k # r => hostprogs'[k] = hostprogs[k]
    <3>1. \A k \in DOMAIN hostprogs' :
            RowOK(hostprogs'[k]) /\ k \in DOMAIN latest' /\ hostprogs'[k].last_time <= latest'[k].sent
      BY <2>3, <2>4, <2>5, <2>7
    <3>2. DOMAIN hostprogs' \subseteq Host \X {metric[1] : metric \in metrics'}
      BY <1>1, <1>3, <2>3, <2>7 DEF r
    <3> QED BY <2>1, <2>3, <2>7, <3>1, <3>2 DEF TableInv
  <2> QED BY <1>1, <2>6, <2>7
<1>13. ASSUME NEW h \in Host, NEW p \in Points(h)' PROVE p \in Points(h)
  <2>1. CASE p \in {<<Unpack(n.datagram).time, Unpack(n.datagram).values[1]>> : n \in Counting(h)'}
    <3>1. Counting(h)' \subseteq Counting(h)
      BY <1>1 DEF Counting
    <3> QED BY <2>1, <3>1 DEF Points
  <2>2. CASE p \in {Point(hostprogs[k])' : k \in Counters(h)'}
    <3>1. PICK k \in DOMAIN hostprogs' :
            k[1] = h /\ hostprogs'[k].last_total_checkout_time # None /\ p = Point(hostprogs'[k])
      BY <2>2 DEF Counters, Point
    <3>2. CASE k \in DOMAIN hostprogs /\ hostprogs'[k] = hostprogs[k]
      <4>1. k \in Counters(h) /\ p = Point(hostprogs[k])
        BY <3>1, <3>2 DEF Counters, Point
      <4> QED BY <4>1 DEF Points
    <3>3. CASE k = r /\ hostprogs'[k] = Touch(hp, v)
      <4>1. v.host = h
        BY <3>1, <3>3 DEF r
      <4> QED BY <1>8, <1>9, <1>11, <3>1, <3>3, <4>1
    <3> QED BY <1>1, <3>1, <3>2, <3>3
  <2> QED BY <2>1, <2>2 DEF Points
<1>14. OrderInv'
  <2>1. \A h \in Host : Points(h)' \subseteq Points(h)
    BY <1>13
  <2>2. network' \subseteq network
    BY <1>1
  <2> QED BY <1>1, <2>1, <2>2, FewerPoints DEF StatInv
<1> QED BY <1>6, <1>12, <1>14 DEF StatInv

LEMMA KilledOK ==
  ASSUME NEW hp, RowOK(hp)
  PROVE  /\ RowOK(KillProcesses(hp)) /\ KillProcesses(hp).last_time = hp.last_time
         /\ KillProcesses(hp).last_total_checkout_time = hp.last_total_checkout_time
         /\ Point(KillProcesses(hp)) = Point(hp)
<1> DEFINE new == KillProcesses(hp)
<1>1. /\ DOMAIN new = RowFields /\ new.last_time = hp.last_time /\ new.interval = hp.interval
      /\ new.count = [g \in Gauges |-> 0] /\ new.max = hp.max
      /\ new.last_total_checkout_time = hp.last_total_checkout_time
      /\ new.total_checkouts = hp.total_checkouts /\ new.checkouts_per_second = <<0, 1>>
  BY DEF KillProcesses, RowOK, RowFields
<1> HIDE DEF new
<1>2. \A g \in Gauges : new.max[g] >= 0
  <2>1. \A x \in Counts \cup {0} : x >= 0
    BY StatAssumption
  <2> QED BY <1>1, <2>1 DEF RowOK
<1>3. RateOK(new.checkouts_per_second)
  BY <1>1 DEF RateOK
<1>4. new.count \in [Gauges -> Counts \cup {0, None}] /\ \A g \in Gauges : new.count[g] <= new.max[g]
  <2>1. \A g \in Gauges : new.count[g] = 0
    BY <1>1
  <2>2. \A g \in Gauges : new.max[g] \in Counts \cup {0}
    BY <1>1 DEF RowOK
  <2>3. \A x \in Counts \cup {0} : 0 <= x
    BY StatAssumption
  <2>4. new.count \in [Gauges -> Counts \cup {0, None}]
    BY <1>1
  <2> QED BY <2>1, <2>2, <2>3, <2>4
<1>5. RowOK(new)
  BY <1>1, <1>3, <1>4 DEF RowOK
<1> QED BY <1>1, <1>5 DEF new, Point

\* What a sweep leaves of the table.
LEMMA SweptIs ==
  ASSUME NEW table
  PROVE  /\ DOMAIN Swept(table) = {r \in DOMAIN table : Age(table[r]) <= table[r].interval * 5}
         /\ \A r \in DOMAIN Swept(table) :
              /\ Age(table[r]) > table[r].interval * 2 => Swept(table)[r] = KillProcesses(table[r])
              /\ ~(Age(table[r]) > table[r].interval * 2) => Swept(table)[r] = table[r]
BY DEF Swept

LEMMA SweepKeeps ==
  ASSUME StatInv, ProcessHostprogs
  PROVE  StatInv'
<1>1. /\ UNCHANGED <<metrics, now, sourceVars, network, hosts, latest>> /\ swept' = TRUE
      /\ hostprogs' = Swept(hostprogs)
  BY DEF ProcessHostprogs
<1>2. ASSUME NEW r \in DOMAIN hostprogs'
      PROVE  /\ r \in DOMAIN hostprogs /\ RowOK(hostprogs'[r])
             /\ hostprogs'[r].last_time = hostprogs[r].last_time
             /\ hostprogs'[r].last_total_checkout_time = hostprogs[r].last_total_checkout_time
             /\ Point(hostprogs'[r]) = Point(hostprogs[r])
  <2>1. r \in DOMAIN hostprogs /\ hostprogs'[r] \in {hostprogs[r], KillProcesses(hostprogs[r])}
    BY <1>1, SweptIs
  <2>2. RowOK(hostprogs[r])
    BY <2>1 DEF StatInv, TableInv
  <2> QED BY <2>1, <2>2, KilledOK
<1>3. SourceInv'
  <2>1. \A n : ValueOK(Unpack(n.datagram), n.sent)' <=> ValueOK(Unpack(n.datagram), n.sent)
    BY <1>1 DEF ValueOK
  <2>2. swept' \in BOOLEAN
    BY <1>1
  <2> QED BY <1>1, <2>1, <2>2 DEF StatInv, SourceInv, sourceVars
<1>4. TableInv'
  BY <1>1, <1>2 DEF StatInv, TableInv
<1>5. ASSUME NEW h \in Host, NEW p \in Points(h)' PROVE p \in Points(h)
  <2>1. Counting(h)' = Counting(h)
    BY <1>1 DEF Counting
  <2>2. CASE p \in {Point(hostprogs[k])' : k \in Counters(h)'}
    <3>1. PICK k \in DOMAIN hostprogs' :
            k[1] = h /\ hostprogs'[k].last_total_checkout_time # None /\ p = Point(hostprogs'[k])
      BY <2>2 DEF Counters, Point
    <3>2. k \in Counters(h) /\ p = Point(hostprogs[k])
      BY <1>2, <3>1 DEF Counters
    <3> QED BY <3>2 DEF Points
  <2> QED BY <2>1, <2>2 DEF Points
<1>6. OrderInv'
  <2>1. \A h \in Host : Points(h)' \subseteq Points(h)
    BY <1>5
  <2>2. network' \subseteq network
    BY <1>1
  <2> QED BY <1>1, <2>1, <2>2, FewerPoints DEF StatInv
<1> QED BY <1>3, <1>4, <1>6 DEF StatInv

LEMMA StatNextKeeps == StatInv /\ [StatNext]_statVars => StatInv'
<1> SUFFICES ASSUME StatInv, [StatNext]_statVars PROVE StatInv'
  OBVIOUS
<1>1. ASSUME UNCHANGED <<metrics, sourceVars, network, hostprogs, hosts, latest>>, swept' \in BOOLEAN,
             now' \in Nat, now' >= now, \A m \in network : now' - m.sent <= MaxDelay
      PROVE  StatInv'
  <2>1. \A n : ValueOK(Unpack(n.datagram), n.sent)' <=> ValueOK(Unpack(n.datagram), n.sent)
    BY <1>1 DEF ValueOK
  <2>2. now \in Nat /\ Start \in Nat /\ \A m \in network : m.sent \in Nat /\ m.sent <= now
    BY StatAssumption DEF StatInv, SourceInv
  <2>3. SourceInv'
    <3>1. \A h \in Host : lastSent'[h] <= now'
      <4>1. lastSent' = lastSent /\ \A h \in Host : lastSent[h] \in Nat /\ lastSent[h] <= now
        BY <1>1 DEF StatInv, SourceInv, sourceVars
      <4> QED BY <1>1, <2>2, <4>1
    <3> QED BY <1>1, <2>1, <2>2, <3>1 DEF StatInv, SourceInv, sourceVars
  <2>4. TableInv'
    BY <1>1 DEF StatInv, TableInv, RowOK
  <2>5. \A h \in Host : Points(h)' \subseteq Points(h)
    BY <1>1 DEF Points, Counting, Counters, Point
  <2>6. OrderInv'
    <3>1. network' \subseteq network
      BY <1>1
    <3> QED BY <1>1, <2>5, <3>1, FewerPoints DEF StatInv
  <2> QED BY <2>3, <2>4, <2>6 DEF StatInv
<1>2. CASE UNCHANGED statVars
  <2>1. now \in Nat /\ swept \in BOOLEAN /\ \A m \in network : now - m.sent <= MaxDelay
    BY DEF StatInv, SourceInv
  <2> QED BY <1>1, <1>2, <2>1 DEF statVars, tableVars
<1>3. CASE Tick
  <2>1. /\ UNCHANGED <<metrics, sourceVars, network, hostprogs, hosts, latest>> /\ swept' = FALSE
        /\ now' = now + 1 /\ \A m \in network : now - m.sent < MaxDelay
    BY <1>3 DEF Tick, tableVars
  <2>2. now \in Nat /\ MaxDelay \in Nat /\ \A m \in network : m.sent \in Nat
    BY StatAssumption DEF StatInv, SourceInv
  <2>3. now' \in Nat /\ now' >= now /\ \A m \in network : now' - m.sent <= MaxDelay
    BY <2>1, <2>2
  <2>4. swept' \in BOOLEAN
    BY <2>1
  <2> QED BY <1>1, <2>1, <2>3, <2>4
<1>4. ASSUME NEW h \in Host, Report(h) PROVE StatInv'
  BY <1>4, ReportKeeps
<1>5. ASSUME NEW m \in network, Update(m) PROVE StatInv'
  BY <1>5, UpdateKeeps
<1>6. CASE ProcessHostprogs
  BY <1>6, SweepKeeps
<1> QED BY <1>2, <1>3, <1>4, <1>5, <1>6 DEF StatNext

\* What is under way, what the table has of it, and that of two totals of a host the later
\* is not the smaller unless its datagram was made after a fall, wherever they are and in
\* whatever order they come (stat.py 160-190).
THEOREM StatInvariant == StatSpec => []StatInv
BY StatInitInv, StatNextKeeps, PTL DEF StatSpec

\* The table and its rows keep their types: no count is above its maximum (stat.py 93-138).
THEOREM StatTypeCorrect == StatSpec => []StatTypeOK
<1>1. StatInv => StatTypeOK
  <2> SUFFICES ASSUME StatInv PROVE StatTypeOK
    OBVIOUS
  <2>1. ASSUME NEW r \in DOMAIN hostprogs
        PROVE  /\ hostprogs[r].interval \in {0, Whole(Interval)}
               /\ \A g \in Gauges : hostprogs[r].count[g] # None => hostprogs[r].count[g] \in 0..hostprogs[r].max[g]
               /\ hostprogs[r].max \in [Gauges -> Counts \cup {0}]
    <3> DEFINE hp == hostprogs[r]
    <3>1. RowOK(hp)
      BY DEF StatInv, TableInv
    <3>2. ASSUME NEW g \in Gauges, hp.count[g] # None PROVE hp.count[g] \in 0..hp.max[g]
      <4>1. hp.count[g] \in Counts \cup {0} /\ hp.max[g] \in Counts \cup {0} /\ hp.count[g] <= hp.max[g]
        BY <3>1, <3>2 DEF RowOK
      <4>2. \A x \in Counts \cup {0} : x \in Nat
        BY StatAssumption
      <4> QED BY <4>1, <4>2
    <3> QED BY <3>1, <3>2 DEF RowOK
  <2> QED BY <2>1 DEF StatInv, SourceInv, TableInv, StatTypeOK
<1> QED BY <1>1, StatInvariant, PTL

\* A rate that a datagram changes is of the growth of the total since the one before.
LEMMA TouchRate ==
  ASSUME NEW hp, RowOK(hp), NEW v, v.time \in Nat, v.interval \in Nat,
         Touch(hp, v).checkouts_per_second # hp.checkouts_per_second
  PROVE  /\ v.type_instance = "checkouts"
         /\ hp.last_total_checkout_time # None /\ hp.last_total_checkout_time < v.time
         /\ Touch(hp, v).checkouts_per_second =
              <<v.values[1] - hp.total_checkouts, v.time - hp.last_total_checkout_time>>
<1> DEFINE up == Updated(hp, v)
           rate == hp.checkouts_per_second
<1>0. DOMAIN hp = RowFields
  BY DEF RowOK
<1>1. /\ UpdateGauge(hp, v).checkouts_per_second = rate /\ DOMAIN UpdateGauge(hp, v) = RowFields
      /\ UpdateTotalConnects(hp, v).checkouts_per_second = rate /\ DOMAIN UpdateTotalConnects(hp, v) = RowFields
      /\ DOMAIN UpdateTotalCheckouts(hp, v) = RowFields
  <2>1. Keeps(hp, UpdateGauge(hp, v), RowFields \ {"count", "max"})
    BY <1>0, GaugeIs
  <2>2. Keeps(hp, UpdateTotalConnects(hp, v), RowFields \ {"total_connects", "interval_connects"})
    BY <1>0, ConnectsIs
  <2>3. Keeps(hp, UpdateTotalCheckouts(hp, v), {"last_time", "interval", "count", "max"})
    BY <1>0, CheckoutsIs
  <2>4. "checkouts_per_second" \in RowFields \ {"count", "max", "total_connects", "interval_connects"}
    BY DEF RowFields
  <2> QED BY <2>1, <2>2, <2>3, <2>4 DEF Keeps
<1>2. /\ DOMAIN up = RowFields
      /\ up.checkouts_per_second # rate => v.type_instance = "checkouts" /\ up = UpdateTotalCheckouts(hp, v)
  <2>1. \/ up \in {UpdateGauge(hp, v), UpdateTotalConnects(hp, v), hp}
        \/ v.type_instance = "checkouts" /\ up = UpdateTotalCheckouts(hp, v)
    BY DEF Updated
  <2> HIDE DEF up
  <2> QED BY <1>0, <1>1, <2>1
<1> HIDE DEF up
<1>3. Touch(hp, v).checkouts_per_second = up.checkouts_per_second
  <2>1. Touch(hp, v) \in {up, [up EXCEPT !.interval = v.interval, !.last_time = v.time]}
    BY DEF Touch, up
  <2> QED BY <1>2, <2>1 DEF RowFields
<1>4. /\ v.type_instance = "checkouts" /\ hp.last_total_checkout_time # None /\ ~Fails(hp, v)
      /\ Rate(hp, v) # rate /\ up.checkouts_per_second = Rate(hp, v)
  <2>1. up.checkouts_per_second # rate
    BY <1>3
  <2>2. v.type_instance = "checkouts" /\ up = UpdateTotalCheckouts(hp, v)
    BY <1>2, <2>1
  <2>3. up.checkouts_per_second =
          IF hp.last_total_checkout_time # None /\ ~Fails(hp, v) THEN Rate(hp, v) ELSE rate
    BY <1>0, <2>2, CheckoutsIs
  <2> QED BY <2>1, <2>2, <2>3
<1>5. /\ v.time - hp.last_total_checkout_time >= v.interval /\ hp.total_checkouts > 0
      /\ Rate(hp, v) = <<v.values[1] - hp.total_checkouts, v.time - hp.last_total_checkout_time>>
  BY <1>4 DEF Rate
<1>6. hp.last_total_checkout_time \in Nat
  BY <1>4 DEF RowOK
<1>7. ~(v.interval = 0 /\ v.time = hp.last_total_checkout_time)
  BY <1>4, <1>5 DEF Fails
<1>8. hp.last_total_checkout_time < v.time
  BY <1>5, <1>6, <1>7
<1> QED BY <1>3, <1>4, <1>5, <1>8

\* Every rate is over some time, and one is negative only if the datagram it is of was made
\* after a fall of the totals that the one before had not seen, for totals that are delayed,
\* reordered and lost in any way, and any interval, one below a second included (stat.py
\* 160-190).
THEOREM RatesAreRealHolds == StatSpec => RatesAreReal
<1>1. StatInv /\ [StatNext]_statVars =>
        \A r \in DOMAIN hostprogs' :
          LET rate == hostprogs'[r].checkouts_per_second
          IN  \/ rate = None
              \/ r \in DOMAIN hostprogs /\ rate = hostprogs[r].checkouts_per_second
              \/ /\ rate[2] > 0
                 /\ rate[1] < 0 => \E m \in network \ network' : m.fell > hostprogs[r].last_total_checkout_time
  <2> SUFFICES ASSUME StatInv, [StatNext]_statVars, NEW r \in DOMAIN hostprogs'
               PROVE  LET rate == hostprogs'[r].checkouts_per_second
                      IN  \/ rate = None
                          \/ r \in DOMAIN hostprogs /\ rate = hostprogs[r].checkouts_per_second
                          \/ /\ rate[2] > 0
                             /\ rate[1] < 0 =>
                                  \E m \in network \ network' : m.fell > hostprogs[r].last_total_checkout_time
    OBVIOUS
  <2> DEFINE rate == hostprogs'[r].checkouts_per_second
  <2>1. CASE hostprogs' = hostprogs
    BY <2>1
  <2>2. CASE ProcessHostprogs
    <3>1. hostprogs' = Swept(hostprogs)
      BY <2>2 DEF ProcessHostprogs
    <3>2. r \in DOMAIN hostprogs /\ hostprogs'[r] \in {hostprogs[r], KillProcesses(hostprogs[r])}
      BY <3>1, SweptIs
    <3>3. DOMAIN hostprogs[r] = RowFields
      BY <3>2 DEF StatInv, TableInv, RowOK
    <3>4. KillProcesses(hostprogs[r]).checkouts_per_second = <<0, 1>>
      BY <3>3 DEF KillProcesses, RowFields
    <3>5. rate = hostprogs[r].checkouts_per_second \/ rate = <<0, 1>>
      BY <3>2, <3>4
    <3> HIDE DEF rate
    <3>6. rate = <<0, 1>> => rate[2] > 0 /\ ~(rate[1] < 0)
      OBVIOUS
    <3> QED BY <3>2, <3>5, <3>6 DEF rate
  <2>3. ASSUME NEW m \in network, Update(m)
        PROVE  \/ rate = None
               \/ r \in DOMAIN hostprogs /\ rate = hostprogs[r].checkouts_per_second
               \/ /\ rate[2] > 0
                  /\ rate[1] < 0 => \E n \in network \ network' : n.fell > hostprogs[r].last_total_checkout_time
    <3> DEFINE v == Unpack(m.datagram)
               k == <<v.host, v.plugin_instance>>
               hp == IF k \in DOMAIN hostprogs THEN hostprogs[k] ELSE NewHostProg
    <3>1. /\ network' = network \ {m}
          /\ \/ hostprogs' = hostprogs
             \/ /\ DOMAIN hostprogs' = DOMAIN hostprogs \cup {k}
                /\ hostprogs'[k] = Touch(hp, v)
                /\ \A x \in DOMAIN hostprogs : x # k => hostprogs'[x] = hostprogs[x]
      BY <2>3, UpdateIs
    <3>2. m \in network \ network'
      BY <3>1
    <3>3. /\ v.time \in Nat /\ v.interval \in Nat /\ v.host \in Host /\ m.fell \in Nat
          /\ v.type_instance = "checkouts" => v.values[1] \in Nat
      <4>1. m.sent \in Nat /\ m.fell \in Nat /\ ValueOK(v, m.sent) /\ Interval \in Nat
        BY StatAssumption DEF StatInv, SourceInv
      <4> QED BY <4>1, WholeIs DEF ValueOK
    <3>4. v.type_instance = "checkouts" => m \in Counting(v.host)
      BY DEF Counting
    <3> HIDE DEF v
    <3>5. /\ RowOK(hp)
          /\ hp.last_total_checkout_time # None => k \in DOMAIN hostprogs /\ k \in Counters(v.host)
      <4>1. CASE k \in DOMAIN hostprogs
        BY <4>1 DEF StatInv, TableInv, Counters
      <4>2. CASE k \notin DOMAIN hostprogs
        BY <4>2, NewRowOK
      <4> QED BY <4>1, <4>2
    <3>6. hp.last_total_checkout_time # None => Point(hp) \in Points(v.host)
      BY <3>5 DEF Points
    <3>7. k \in DOMAIN hostprogs => hp = hostprogs[k]
      OBVIOUS
    <3>8. k \notin DOMAIN hostprogs => hp.checkouts_per_second = None
      BY DEF NewHostProg
    <3> HIDE DEF k, hp
    <3>9. CASE r \in DOMAIN hostprogs /\ hostprogs'[r] = hostprogs[r]
      BY <3>9
    <3>10. CASE r = k /\ hostprogs'[r] = Touch(hp, v)
      <4>1. CASE rate = hp.checkouts_per_second
        BY <3>7, <3>8, <3>10, <4>1
      <4>2. CASE rate # hp.checkouts_per_second
        <5>1. /\ v.type_instance = "checkouts"
              /\ hp.last_total_checkout_time # None /\ hp.last_total_checkout_time < v.time
              /\ rate = <<v.values[1] - hp.total_checkouts, v.time - hp.last_total_checkout_time>>
          BY <3>3, <3>5, <3>10, <4>2, TouchRate
        <5>2. hp.last_total_checkout_time \in Nat /\ hp.total_checkouts \in Nat
          BY <3>5, <5>1 DEF RowOK
        <5> HIDE DEF rate
        <5>3. rate[1] = v.values[1] - hp.total_checkouts /\ rate[2] = v.time - hp.last_total_checkout_time
          BY <5>1
        <5>4. rate[2] > 0
          BY <3>3, <5>1, <5>2, <5>3
        <5>5. Point(hp)[1] = hp.last_total_checkout_time /\ Point(hp)[2] = hp.total_checkouts
          BY DEF Point
        <5>6. NoFall(Point(hp), v.values[1], m.fell)
          BY <3>3, <3>4, <3>6, <5>1, <5>5 DEF StatInv, OrderInv, v
        <5>7. rate[1] < 0 => m.fell > hp.last_total_checkout_time
          BY <3>3, <5>1, <5>2, <5>3, <5>5, <5>6 DEF NoFall
        <5> QED BY <3>2, <3>5, <3>7, <3>10, <5>1, <5>4, <5>7
      <4> QED BY <4>1, <4>2
    <3> QED BY <2>1, <3>1, <3>9, <3>10
  <2>4. ASSUME NEW h \in Host, Report(h) PROVE hostprogs' = hostprogs
    BY <2>4 DEF Report, tableVars
  <2>5. Tick \/ UNCHANGED statVars => hostprogs' = hostprogs
    BY DEF Tick, statVars, tableVars
  <2> QED BY <2>1, <2>2, <2>3, <2>4, <2>5 DEF StatNext
<1> QED BY <1>1, StatInvariant, PTL DEF StatSpec, RatesAreReal

-----------------------------------------------------------------------------
(* What is forgotten. *)

\* No program that is silent for five intervals is in the table once it is swept, if
\* datagrams come within that time (stat.py 247-257).
THEOREM TableForgetsHolds == ASSUME ForgetsLate PROVE StatSpec => []TableForgets
<1>1. StatInit => TableForgets
  BY DEF StatInit, TableForgets
<1>2. StatInv /\ TableForgets /\ [StatNext]_statVars => TableForgets'
  <2> SUFFICES ASSUME StatInv, TableForgets, [StatNext]_statVars, swept', NEW r \in DOMAIN hostprogs'
               PROVE  latest'[r].sent + 5 * Interval >= now'
    BY DEF TableForgets
  <2>1. now \in Nat /\ Interval \in Nat /\ MaxDelay \in Nat /\ \A k \in DOMAIN latest : latest[k].sent \in Nat
    BY StatAssumption DEF StatInv, SourceInv, TableInv
  <2>2. CASE UNCHANGED statVars
    BY <2>2 DEF statVars, tableVars, TableForgets
  <2>3. ~Tick
    BY DEF Tick
  <2>4. ASSUME NEW h \in Host, Report(h) PROVE FALSE
    BY <2>4 DEF Report
  <2>5. ASSUME NEW m \in network, Update(m) PROVE latest'[r].sent + 5 * Interval >= now'
    <3> DEFINE v == Unpack(m.datagram)
               k == <<v.host, v.plugin_instance>>
    <3>1. /\ swept' = swept /\ now' = now
          /\ latest'[k].sent = Larger(IF k \in DOMAIN latest THEN latest[k].sent ELSE 0, m.sent)
          /\ \A x \in DOMAIN latest : x # k => latest'[x] = latest[x]
          /\ DOMAIN hostprogs' \subseteq DOMAIN hostprogs \cup {k}
      BY <2>5, UpdateIs
    <3>2. m.sent \in Nat /\ now - m.sent <= MaxDelay
      BY DEF StatInv, SourceInv
    <3> HIDE DEF k
    <3>3. CASE r = k
      <4>1. latest'[r].sent \in Nat /\ latest'[r].sent >= m.sent
        BY <2>1, <3>1, <3>2, <3>3 DEF Larger
      <4> QED BY <2>1, <3>1, <3>2, <4>1 DEF ForgetsLate
    <3>4. CASE r # k
      BY <3>1, <3>4 DEF TableForgets, StatInv, TableInv
    <3> QED BY <3>3, <3>4
  <2>6. CASE ProcessHostprogs
    <3>1. hostprogs' = Swept(hostprogs) /\ now' = now /\ latest' = latest
      BY <2>6 DEF ProcessHostprogs
    <3>2. r \in DOMAIN hostprogs /\ now - hostprogs[r].last_time <= hostprogs[r].interval * 5
      BY <3>1, SweptIs DEF Age
    <3>3. /\ hostprogs[r].last_time \in Nat /\ hostprogs[r].interval \in {0, Whole(Interval)}
          /\ hostprogs[r].last_time <= latest[r].sent /\ latest[r].sent \in Nat
      BY <3>2 DEF StatInv, TableInv, RowOK
    <3>4. hostprogs[r].interval \in Nat /\ hostprogs[r].interval <= Interval
      BY <2>1, <3>3, WholeIs
    <3> QED BY <2>1, <3>1, <3>2, <3>3, <3>4
  <2> QED BY <2>2, <2>3, <2>4, <2>5, <2>6 DEF StatNext
<1> QED BY <1>1, <1>2, StatInvariant, PTL DEF StatSpec

-----------------------------------------------------------------------------
(* What is summed up. *)

\* Whose reports have been, and of what; of finitely many programs.
PaceInv ==
  /\ lastSent \in [Host -> Nat] /\ lost \in [Host -> SUBSET metrics]
  /\ \A h \in Host : lastSent[h] <= now /\ (lastSent[h] > 0 => now - lastSent[h] <= MaxGap)
  /\ \A m \in network : m.sent > 0 /\ m.sent <= lastSent[Unpack(m.datagram).host]
  /\ IsFiniteSet(DOMAIN hostprogs) /\ IsFiniteSet(DOMAIN latest)
  /\ \A r \in DOMAIN hostprogs : r[2] # "host" /\ r = <<r[1], r[2]>>
  /\ \A r \in DOMAIN latest :
       /\ r[1] \in Host /\ r = <<r[1], r[2]>> /\ 0 < latest[r].sent /\ latest[r].sent <= lastSent[r[1]]
       /\ \A g \in Gauges : latest[r].count[g] # None =>
            <<r[2], g>> \in metrics /\ latest[r].count[g] \in Counts

\* A count of a row was received with a datagram that is not two intervals old, and was swept
\* out if it is.
RecentInv ==
  \A r \in DOMAIN hostprogs : \A g \in Gauges :
    \/ hostprogs[r].count[g] \in {None, 0}
    \/ /\ hostprogs[r].count[g] = latest[r].count[g]
       /\ latest[r].sent + 2 * Interval + (IF swept THEN 0 ELSE 1) >= now

Heard(r, g) == r \in DOMAIN latest /\ latest[r].count[g] # None

\* The times of the datagrams under way with a metric of a program.
UnderWay(r, g) ==
  {m.sent : m \in {n \in network :
     /\ Unpack(n.datagram).host = r[1] /\ Unpack(n.datagram).plugin_instance = r[2]
     /\ Unpack(n.datagram).type_instance = g}}

\* The report s is the last, or others since are under way, none longer than MaxGap after
\* the one before.
Chain(U, s, last) ==
  /\ s = last \/ (s < last /\ last \in U)
  /\ \A u \in U : u > s => \E w \in U \cup {s} : s <= w /\ w < u /\ u - w <= MaxGap

\* Of a metric of which nothing was lost or set back: the row shows what was received, and
\* is not older than the report from which the others are under way.
ShownOf(r, g) ==
  IF Heard(r, g)
    THEN /\ r \in DOMAIN hostprogs
         /\ hostprogs[r].count[g] = latest[r].count[g] /\ hostprogs[r].interval = Whole(Interval)
         /\ \E s \in 0..latest[r].sent :
              Whole(s) <= hostprogs[r].last_time /\ Chain(UnderWay(r, g), s, lastSent[r[1]])
    ELSE lastSent[r[1]] > 0 =>
           \E s \in UnderWay(r, g) :
             (\A u \in UnderWay(r, g) : s <= u) /\ Chain(UnderWay(r, g), s, lastSent[r[1]])

ShownInv ==
  \A h \in Host, x \in metrics :
    x[1] # "host" /\ x[2] \in Gauges /\ x \notin lost[h] => ShownOf(<<h, x[1]>>, x[2])

\* The counts of a row and of the history, and what was lost, after a datagram.
LEMMA UpdateShows ==
  ASSUME NEW m \in network, Update(m), Unpack(m.datagram).plugin_instance # None
  PROVE  LET v == Unpack(m.datagram)
             r == <<v.host, v.plugin_instance>>
             hp == IF r \in DOMAIN hostprogs THEN hostprogs[r] ELSE NewHostProg
         IN  /\ lost' = [lost EXCEPT ![v.host] =
                           IF m.sent = lastSent[v.host] THEN @ \ {<<v.plugin_instance, v.type_instance>>}
                           ELSE IF m.sent < latest'[r].sent THEN @ \cup Reports(r)
                           ELSE @]
             /\ \A g \in Gauges :
                  latest'[r].count[g] = IF g = v.type_instance THEN v.values[1]
                                        ELSE IF r \in DOMAIN latest THEN latest[r].count[g] ELSE None
             /\ v.plugin_instance = "host" => hostprogs' = hostprogs
             /\ v.plugin_instance # "host" =>
                  /\ DOMAIN hostprogs' = DOMAIN hostprogs \cup {r}
                  /\ hostprogs'[r] = Touch(hp, v)
                  /\ \A k \in DOMAIN hostprogs : k # r => hostprogs'[k] = hostprogs[k]
<1> DEFINE v == Unpack(m.datagram)
           r == <<v.host, v.plugin_instance>>
           hp == IF r \in DOMAIN hostprogs THEN hostprogs[r] ELSE NewHostProg
           before == IF r \in DOMAIN latest THEN latest[r] ELSE [sent |-> 0, count |-> [g \in Gauges |-> None]]
<1>1. lost' = [lost EXCEPT ![v.host] =
                 IF m.sent = lastSent[v.host] THEN @ \ {<<v.plugin_instance, v.type_instance>>}
                 ELSE IF m.sent < latest'[r].sent THEN @ \cup Reports(r)
                 ELSE @]
  BY DEF Update
<1>2. latest' = Received(r, v, m.sent)
  BY DEF Update
<1>3. /\ v.plugin_instance = "host" => hostprogs' = hostprogs
      /\ v.plugin_instance # "host" => hostprogs' = PutRow(hostprogs, r, v)
  BY DEF Update
<1> HIDE DEF v
<1>4. \A g \in Gauges : latest'[r].count[g] = IF g = v.type_instance THEN v.values[1] ELSE before.count[g]
  BY <1>2 DEF Received
<1>5. \A g \in Gauges : before.count[g] = IF r \in DOMAIN latest THEN latest[r].count[g] ELSE None
  OBVIOUS
<1>6. ASSUME v.plugin_instance # "host"
      PROVE  /\ DOMAIN hostprogs' = DOMAIN hostprogs \cup {r}
             /\ hostprogs'[r] = Touch(hp, v)
             /\ \A k \in DOMAIN hostprogs : k # r => hostprogs'[k] = hostprogs[k]
  <2>1. hostprogs' = PutRow(hostprogs, r, v)
    BY <1>3, <1>6
  <2>2. hp = IF r \in DOMAIN hostprogs THEN hostprogs[r] ELSE NewHostProg
    OBVIOUS
  <2> HIDE DEF r, hp
  <2> QED BY <2>1, <2>2 DEF PutRow
<1> HIDE DEF before, r, hp
<1>7. \A g \in Gauges :
        latest'[r].count[g] = IF g = v.type_instance THEN v.values[1]
                              ELSE IF r \in DOMAIN latest THEN latest[r].count[g] ELSE None
  BY <1>4, <1>5
<1> QED BY <1>1, <1>3, <1>6, <1>7 DEF v, r, hp

\* A row has the count of the datagram, and its time, if it has one.
LEMMA TouchShows ==
  ASSUME NEW hp, RowOK(hp), NEW v
  PROVE  /\ \A g \in Gauges : Touch(hp, v).count[g] = IF g = v.type_instance THEN v.values[1] ELSE hp.count[g]
         /\ \/ Touch(hp, v).last_time = hp.last_time /\ Touch(hp, v).interval = hp.interval
            \/ Touch(hp, v).last_time = v.time /\ Touch(hp, v).interval = v.interval
         /\ v.type_instance \in Gauges => Touch(hp, v).last_time = v.time /\ Touch(hp, v).interval = v.interval
<1> DEFINE up == Updated(hp, v)
           new == [up EXCEPT !.interval = v.interval, !.last_time = v.time]
<1>0. DOMAIN hp = RowFields /\ hp.count \in [Gauges -> Counts \cup {0, None}]
  BY DEF RowOK
<1>1. /\ \A g \in Gauges : up.count[g] = IF g = v.type_instance THEN v.values[1] ELSE hp.count[g]
      /\ DOMAIN up = RowFields /\ up.last_time = hp.last_time /\ up.interval = hp.interval
  <2>1. CASE v.type_instance \in Gauges
    <3>1. up = UpdateGauge(hp, v)
      BY <2>1 DEF Updated, Gauges
    <3>3. /\ Keeps(hp, UpdateGauge(hp, v), RowFields \ {"count", "max"})
          /\ UpdateGauge(hp, v).count = [hp.count EXCEPT ![v.type_instance] = v.values[1]]
      BY <1>0, GaugeIs
    <3>2. /\ Keeps(hp, up, RowFields \ {"count", "max"})
          /\ up.count = [hp.count EXCEPT ![v.type_instance] = v.values[1]]
      BY <3>1, <3>3, Zenon
    <3> HIDE DEF up
    <3> QED BY <1>0, <3>2 DEF Keeps, RowFields
  <2>2. CASE v.type_instance = "connects"
    <3>1. up = UpdateTotalConnects(hp, v) /\ v.type_instance \notin Gauges
      BY <2>2 DEF Updated, Gauges
    <3>2. Keeps(hp, up, RowFields \ {"total_connects", "interval_connects"})
      BY <1>0, <3>1, ConnectsIs
    <3> HIDE DEF up
    <3> QED BY <1>0, <3>1, <3>2 DEF Keeps, RowFields
  <2>3. CASE v.type_instance = "checkouts"
    <3>1. up = UpdateTotalCheckouts(hp, v) /\ v.type_instance \notin Gauges
      BY <2>3 DEF Updated, Gauges
    <3>2. Keeps(hp, up, {"last_time", "interval", "count", "max"})
      BY <1>0, <3>1, CheckoutsIs
    <3> HIDE DEF up
    <3> QED BY <1>0, <3>1, <3>2 DEF Keeps, RowFields
  <2>4. CASE v.type_instance \notin Gauges \cup {"connects", "checkouts"}
    <3>1. up = hp /\ v.type_instance \notin Gauges
      BY <2>4 DEF Updated
    <3> QED BY <1>0, <3>1
  <2> QED BY <2>1, <2>2, <2>3, <2>4
<1> HIDE DEF up
<1>2. /\ \A g \in Gauges : new.count[g] = IF g = v.type_instance THEN v.values[1] ELSE hp.count[g]
      /\ new.last_time = v.time /\ new.interval = v.interval
  BY <1>1 DEF RowFields
<1>3. Touch(hp, v) = IF v.type_instance \in Updates /\ ~Fails(hp, v) THEN new ELSE up
  BY DEF Touch, up
<1>4. v.type_instance \in Gauges => v.type_instance \in Updates /\ ~Fails(hp, v)
  BY DEF Updates, Fails, Gauges
<1> HIDE DEF new
<1> QED BY <1>1, <1>2, <1>3, <1>4

LEMMA KilledIs ==
  ASSUME NEW hp, RowOK(hp)
  PROVE  \A g \in Gauges : KillProcesses(hp).count[g] = 0
BY DEF KillProcesses, RowOK, RowFields

LEMMA PaceInit == StatInit => PaceInv
<1> SUFFICES ASSUME StatInit PROVE PaceInv
  OBVIOUS
<1>1. /\ lastSent = [h \in Host |-> 0] /\ lost = [h \in Host |-> {}] /\ network = {}
      /\ DOMAIN hostprogs = {} /\ DOMAIN latest = {} /\ now = Start
  BY DEF StatInit
<1>2. now \in Nat
  BY <1>1, StatAssumption
<1> QED BY <1>1, <1>2, FS_EmptySet DEF PaceInv

\* Where a datagram is from: a host, and a metric of it.
LEMMA FromHost ==
  ASSUME StatInv, NEW m \in network
  PROVE  /\ Unpack(m.datagram).host \in Host
         /\ <<Unpack(m.datagram).plugin_instance, Unpack(m.datagram).type_instance>> \in metrics
         /\ Unpack(m.datagram).plugin_instance # None
         /\ Unpack(m.datagram).type_instance \in Gauges => Unpack(m.datagram).values[1] \in Counts
         /\ Unpack(m.datagram).time = Whole(m.sent) /\ Unpack(m.datagram).interval = Whole(Interval)
<1>1. ValueOK(Unpack(m.datagram), m.sent) /\ metrics \in Metrics
  BY DEF StatInv, SourceInv
<1> DEFINE v == Unpack(m.datagram)
<1> HIDE DEF v
<1>2. ValueOK(v, m.sent)
  BY <1>1 DEF v
<1>3. <<v.plugin_instance, v.type_instance>> \in UNION Metrics
  BY <1>1, <1>2 DEF ValueOK
<1>4. v.plugin_instance \in STRING
  BY <1>3, NameAssumption
<1> QED BY <1>2, <1>4, NameAssumption DEF ValueOK, v

LEMMA PaceKeeps == StatInv /\ PaceInv /\ [StatNext]_statVars => PaceInv'
<1> SUFFICES ASSUME StatInv, PaceInv, [StatNext]_statVars PROVE PaceInv'
  OBVIOUS
<1>0. /\ now \in Nat /\ now > 0 /\ MaxGap \in Nat
      /\ \A h \in Host : lastSent[h] \in Nat /\ lastSent[h] <= now
      /\ \A m \in network : m.sent \in Nat /\ m.sent <= now
      /\ \A r \in DOMAIN latest : latest[r].sent \in Nat
  BY StatAssumption DEF StatInv, SourceInv, TableInv, PaceInv
<1>1. ASSUME UNCHANGED <<metrics, lastSent, network, lost, latest>>, now' \in Nat, now' >= now,
             \A h \in Host : lastSent[h] > 0 => now' - lastSent[h] <= MaxGap,
             DOMAIN hostprogs' \subseteq DOMAIN hostprogs
      PROVE  PaceInv'
  <2>1. IsFiniteSet(DOMAIN hostprogs')
    BY <1>1, FS_Subset DEF PaceInv
  <2>2. \A h \in Host : lastSent[h] <= now'
    BY <1>0, <1>1
  <2> QED BY <1>1, <2>1, <2>2 DEF PaceInv
<1>2. CASE UNCHANGED statVars
  <2>1. \A h \in Host : lastSent[h] > 0 => now - lastSent[h] <= MaxGap
    BY DEF PaceInv
  <2> QED BY <1>0, <1>1, <1>2, <2>1 DEF statVars, sourceVars, tableVars
<1>3. CASE Tick
  <2>1. /\ UNCHANGED <<metrics, lastSent, network, lost, latest, hostprogs>> /\ now' = now + 1
        /\ \A h \in Host : ~(lastSent[h] > 0 /\ now - lastSent[h] >= MaxGap)
    BY <1>3 DEF Tick, sourceVars, tableVars, Overdue
  <2>2. now' \in Nat /\ now' >= now /\ \A h \in Host : lastSent[h] > 0 => now' - lastSent[h] <= MaxGap
    BY <1>0, <2>1
  <2> QED BY <1>1, <2>1, <2>2
<1>4. CASE ProcessHostprogs
  <2>1. UNCHANGED <<metrics, lastSent, network, lost, latest, now>> /\ DOMAIN hostprogs' \subseteq DOMAIN hostprogs
    BY <1>4, SweptIs DEF ProcessHostprogs, sourceVars
  <2>2. \A h \in Host : lastSent[h] > 0 => now - lastSent[h] <= MaxGap
    BY DEF PaceInv
  <2> QED BY <1>0, <1>1, <2>1, <2>2
<1>5. ASSUME NEW h \in Host, Report(h) PROVE PaceInv'
  <2>1. /\ UNCHANGED <<metrics, now, hostprogs, latest>> /\ lastSent' = [lastSent EXCEPT ![h] = now]
    BY <1>5, ReportIs
  <2>2. PICK sum \in 0..MaxTotal, count \in Counts, arriving \in SUBSET metrics : Sends(h, sum, count, arriving)
    BY <1>5, ReportIs
  <2>3. lastSent' \in [Host -> Nat] /\ lost' \in [Host -> SUBSET metrics]
    BY <1>0, <2>1, <2>2 DEF PaceInv, Sends
  <2>4. /\ lastSent'[h] = now
        /\ \A k \in Host : lastSent[k] <= lastSent'[k] /\ (k # h => lastSent'[k] = lastSent[k])
    BY <1>0, <2>1 DEF PaceInv
  <2>5. \A k \in Host : lastSent'[k] <= now /\ (lastSent'[k] > 0 => now - lastSent'[k] <= MaxGap)
    <3> SUFFICES ASSUME NEW k \in Host PROVE lastSent'[k] <= now /\ (lastSent'[k] > 0 => now - lastSent'[k] <= MaxGap)
      OBVIOUS
    <3>1. CASE k = h
      BY <1>0, <2>4, <3>1
    <3>2. CASE k # h
      BY <2>4, <3>2 DEF PaceInv
    <3> QED BY <3>1, <3>2
  <2>6. ASSUME NEW m \in network' PROVE m.sent > 0 /\ m.sent <= lastSent'[Unpack(m.datagram).host]
    <3>1. CASE m \in network
      <4>1. m.sent > 0 /\ m.sent <= lastSent[Unpack(m.datagram).host] /\ Unpack(m.datagram).host \in Host
        BY <3>1, FromHost DEF PaceInv
      <4>2. m.sent \in Nat /\ lastSent[Unpack(m.datagram).host] \in Nat
            /\ lastSent'[Unpack(m.datagram).host] \in Nat
            /\ lastSent[Unpack(m.datagram).host] <= lastSent'[Unpack(m.datagram).host]
        BY <1>0, <2>3, <2>4, <3>1, <4>1
      <4> QED BY <4>1, <4>2
    <3>2. CASE m \notin network
      <4>1. m.sent = now /\ Unpack(m.datagram).host = h
        BY <2>2, <3>2 DEF Sends
      <4> QED BY <1>0, <2>4, <4>1
    <3> QED BY <3>1, <3>2
  <2>7. ASSUME NEW r \in DOMAIN latest PROVE latest[r].sent <= lastSent'[r[1]]
    <3>1. r[1] \in Host /\ latest[r].sent <= lastSent[r[1]]
      BY DEF PaceInv
    <3> QED BY <1>0, <2>3, <2>4, <3>1
  <2> QED BY <2>1, <2>3, <2>5, <2>6, <2>7 DEF PaceInv
<1>6. ASSUME NEW m \in network, Update(m) PROVE PaceInv'
  <2> DEFINE v == Unpack(m.datagram)
             r == <<v.host, v.plugin_instance>>
  <2>1. /\ v.host \in Host /\ <<v.plugin_instance, v.type_instance>> \in metrics /\ v.plugin_instance # None
        /\ v.type_instance \in Gauges => v.values[1] \in Counts
    BY FromHost
  <2>2. /\ UNCHANGED <<metrics, now, lastSent>> /\ network' = network \ {m}
        /\ DOMAIN latest' = DOMAIN latest \cup {r}
        /\ latest'[r].sent = Larger(IF r \in DOMAIN latest THEN latest[r].sent ELSE 0, m.sent)
        /\ \A k \in DOMAIN latest : k # r => latest'[k] = latest[k]
    BY <1>6, UpdateIs
  <2>3. /\ lost' = [lost EXCEPT ![v.host] =
                      IF m.sent = lastSent[v.host] THEN @ \ {<<v.plugin_instance, v.type_instance>>}
                      ELSE IF m.sent < latest'[r].sent THEN @ \cup Reports(r)
                      ELSE @]
        /\ \A g \in Gauges :
             latest'[r].count[g] = IF g = v.type_instance THEN v.values[1]
                                   ELSE IF r \in DOMAIN latest THEN latest[r].count[g] ELSE None
        /\ \/ DOMAIN hostprogs' = DOMAIN hostprogs
           \/ v.plugin_instance # "host" /\ DOMAIN hostprogs' = DOMAIN hostprogs \cup {r}
    BY <1>6, <2>1, UpdateShows
  <2> HIDE DEF v
  <2>4. lost' \in [Host -> SUBSET metrics]
    <3>1. lost \in [Host -> SUBSET metrics] /\ Reports(r) \subseteq metrics
      BY DEF PaceInv, Reports
    <3> QED BY <2>3, <3>1
  <2>5. IsFiniteSet(DOMAIN hostprogs') /\ IsFiniteSet(DOMAIN latest')
    <3>1. IsFiniteSet(DOMAIN hostprogs) /\ IsFiniteSet(DOMAIN latest)
      BY DEF PaceInv
    <3>2. IsFiniteSet(DOMAIN hostprogs \cup {r}) /\ IsFiniteSet(DOMAIN latest \cup {r})
      BY <3>1, FS_AddElement
    <3> HIDE DEF r
    <3> QED BY <2>2, <2>3, <3>1, <3>2
  <2>6. r[1] = v.host /\ r[2] = v.plugin_instance /\ r = <<r[1], r[2]>>
    OBVIOUS
  <2> HIDE DEF r
  <2>7. \A k \in DOMAIN hostprogs' : k[2] # "host" /\ k = <<k[1], k[2]>>
    BY <2>3, <2>6 DEF PaceInv
  <2>8. ASSUME NEW k \in DOMAIN latest'
        PROVE  /\ k[1] \in Host /\ k = <<k[1], k[2]>> /\ 0 < latest'[k].sent /\ latest'[k].sent <= lastSent[k[1]]
               /\ \A g \in Gauges : latest'[k].count[g] # None =>
                    <<k[2], g>> \in metrics /\ latest'[k].count[g] \in Counts
    <3>1. CASE k # r
      BY <2>2, <3>1 DEF PaceInv
    <3>2. CASE k = r
      <4>1. 0 < latest'[r].sent /\ latest'[r].sent <= lastSent[v.host]
        <5>1. 0 < m.sent /\ m.sent <= lastSent[v.host] /\ m.sent \in Nat
          BY <1>0 DEF PaceInv, v
        <5>2. r \in DOMAIN latest => latest[r].sent <= lastSent[v.host] /\ latest[r].sent \in Nat
          BY <1>0, <2>6 DEF PaceInv
        <5> QED BY <1>0, <2>1, <2>2, <5>1, <5>2 DEF Larger
      <4>2. ASSUME NEW g \in Gauges, latest'[r].count[g] # None
            PROVE  <<r[2], g>> \in metrics /\ latest'[r].count[g] \in Counts
        <5>1. CASE g = v.type_instance
          BY <2>1, <2>3, <2>6, <5>1
        <5>2. CASE g # v.type_instance
          BY <2>3, <4>2, <5>2 DEF PaceInv
        <5> QED BY <5>1, <5>2
      <4> QED BY <2>1, <2>6, <3>2, <4>1, <4>2
    <3> QED BY <3>1, <3>2
  <2>9. \A n \in network' : n.sent > 0 /\ n.sent <= lastSent[Unpack(n.datagram).host]
    BY <2>2 DEF PaceInv
  <2> QED BY <2>2, <2>4, <2>5, <2>7, <2>8, <2>9 DEF PaceInv
<1> QED BY <1>2, <1>3, <1>4, <1>5, <1>6 DEF StatNext

LEMMA RecentKeeps ==
  ASSUME SilentLate
  PROVE  StatInv /\ PaceInv /\ RecentInv /\ [StatNext]_statVars => RecentInv'
<1> SUFFICES ASSUME StatInv, PaceInv, RecentInv, [StatNext]_statVars PROVE RecentInv'
  OBVIOUS
<1>0. /\ now \in Nat /\ Interval \in Nat /\ MaxDelay \in Nat /\ MaxDelay <= 2 * Interval
      /\ \A m \in network : m.sent \in Nat /\ now - m.sent <= MaxDelay
      /\ \A r \in DOMAIN latest : latest[r].sent \in Nat
      /\ \A r \in DOMAIN hostprogs : r \in DOMAIN latest /\ RowOK(hostprogs[r])
  BY StatAssumption DEF StatInv, SourceInv, TableInv, SilentLate
<1> DEFINE slack == IF swept THEN 0 ELSE 1
           Recent(r, g) == \/ hostprogs[r].count[g] \in {None, 0}
                           \/ /\ hostprogs[r].count[g] = latest[r].count[g]
                              /\ latest[r].sent + 2 * Interval + slack >= now
<1>1. CASE UNCHANGED statVars
  BY <1>1 DEF statVars, tableVars, RecentInv
<1>2. CASE Tick
  <2>1. UNCHANGED <<hostprogs, latest>> /\ now' = now + 1 /\ swept = TRUE /\ swept' = FALSE
    BY <1>2 DEF Tick, tableVars, StatInv, SourceInv
  <2> SUFFICES ASSUME NEW r \in DOMAIN hostprogs, NEW g \in Gauges, hostprogs[r].count[g] \notin {None, 0}
               PROVE  hostprogs[r].count[g] = latest[r].count[g] /\ latest[r].sent + 2 * Interval + 1 >= now'
    BY <2>1 DEF RecentInv
  <2>2. hostprogs[r].count[g] = latest[r].count[g] /\ latest[r].sent + 2 * Interval + 0 >= now
    BY <2>1 DEF RecentInv
  <2>3. latest[r].sent \in Nat
    BY <1>0
  <2> QED BY <1>0, <2>1, <2>2, <2>3
<1>3. ASSUME NEW h \in Host, Report(h) PROVE RecentInv'
  <2>1. UNCHANGED <<now, swept, hostprogs, latest>>
    BY <1>3, ReportIs
  <2> QED BY <2>1 DEF RecentInv
<1>4. CASE ProcessHostprogs
  <2>1. UNCHANGED <<now, latest>> /\ swept' = TRUE /\ hostprogs' = Swept(hostprogs)
    BY <1>4 DEF ProcessHostprogs
  <2> SUFFICES ASSUME NEW r \in DOMAIN hostprogs', NEW g \in Gauges, hostprogs'[r].count[g] \notin {None, 0}
               PROVE  hostprogs'[r].count[g] = latest[r].count[g] /\ latest[r].sent + 2 * Interval + 0 >= now
    BY <2>1 DEF RecentInv
  <2>2. r \in DOMAIN hostprogs
    BY <2>1, SweptIs
  <2>3. ~(now - hostprogs[r].last_time > hostprogs[r].interval * 2)
    <3>1. ASSUME Age(hostprogs[r]) > hostprogs[r].interval * 2 PROVE FALSE
      <4>1. hostprogs'[r] = KillProcesses(hostprogs[r])
        BY <2>1, <3>1, SweptIs
      <4> QED BY <1>0, <2>2, <4>1, KilledIs
    <3> QED BY <3>1 DEF Age
  <2>4. hostprogs'[r] = hostprogs[r]
    BY <2>1, <2>3, SweptIs DEF Age
  <2>5. /\ hostprogs[r].last_time \in Nat /\ hostprogs[r].interval \in {0, Whole(Interval)}
        /\ hostprogs[r].last_time <= latest[r].sent /\ latest[r].sent \in Nat
    BY <1>0, <2>2 DEF StatInv, TableInv, RowOK
  <2>6. hostprogs[r].interval \in Nat /\ hostprogs[r].interval <= Interval
    BY <1>0, <2>5, WholeIs
  <2>7. latest[r].sent + 2 * Interval + 0 >= now
    BY <1>0, <2>3, <2>5, <2>6
  <2> QED BY <2>2, <2>4, <2>7 DEF RecentInv
<1>5. ASSUME NEW m \in network, Update(m) PROVE RecentInv'
  <2> DEFINE v == Unpack(m.datagram)
             k == <<v.host, v.plugin_instance>>
             hp == IF k \in DOMAIN hostprogs THEN hostprogs[k] ELSE NewHostProg
  <2>1. v.plugin_instance # None
    BY FromHost
  <2>2. /\ UNCHANGED <<now, swept>>
        /\ latest'[k].sent = Larger(IF k \in DOMAIN latest THEN latest[k].sent ELSE 0, m.sent)
        /\ \A x \in DOMAIN latest : x # k => latest'[x] = latest[x]
    BY <1>5, UpdateIs
  <2>3. /\ \A g \in Gauges :
             latest'[k].count[g] = IF g = v.type_instance THEN v.values[1]
                                   ELSE IF k \in DOMAIN latest THEN latest[k].count[g] ELSE None
        /\ v.plugin_instance = "host" => hostprogs' = hostprogs
        /\ v.plugin_instance # "host" =>
             /\ DOMAIN hostprogs' = DOMAIN hostprogs \cup {k}
             /\ hostprogs'[k] = Touch(hp, v)
             /\ \A x \in DOMAIN hostprogs : x # k => hostprogs'[x] = hostprogs[x]
    BY <1>5, <2>1, UpdateShows
  <2>4. \A r \in DOMAIN hostprogs : r[2] # "host"
    BY DEF PaceInv
  <2>5. k[2] = v.plugin_instance
    OBVIOUS
  <2>6. RowOK(hp) /\ \A g \in Gauges : hp.count[g] = IF k \in DOMAIN hostprogs THEN hostprogs[k].count[g] ELSE None
    <3>1. \A g \in Gauges : NewHostProg.count[g] = None
      BY DEF NewHostProg
    <3> HIDE DEF k
    <3> QED BY <1>0, <3>1, NewRowOK
  <2> HIDE DEF v, k, hp
  <2> SUFFICES ASSUME NEW r \in DOMAIN hostprogs', NEW g \in Gauges, hostprogs'[r].count[g] \notin {None, 0}
               PROVE  hostprogs'[r].count[g] = latest'[r].count[g] /\ latest'[r].sent + 2 * Interval + slack >= now
    BY <2>2 DEF RecentInv
  <2>7. CASE r # k
    <3>1. r \in DOMAIN hostprogs /\ hostprogs'[r] = hostprogs[r] /\ r \in DOMAIN latest /\ latest'[r] = latest[r]
      BY <1>0, <2>2, <2>3, <2>7
    <3> QED BY <3>1 DEF RecentInv
  <2>8. CASE r = k
    <3>1. v.plugin_instance # "host" /\ hostprogs'[r] = Touch(hp, v)
      BY <2>3, <2>4, <2>5, <2>8
    <3>2. hostprogs'[r].count[g] = IF g = v.type_instance THEN v.values[1] ELSE hp.count[g]
      BY <2>6, <3>1, TouchShows
    <3>3. latest'[r].sent \in Nat /\ latest'[r].sent >= m.sent
      BY <1>0, <2>2, <2>8 DEF Larger
    <3>4. latest'[r].sent + 2 * Interval >= now
      BY <1>0, <3>3
    <3>5. hostprogs'[r].count[g] = latest'[r].count[g]
      <4>1. CASE g = v.type_instance
        BY <2>3, <2>8, <3>2, <4>1
      <4>2. CASE g # v.type_instance
        <5>1. k \in DOMAIN hostprogs /\ hostprogs'[r].count[g] = hostprogs[k].count[g]
          BY <2>6, <3>2, <4>2
        <5>2. hostprogs[k].count[g] = latest[k].count[g] /\ k \in DOMAIN latest
          BY <1>0, <5>1 DEF RecentInv
        <5> QED BY <2>3, <2>8, <4>2, <5>1, <5>2
      <4> QED BY <4>1, <4>2
    <3>6. slack \in 0..1
      OBVIOUS
    <3> HIDE DEF slack
    <3> QED BY <1>0, <3>3, <3>4, <3>5, <3>6
  <2> QED BY <2>7, <2>8
<1> QED BY <1>1, <1>2, <1>3, <1>4, <1>5 DEF StatNext

-----------------------------------------------------------------------------
(* Chains of reports. *)

\* Some report of the chain arrives: those after it still make one.
LEMMA ChainMoves ==
  ASSUME NEW U, U \subseteq Nat, NEW s \in Nat, NEW u \in Nat, NEW last \in Nat, Chain(U, s, last),
         s <= u, u <= last, NEW V, V \subseteq U, U \subseteq V \cup {u}
  PROVE  Chain(V, u, last)
<1>0. MaxGap \in Nat
  BY StatAssumption
<1>1. u = last \/ (u < last /\ last \in V)
  BY DEF Chain
<1>2. ASSUME NEW w \in V, w > u
      PROVE  \E x \in V \cup {u} : u <= x /\ x < w /\ w - x <= MaxGap
  <2>1. w \in U /\ w \in Nat /\ w > s
    BY <1>2
  <2>2. PICK x \in U \cup {s} : s <= x /\ x < w /\ w - x <= MaxGap
    BY <2>1 DEF Chain
  <2>3. x \in Nat
    BY <2>2
  <2>4. CASE x <= u
    <3>1. u < w /\ w - u <= MaxGap
      BY <1>0, <1>2, <2>1, <2>2, <2>3, <2>4
    <3> QED BY <3>1
  <2>5. CASE x > u
    <3>1. x # s /\ x # u /\ u <= x
      BY <2>3, <2>5
    <3>2. x \in V
      BY <2>2, <3>1
    <3> QED BY <2>2, <3>1, <3>2
  <2> QED BY <2>3, <2>4, <2>5
<1> QED BY <1>1, <1>2 DEF Chain

\* Another report is made within MaxGap.
LEMMA ChainExtends ==
  ASSUME NEW U, U \subseteq Nat, NEW s \in Nat, NEW last \in Nat, Chain(U, s, last),
         NEW n \in Nat, last <= n, n - last <= MaxGap
  PROVE  Chain(U \cup {n}, s, n)
<1>0. MaxGap \in Nat
  BY StatAssumption
<1>1. s <= last
  BY DEF Chain
<1>2. s = n \/ s < n
  BY <1>1
<1>3. ASSUME NEW w \in U \cup {n}, w > s
      PROVE  \E x \in (U \cup {n}) \cup {s} : s <= x /\ x < w /\ w - x <= MaxGap
  <2>1. CASE w \in U
    BY <1>3, <2>1 DEF Chain
  <2>2. CASE w = n /\ last < n
    <3>1. last \in U \cup {s}
      BY DEF Chain
    <3> QED BY <1>1, <2>2, <3>1
  <2>3. CASE w = n /\ last = n
    <3>1. n \in U
      BY <1>3, <2>3 DEF Chain
    <3> QED BY <2>1, <2>3, <3>1
  <2> QED BY <2>1, <2>2, <2>3
<1> QED BY <1>2, <1>3 DEF Chain

\* Where a chain begins was not long ago: the next report of it is under way.
LEMMA ChainRecent ==
  ASSUME NEW U, U \subseteq Nat, NEW s \in Nat, NEW last \in Nat, Chain(U, s, last), NEW n \in Nat,
         \A u \in U : n - u <= MaxDelay, n - last <= MaxGap
  PROVE  n - s <= MaxGap + MaxDelay
<1>0. MaxGap \in Nat /\ MaxDelay \in Nat
  BY StatAssumption
<1>1. CASE s = last
  BY <1>0, <1>1
<1>2. CASE s # last
  <2> DEFINE T == {u \in U : u > s}
  <2>1. T \subseteq Nat /\ last \in T
    BY <1>2 DEF Chain
  <2>2. PICK u \in T : \A w \in T : u <= w
    <3> HIDE DEF T
    <3> QED BY <2>1, LeastNatural
  <2>3. PICK x \in U \cup {s} : s <= x /\ x < u /\ u - x <= MaxGap
    BY <2>2 DEF Chain
  <2>4. x \in Nat /\ u \in Nat /\ u \in U
    BY <2>2, <2>3
  <2>5. x \notin T
    BY <2>2, <2>3, <2>4
  <2>6. x = s
    BY <2>3, <2>4, <2>5
  <2> HIDE DEF T
  <2>7. n - u <= MaxDelay
    BY <2>4
  <2> QED BY <1>0, <2>3, <2>4, <2>6, <2>7
<1> QED BY <1>1, <1>2

LEMMA UnderWayIs ==
  ASSUME StatInv, PaceInv, NEW h \in Host, NEW p, NEW g
  PROVE  /\ UnderWay(<<h, p>>, g) \subseteq Nat
         /\ \A u \in UnderWay(<<h, p>>, g) : 0 < u /\ u <= lastSent[h] /\ now - u <= MaxDelay
  <1> SUFFICES ASSUME NEW u \in UnderWay(<<h, p>>, g)
               PROVE  u \in Nat /\ 0 < u /\ u <= lastSent[h] /\ now - u <= MaxDelay
    OBVIOUS
  <1>1. PICK m \in network : u = m.sent /\ Unpack(m.datagram).host = h
    BY DEF UnderWay
  <1> QED BY <1>1 DEF StatInv, SourceInv, PaceInv

LEMMA ShownInit == StatInit => ShownInv
<1> SUFFICES ASSUME StatInit, NEW h \in Host, NEW x \in metrics PROVE ShownOf(<<h, x[1]>>, x[2])
  BY DEF ShownInv
<1>1. DOMAIN latest = {} /\ lastSent[h] = 0
  BY DEF StatInit
<1>2. <<h, x[1]>>[1] = h
  OBVIOUS
<1> QED BY <1>1, <1>2 DEF ShownOf, Heard

\* The sweep spares a row that is shown.
LEMMA SweepShows ==
  ASSUME ShownInTime, StatInv, PaceInv, ProcessHostprogs,
         NEW h \in Host, NEW p, NEW g, ShownOf(<<h, p>>, g)
  PROVE  ShownOf(<<h, p>>, g)'
<1> DEFINE r == <<h, p>>
<1>0. r[1] = h
  OBVIOUS
<1> HIDE DEF r
<1>1. UNCHANGED <<now, latest, lastSent, network>> /\ hostprogs' = Swept(hostprogs)
  BY DEF ProcessHostprogs, sourceVars
<1>2. UnderWay(r, g)' = UnderWay(r, g) /\ (Heard(r, g)' <=> Heard(r, g))
  BY <1>1 DEF UnderWay, Heard
<1>3. CASE ~Heard(r, g)
  BY <1>1, <1>2, <1>3 DEF ShownOf, r
<1>4. CASE Heard(r, g)
  <2>1. /\ r \in DOMAIN hostprogs
        /\ hostprogs[r].count[g] = latest[r].count[g] /\ hostprogs[r].interval = Whole(Interval)
    BY <1>4 DEF ShownOf, r
  <2>2. PICK s \in 0..latest[r].sent : Whole(s) <= hostprogs[r].last_time /\ Chain(UnderWay(r, g), s, lastSent[h])
    BY <1>0, <1>4 DEF ShownOf, r
  <2>3. /\ now \in Nat /\ Interval \in Nat /\ MaxGap \in Nat /\ MaxDelay \in Nat
        /\ MaxGap + MaxDelay + 1 <= 2 * Whole(Interval)
    BY StatAssumption DEF StatInv, SourceInv, ShownInTime
  <2>4. /\ latest[r].sent \in Nat /\ 0 < latest[r].sent /\ latest[r].sent <= lastSent[h]
        /\ lastSent[h] \in Nat /\ hostprogs[r].last_time \in Nat
    BY <1>0, <1>4, <2>1 DEF Heard, PaceInv, StatInv, TableInv, RowOK
  <2>5. now - lastSent[h] <= MaxGap
    BY <2>4 DEF PaceInv
  <2>6. s \in Nat /\ Whole(s) \in Nat /\ s - 1 <= Whole(s) /\ Whole(Interval) \in Nat
    BY <2>3, <2>4, WholeIs
  <2>7. now - s <= MaxGap + MaxDelay
    <3>1. UnderWay(r, g) \subseteq Nat /\ \A u \in UnderWay(r, g) : now - u <= MaxDelay
      BY UnderWayIs DEF r
    <3> QED BY <2>2, <2>3, <2>4, <2>5, <2>6, <3>1, ChainRecent
  <2>8. now - hostprogs[r].last_time <= hostprogs[r].interval * 2
    BY <2>1, <2>2, <2>3, <2>4, <2>6, <2>7
  <2>9. now - hostprogs[r].last_time <= hostprogs[r].interval * 5
    BY <2>1, <2>3, <2>4, <2>6, <2>8
  <2>10. r \in DOMAIN hostprogs' /\ ~(Age(hostprogs[r]) > hostprogs[r].interval * 2)
    <3>1. r \in DOMAIN Swept(hostprogs)
      BY <2>1, <2>9, SweptIs DEF Age
    <3>2. ~(now - hostprogs[r].last_time > hostprogs[r].interval * 2)
      BY <2>1, <2>3, <2>4, <2>6, <2>8
    <3> QED BY <1>1, <3>1, <3>2 DEF Age
  <2>11. hostprogs'[r] = hostprogs[r]
    BY <1>1, <2>10, SweptIs
  <2>12. /\ r \in DOMAIN hostprogs' /\ Heard(r, g)'
         /\ hostprogs'[r].count[g] = latest'[r].count[g] /\ hostprogs'[r].interval = Whole(Interval)
    BY <1>1, <1>2, <1>4, <2>1, <2>10, <2>11
  <2>13. s \in 0..latest'[r].sent /\ Whole(s) <= hostprogs'[r].last_time
    BY <1>1, <2>2, <2>11
  <2>14. Chain(UnderWay(r, g)', s, lastSent'[h])
    BY <1>1, <1>2, <2>2
  <2> QED BY <1>0, <2>12, <2>13, <2>14 DEF ShownOf, r
<1> QED BY <1>3, <1>4 DEF r

\* A report with a metric extends its chain.
LEMMA ReportShows ==
  ASSUME StatInv, PaceInv, ShownInv, NEW k \in Host, Report(k),
         NEW h \in Host, NEW x \in metrics, x[1] # "host", x[2] \in Gauges, x \notin lost'[h]
  PROVE  ShownOf(<<h, x[1]>>, x[2])'
<1> DEFINE r == <<h, x[1]>>
           g == x[2]
           U == UnderWay(r, g)
           last == lastSent[h]
<1>0. r[1] = h /\ r[2] = x[1]
  OBVIOUS
<1>1. UNCHANGED <<metrics, now, hostprogs, latest>> /\ lastSent' = [lastSent EXCEPT ![k] = now]
  BY ReportIs
<1>2. PICK sum \in 0..MaxTotal, count \in Counts, arriving \in SUBSET metrics : Sends(k, sum, count, arriving)
  BY ReportIs
<1>3. x \notin lost[h] /\ (h = k => x \in arriving)
  BY <1>2 DEF Sends, PaceInv
<1>4. ShownOf(r, g)
  BY <1>3 DEF ShownInv
<1>5. lastSent'[h] = IF h = k THEN now ELSE last
  BY <1>1 DEF PaceInv
<1>6. U' = IF h = k THEN U \cup {now} ELSE U
  <2>1. \A m \in network' : m \notin network => m.sent = now /\ Unpack(m.datagram).host = k
    BY <1>2 DEF Sends
  <2>2. network \subseteq network'
    BY <1>2 DEF Sends
  <2>3. CASE h # k
    BY <1>0, <2>1, <2>2, <2>3 DEF UnderWay
  <2>4. CASE h = k
    <3>1. PICK m \in network' :
            /\ m.sent = now /\ Unpack(m.datagram).host = h
            /\ Unpack(m.datagram).plugin_instance = x[1] /\ Unpack(m.datagram).type_instance = x[2]
      BY <1>2, <1>3, <2>4 DEF Sends
    <3>2. now \in U'
      BY <1>0, <3>1 DEF UnderWay
    <3>3. U \subseteq U'
      BY <2>2 DEF UnderWay
    <3>4. \A u \in U' : u \in U \/ u = now
      BY <2>1 DEF UnderWay
    <3> HIDE DEF U
    <3> QED BY <2>4, <3>2, <3>3, <3>4
  <2> QED BY <2>3, <2>4
<1>7. Heard(r, g)' <=> Heard(r, g)
  BY <1>1 DEF Heard
<1>8. /\ U \subseteq Nat /\ \A u \in U : 0 < u /\ u <= last
      /\ last \in Nat /\ now \in Nat /\ last <= now /\ (last > 0 => now - last <= MaxGap)
  BY UnderWayIs DEF StatInv, SourceInv, PaceInv
<1> HIDE DEF U, last
<1>9. ASSUME last > 0, NEW s \in Nat, Chain(U, s, last) PROVE Chain(U', s, lastSent'[h])
  <2>1. Chain(U \cup {now}, s, now)
    BY <1>8, <1>9, ChainExtends
  <2> QED BY <1>5, <1>6, <1>9, <2>1
<1>10. CASE Heard(r, g)
  <2>1. PICK s \in 0..latest[r].sent : Whole(s) <= hostprogs[r].last_time /\ Chain(U, s, last)
    BY <1>0, <1>4, <1>10 DEF ShownOf, U, last
  <2>2. latest[r].sent \in Nat /\ last > 0
    BY <1>0, <1>8, <1>10 DEF Heard, PaceInv, StatInv, TableInv, last
  <2>3. Chain(U', s, lastSent'[h])
    BY <1>9, <2>1, <2>2
  <2>4. /\ r \in DOMAIN hostprogs' /\ Heard(r, g)'
        /\ hostprogs'[r].count[g] = latest'[r].count[g] /\ hostprogs'[r].interval = Whole(Interval)
    BY <1>1, <1>4, <1>7, <1>10 DEF ShownOf
  <2>5. s \in 0..latest'[r].sent /\ Whole(s) <= hostprogs'[r].last_time
    BY <1>1, <2>1
  <2> HIDE DEF r, g
  <2> QED BY <1>0, <2>3, <2>4, <2>5 DEF ShownOf, U, r, g
<1>11. CASE ~Heard(r, g)
  <2>1. CASE last > 0
    <3>1. PICK s \in U : (\A u \in U : s <= u) /\ Chain(U, s, last)
      BY <1>0, <1>4, <1>11, <2>1 DEF ShownOf, U, last
    <3>2. Chain(U', s, lastSent'[h])
      BY <1>8, <1>9, <2>1, <3>1
    <3>3. s \in U' /\ \A u \in U' : s <= u
      BY <1>6, <1>8, <3>1
    <3> HIDE DEF r, g
    <3> QED BY <1>0, <1>7, <1>11, <3>2, <3>3 DEF ShownOf, U, r, g
  <2>2. CASE ~(last > 0) /\ h = k
    <3>1. U' = {now}
      BY <1>6, <1>8, <2>2
    <3>2. Chain(U', now, lastSent'[h])
      BY <1>5, <1>8, <2>2, <3>1 DEF Chain
    <3>3. now \in U' /\ \A u \in U' : now <= u
      BY <1>8, <3>1
    <3> HIDE DEF r, g
    <3> QED BY <1>0, <1>7, <1>11, <3>2, <3>3 DEF ShownOf, U, r, g
  <2>3. CASE ~(last > 0) /\ h # k
    <3>1. ~(lastSent'[h] > 0)
      BY <1>5, <2>3
    <3> HIDE DEF r, g
    <3> QED BY <1>0, <1>7, <1>11, <3>1 DEF ShownOf, r, g
  <2> QED BY <2>1, <2>2, <2>3
<1> QED BY <1>10, <1>11

\* What is received is shown, unless it was overtaken, which counts as lost.
LEMMA ReceivedShows ==
  ASSUME StatInv, PaceInv, ShownInv, PaceInv', NEW m \in network, Update(m),
         NEW h \in Host, NEW x \in metrics, x[1] # "host", x[2] \in Gauges, x \notin lost'[h]
  PROVE  ShownOf(<<h, x[1]>>, x[2])'
<1> DEFINE v == Unpack(m.datagram)
           k == <<v.host, v.plugin_instance>>
           hp == IF k \in DOMAIN hostprogs THEN hostprogs[k] ELSE NewHostProg
           r == <<h, x[1]>>
           g == x[2]
           U == UnderWay(r, g)
           last == lastSent[h]
<1>0. r[1] = h /\ r[2] = x[1] /\ k[1] = v.host /\ k[2] = v.plugin_instance /\ x = <<x[1], x[2]>>
      /\ (k = r <=> v.host = h /\ v.plugin_instance = x[1])
  <2>1. x \in UNION Metrics
    BY DEF StatInv, SourceInv
  <2>2. x = <<x[1], x[2]>>
    BY <2>1, NameAssumption
  <2> QED BY <2>2
<1>1. /\ v.host \in Host /\ <<v.plugin_instance, v.type_instance>> \in metrics /\ v.plugin_instance # None
      /\ v.type_instance \in Gauges => v.values[1] \in Counts
      /\ v.time = Whole(m.sent) /\ v.interval = Whole(Interval)
  BY FromHost
<1>2. /\ UNCHANGED <<metrics, now, lastSent>> /\ network' = network \ {m}
      /\ DOMAIN latest' = DOMAIN latest \cup {k}
      /\ latest'[k].sent = Larger(IF k \in DOMAIN latest THEN latest[k].sent ELSE 0, m.sent)
      /\ \A y \in DOMAIN latest : y # k => latest'[y] = latest[y]
  BY UpdateIs
<1>3. /\ lost' = [lost EXCEPT ![v.host] =
                    IF m.sent = lastSent[v.host] THEN @ \ {<<v.plugin_instance, v.type_instance>>}
                    ELSE IF m.sent < latest'[k].sent THEN @ \cup Reports(k)
                    ELSE @]
      /\ \A e \in Gauges :
           latest'[k].count[e] = IF e = v.type_instance THEN v.values[1]
                                 ELSE IF k \in DOMAIN latest THEN latest[k].count[e] ELSE None
      /\ v.plugin_instance = "host" => hostprogs' = hostprogs
      /\ v.plugin_instance # "host" =>
           /\ DOMAIN hostprogs' = DOMAIN hostprogs \cup {k}
           /\ hostprogs'[k] = Touch(hp, v)
           /\ \A y \in DOMAIN hostprogs : y # k => hostprogs'[y] = hostprogs[y]
  BY <1>1, UpdateShows
<1>4. /\ U \subseteq Nat /\ \A u \in U : 0 < u /\ u <= last
      /\ last \in Nat /\ m.sent \in Nat /\ 0 < m.sent /\ m.sent <= lastSent[v.host]
      /\ \A y \in DOMAIN latest : latest[y].sent \in Nat
  BY UnderWayIs DEF StatInv, SourceInv, TableInv, PaceInv
<1>5. RowOK(hp) /\ (k \in DOMAIN hostprogs => hp = hostprogs[k])
  BY NewRowOK DEF StatInv, TableInv
<1>6. lost \in [Host -> SUBSET metrics] /\ Reports(k) = {metric \in metrics : metric[1] = v.plugin_instance}
  BY <1>0 DEF PaceInv, Reports
<1>7. U' \subseteq U /\ U \subseteq U' \cup {m.sent}
      /\ (k # r \/ v.type_instance # g => U' = U)
      /\ (k = r /\ v.type_instance = g => m.sent \in U)
  <2>1. U' = {n.sent : n \in {d \in network \ {m} :
               /\ Unpack(d.datagram).host = h /\ Unpack(d.datagram).plugin_instance = x[1]
               /\ Unpack(d.datagram).type_instance = g}}
    BY <1>0, <1>2 DEF UnderWay
  <2>2. U = {n.sent : n \in {d \in network :
               /\ Unpack(d.datagram).host = h /\ Unpack(d.datagram).plugin_instance = x[1]
               /\ Unpack(d.datagram).type_instance = g}}
    BY <1>0 DEF UnderWay
  <2>3. k = r /\ v.type_instance = g <=>
          Unpack(m.datagram).host = h /\ Unpack(m.datagram).plugin_instance = x[1] /\ Unpack(m.datagram).type_instance = g
    BY <1>0
  <2> HIDE DEF U, v, k, r, g
  <2> QED BY <2>1, <2>2, <2>3
<1> HIDE DEF v, k, hp, r, g, U, last
<1>8. CASE k # r
  <2>1. x \notin lost[h]
    BY <1>0, <1>1, <1>3, <1>6, <1>8 DEF k, r
  <2>2. ShownOf(r, g)
    BY <2>1 DEF ShownInv, r, g
  <2>3. /\ (r \in DOMAIN hostprogs' <=> r \in DOMAIN hostprogs)
        /\ (r \in DOMAIN hostprogs => hostprogs'[r] = hostprogs[r])
    BY <1>3, <1>8
  <2>4. /\ (r \in DOMAIN latest' <=> r \in DOMAIN latest)
        /\ (r \in DOMAIN latest => latest'[r] = latest[r])
    BY <1>2, <1>8
  <2>5. U' = U /\ lastSent' = lastSent
    BY <1>2, <1>7, <1>8
  <2>6. Heard(r, g)' <=> Heard(r, g)
    BY <2>4 DEF Heard
  <2>7. CASE Heard(r, g)
    <3>1. latest'[r] = latest[r]
      BY <2>4, <2>7 DEF Heard
    <3> QED BY <2>2, <2>3, <2>5, <2>6, <2>7, <3>1 DEF ShownOf, U, r, g
  <2>8. CASE ~Heard(r, g)
    BY <2>2, <2>5, <2>6, <2>8 DEF ShownOf, U, r, g
  <2> QED BY <2>7, <2>8 DEF r, g
<1>9. ASSUME k = r
      PROVE  /\ v.host = h /\ v.plugin_instance = x[1] /\ v.plugin_instance # "host"
             /\ r \in DOMAIN hostprogs' /\ hostprogs'[r] = Touch(hp, v) /\ r \in DOMAIN latest'
             /\ latest'[r].sent \in Nat /\ m.sent <= latest'[r].sent /\ latest'[r].sent <= last
             /\ (r \in DOMAIN latest => latest[r].sent <= latest'[r].sent)
             /\ m.sent # last => x \notin lost[h] /\ latest'[r].sent <= m.sent
             /\ v.type_instance # g => x \notin lost[h] /\ latest'[r].sent <= m.sent
  <2>1. v.host = h /\ v.plugin_instance = x[1] /\ v.plugin_instance # "host"
    BY <1>0, <1>9
  <2>2. r \in DOMAIN hostprogs' /\ hostprogs'[r] = Touch(hp, v) /\ r \in DOMAIN latest'
    BY <1>2, <1>3, <1>9, <2>1
  <2>3. latest'[r].sent \in Nat /\ m.sent <= latest'[r].sent /\ (r \in DOMAIN latest => latest[r].sent <= latest'[r].sent)
    BY <1>2, <1>4, <1>9 DEF Larger
  <2>4. latest'[r].sent <= last
    <3>1. latest'[r].sent <= lastSent'[r[1]]
      BY <2>2 DEF PaceInv
    <3> QED BY <1>0, <1>2, <3>1 DEF last
  <2>5. lost'[h] = IF m.sent = last THEN lost[h] \ {<<v.plugin_instance, v.type_instance>>}
                   ELSE IF m.sent < latest'[r].sent THEN lost[h] \cup Reports(k)
                   ELSE lost[h]
    BY <1>3, <1>6, <1>9, <2>1 DEF last
  <2>6. x \in Reports(k)
    BY <1>6, <2>1
  <2>7. m.sent # last => x \notin lost[h] /\ latest'[r].sent <= m.sent
    BY <1>4, <2>3, <2>5, <2>6
  <2>8. v.type_instance # g => x \notin lost[h] /\ latest'[r].sent <= m.sent
    <3>1. v.type_instance # g => <<v.plugin_instance, v.type_instance>> # x
      BY <1>0 DEF g
    <3>2. CASE m.sent = last
      BY <1>4, <2>3, <2>4, <2>5, <3>1, <3>2
    <3>3. CASE m.sent # last
      BY <2>7, <3>3
    <3> QED BY <3>2, <3>3
  <2> QED BY <2>1, <2>2, <2>3, <2>4, <2>7, <2>8
<1>10. CASE k = r /\ v.type_instance # g
  <2>1. x \notin lost[h] /\ latest'[r].sent <= m.sent /\ latest'[r].sent \in Nat /\ hostprogs'[r] = Touch(hp, v)
        /\ r \in DOMAIN hostprogs' /\ r \in DOMAIN latest'
        /\ (r \in DOMAIN latest => latest[r].sent <= latest'[r].sent)
    BY <1>9, <1>10
  <2>2. ShownOf(r, g)
    BY <2>1 DEF ShownInv, r, g
  <2>3. U' = U /\ lastSent' = lastSent
    BY <1>2, <1>7, <1>10
  <2>4. g \in Gauges /\ latest'[r].count[g] = IF r \in DOMAIN latest THEN latest[r].count[g] ELSE None
    <3>1. g \in Gauges
      BY DEF g
    <3> QED BY <1>3, <1>10, <3>1
  <2>5. Heard(r, g)' <=> Heard(r, g)
    BY <2>1, <2>4 DEF Heard
  <2>6. CASE Heard(r, g)
    <3>1. /\ r \in DOMAIN hostprogs /\ hostprogs[r].count[g] = latest[r].count[g]
          /\ hostprogs[r].interval = Whole(Interval)
      BY <2>2, <2>6 DEF ShownOf
    <3>2. PICK s \in 0..latest[r].sent : Whole(s) <= hostprogs[r].last_time /\ Chain(U, s, last)
      BY <1>0, <2>2, <2>6 DEF ShownOf, U, last
    <3>3. hp = hostprogs[r] /\ r \in DOMAIN latest /\ latest[r].sent \in Nat
      BY <1>4, <1>5, <1>10, <2>6, <3>1 DEF Heard
    <3>4. s \in 0..latest'[r].sent /\ s \in Nat /\ s <= m.sent
      BY <1>4, <2>1, <3>3
    <3>5. hostprogs'[r].count[g] = latest'[r].count[g]
      BY <1>5, <1>10, <2>1, <2>4, <3>1, <3>3, TouchShows
    <3>6. \/ hostprogs'[r].last_time = hostprogs[r].last_time /\ hostprogs'[r].interval = hostprogs[r].interval
          \/ hostprogs'[r].last_time = v.time /\ hostprogs'[r].interval = v.interval
      BY <1>5, <2>1, <3>3, TouchShows
    <3>7. hostprogs'[r].interval = Whole(Interval) /\ Whole(s) <= hostprogs'[r].last_time
      <4>1. Whole(s) <= Whole(m.sent)
        BY <1>4, <3>4, WholeIs
      <4> QED BY <1>1, <3>1, <3>2, <3>6, <4>1
    <3>8. Chain(U', s, lastSent'[h])
      BY <2>3, <3>2 DEF last
    <3> QED BY <1>0, <2>1, <2>5, <2>6, <3>4, <3>5, <3>7, <3>8 DEF ShownOf, U, r, g
  <2>7. CASE ~Heard(r, g)
    BY <2>2, <2>3, <2>5, <2>7 DEF ShownOf, U, r, g
  <2> QED BY <2>6, <2>7 DEF r, g
<1>11. CASE k = r /\ v.type_instance = g
  <2>1. /\ r \in DOMAIN hostprogs' /\ hostprogs'[r] = Touch(hp, v) /\ r \in DOMAIN latest'
        /\ latest'[r].sent \in Nat /\ m.sent <= latest'[r].sent /\ latest'[r].sent <= last
        /\ (r \in DOMAIN latest => latest[r].sent <= latest'[r].sent)
        /\ m.sent # last => x \notin lost[h] /\ latest'[r].sent <= m.sent
    BY <1>9, <1>11
  <2>2. g \in Gauges /\ latest'[r].count[g] = v.values[1] /\ v.values[1] \in Counts
    <3>1. g \in Gauges
      BY DEF g
    <3> QED BY <1>1, <1>3, <1>11, <3>1
  <2>3. Heard(r, g)'
    <3>1. v.values[1] \in Int
      BY <2>2, StatAssumption
    <3> QED BY <2>1, <2>2, <3>1, NameAssumption DEF Heard
  <2>4. hostprogs'[r].count[g] = v.values[1] /\ hostprogs'[r].last_time = v.time /\ hostprogs'[r].interval = v.interval
    BY <1>5, <1>11, <2>1, <2>2, TouchShows
  <2>5. Chain(U', m.sent, last)
    <3>1. CASE m.sent = last
      <4>1. \A u \in U' : ~(u > m.sent)
        BY <1>4, <1>7, <3>1
      <4> QED BY <3>1, <4>1 DEF Chain
    <3>2. CASE m.sent # last
      <4>1. ShownOf(r, g) /\ latest'[r].sent <= m.sent
        BY <2>1, <3>2 DEF ShownInv, r, g
      <4>2. m.sent <= last
        BY <1>4, <2>1
      <4>3. \E s \in Nat : s <= m.sent /\ Chain(U, s, last)
        <5>1. CASE Heard(r, g)
          <6>1. PICK s \in 0..latest[r].sent : Chain(U, s, last)
            BY <1>0, <4>1, <5>1 DEF ShownOf, U, last
          <6>2. latest[r].sent \in Nat /\ latest[r].sent <= latest'[r].sent
            BY <1>4, <2>1, <5>1 DEF Heard
          <6>3. s \in Nat /\ s <= m.sent
            BY <1>4, <2>1, <4>1, <6>2
          <6> QED BY <6>1, <6>3
        <5>2. CASE ~Heard(r, g)
          <6>1. last > 0
            BY <1>4, <4>2
          <6>2. PICK s \in U : (\A u \in U : s <= u) /\ Chain(U, s, last)
            BY <1>0, <4>1, <5>2, <6>1 DEF ShownOf, U, last
          <6>3. s \in Nat /\ s <= m.sent
            BY <1>4, <1>7, <1>11, <6>2
          <6> QED BY <6>2, <6>3
        <5> QED BY <5>1, <5>2
      <4> QED BY <1>4, <1>7, <4>2, <4>3, ChainMoves
    <3> QED BY <3>1, <3>2
  <2>6. m.sent \in 0..latest'[r].sent
    BY <1>4, <2>1
  <2>7. Whole(m.sent) <= hostprogs'[r].last_time
    <3>1. Whole(m.sent) \in Nat
      BY <1>4, WholeIs
    <3> QED BY <1>1, <2>4, <3>1
  <2>8. Chain(U', m.sent, lastSent'[h])
    BY <1>2, <2>5 DEF last
  <2> QED BY <1>0, <1>1, <2>1, <2>2, <2>3, <2>4, <2>6, <2>7, <2>8 DEF ShownOf, U, r, g
<1> QED BY <1>8, <1>10, <1>11

LEMMA ShownKeeps ==
  ASSUME ShownInTime
  PROVE  StatInv /\ PaceInv /\ PaceInv' /\ ShownInv /\ [StatNext]_statVars => ShownInv'
<1> SUFFICES ASSUME StatInv, PaceInv, PaceInv', ShownInv, [StatNext]_statVars PROVE ShownInv'
  OBVIOUS
<1>1. CASE UNCHANGED statVars \/ Tick
  <2>1. UNCHANGED <<metrics, lastSent, lost, network, hostprogs, latest>>
    BY <1>1 DEF Tick, statVars, sourceVars, tableVars
  <2>2. \A r, g : (Heard(r, g)' <=> Heard(r, g)) /\ UnderWay(r, g)' = UnderWay(r, g)
    BY <2>1 DEF Heard, UnderWay
  <2>3. \A r, g : ShownOf(r, g)' <=> ShownOf(r, g)
    BY <2>1, <2>2 DEF ShownOf
  <2> QED BY <2>1, <2>3 DEF ShownInv
<1>2. CASE ProcessHostprogs
  <2>1. UNCHANGED <<metrics, lost>>
    BY <1>2 DEF ProcessHostprogs
  <2> SUFFICES ASSUME NEW h \in Host, NEW x \in metrics, x[1] # "host", x[2] \in Gauges, x \notin lost[h]
               PROVE  ShownOf(<<h, x[1]>>, x[2])'
    BY <2>1 DEF ShownInv
  <2>2. ShownOf(<<h, x[1]>>, x[2])
    BY DEF ShownInv
  <2> QED BY <1>2, <2>2, SweepShows
<1>3. ASSUME NEW k \in Host, Report(k) PROVE ShownInv'
  <2>1. metrics' = metrics
    BY <1>3, ReportIs
  <2> QED BY <1>3, <2>1, ReportShows DEF ShownInv
<1>4. ASSUME NEW m \in network, Update(m) PROVE ShownInv'
  <2>1. metrics' = metrics
    BY <1>4, UpdateIs
  <2> QED BY <1>4, <2>1, ReceivedShows DEF ShownInv
<1> QED BY <1>1, <1>2, <1>3, <1>4 DEF StatNext

\* A count in the table is of a datagram that arrived and is no two intervals old, and every
\* metric that arrives in order is in the table (stat.py 93-190, 244-257).
THEOREM CountsRecent ==
  ASSUME SilentLate PROVE StatSpec => [](PaceInv /\ RecentInv)
<1>1. StatInit => RecentInv
  BY DEF StatInit, RecentInv
<1> QED BY <1>1, StatInvariant, PaceInit, PaceKeeps, RecentKeeps, PTL DEF StatSpec

THEOREM MetricsShown ==
  ASSUME ShownInTime PROVE StatSpec => [](PaceInv /\ ShownInv)
BY StatInvariant, PaceInit, PaceKeeps, ShownInit, ShownKeeps, PTL DEF StatSpec

\* What the sweep sums up.
LEMMA SummedIs ==
  ASSUME ~swept /\ swept', [StatNext]_statVars
  PROVE  \A g \in Gauges :
           stats'.count[g] = SumFunction([r \in {s \in DOMAIN hostprogs : hostprogs[s].count[g] # None} |->
                                            hostprogs[r].count[g]])
<1>1. ~(UNCHANGED statVars) /\ ~Tick
  BY DEF statVars, Tick
<1>2. ASSUME NEW h \in Host, Report(h) PROVE FALSE
  BY <1>2 DEF Report
<1>3. ASSUME NEW m \in network, Update(m) PROVE FALSE
  BY <1>3 DEF Update
<1>4. ProcessHostprogs
  BY <1>1, <1>2, <1>3 DEF StatNext
<1> QED BY <1>4, Zenon DEF ProcessHostprogs, HostStats

\* The sums do not outlive what they are of by more than two intervals and one sweep
\* (stat.py 244-257), if no datagram does.
THEOREM SumsForgetHolds == ASSUME SilentLate PROVE StatSpec => SumsForget
<1>1. StatInv /\ PaceInv /\ RecentInv /\ [StatNext]_statVars =>
        (~swept /\ swept' =>
           \A g \in Gauges :
             stats'.count[g] <=
               SumFunction([r \in {s \in Programs : latest[s].count[g] # None /\ latest[s].sent + 2 * Interval + 1 >= now}
                            |-> latest[r].count[g]]))
  <2> SUFFICES ASSUME StatInv, PaceInv, RecentInv, [StatNext]_statVars, ~swept, swept', NEW g \in Gauges
               PROVE  stats'.count[g] <=
                        SumFunction([r \in {s \in Programs : latest[s].count[g] # None /\ latest[s].sent + 2 * Interval + 1 >= now}
                                     |-> latest[r].count[g]])
    OBVIOUS
  <2> DEFINE A == {s \in DOMAIN hostprogs : hostprogs[s].count[g] # None}
             B == {s \in Programs : latest[s].count[g] # None /\ latest[s].sent + 2 * Interval + 1 >= now}
             a == [r \in A |-> hostprogs[r].count[g]]
             b == [r \in B |-> latest[r].count[g]]
  <2>1. stats'.count[g] = SumFunction(a)
    BY SummedIs
  <2>2. IsFiniteSet(A) /\ IsFiniteSet(B)
    BY FS_Subset DEF PaceInv, Programs
  <2>3. \A n \in Counts \cup {0} : n \in Nat
    BY StatAssumption
  <2>4. a \in [A -> Nat]
    <3>1. \A r \in A : hostprogs[r].count[g] \in Counts \cup {0}
      BY DEF StatInv, TableInv, RowOK
    <3> QED BY <2>3, <3>1
  <2>5. b \in [B -> Nat]
    <3>1. \A r \in B : latest[r].count[g] \in Counts
      BY DEF PaceInv, Programs
    <3> QED BY <2>3, <3>1
  <2>6. ASSUME NEW r \in A PROVE a[r] = 0 \/ (r \in B /\ a[r] <= b[r])
    <3>1. /\ hostprogs[r].count[g] \in {None, 0} \/
               (hostprogs[r].count[g] = latest[r].count[g] /\ latest[r].sent + 2 * Interval + 1 >= now)
          /\ r \in DOMAIN hostprogs /\ hostprogs[r].count[g] # None /\ r \in Programs
      BY DEF RecentInv, PaceInv, StatInv, TableInv, Programs
    <3>2. CASE hostprogs[r].count[g] = 0
      BY <3>2
    <3>3. CASE hostprogs[r].count[g] # 0
      <4>1. r \in B /\ a[r] = b[r]
        BY <3>1, <3>3
      <4>2. a[r] \in Nat
        BY <2>4
      <4> HIDE DEF a, b
      <4> QED BY <4>1, <4>2
    <3> QED BY <3>2, <3>3
  <2>7. DOMAIN a = A /\ DOMAIN b = B
    OBVIOUS
  <2> HIDE DEF a, b, A, B
  <2>8. SumFunction(a) <= SumFunction(b)
    BY <2>2, <2>4, <2>5, <2>6, <2>7, SumGrows
  <2> QED BY <2>1, <2>8 DEF a, b, A, B
<1> QED BY <1>1, StatInvariant, CountsRecent, PTL DEF StatSpec, SumsForget

\* The sums take in all that arrives in order (stat.py 244-257), if the next report arrives
\* before the last is two intervals old.
THEOREM ReportingShownHolds == ASSUME ShownInTime PROVE StatSpec => ReportingShown
<1>1. StatInv /\ PaceInv /\ ShownInv /\ [StatNext]_statVars =>
        (~swept /\ swept' =>
           \A g \in Gauges :
             stats'.count[g] >=
               SumFunction([r \in {s \in Programs : latest[s].count[g] # None /\ lost[s[1]] \cap Reports(s) = {}}
                            |-> latest[r].count[g]]))
  <2> SUFFICES ASSUME StatInv, PaceInv, ShownInv, [StatNext]_statVars, ~swept, swept', NEW g \in Gauges
               PROVE  stats'.count[g] >=
                        SumFunction([r \in {s \in Programs : latest[s].count[g] # None /\ lost[s[1]] \cap Reports(s) = {}}
                                     |-> latest[r].count[g]])
    OBVIOUS
  <2> DEFINE A == {s \in DOMAIN hostprogs : hostprogs[s].count[g] # None}
             B == {s \in Programs : latest[s].count[g] # None /\ lost[s[1]] \cap Reports(s) = {}}
             a == [r \in A |-> hostprogs[r].count[g]]
             b == [r \in B |-> latest[r].count[g]]
  <2>1. stats'.count[g] = SumFunction(a)
    BY SummedIs
  <2>2. IsFiniteSet(A) /\ IsFiniteSet(B)
    BY FS_Subset DEF PaceInv, Programs
  <2>3. \A n \in Counts \cup {0} : n \in Nat
    BY StatAssumption
  <2>4. a \in [A -> Nat]
    <3>1. \A r \in A : hostprogs[r].count[g] \in Counts \cup {0}
      BY DEF StatInv, TableInv, RowOK
    <3> QED BY <2>3, <3>1
  <2>5. b \in [B -> Nat]
    <3>1. \A r \in B : latest[r].count[g] \in Counts
      BY DEF PaceInv, Programs
    <3> QED BY <2>3, <3>1
  <2>6. ASSUME NEW r \in B PROVE r \in A /\ b[r] <= a[r]
    <3> DEFINE x == <<r[2], g>>
    <3>1. /\ r \in DOMAIN latest /\ r[2] # "host" /\ latest[r].count[g] # None /\ lost[r[1]] \cap Reports(r) = {}
          /\ r[1] \in Host /\ r = <<r[1], r[2]>> /\ x \in metrics
      BY DEF Programs, PaceInv
    <3>2. x[1] = r[2] /\ x[2] = g
      OBVIOUS
    <3>3. x \in Reports(r)
      BY <3>1, <3>2 DEF Reports
    <3>4. x \notin lost[r[1]]
      BY <3>1, <3>3
    <3> HIDE DEF x
    <3>5. ShownOf(<<r[1], x[1]>>, x[2])
      BY <3>1, <3>2, <3>4 DEF ShownInv
    <3>6. ShownOf(r, g) /\ Heard(r, g)
      BY <3>1, <3>2, <3>5 DEF Heard
    <3>7. r \in DOMAIN hostprogs /\ hostprogs[r].count[g] = latest[r].count[g]
      BY <3>6 DEF ShownOf
    <3>8. r \in A /\ a[r] = b[r]
      BY <3>1, <3>7
    <3>9. b[r] \in Nat
      BY <2>5
    <3> HIDE DEF a, b
    <3> QED BY <3>8, <3>9
  <2>7. DOMAIN a = A /\ DOMAIN b = B
    OBVIOUS
  <2> HIDE DEF a, b, A, B
  <2>8. SumFunction(b) <= SumFunction(a)
    BY <2>2, <2>4, <2>5, <2>6, <2>7, SumGrows
  <2>9. SumFunction(a) \in Nat /\ SumFunction(b) \in Nat
    BY <2>2, <2>4, <2>5, <2>7, SumIsNat
  <2>10. SumFunction(a) >= SumFunction(b)
    BY <2>8, <2>9
  <2> QED BY <2>1, <2>10 DEF a, b, A, B
<1> QED BY <1>1, StatInvariant, MetricsShown, PTL DEF StatSpec, ReportingShown
=============================================================================
